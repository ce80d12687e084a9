# NMJFilter: a verification project

This directory holds TLA+ models of *NMJFilter*, an Android firewall made of a
patched Linux 4.4 network core and an Android app, with the TLC runs that check
them on small instances and the theorems about them that TLAPS proves for every
instance. The models are translated from the code; where a comment or a sample
log says something else than the code does, the code is the reference and the
difference is a finding.

## 1. The system

| part | source | state it keeps | operations |
|---|---|---|---|
| Rule table | `src/nmjfilter.c`, `src/nmjfilter.h` | `my_rules` (linked list of rule texts, `length`), the global `drop` | `receive_msg` (netlink callback: `check_rule`, `rule_push`, multicast of `add <rule>`), `need_drop` (`str_split`, `rules_for_each`) |
| Packet hooks | `src/nmjfilter.c`, `src/dev.c` 4473-4489, `src/af_inet.c` 747-766 | nothing between packets | `print_skb_info` under `napi_gro_receive`, `print_sock_info` under `inet_sendmsg`; each multicasts a report with the verdict |
| Netlink client | `src/NMJFilter/app/src/main/jni/nmjfilter.cpp` | the global socket `sk` | `stringFromJNI` (connect, join the group), `recvData`/`cb`, `sendBlock` |
| Service | `MyService.java`, `NativeCallListener.java` | receiver thread, one thread per re-sent rule | `onCreate`, `onStartCommand`, `onNativeRcvCall`, `skbInsert`, `onDestroy` |
| Database | `AppDatabase.java`, `RulesDao.java`, `SkbDao.java`, `Rules.java`, `SkbInfo.java` | tables `Rules` and `SkbInfo` | insert, list, `isInTable`, delete, `nukeTable` |
| Activities and lists | `MainActivity*.java`, adapters, view model | what is on screen | start the service, click a packet to allow its flow, clear the packet list |
| Per-CPU backlogs, flow steering | `src/dev.c` | `softnet_data` of each CPU: `input_pkt_queue`, `process_queue`, `poll_list`, `rps_ipi_list`, `NAPI_STATE_SCHED`; the flow tables of RPS | `netif_rx`, `enqueue_to_backlog`, `get_rps_cpu`, `net_rx_action`, `process_backlog`, `net_rps_send_ipi`, `dev_cpu_callback`, `flush_backlog` |
| Device NAPI and GRO | `src/dev.c`, `src/af_inet.c` 1281-1479 | `napi_struct`: state bits, `poll_list` link, `gro_list`, timer | `__napi_schedule`, `napi_poll`, `napi_complete_done`, `napi_watchdog`, `napi_disable`, `dev_gro_receive`, `napi_gro_flush`, `inet_gro_receive` |
| Receive path | `src/dev.c` | `ptype_all`, `ptype_base`, `rx_handler` | `dev_add_pack`, `dev_remove_pack`, `netdev_rx_handler_register`, `__netif_receive_skb_core`, `dev_queue_xmit_nit` |
| Transmit path | `src/dev.c` | a qdisc with its `RUNNING` and `SCHED` bits, `output_queue`, `completion_queue`, `xmit_recursion` | `__dev_queue_xmit`, `__dev_xmit_skb`, `net_tx_action`, `netif_wake_subqueue`, `netif_device_attach`, `dev_deactivate` |
| Stacked devices | `src/dev.c` | `adj_list` and `all_adj_list` of each device, with counts | `__netdev_upper_dev_link`, `netdev_upper_dev_unlink` |
| Life of a device, notifiers | `src/dev.c` | device lists, `reg_state`, `pcpu_refcnt`, `net_todo_list`, `netdev_chain` | `register_netdevice`, `unregister_netdevice`, `netdev_run_todo`, `dev_open`, `dev_close`, `dev_change_net_namespace`, `(un)register_netdevice_notifier`, look-ups under RCU |
| Names and indices | `src/dev.c` | `dev->name`, the hash of names, `ifindex`, names in sysfs | `__dev_alloc_name`, `dev_change_name` with its roll back, `dev_new_index`, `netdev_get_name` |
| End of namespaces | `src/dev.c` | `dev_base_head` of each namespace, `dev_unreg_count`, `netdev_unregistering_wq` | `default_device_exit`, `rtnl_lock_unregistering`, `default_device_exit_batch`, `netdev_run_todo` |
| Time stamps | `src/dev.c` | `netstamp_wanted`, `netstamp_needed_deferred`, the key `netstamp_needed` | `net_enable_timestamp`, `net_disable_timestamp`, `netstamp_clear` |
| Flags and feature bits | `src/dev.c` | `flags`, `gflags`, `promiscuity`, `allmulti`; `features`, `wanted_features` | `__dev_change_flags`, `dev_set_promiscuity`, `__dev_set_rx_mode`; `__netdev_update_features`, `dev_disable_lro` |
| Transmit queues and XPS | `src/dev.c` | `real_num_tx_queues`, `xps_maps`, `tc_to_txq` | `netif_set_real_num_tx_queues`, `netif_set_xps_queue`, `netdev_pick_tx` |
| IPv4 sockets | `src/af_inet.c` | `sock->state` beside `sk->sk_state`, the port | create, bind, autobind, connect, listen, shutdown, release |
| IPv4 protocols | `src/af_inet.c` | `inetsw`; what `inet_init` has set up | `inet_register_protosw`, `inet_create`'s look-up, `inet_init`, `ipv4_mib_init_net` |

How they interact:

- the hooks call `need_drop` in softirq context on any CPU and in any sending
  task; `receive_msg` runs in the task that sends the netlink message, one call
  at a time (generic netlink's mutex). Nothing synchronises the two sides;
- reports and `add` messages are multicast to the `NMJgroup` sockets, which are
  bounded and lossy;
- the app reads its socket in a receiver thread, while every thread that sends a
  rule waits for its acknowledgement *on the same socket*;
- the service re-sends the rules of the database when it is created: the kernel
  table is empty after a boot, the database is not;
- a click on a packet row makes the rule `saddr,daddr` of the row and sends it;
  the row is written into the database only when the kernel's `add` comes back.

- every packet that `netif_rx` or RPS hands to another CPU goes through that
  CPU's backlog: whoever finds the queue empty must see to it that the CPU runs,
  by its own softirq or by an IPI, and CPUs and devices disappear meanwhile;
- a NAPI context and a qdisc have one list link each and many who schedule them:
  interrupts, softirqs, netpoll, timers, tasks that attach or disable, and the CPU
  that inherits the queues of one that went off;
- devices are listed, linked, renamed and removed under one mutex (RTNL), but
  looked up under RCU without it, so that a device outlives its unregistration
  by as long as somebody holds a reference;
- the protocols follow the devices through a notifier chain they join and leave
  at any time;
- TCP changes a socket's `sk_state` under threads that wait in `connect` without
  the socket's lock.

What makes each part correct: a packet passes exactly if its rule is listed, and
is reported as it was treated (table, hooks); the kernel allows what the user
asked for and nothing else, and again after a reboot (service, texts); a queued
packet is served once, in order, and never waits for nobody (backlogs, NAPI,
transmit); what is merged can be cut up again (GRO); the counts of stacked devices
agree with the links (adjacency); nobody is left with a freed device or with a
stale picture of the devices (life of a device); places that say the same thing
agree: name, hash and sysfs, flags and counters, the two states of a socket.

What is hard here, each with its line and the properties aimed at it, is the list
`hazards` of `PROJECT.json`.

## 2. Modules

| module | models | builds on |
|---|---|---|
| `AllowList` | what `rules_for_each` promises: one atomic answer | |
| `RuleTable` | the rule list, `receive_msg` store by store, `need_drop` step by step | implements `AllowList` |
| `PacketFilter` | both hooks, the addresses of sockets, the reports | extends `RuleTable` |
| `RuleStrings` | the texts: formats, `str_split`, `check_rule`, `skbInsert`, `onSkbClick` | |
| `FilterService` | service, native client, netlink sockets, database, reboots | the table is a set here |
| `BacklogQueue` | what a backlog promises a packet | |
| `Backlog` | the per-CPU backlogs, RPS, CPU hotplug, a device that goes | implements `BacklogQueue` |
| `RpsFlow` | the flow table of RPS, which keeps a flow in order | |
| `Napi` | one NAPI context with all who schedule, poll and disable it | |
| `Gro` | what is held for merging, merged, flushed | |
| `ReceivePath` | packet types and taps on both ways, receive handlers, `pt_prev` | |
| `Transmit` | one qdisc with all who run, schedule and take it away | |
| `XmitStack` | sending through stacked devices on one kernel stack | |
| `Adjacency` | the links between devices with their counts | |
| `NetDevice` | registration, references, notifiers, look-ups | extends `Adjacency` |
| `DeviceNames` | names, indices, hash, sysfs | |
| `NetExit` | the end of namespaces against unregistrations under way | |
| `RxMode` | `IFF_UP`, promiscuity, allmulti | |
| `Features` | feature bits of stacked devices | |
| `Timestamps` | who wants packets stamped, and the key that says so | |
| `TxQueues` | number of queues, traffic classes, XPS | |
| `InetSocket` | one IPv4 socket and several threads | |
| `ProtoSwitch`, `StartUp` | the protocol switch; the steps of `inet_init` and what they take back | |
| `Parts` | fourteen parts whose state is their own, in one specification | extends `InetSocket`, instantiates thirteen more |
| `SeqOps` | operators on sequences and sets the parts use, selections as folds, which the prover can reason about; `Parts` has thirteen instances, and with the library in each a proof obligation would carry a dozen copies of it | |
| `PacketFilterProofs` (with the table), `FilterServiceProofs`, `NapiProofs`, `TransmitProofs`, `BacklogProofs`, `NetDeviceProofs` (with the links), `PartsProofs`, `MorePartsProofs` | theorems | extend the module they are about; `PartsProofs` and `MorePartsProofs` both extend `Parts` |
| `MC...` | values of the constants for TLC | extend the module they instantiate |

An operator whose comment begins with "Mutant:" is no part of a specification: it
is a plausible mistake in the code, put in place of the definition that follows
it to see that the properties notice.

### RuleTable

A rule text is one value; `check_rule` is membership in `Admissible`, `strcmp` is
equality. `list` holds the items whose append is complete; the append under way
is `adding` with the set `visible` of the stores (`data`, `next`, `link`) that
other CPUs can already see; `Chain` is what a walk can reach. `pc[c]` runs
through `need_drop`: `load` (read the cursor's next), `compare` (`strcmp`),
`store` (`drop = ...`), `test` (`drop == 0`), `done`. A walk that follows a field
that is not visible yet goes `wild`: what the code does then is undefined, and
the walk stops there. Three switches stand for the builds and machines the code
may run on: `OrderedStores` (stores are seen in program order, or in any),
`ReloadDrop` (the compiler reads the global `drop` again after storing it, or
keeps it in a register), `AllocMayFail` (`kmalloc` in `rule_push` may fail).
`rule_pop`, `rules_exit` and `rule_free` have no action: nothing calls them.

### PacketFilter

`GroReceive` and `Sendmsg` are `napi_gro_receive` and `inet_sendmsg` up to the
call of `need_drop`, whose steps are RuleTable's; `Checked`, `Report`,
`FinishReceive` and `FinishSend` are what the hooks and their callers do with the
verdict. `stage[c]` says where a context is. `Connect` and `Shutdown` change a socket's
peer between the check and the send, because `print_sock_info` reads `inet_daddr`
without the socket's lock; a stream, too, may be disconnected and connected to somebody
else. `found` remembers the peer the check has seen, `left` the sends whose socket has
left a peer since: what those send may go where no rule allows it. A frame that is neither TCP, UDP, ICMP nor ARP makes
`print_skb_info` look up bytes nobody has written: any text. A report is
multicast with the verdict, or lost.

### RuleStrings

A text is a sequence of tokens: separators, numbers, words. `Format` and `Report`
are the kernel's `sprintf`s, `StrSplit` and `CheckRule` its parsing, `Split`,
`Row` and `RuleOf` the app's. `Pass` sends one packet through all of them,
`Click` makes a rule of its row. A device name may hold dots (a VLAN) and commas,
since `dev_valid_name` forbids neither.

### FilterService

One socket per creation of the service (`sockets`, `queue`), the global `sk`, the
threads `at`, `on`, `holds`; `rows` counts the rows of a rule, which has no
unique key. `SendRule` is `sendBlock` up to the wait for the acknowledgement,
with all the kernel does in `nl_send` (push, multicast, acknowledge); `Receive`
is one datagram read by whichever thread gets it, the receiver or a sender
waiting for its acknowledgement; `CheckRow` and `InsertRow` are the two halves of
`onNativeRcvCall`'s test-then-insert. `Kill`, `Destroy`, `StickyRestart` and
`Reboot` are the system's. `OnStartCommand` on the null intent of a sticky
restart ends the process, as the code dereferences it.

### Backlog

One variable per field of `softnet_data` and the program counters of
`net_rx_action`, `net_rps_send_ipi` (`sending`, `resetting`) and
`dev_cpu_callback` (`stage`). An action is what runs with interrupts off or under
a queue's lock; between two of them other CPUs run. `NetifRx` enqueues, `SendIpi`
splits the `cpu_online` test from the reset of the bit in `ResetRemote`, `CpuDown`
to `DeadDone` are a CPU's removal, `CloseDevice` to `FreeDevice` that of a device.
`net_rx_action`'s list holds the backlog only (device contexts are in `Napi`);
which CPU `get_rps_cpu` picks is free among those on (its flow table is in
`RpsFlow`). `CpuDown` waits for the CPU's softirq to end, as
`stop_machine` does.

### Adjacency

`upper[d]` is `adj_list.upper`, `ref[<<d, u>>]` the `ref_nr` of `u` in
`all_adj_list.upper` of `d`, equal to that of `d` in `all_adj_list.lower` of `u`
(both lists are always changed by the same calls). `Pairs(dev, up)` are the entries a link changes,
`Amount` by how much, `Rank` in which order; `UpperDevLinkFails` stops at any
pair of that order and takes back what was done. `bug` is the `BUG()` of
`__netdev_adjacent_dev_remove`. `skewed` remembers that a mesh was counted by
less than the number of its paths (finding 3).

### NetDevice

RTNL is `rtnl`. What happens under it is split where a look-up, which runs
without it, makes a difference: `RegisterNetdevice` up to `list_netdevice`, then
the notifiers' answers; `Rollback`, `NotifyUnregister`, `Detach`, `RollbackDone`
between the two `synchronize_net` of `rollback_registered_many`; `RunTodo`,
`RefcntRead`, `WaitAgain`, `FreeNetdev` are `netdev_run_todo` without RTNL.
`pcpu` are the per-CPU counters of references that look-ups and the registration
hold: `Hold` counts on one CPU, `Put` may count on another, `RefcntRead` sums one
CPU at a time. References of notifiers and of links are not counted but seen
directly (`Detached`): they are taken and put under RTNL. `Find` is a look-up in
an RCU read section; `grace` are the sections a `synchronize_net` waits for.

### Napi

The three state bits, the place of the one list link (`link`: `poll_list` of a CPU,
or the `repoll` list `net_rx_action` keeps on its stack), the softirq of each CPU
between `napi_poll`'s `list_del_init` and the end (`pc`), `lock` for `poll_lock`,
netpoll, the task in `napi_disable`, the timer and the ages of what GRO holds.
`NapiSchedule` is `napi_schedule`, called by `Interrupt` and `NapiWatchdog`;
`CompleteDone` (with `SettleHeld`) and `CompleteClear` are `napi_complete_done`, split
where the timer is running and the bit still set; `PollFull` is a poll that used its
weight up, which `napi_disable_pending` turns into a completion. `DevCpuDead` hands the list of a CPU
that is off to another one. `stalled` remembers a watchdog that fired before the bit
was cleared, or was cancelled: then held packets wait for the next packet.

### Gro

`ReceiveFirst`, `ReceiveMerged`, `ReceiveFlushing` and the others are the outcomes of
`dev_gro_receive` for one packet, each a step, as all runs in one softirq. A held packet is
the sequence of IP ids and arrival numbers merged into it; the ids have `Ids` values
in place of 2^16.

### ReceivePath, RpsFlow

`at` is where `__netif_receive_skb_core` is; `ptPrev` is the type met last, which
gets the packet when the next one is met. `dev_remove_pack` waits for the readers
(`writer`, `waits`), then the type is freed; the handler is unset before its data,
and the data go after a grace period, which `Deref` and `Handler`, the two reads, rely on.
On the way out (`XmitOne`, `Nit`) the same `pt_prev` goes from the list of all devices
to the list of the one, past the `sender`'s own type.
`Offer` is `deliver_skb` to one packet type after the other: `skb_orphan_frags` may fail
for each as long as the fragments are a user's (`userFrags`); those it fails for are
`denied`, and as the callers of `deliver_skb` do not look at its answer the walk goes on.
For the last type the packet is dropped (`LastOne`).
`RpsFlow` has one entry of a flow table (`rflowCpu`, `lastQtail`) with the counters
`queueHead` and `queueTail` of the backlogs, modulo `Width`. The receivers that share the
entry (`Receiver`, one of them `dev_cpu_callback`) are each between `get_rps_cpu` and
`enqueue_to_backlog` with a packet in `steered[r]`; `loose` remembers that `flush_backlog` moved
the head for a packet from behind one of the flow, or that a receiver moved the entry while
another one's packet was steered and not yet queued.

### Transmit, XmitStack

`running`, `sched` and `xoff` are the three bits that say who looks at the qdisc
next. `DevXmitSkb` is `__dev_xmit_skb` under the root lock with its three outcomes (bypass,
queued, dropped), `DevHardStartXmit` and `XmitDone` the driver's part, `QdiscRun` one turn of
`__qdisc_run`; `NetTxAction`, `TxLocked`, `TxBusy` are the softirq, `TxInterrupt` the driver's
completion with `netif_wake_subqueue`, `Deactivate` and `Deactivated` the two halves of
`dev_deactivate`. `sch_generic.c` is not in the repository: its functions are
modelled as `dev.c` uses them and marked external. `XmitStack` has the frames of
nested `__dev_queue_xmit` calls on one CPU.

### Device attributes

`DeviceNames`: the operations under RTNL are split where `netdev_get_name`, which
holds only `devnet_rename_sem`, could see a half-done change. `Register` takes a device
with an index of its own (`Preset`), refused when it is taken, or without one; `ndo_init`,
`NETDEV_POST_INIT` and `netdev_register_kobject` may refuse it, too. That one task at a
time registers rests on `ASSERT_RTNL` (`src/dev.c:6797`); the comment above the function
(6787-6789) calls the locking insufficient for two parallel registers to get different
names, which cannot happen to callers that hold what the assertion demands. `lost` are the
devices that a failure has left wrong, each with its cause: a roll back to a format, a
move with a new name (the links under the old one stay), a directory that cannot be
renamed, a link that a lost device's link keeps from being made, or one that was removed in
the name of a lost device (`Robbed`). `AllPlacesAgree` is about every other device, whatever
happened to those. `torn` remembers that a move wrote the name `netdev_get_name` was copying.
`TxQueues`: the same for `netif_set_real_num_tx_queues`, which waits for the
senders, and the queue a sender has picked but not used. A packet with `accel_priv`
(`accel`, from `dev_queue_xmit_accel`) is spared `netdev_cap_txqueue`, so that it may go
behind the last queue; the property is about the others, and `waiting` leaves its packets out. `RxMode` and `Features` are
under RTNL throughout; a step of `RxMode` is one operation, a step of `Features` one
call in the recursion over lower devices.

`NetExit`: `pc` says where the worker in `cleanup_net` and a task with devices of its own
on the todo list are; what is done under RTNL is one step, and `Final`, `AllRefsGone`,
`Report`, `WakeUp`, `Put` are the stations of `netdev_run_todo` between which it is
given up. `refs` counts references, which on `NETDEV_UNREGISTER_FINAL` turn to the
loopback device of the namespace; `woken` is the flag that keeps `wait_woken` from
sleeping past a report. `Timestamps`: a caller that has left the loop around
`atomic_cmpxchg` is `enabling` or `disabling`, and `enabled` or `disabled` until it has
scheduled the work, whose three statements are `Take`, `AddTaken`, `SetKey`. The model shows
that `netstamp_wanted` can be below zero between two runs of the work, which the
test `wanted <= 0` takes care of.

### IPv4

`InetSocket`: what is done under `lock_sock` is one step; `connect` gives the lock up
while it waits, `inet_autobind` is called after a test without it, and so is the protocol's
connect of a datagram socket (`NeedsPort`, `Autobind`, `DgramConnect`). `TCP_SYN_RECV` is
the state of SYNs that have crossed (`SynsCross`); `inet_shutdown` of such a socket makes it
`SS_DISCONNECTING` and leaves the rest to TCP, which sends a FIN and may make the connection
all the same. `StatesAgree` says what goes with `disconnecting` then.
`relisten` remembers that `inet_listen` found `sk_state` in `TCP_LISTEN` of another
thread's making, where `__inet_stream_connect` takes it for a connection
(`src/af_inet.c:651`); `up`, that the connection has been `TCP_ESTABLISHED`, which one that was
shut down in `SYN_RECV` never is. `ProtoSwitch` has the lists of `inetsw` and the two rounds of `request_module`;
`StartUp` the goto chains of three functions, label by label.

## 3. Runs

| run | configuration | properties | states |
|---|---|---|---|
| `table` | `RuleTable.cfg`: 2 contexts, 2 rules and an inadmissible text, weak stores, `drop` read again, `kmalloc` may fail | `EmptyTableDeniesAll`, `AnswersAtomically` | 689,117 |
| `hooks` | `PacketFilter_hooks.cfg`: a softirq and a task, a stream socket, 2 peers (alike: symmetry), 1 rule, ordered stores | `NoWildRead`, `AnnouncedIsEnforced`, `HooksAreSound`, `SendsAreChecked` | 2,339,196 |
| `service_race` | `FilterService_race.cfg`: 1 rule, 2 sockets and receivers, 1 sender at a time, queues of 2 | `RowsBoundedByThreads`, `AddsAreRecorded`, `NothingUnasked` | 2,941,748 |
| `service_live` | `FilterService_live.cfg`: 1 socket, 1 receiver, fair threads | `RulesRestored` | 9,344 |
| `backlog` | `Backlog.cfg`: 2 CPUs, 3 packets, limit 1, quota 1 or 2, one removal of a CPU | `SchedHasOneOwner`, `QueueIsScheduled`, `GoneDeviceLeavesNothing`, `ImplementsQueue`, `QueuesDrain` | 361,101 |
| `backlog_owner` | `Backlog_owner.cfg`: the same | `OnlyOwnerClears`, violated | |
| `napi` | `Napi.cfg`: 2 CPUs, a ring of 2, weight 2 | `OneOwner`, `HeldIsWatched`, `DisabledIsQuiet`, `DisableReturns` | 62,763 |
| `transmit` | `Transmit.cfg`: 2 CPUs, 4 packets of which the first goes out in two segments, qdisc and ring of 2, one detach, one CPU off | `ListedOnce`, `QueueIsRun`, `SentInOrder`, `QueueDrains`, `DeactivateReturns` | 70,984 |
| `devices` | `NetDevice.cfg`: 4 devices, one of which comes and goes, 1 notifier, 1 reader, 2 CPUs | `RefsCountPaths`, `FreedOnlyWhenUnreferenced`, `NotifierViewIsCurrent`, `FailedLinkLeavesNoTrace`, `UnregisterCompletes` | 285,790 |
| `devices_veto` | `NetDevice_veto.cfg`: 2 devices | `NeverFreedReferenced`, violated | |
| `devices_mesh` | `Adjacency_mesh.cfg`: 5 devices | `EntryIsThere`, violated | |
| `parts` | `Parts.cfg`: see below | `TextsAgree`, `ReceiveIsSound`, `NamesAreSound`, `QueuesAreSound`, `FlagsAreRight`, `MergeIsSound`, `StackIsSound`, `ProtocolsAreSound`, `StatesAgree`, `PortStays`, `ConnectTellsTruth` | 1,228,380 |

The type invariants are conjuncts of other invariants (`OneOwner`, `ListedOnce`,
`RefsCountPaths` and so on), or are proved.

What the runs show, and why the bounds are enough:

- **table**. Two contexts suffice for one to overwrite the other's `drop`; two
  rules for a walk to be on the first item while the second is half linked. This
  is the most permissive build: the answers of walks that are not wild are atomic
  even when stores are seen in any order.
- **hooks** is the x86 build with an optimising compiler, the one in which the
  code keeps its promises: there no half-built item is read, and what passes is
  listed. One rule is enough for a flow that is listed and one that is not; two
  peers for a socket to be checked for one and connected to another: what is sent was
  checked against a listed peer and goes there, unless the socket was taken away from it.
- **service**. The second receiver is the one of a service that was destroyed and
  created again in the same process: the old thread and socket stay. With two
  receivers and a sender the test-then-insert races; queues of two overflow.
- **backlog**. Two CPUs have all four relations (self, other, going, coming); a
  limit of one makes refusals, quota 1 makes a backlog go round the poll list, and
  three packets let one arrive while one is in hand and one waits.
- **napi**. A poll of weight 2 from a ring of 2 is empty, short or full; two CPUs
  let the interrupt, the watchdog, netpoll's lock and the poll be apart, and one
  of them go off with the context on its list.
- **transmit**. The first packet's second segment is what a runner can be unable
  to send; two packets wait behind it and a fourth finds the qdisc full or empty.
- **devices**. Four devices are the largest graph in which all counts are right
  (the fifth needs finding 3); they hold diamonds, a second master, attempts at loops
  of length one to four. Two CPUs split a hold from its put.
- **parts**. Each behaviour is of one of fourteen parts (`topic`), the state of the
  others stays: the sum of the state spaces, not their product.

| part of `parts` | bounds | why they are enough |
|---|---|---|
| `InetSocket` | 3 threads, 2 ports | one waits in connect, one tears down, one connects anew; a bind and an autobind differ in their port |
| `RuleStrings` | 2 addresses, 2 ports, 3 device names, 2 rules | exhaustive over packets; each name hits another case of the string handling |
| `ReceivePath` | 4 packet types, 5 changes | a tap for all, one for the lower device, a protocol and one bound to the upper device; each comes or goes in a walk, by a packet that comes in, copied at once, later or never, or goes out |
| `RpsFlow` | 2 CPUs, counters modulo 4, backlog limit 0, 2 receivers, one of them `dev_cpu_callback` | the counters wrap twice over; a limit of 0 still queues one; one receiver moves the entry while the other is about to queue |
| `DeviceNames` | 2 devices, 2 namespaces, 1 digit, indices 0 (none) and 2 preset, 5 operations | a clash, a preset index that is taken, a rename that is rolled back and a move there and back; the third device that another's link is removed of is left to the proof |
| `NetExit` | 2 namespaces that end, one that stays, a pair across, a task and the worker | a device on its way out by a task, one that moves home, one that goes with its peer |
| `Timestamps` | 3 callers | two decrements applied before the increment of a third |
| `TxQueues` | 3 queues, 2 classes, 2 CPUs, 2 changes, packets with and without `accel_priv` | one reduction that leaves two queues or one, with maps to queues behind |
| `RxMode` | counters modulo 4, 4 holders | the counter reaches its roof and is pulled back |
| `Features` | bridge over bond over device, 3 changed bits, 4 operations | turning off reaches two devices down, a link and an unlink between |
| `Gro` | 3 flows, 3 ids, 2 held, 3 packets | the third flow expels the first; ids wrap |
| `XmitStack` | 2 tunnels in a circle, a bridge, a device; limit 2 | a circle without locks and a tail |
| `ProtoSwitch` | 8 entries, 2 registrations | permanent, wild card, newer and refused |
| `StartUp` | every step of three chains fails | exhaustive |

`CHECK_DEADLOCK FALSE` is given where a system may stop: in `table` when the table
has reached its bound or a walk ran wild; in `backlog`, `backlog_owner` and
`transmit` when all packets have arrived and are gone; in `parts` when a part has
used its bounded operations.

### Fairness

- `FilterService`: threads that can run do, and the main thread executes
  `onCreate` and `onStartCommand`. Nothing obliges user, network or system.
- `Backlog`: pending softirqs run, IPIs that were sent arrive, `dev_cpu_callback`
  goes on. Packets, hotplug and the device are free.
- `Napi`: pending softirqs run, netpoll gets on once it polls, and the task in
  `napi_disable` looks at the bits every millisecond (weak fairness). Two things are
  strong: a softirq that spins for `poll_lock`, which netpoll may take again and again
  (spinlocks queue), and the task's `test_and_set_bit` of `NPSVC`, which netpoll sets and
  clears again and again (the task sleeps a millisecond between tries and netpoll's hold
  is shorter than that, so it is not always met with the bit set; the code has no
  stronger guarantee). Packets and netpoll's wish to poll are free.
- `Transmit`: a CPU in the send path or with a pending softirq goes on, the driver
  frees what is in its ring, a detached device is attached again, and the task in
  `dev_deactivate` looks again. Senders are free.
- `NetDevice`: a thread that has begun goes on; RTNL is granted to one who waits
  for it, although others take it again and again (strong fairness of `RunTodo`:
  the mutex queues its waiters); RCU read sections end; references are put back,
  as the comment at `src/dev.c:7003-7014` demands of their holders.

The other modules state safety only.

## 4. Findings

Each is a run that TLC must find violated; `PROJECT.json` quotes the lines.

1. `backlog_owner`: `net_rps_send_ipi` clears the bit of a CPU it has seen off
   some instructions before. If the CPU came on in between and a packet relies on the
   bit, its backlog is not served any more.
2. `devices_veto`: a device whose registration is vetoed has been findable since
   `list_netdevice`; it is freed without the wait that `unregister_netdevice`
   makes for those who hold it.
3. `devices_mesh`: linking a device whose lower devices have several paths above
   adds too little to the counts of the mesh; after enough links an unlink
   reaches `BUG()`.

The invariants that these disturb are stated with the excuse they need
(`stranded`, `failing`, `skewed`), so that everything else is still checked.

Not a run, but worth a look:

- a stream that is disconnected and connected anew between `print_sock_info` and
  `sk_prot->sendmsg` sends to a peer nobody has checked (`src/nmjfilter.c:352`,
  `src/af_inet.c:596`);
- the client sends to family 27, a number written into the code in place of the
  look-up (`nmjfilter.cpp:216`); a kernel that generated another id never gets a
  rule. `FamilyIds` of `FilterService` is `{27}` in the runs;
- for ICMP `need_drop` gets the bare word, for other protocols a buffer no one has
  written (`src/nmjfilter.c` 318, 428, 431);
- `inet_stream_connect` takes a socket that another thread made to listen while it
  waited for a connected one, as it only asks for `TCP_CLOSE` (`src/af_inet.c:651`);
- nor does it know a connection that was shut down in `TCP_SYN_RECV` by another thread: a
  waiter finds a state that is neither `SYN_*` nor `CLOSE` (569, 651) and returns 0 for a
  connection that never was `ESTABLISHED`; and the socket that shutdown has made `SS_DISCONNECTING` (821)
  is not disconnected (832);
- a datagram socket may get connected without a port, when a thread disconnects it between
  another one's test of `inet_num` and the connect (`src/af_inet.c:551`, 553);
- a packet with `accel_priv` whose device has fewer queues by now goes to the queue the driver
  has picked, behind the last one (`src/dev.c:3122`);
- a packet type whose copy of a packet fails for want of memory goes without it, and nobody is
  told (`src/dev.c:1839`, 4045);
- after a vetoed rename the roll back has copied what was asked for, a format such as
  `eth%d` perhaps, over `oldname` (`src/dev.c:1209`), and a move to another namespace
  writes the name without `devnet_rename_sem` (7519); its `netdev_adjacent_del_links`
  (7557) then removes the link of the new name, which may be another device's;
- the comment at `src/dev.c:6787` doubts that the locking of `register_netdevice` keeps names
  apart, ten lines above the assertion that it does;
- the comment at `src/dev.c:3418` says the counters let a flow move when its
  packets are gone; `flush_backlog` counts packets from the middle of a queue, and a receiver that
  has been told the old CPU has not queued its packet yet when another one moves the entry;
- the comment at `src/dev.c:3214` says the test of `xmit_lock_owner` makes the code not prone to
  deadlocks; two CPUs that send through two devices in a circle take two locks in opposite order;
- `inet_register_protosw` is `void`: a refused protocol does not know;
- three packets with DF and the ids 5, 5, 7 are merged, although segmentation makes
  5, 6, 7 of them (the first two look like a flow whose ids stand still);
- `netdev_increment_features` "will not enable anything that is off in @mask", but
  first widens a mask that has one checksum feature to all of them (`src/dev.c:7683-7692`).

## 5. Theorems

All proofs are about specifications without fairness, for every value of the
constants that satisfies the modules' assumptions.

**RuleTable.** `IInv` is the inductive invariant: `TypeOK`; `WriterOK`, what each
stage of `receive_msg` has established about the item it appends (without it a
walk could meet an inadmissible item, and `length` has nothing to lag behind);
`ReaderOK(c)`, what a walk has established (the items it moved over do not match;
if its rule had been announced before, the walk has not passed it); `DropOK`, that
`drop = 0` needs an item. The key lemma is `ChainGrows`: every step leaves the
reachable list alone or appends one rule, so what a walk knows stays true.
`TypeCorrect`, `LengthCorrect`, `NoWildReadHolds`, `AcceptanceSound`,
`AnnouncementSound`, `DefaultDeny` and `AppendOnly` follow; `Refinement` shows
that every step is one of `AllowList` or a stutter.

**PacketFilter.** `StepIsTableStep`: a step of the hooks is a step of the table
or leaves it alone; hence `HooksUseTheTable` (`FilterSpec => Spec`), which brings
every theorem about the table. `FilterIInv` adds the types of the hooks and
`HookOK(c)`, what a hook knows of the packet in its hands at each stage; it is
needed because the verdict is taken, reported and acted upon in separate steps.
`FilterTypesCorrect`, `OnlyListedFlowsPass`, `NoIcmpPasses`, `HooksDenyByDefault`,
`SendsGoWhereChecked`, `ReportsTellTheFate`, and `HookSoundness` of them together.

**FilterService.** `Asked` says of every station between the click and the database
(commands, waiting threads, threads, datagrams) that only rules the user asked for are
there; with `TypeOK`, `NothingUnasked` and `AddsAreRecorded` it is inductive
(`ServiceInvariant`). `OnlyAskedFor` and `AddsNotLost` follow. `RowsBounded` counts: the rows
of a rule and the threads between test and insert are together no more than
the threads, since a thread only gets between them when there is no row.

**Napi.** `NapiInvariant`: `Sole` is the argument (a CPU inside its poll, a list and the task exclude
each other, and one of them is there iff `SCHED` is set); `LinkOK` and `CpusOn` say that the CPU whose list it
is is on and has the softirq pending; `LockOK` and `NpsvcOK` keep netpoll apart from softirqs and from the
task; `HeldOK` says who cares for held packets at each stage of `napi_complete_done`. `OwnerIsOne`,
`HeldPacketsAreWatched` and `QuietWhenDisabled` follow.

**Transmit.** `TransmitInvariant` has two halves. Who looks at the qdisc next: `SchedOK` (one CPU has the
qdisc iff `SCHED`), `RunOK` (one runs it iff `RUNNING`), `CpuOK`, `RingOK`, and `LeftOK`, which strengthens
`QueueIsRun` by what a runner that is about to leave has seen. Where the segments are: `HandOK`, `SortedOK`,
`AheadOK` (what is sent is before what a CPU or `gso_skb` holds, that before the queue, and that before
what comes), `DoneOK` (a packet is in one of these places, or dropped). `QdiscListedOnce`, `NobodyWaitsForNobody`
and `SegmentsLeaveInOrder` follow, for any number of CPUs, packets and segments.

**Backlog.** `BacklogInvariant` has three layers. `TInv`: the types, and where `dev_cpu_callback` is.
`OInv`, who has the backlog of a CPU: no two lists or walks of `net_rps_send_ipi` name it (`OneLists`,
`OneSends`, `NotBoth`), none names it twice (`DistinctOK`), a backlog that is on the poll list, being
run or waiting for an IPI is named by none (`AwakeAlone`), and the bit tells whether any of these has it
(`BitTells`); `SendOK` and `LinkOK` tie that to the program counters. `QInv`: a CPU that is off has been
cleared out, what a call of `process_backlog` left in `process_queue` is still that CPU's (`QueueOK`), and
what `flush_backlog` has done so far (`FlushOK`). `SchedOwned` counts owners from `OInv`; `WaitingIsScheduled`
and `NothingLeftOfGone` follow. `BacklogsAreQueues` is the refinement of `BacklogQueue`: of all actions only
four touch a queue (`FourSteps`); the packet that arrives is new because whatever is queued, served or lost
has arrived before (`KnownOK`); and that `flush_backlog` keeps exactly the rest of both queues, in order, is
`KeptIsRest`, where `EveryPlace` shows that the n-th packet that is left exists.

**Adjacency.** `AdjTypeCorrect`, and `FailuresLeaveNoTrace`: a link that fails at
any of its pairs restores every count. The lemma `RollBackRestores` is the
arithmetic of it: what was added can be taken away, the amounts being those of before.
`CountsArePaths` is `RefsCountPaths`: until a mesh has been skewed, every count is the
number of paths, and no count is missed. Its invariant `PathsIInv` says of each pair that the count is the
number of ways over the first link (`Counted`), which is all a count of paths need satisfy, as there are no
loops (`NoLoops`); and that the counts are `Transitive`, because a link is refused for a loop by looking at one
count, which shows every loop only then. The counts are sums over a set of
neighbours, folds of the community modules: `PathsAreSums` reasons through their definition as a function on
the subsets, and what is shown of all subsets is shown of a smallest set without it.

**NetDevice.** `ViewsAreCurrent`: whenever RTNL is free, every notifier knows
exactly the listed devices and which are up. The property says nothing while RTNL
is held, so the invariant `ViewIInv` says what a half-done step owes: `DeviceOK`
ties `pc`, `reg_state`, RTNL and the lists of each device; `NotifierOK` says what
a notifier being replayed to has been told so far, and that a device RTNL is held
for is the only one notifiers may be wrong about. `FreedWhenUnreferenced` is
`FreedOnlyWhenUnreferenced`: its invariant `LifeIInv` says for each device that the per-CPU counters sum up to
those who hold it (`CountsOK`; a counter of one CPU may be negative), and, while `netdev_refcnt_read` is under
way, that what it has read and what it still has to read are together no less than the references held. The
latter holds only because nobody can take a new reference any more, once the device is out of the lists and
a grace period is over (`SoughtOK`).
`DevicesUseAdjacency` (`Spec => AdjSpec`) brings the theorems about links: `DeviceLinksLeaveNoTrace`,
`DeviceCountsArePaths`.

**Parts.** Each part has its own inductive invariant over its own variables; a
step of `PartsNext` is a step of one part and leaves the variables of the others, so that the
theorems speak of `PartsSpec`, which the run `parts` checks.

- *Sockets*: `SocketInvariant` adds to the types and `StatesAgree` that a locked port is a port
  (`LockHasPort`), that a listening socket somebody waits on was made to listen behind his back
  (`WaitersKnow`), and that a connection past the SYNs has been established, or is closed on our side
  by a shutdown in `SYN_RECV` (`UpOK`). `StatesGoTogether`, `PortsStay` (an action property) and `ConnectIsTrue` follow.
- *Stacked transmission*: `StackSoundness`. `StackIInv` says that entries of `dev_queue_xmit` and drivers alternate on the
  stack, that `xmit_recursion` counts the drivers, and that the locks the CPU owns are those of
  the drivers on the stack that take one, each once.
- *Flags*: a counter is the number of those who want it modulo its width until it has been at its roof; the
  argument is about `promiscuity + inc` with wrap-around, `IFF_PROMISC` in `gflags`, and what
  `__dev_set_rx_mode` takes for itself (`FltOK`).
- *Feature bits*: features are what `netdev_fix_features` leaves. That LRO is off below a device that turned it
  off is wrong for as long as the recursion has not come to the lower device; `BitsIInv` says that a linked pair that
  disagrees is owed a visit by a call on the stack (`Owes`), and `Falling` that the calls go down the stack of
  devices, which needs the assumption that links do not form a circle (`Adjacency` refuses them).
- *Time stamps*: `StampsIInv` adds what the work holds between its three statements, and who will
  run it again. `FlagsAndBits` is these three together.
- *GRO*: `MergeSoundness`. `MergeIInv` says that the held packets are of different flows, older ones
  behind, that each holds ids in sequence (unless DF is set) and packets that came after all that was delivered of
  its flow. What completes several held packets is a fold of `napi_gro_complete`; `CompletesTo` names its
  intermediate results, and that each keeps the invariant is shown of a smallest counterexample.
- *Transmit queues*: `QueuesSoundness`. While a count of queues is being lowered there are packets and map
  entries behind the new last queue; `NoneBehind` says that this is so only while the task waits for the
  senders, and that a sender who has already picked such a queue is one of those waited for, unless its packet
  has `accel_priv`. `ClassesFit` says that
  classes lie within the device at all times, and, but for priority 0, within the queues in use. `MapsOK` has no
  queue twice in a map: `remove_xps_queue` removes the first one it finds and puts the last in its place
  (`WithoutIs`).
- *Receive path*: `ReceiveSoundness`, its first half. A delivery is one step late (`pt_prev`), so a packet type
  may be unlinked between the match and its call; `PendingOK` says that what is pending is linked, or that
  `dev_remove_pack` still waits for the walk, and that it is the one thing met and not yet offered the packet; what has been
  offered are those `denied` first, then those given it, since one copy of the fragments is enough. `MetOK`
  says for each stage what cannot have been met so far, hence is not met twice; it looks at the lists, the heads they
  hang on and the device the packet is on, which `vlan_do_receive` changes once. `ReserveOK` keeps packets from
  the reserves away from the taps, and `HandlerOK` ties the handler to its data. A walk is a fold over the
  list (`Only`), as the prover has no facts about `SelectSeq`.
- *Flow steering*: its second half. `get_rps_cpu` moves a flow when the head counter of the old CPU has passed
  the tail recorded for the flow, compared with wrap-around. `EntryOK` says that as long as a packet of the flow is on the
  CPU of the entry, that tail is ahead of the head by at least the place of the last such packet, and by less
  than half the width, so that the comparison says no; `SteeredTogether` that what any receiver has steered goes to
  the CPU of the entry; `CountersFit` says how far the counters are
  apart. They hold modulo `TailWidth`, for any width that is large enough for the queue and any number of receivers.
  The property, and so the theorem, excepts runs in which `flush_backlog` has moved a head past packets still
  queued, or the entry was moved while a packet was on its way to the queue (`loose`, section 2).
- *Protocols*: `ProtocolsSoundness`, its first half. `ProtoIInv` says of each list of `inetsw` that it holds the
  registered entries of its type, the permanent ones first and in the order they came, the others behind, the
  newest first (`Precedes`); which entry a look-up meets first is then read off the order. The boot loop of
  `inet_init` is a fold, followed entry by entry. It assumes that `inetsw_array` has a protocol of a type at most once,
  as it does.
- *Start-up*: its second half. `StartIInv`: what has been done are the steps before the next one; that the label a
  failing step jumps to takes back these and no other is a property of three short tables.
- *Names and indices*: `NamesSoundness`, its first half. Between two steps of a rename the device is under two
  names in different places; `NamesIInv` says for each step which place has which (`NamesDiffer`, `NamesHashed`, `SysfsRight`,
  `LinksRight`), and that the name it would go back to is still nobody else's, without which a roll back
  could not be right. All this is said of each device that is not `lost`, so that one device left wrong excuses no
  other: what it may do to another one's link is a cause of that one's being lost, and a name shared with it takes
  two lost ones (`NamesNoFormat`: a format is the name of none but these). `IndicesDiffer` holds of all devices, with
  indices they came with or got. That `__dev_alloc_name` finds a free name and `dev_new_index` a free index, when there is one,
  are lemmas about their loops.
- *End of namespaces*: its second half. `ExitIInv` says that a device on its way out is on the list of one actor, only
  the first one of a list being past the list's stage (`TodoOK`); that a loopback device goes only with all
  that is in its namespace, and comes behind it (`LoopbacksOK`, which for `default_device_exit_batch` means that a list
  built backwards has it last); and the counts, the references and the wake-ups of the property. What the batch
  queues and what references turn to the loopback are folds, followed like those of GRO. The assumptions say
  that each device begins in one namespace, behind its loopback, and that a pair is a pair.

- *Texts*: `TextsSoundness`. `TextsIInv` says that the rules in the kernel are those of the clicked flows (`KeyOf`)
  and that a row has the columns of its packet. The rest is string handling, followed from one end to the other:
  `FormatIs` and `ReportIs` say what stands at which place of a formatted packet, whatever its addresses, ports and
  device; `TextSplit` that `str_split` cuts the rule of the flow out of it; `RowIs` that `String.split` makes six
  columns of a report if the device's name has no comma, and more if it has one; `RuleIs` that a click
  makes the rule of the flow again, `KeyPasses` that `check_rule` admits it, `KeysDiffer` that no two flows
  share one. `Split` is a fold: `PieceIs` follows it over one column, `SizesGrow` counts the columns. The
  assumption says that an address is four numbers with dots between them, and a port neither separator.

`MorePartsProofs` (protocols, start-up, names, namespaces, texts) states again the few lemmas about sequences of
`PartsProofs` that it needs: with all of those in scope the prover would take half as long again.

**Model-checked only.** Liveness, which is out of the prover's reach.

## 6. What is not modelled

- Ways around the hooks: `napi_gro_frags` (`src/dev.c:4597`),
  `netif_receive_skb` (4131), `inet_sendpage` (`src/af_inet.c:769`) call none of
  them; they are no part of what the properties promise.
- `rule_pop`, `rules_exit`, `rule_free`: never called. Sizes of buffers, leaks and
  `GFP_KERNEL` in softirq context: memory, not control. The ports in a report,
  which on devices without a link header are bytes of the IP header: nothing looks
  them up.
- `RuleDialogFragment` is not in the repository; it is taken to delete the row it
  is given. Threads waiting to be scheduled are bounded by `MaxWaiting`. The live
  run has one rule and one sender at a time; that several rules do not get into
  each other's way there is not shown.
- `GoneDeviceLeavesNothing` speaks of CPUs that are on, as `flush_backlog` runs on
  those only. The poll list of `Backlog` holds the backlog, that of `Napi` one device's
  context; how the two share `netdev_budget` is not modelled. The hardware filters of
  `CONFIG_RFS_ACCEL` are left out.
- `NetDevice`: opens that fail, netpoll's own lock, `unregister_netdevice_many` of several
  devices (the end of a namespace is in `NetExit`); a veto of the registration that ends a
  move, whose answer the code ignores; the 16 bits of `ref_nr`.
- The priority map of `net_prio`, the choice
  of a queue by the driver beyond a free choice, what becomes of a packet with `accel_priv` once
  it has its queue, and everything of `sch_generic.c` that
  `dev.c` does not rely on.
- `netdev_increment_features`; texts of `dev_set_alias` and `netdev_name`; socket options, `ioctl`,
  `getname` and accept's grafting.
- Checksums, addresses, ethtool and statistics of `src/dev.c`; the app's screens; the
  vendored libnl: straight-line code whose state nothing else depends on, or not this
  project's.

## 7. Plan

Done, in this order: rule table, hooks, texts, service; backlogs; adjacency and the life of
devices; NAPI, GRO and the receive path; transmission; IPv4 sockets and protocols; names, flags,
features, queues; the proofs of section 5.

Left, with the most important first:

1. `dev_queue_xmit_nit` beside the driver, which may free a packet the taps still read; in
   `NetExit`, two tasks with devices of the same namespaces.
2. A run with a backlog and a device's context on one poll list, for the budget.
