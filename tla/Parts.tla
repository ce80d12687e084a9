------------------------------- MODULE Parts -------------------------------
(***************************************************************************)
(* The parts of src/dev.c, src/af_inet.c and the app whose state is their  *)
(* own, side by side: each behaviour is one of one part, the others stay   *)
(* as they began.  InetSocket is one of them; the others are instances.    *)
(***************************************************************************)
EXTENDS InetSocket

CONSTANTS
    Addr, TextPort, Device, MaxRules,                   \* RuleStrings
    LowerDev, UpperDev, Pt, NoPt, HeadOf, MaxChanges,   \* ReceivePath
    NamedDev, NoDev, Ns, HomeNs, Piece, Request, Preset, NoName, Room,
    MaxUnits, MaxIndex, MaxNameOps,                     \* DeviceNames
    Cpu, Online, Tc, Prio, NumQueues, NoQueue, MaxConfig,   \* TxQueues
    CountWidth, UnicastFlt, MaxHolders,                 \* RxMode
    MergeFlow, Ids, MaxSkbs, MaxArrivals,                    \* Gro
    StackDev, Under, Lltx, StackHas, HasForVlan, RecursionLimit, Segments,  \* XmitStack
    Entry, Boot, NoEntry, Type, Protocol, MaxLoads,     \* ProtoSwitch
    NoCpu, Receiver, Callback, TailWidth, MaxBacklog,   \* RpsFlow, of the same CPUs
    BitsDev, BelowPairs, BitsHas, Hw, BitsToggled, MaxOps,  \* Features
    Task, Worker, HomeNet, Ending, BeginsWith, Kind, Peer,   \* NetExit
    User                                                \* Timestamps

VARIABLES
    topic,      \* the part of this behaviour
    table, last, rows, clicked,           \* RuleStrings
    list, freed, handler, data, writer, waits, changes, at, sender, dev, skb, exact,
    ptPrev, seen, userFrags, denied, given, own,   \* ReceivePath
    names, net, listed, bucket, sysfs, index, lastIndex, linked, links, task, ops,
    reading, copied, torn, lost,          \* DeviceNames
    real, xps, maps, tcOn, tcRange, prioTc, resizing, config, chosen, capped,
    sockQueue, accel, waiting,            \* TxQueues
    nd, promHeld, multiHeld, toldUp, roof, missed,  \* RxMode
    groList, groCount, jiffy, offload, arrivals, delivered,  \* Gro
    frames, recursion, owned, stopped,    \* XmitStack
    inetsw, since, loads, create,         \* ProtoSwitch
    done, part,                           \* StartUp
    on, ident, rflowCpu, lastQtail, fifo, inHand, queueHead, queueTail, steered, loose, \* RpsFlow
    linkedTo, features, wanted, calls, refused, changed,  \* Features
    baseHead, netOf, phase, refs, unregCount, todo, where, turn, enqueued, woken,
    released,                             \* NetExit
    wantedBy, deferred, key, pending, work, taken, sum, user  \* Timestamps

Texts == INSTANCE RuleStrings WITH Port <- TextPort
Receive == INSTANCE ReceivePath WITH Lower <- LowerDev, Upper <- UpperDev
Names == INSTANCE DeviceNames WITH Dev <- NamedDev, Home <- HomeNs, MaxOps <- MaxNameOps
Queues == INSTANCE TxQueues
Flags == INSTANCE RxMode WITH Width <- CountWidth
Merge == INSTANCE Gro WITH Flow <- MergeFlow
Stack == INSTANCE XmitStack WITH Dev <- StackDev, Has <- StackHas
Protocols == INSTANCE ProtoSwitch
Starts == INSTANCE StartUp
Flows == INSTANCE RpsFlow WITH Width <- TailWidth
Bits == INSTANCE Features WITH Dev <- BitsDev, Below <- BelowPairs, Has <- BitsHas,
                               Toggled <- BitsToggled, links <- linkedTo, frames <- calls
Exits == INSTANCE NetExit WITH Home <- HomeNet, Begin <- BeginsWith, pc <- where
Stamps == INSTANCE Timestamps

ASSUME PartsAssumption ==
    /\ Texts!AddrAssumption /\ Receive!ReceiveAssumption /\ Names!NamesAssumption
    /\ Queues!TxQueuesAssumption /\ Flags!RxModeAssumption /\ Merge!GroAssumption
    /\ Stack!XmitStackAssumption /\ Protocols!ProtoSwitchAssumption
    /\ Flows!RpsFlowAssumption /\ Bits!FeaturesAssumption /\ Exits!NetExitAssumption
    /\ Stamps!StampsAssumption
-----------------------------------------------------------------------------
textsState == <<table, last, rows, clicked>>
receiveState == <<list, freed, handler, data, writer, waits, changes, at, sender, dev,
                  skb, exact, ptPrev, seen, userFrags, denied, given, own>>
namesState == <<names, net, listed, bucket, sysfs, index, lastIndex, linked, links,
                task, ops, reading, copied, torn, lost>>
queuesState == <<real, xps, maps, tcOn, tcRange, prioTc, resizing, config, chosen,
                 capped, sockQueue, accel, waiting>>
flagsState == <<nd, promHeld, multiHeld, toldUp, roof, missed>>
mergeState == <<groList, groCount, jiffy, offload, arrivals, delivered>>
stackState == <<frames, recursion, owned, stopped>>
protocolsState == <<inetsw, since, loads, create>>
startState == <<done, part>>
flowsState == <<on, ident, rflowCpu, lastQtail, fifo, inHand, queueHead, queueTail,
                steered, loose>>
bitsState == <<linkedTo, features, wanted, calls, refused, changed>>
exitState == <<baseHead, netOf, phase, refs, unregCount, todo, where, turn, enqueued,
               woken, released>>
stampsState == <<wantedBy, deferred, key, pending, work, taken, sum, user>>

PartsInit == /\ topic \in {"sockets", "texts", "receive", "names", "queues", "flags",
                            "merge", "stack", "protocols", "start", "flows", "bits", "exit", "stamps"}
             /\ Init /\ (topic # "sockets" => type = "stream")
             /\ Texts!Init /\ Receive!Init /\ Names!Init /\ Queues!Init
             /\ Flags!Init /\ Merge!Init /\ Stack!Init /\ Protocols!Init /\ Starts!Init
             /\ Flows!Init /\ Bits!Init /\ Exits!Init /\ Stamps!Init

SocketsNext == /\ topic = "sockets" /\ Next
               /\ UNCHANGED <<topic, textsState, receiveState, namesState, queuesState, flagsState,
                              mergeState, stackState, protocolsState, startState, flowsState, bitsState,
                              exitState, stampsState>>

TextsNext == /\ topic = "texts" /\ Texts!Next
             /\ UNCHANGED <<topic, vars, receiveState, namesState, queuesState, flagsState,
                            mergeState, stackState, protocolsState, startState, flowsState, bitsState,
                            exitState, stampsState>>

ReceiveNext == /\ topic = "receive" /\ Receive!Next
               /\ UNCHANGED <<topic, vars, textsState, namesState, queuesState, flagsState,
                              mergeState, stackState, protocolsState, startState, flowsState, bitsState,
                              exitState, stampsState>>

NamesNext == /\ topic = "names" /\ Names!Next
             /\ UNCHANGED <<topic, vars, textsState, receiveState, queuesState, flagsState,
                            mergeState, stackState, protocolsState, startState, flowsState, bitsState,
                            exitState, stampsState>>

QueuesNext == /\ topic = "queues" /\ Queues!Next
              /\ UNCHANGED <<topic, vars, textsState, receiveState, namesState, flagsState,
                             mergeState, stackState, protocolsState, startState, flowsState, bitsState,
                             exitState, stampsState>>

FlagsNext == /\ topic = "flags" /\ Flags!Next
             /\ UNCHANGED <<topic, vars, textsState, receiveState, namesState, queuesState,
                            mergeState, stackState, protocolsState, startState, flowsState, bitsState,
                            exitState, stampsState>>

MergeNext == /\ topic = "merge" /\ Merge!Next
             /\ UNCHANGED <<topic, vars, textsState, receiveState, namesState, queuesState,
                            flagsState, stackState, protocolsState, startState, flowsState, bitsState,
                            exitState, stampsState>>

StackNext == /\ topic = "stack" /\ Stack!Next
             /\ UNCHANGED <<topic, vars, textsState, receiveState, namesState, queuesState,
                            flagsState, mergeState, protocolsState, startState, flowsState, bitsState,
                            exitState, stampsState>>

ProtocolsNext == /\ topic = "protocols" /\ Protocols!Next
                 /\ UNCHANGED <<topic, vars, textsState, receiveState, namesState, queuesState,
                                flagsState, mergeState, stackState, startState, flowsState, bitsState,
                                exitState, stampsState>>

StartsNext == /\ topic = "start" /\ Starts!Next
              /\ UNCHANGED <<topic, vars, textsState, receiveState, namesState, queuesState,
                             flagsState, mergeState, stackState, protocolsState, flowsState, bitsState,
                             exitState, stampsState>>

FlowsNext == /\ topic = "flows" /\ Flows!Next
             /\ UNCHANGED <<topic, vars, textsState, receiveState, namesState, queuesState,
                            flagsState, mergeState, stackState, protocolsState, startState, bitsState,
                            exitState, stampsState>>

BitsNext == /\ topic = "bits" /\ Bits!Next
            /\ UNCHANGED <<topic, vars, textsState, receiveState, namesState, queuesState,
                           flagsState, mergeState, stackState, protocolsState, startState, flowsState,
                           exitState, stampsState>>

ExitsNext == /\ topic = "exit" /\ Exits!Next
             /\ UNCHANGED <<topic, vars, textsState, receiveState, namesState, queuesState,
                            flagsState, mergeState, stackState, protocolsState, startState,
                            flowsState, bitsState, stampsState>>

StampsNext == /\ topic = "stamps" /\ Stamps!Next
              /\ UNCHANGED <<topic, vars, textsState, receiveState, namesState, queuesState,
                             flagsState, mergeState, stackState, protocolsState, startState,
                             flowsState, bitsState, exitState>>

PartsNext == \/ SocketsNext \/ TextsNext \/ ReceiveNext \/ NamesNext \/ QueuesNext \/ FlagsNext
             \/ MergeNext \/ StackNext \/ ProtocolsNext \/ StartsNext
             \/ FlowsNext \/ BitsNext \/ ExitsNext \/ StampsNext

partVars == <<topic, vars, textsState, receiveState, namesState, queuesState, flagsState,
               mergeState, stackState, protocolsState, startState, flowsState, bitsState,
               exitState, stampsState>>

PartsSpec == PartsInit /\ [][PartsNext]_partVars
-----------------------------------------------------------------------------
\* What str_split cuts out of a packet's text and what a click makes of its row are one
\* rule (src/nmjfilter.c:347-390, MainActivity.java): a flow is let through when it was
\* clicked and only then, its row shows it, and no packet is missing there.
TextsAgree ==
    topic = "texts" => /\ Texts!TypeOK /\ Texts!ClickAdmitsFlow /\ Texts!OnlyClickedPass
                       /\ Texts!RowTellsPacket /\ Texts!EveryPacketIsShown

\* While packet types and a receive handler come and go, __netif_receive_skb_core and
\* dev_queue_xmit_nit use none that is freed, and give each one they have met the packet
\* once per device; and a flow that follows its reader to another CPU leaves no packet
\* behind (get_rps_cpu).
ReceiveIsSound ==
    /\ topic = "receive" => /\ Receive!TypeOK /\ Receive!NothingFreedIsUsed
                            /\ Receive!EveryMatchIsServed
    /\ topic = "flows" => Flows!FlowsAreSound

\* Through registration, renaming with its roll back and the move to another namespace,
\* names and indices stay unique, and the hash table, sysfs and the neighbour's links
\* have a device under its name (dev_change_name, dev_change_net_namespace).  When a
\* namespace ends, it and its loopback device outlive the devices that are still on their
\* way out (rtnl_lock_unregistering, default_device_exit_batch).
NamesAreSound == /\ topic = "names" => Names!NamesAreSound
                 /\ topic = "exit" => Exits!ExitIsSound

\* Whatever order netif_setup_tc, netif_reset_xps_queues_gt and a sending CPU come in, no
\* packet ends up behind the last queue (netif_set_real_num_tx_queues, netdev_pick_tx).
QueuesAreSound == topic = "queues" => Queues!QueuesAreSound

\* promiscuity and allmulti count those who want them, and IFF_UP is what the notifiers
\* were told (__dev_set_promiscuity, __dev_change_flags, __dev_set_rx_mode).  A feature
\* has what it depends on, and LRO is off below a device that has turned it off
\* (netdev_fix_features, __netdev_update_features).  Packets are stamped iff somebody
\* wants it, once the work has caught up (net_enable_timestamp, netstamp_clear).
FlagsAreRight == /\ topic = "flags" => Flags!RxModeIsRight
                 /\ topic = "bits" => Bits!FeaturesAreSound
                 /\ topic = "stamps" => Stamps!StampsAreRight

\* GRO keeps a flow in order, and what it merges can be cut up into what came
\* (dev_gro_receive, inet_gro_receive, inet_gso_segment).
MergeIsSound == topic = "merge" => Merge!GroIsSound

\* Devices stacked in a circle do not use up the kernel's stack nor wait for their own
\* lock, and each driver gets packets its device can send (__dev_queue_xmit,
\* validate_xmit_skb).
StackIsSound == topic = "stack" => Stack!XmitIsSound

\* The protocol a socket gets is the permanent one, else the newest
\* (inet_register_protosw, inet_create); a part of inet_init that fails takes back all
\* it has done.
ProtocolsAreSound == /\ topic = "protocols" => Protocols!ProtocolsAreSound
                     /\ topic = "start" => Starts!FailureTakesAllBack
=============================================================================
