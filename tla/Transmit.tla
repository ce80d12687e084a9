------------------------------ MODULE Transmit ------------------------------
(***************************************************************************)
(* The way out of src/dev.c for a device with one transmit queue:          *)
(* __dev_queue_xmit and __dev_xmit_skb put a packet on the queue's qdisc   *)
(* or send it at once, dev_hard_start_xmit hands the packet's segments to  *)
(* the driver, the driver's interrupt frees what is sent and wakes a queue *)
(* it had stopped, and net_tx_action frees and runs what was left to it.   *)
(*                                                                         *)
(* Three bits say who will look at the qdisc again: its running flag (some *)
(* CPU is in __qdisc_run), __QDISC_STATE_SCHED (it is on some CPU's        *)
(* output_queue) and __QUEUE_STATE_DRV_XOFF (the driver will wake it).     *)
(*                                                                         *)
(* External: sch_generic.c (a FIFO; sch_direct_xmit, __qdisc_run,          *)
(* dev_deactivate) and the driver, which stops the queue when its ring is  *)
(* full, and does not wake a detached one.                                 *)
(***************************************************************************)
EXTENDS Naturals, Sequences, FiniteSets, SequencesExt

CONSTANTS
    Cpu,          \* processors
    NoCpu,
    MaxPackets,   \* bound: packets the senders have
    SegmentsOf(_),\* how many segments validate_xmit_skb makes of a packet
    MaxQueue,     \* the qdisc's limit
    MaxRing,      \* segments the driver's ring holds
    MaxDetach,    \* bound: times the device is detached
    MaxDown       \* bound: CPUs that go off

Packet == 1 .. MaxPackets

ASSUME TransmitAssumption ==
    /\ NoCpu \notin Cpu /\ Cpu # {}
    /\ {MaxPackets, MaxQueue, MaxDetach, MaxDown} \subseteq Nat
    /\ MaxRing \in Nat \ {0}
    /\ \A p \in Packet : SegmentsOf(p) \in Nat \ {0}

VARIABLES
    online,     \* CPUs that are on
    pc,         \* pc[c]: where c is: a sender or net_tx_action, with softirqs off
    hand,       \* hand[c]: the segments c is sending
    queue,      \* the qdisc's packets, oldest first
    gso,        \* gso_skb: the segments put back by a runner that could not send them
    running,    \* __QDISC___STATE_RUNNING
    sched,      \* __QDISC_STATE_SCHED
    active,     \* ~ __QDISC_STATE_DEACTIVATED
    gone,       \* dev_deactivate has returned
    rootLock,   \* holder of the qdisc's lock
    xoff,       \* __QUEUE_STATE_DRV_XOFF
    present,    \* __LINK_STATE_PRESENT
    flight,     \* segments in the driver's ring
    outQueue,   \* outQueue[c]: the qdisc is on c's output_queue
    completion, \* completion[c]: segments on c's completion_queue
    raised,     \* raised[c]: NET_TX_SOFTIRQ is pending
    next,       \* the packet that comes next
    dropped,    \* packets refused, or thrown away by dev_deactivate
    sent,       \* the segments handed to the driver, in order
    detached    \* times the device was detached

qdiscVars == <<queue, gso>>
cpuVars == <<online, pc, hand>>
softirqVars == <<outQueue, completion, raised>>
deviceVars == <<xoff, present, flight, detached>>
historyVars == <<next, dropped, sent>>
vars == <<cpuVars, qdiscVars, running, sched, active, gone, rootLock, deviceVars,
          softirqVars, historyVars>>

Segments(p) == [i \in 1 .. SegmentsOf(p) |-> <<p, i>>]
Backlogged == queue # <<>> \/ gso # <<>>
-----------------------------------------------------------------------------
Init == /\ online = Cpu
        /\ pc = [c \in Cpu |-> "idle"]
        /\ hand = [c \in Cpu |-> <<>>]
        /\ queue = <<>> /\ gso = <<>>
        /\ running = FALSE /\ sched = FALSE /\ active = TRUE /\ gone = FALSE
        /\ rootLock = NoCpu
        /\ xoff = FALSE /\ present = TRUE /\ flight = 0 /\ detached = 0
        /\ outQueue = [c \in Cpu |-> FALSE]
        /\ completion = [c \in Cpu |-> 0]
        /\ raised = [c \in Cpu |-> FALSE]
        /\ next = 1 /\ dropped = {} /\ sent = <<>>
-----------------------------------------------------------------------------
(* Scheduling the qdisc on CPU c.                                          *)

\* __netif_reschedule; it raises the softirq, as the actions that use it say.
NetifReschedule(c) == outQueue' = [outQueue EXCEPT ![c] = TRUE]

Raise(c) == raised' = [raised EXCEPT ![c] = @ \/ outQueue'[c]]

\* Mutant: the bit is set but not tested.
NetifScheduleAlways(c) == sched' = TRUE /\ NetifReschedule(c)

\* __netif_schedule
NetifSchedule(c) == IF sched THEN UNCHANGED <<sched, outQueue>>
                    ELSE sched' = TRUE /\ NetifReschedule(c)
-----------------------------------------------------------------------------
(* Senders.                                                                *)

\* Mutant: a packet may overtake those that wait.
BypassAtAnyTime == ~running

\* Nothing waits and nobody runs the qdisc: the packet need not be queued.
MayBypass == ~Backlogged /\ ~running

\* __dev_queue_xmit, __dev_xmit_skb: under the root lock the packet is dropped, sent
\* directly, or queued (or refused by the qdisc), and the qdisc is run if nobody does.
DevXmitSkb(c) ==
    /\ pc[c] = "idle" /\ c \in online /\ next \in Packet /\ rootLock = NoCpu
    /\ next' = next + 1
    /\ \/ /\ ~active
          /\ dropped' = dropped \cup {next}
          /\ UNCHANGED <<pc, hand, queue, running, rootLock>>
       \/ /\ active /\ MayBypass
          /\ running' = TRUE
          /\ hand' = [hand EXCEPT ![c] = Segments(next)]
          /\ pc' = [pc EXCEPT ![c] = "xmit"]
          /\ UNCHANGED <<queue, rootLock, dropped>>
       \/ /\ active /\ ~MayBypass
          /\ IF Len(queue) < MaxQueue
             THEN queue' = Append(queue, next) /\ UNCHANGED dropped
             ELSE dropped' = dropped \cup {next} /\ UNCHANGED queue
          /\ IF running THEN UNCHANGED <<pc, running, rootLock>>
             ELSE /\ running' = TRUE /\ rootLock' = c
                  /\ pc' = [pc EXCEPT ![c] = "run"]
          /\ UNCHANGED hand
    /\ UNCHANGED <<online, gso, sched, active, gone, deviceVars, softirqVars, sent>>

\* dev_hard_start_xmit, a segment at a time; it stops at a queue that is stopped.
DevHardStartXmit(c) ==
    /\ pc[c] = "xmit" /\ hand[c] # <<>> /\ ~xoff
    /\ sent' = Append(sent, Head(hand[c]))
    /\ hand' = [hand EXCEPT ![c] = Tail(@)]
    /\ flight' = flight + 1
    /\ xoff' = (flight + 1 = MaxRing)
    /\ UNCHANGED <<online, pc, qdiscVars, running, sched, active, gone, rootLock,
                   present, detached, softirqVars, next, dropped>>

\* dev_requeue_skb
Requeue(c) == /\ gso' = hand[c]
              /\ UNCHANGED queue

\* The end of sch_direct_xmit, under the root lock again: what could not be sent is put
\* back and the qdisc scheduled; the runner goes on if there is more and the queue is not
\* stopped, or, its quota used up, leaves that to net_tx_action.
XmitDone(c) ==
    /\ pc[c] = "xmit" /\ (hand[c] = <<>> \/ xoff)
    /\ rootLock = NoCpu /\ rootLock' = c
    /\ IF hand[c] # <<>>
       THEN /\ Requeue(c)
            /\ NetifSchedule(c) /\ Raise(c)
            /\ pc' = [pc EXCEPT ![c] = "end"]
       ELSE /\ \/ /\ pc' = [pc EXCEPT ![c] = IF Backlogged /\ ~xoff THEN "run" ELSE "end"]
                  /\ UNCHANGED <<sched, outQueue, raised>>
               \/ /\ Backlogged /\ ~xoff
                  /\ pc' = [pc EXCEPT ![c] = "end"]
                  /\ NetifSchedule(c) /\ Raise(c)
            /\ UNCHANGED qdiscVars
    /\ hand' = [hand EXCEPT ![c] = <<>>]
    /\ UNCHANGED <<online, running, active, gone, deviceVars, completion, historyVars>>

\* qdisc_restart: the next packet, or what was put back; nothing from a stopped queue.
QdiscRun(c) ==
    /\ pc[c] = "run"
    /\ \/ /\ Backlogged /\ ~xoff
          /\ hand' = [hand EXCEPT ![c] = IF gso # <<>> THEN gso ELSE Segments(Head(queue))]
          /\ gso' = <<>>
          /\ queue' = IF gso # <<>> THEN queue ELSE Tail(queue)
          /\ rootLock' = NoCpu
          /\ pc' = [pc EXCEPT ![c] = "xmit"]
       \/ /\ ~Backlogged \/ xoff
          /\ pc' = [pc EXCEPT ![c] = "end"]
          /\ UNCHANGED <<hand, qdiscVars, rootLock>>
    /\ UNCHANGED <<online, running, sched, active, gone, deviceVars, softirqVars, historyVars>>

\* qdisc_run_end, and the root lock is given up.
QdiscRunEnd(c) == /\ pc[c] = "end"
                  /\ running' = FALSE
                  /\ rootLock' = NoCpu
                  /\ pc' = [pc EXCEPT ![c] = "idle"]
                  /\ UNCHANGED <<online, hand, qdiscVars, sched, active, gone, deviceVars,
                                 softirqVars, historyVars>>
-----------------------------------------------------------------------------
(* net_tx_action, the softirq.                                             *)

\* It frees the completion queue and takes the output queue for its own.
NetTxAction(c) == /\ pc[c] = "idle" /\ raised[c] /\ c \in online
                  /\ raised' = [raised EXCEPT ![c] = FALSE]
                  /\ completion' = [completion EXCEPT ![c] = 0]
                  /\ outQueue' = [outQueue EXCEPT ![c] = FALSE]
                  /\ pc' = [pc EXCEPT ![c] = IF outQueue[c] THEN "tx" ELSE "idle"]
                  /\ UNCHANGED <<online, hand, qdiscVars, running, sched, active, gone,
                                 rootLock, deviceVars, historyVars>>

\* It has the root lock: the bit is cleared first, then the qdisc run.
TxLocked(c) == /\ pc[c] = "tx" /\ rootLock = NoCpu
               /\ sched' = FALSE
               /\ IF running THEN pc' = [pc EXCEPT ![c] = "idle"] /\ UNCHANGED <<running, rootLock>>
                  ELSE /\ running' = TRUE /\ rootLock' = c
                       /\ pc' = [pc EXCEPT ![c] = "run"]
               /\ UNCHANGED <<online, hand, qdiscVars, active, gone, deviceVars, softirqVars,
                              historyVars>>

\* Mutant: whoever has the lock is trusted to see to the qdisc.
TxBusyForgets(c) == /\ pc[c] = "tx" /\ rootLock # NoCpu
                    /\ pc' = [pc EXCEPT ![c] = "idle"]
                    /\ sched' = FALSE
                    /\ UNCHANGED <<online, hand, qdiscVars, running, active, gone, rootLock,
                                   deviceVars, softirqVars, historyVars>>

\* Mutant: the bit of a deactivated qdisc stays.
TxBusyKeepsBit(c) == /\ pc[c] = "tx" /\ rootLock # NoCpu
                     /\ pc' = [pc EXCEPT ![c] = "idle"]
                     /\ IF active THEN NetifReschedule(c) /\ Raise(c) ELSE UNCHANGED <<outQueue, raised>>
                     /\ UNCHANGED <<online, hand, qdiscVars, running, sched, active, gone,
                                    rootLock, deviceVars, completion, historyVars>>

\* Another has the root lock: the qdisc goes back on the output queue, unless it is
\* deactivated.
TxBusy(c) == /\ pc[c] = "tx" /\ rootLock # NoCpu
             /\ pc' = [pc EXCEPT ![c] = "idle"]
             /\ IF active THEN NetifReschedule(c) /\ Raise(c) /\ UNCHANGED sched
                          ELSE sched' = FALSE /\ UNCHANGED <<outQueue, raised>>
             /\ UNCHANGED <<online, hand, qdiscVars, running, active, gone, rootLock,
                            deviceVars, completion, historyVars>>
-----------------------------------------------------------------------------
(* The driver and its device.                                              *)

\* netif_tx_wake_queue, netif_wake_subqueue, on CPU c: only the call that finds the queue
\* stopped schedules, and what it schedules is noop_qdisc after dev_deactivate.
WakeQueue(c) == /\ xoff' = FALSE
                /\ IF xoff /\ active THEN NetifSchedule(c) ELSE UNCHANGED <<sched, outQueue>>

\* The interrupt of a segment that has been sent: __dev_kfree_skb_irq, and the queue is
\* woken.
TxInterrupt(c) ==
    /\ flight > 0 /\ c \in online
    /\ flight' = flight - 1
    /\ completion' = [completion EXCEPT ![c] = @ + 1]
    /\ raised' = [raised EXCEPT ![c] = TRUE]
    /\ IF present THEN WakeQueue(c) ELSE UNCHANGED <<xoff, sched, outQueue>>
    /\ UNCHANGED <<cpuVars, qdiscVars, running, active, gone, rootLock, present, detached,
                   historyVars>>

\* netif_device_detach
NetifDeviceDetach == /\ present /\ detached < MaxDetach
                     /\ present' = FALSE
                     /\ xoff' = TRUE
                     /\ detached' = detached + 1
                     /\ UNCHANGED <<cpuVars, qdiscVars, running, sched, active, gone, rootLock,
                                    flight, softirqVars, historyVars>>

\* Mutant: the queue is started, not woken.
NetifDeviceAttachStarts(c) == /\ ~present /\ c \in online
                              /\ present' = TRUE
                              /\ xoff' = FALSE
                              /\ UNCHANGED <<cpuVars, qdiscVars, running, sched, active, gone,
                                             rootLock, flight, detached, softirqVars, historyVars>>

\* netif_device_attach; the driver has room again.
NetifDeviceAttach(c) == /\ ~present /\ c \in online /\ flight < MaxRing
                        /\ present' = TRUE
                        /\ WakeQueue(c)
                        /\ Raise(c)
                        /\ UNCHANGED <<cpuVars, qdiscVars, running, active, gone, rootLock,
                                       flight, detached, completion, historyVars>>

\* dev_deactivate_queue, under the root lock: the qdisc is reset.
Deactivate == /\ active /\ rootLock = NoCpu
              /\ active' = FALSE
              /\ dropped' = dropped \cup ToSet(queue) \cup {s[1] : s \in ToSet(gso)}
              /\ queue' = <<>> /\ gso' = <<>>
              /\ UNCHANGED <<cpuVars, running, sched, gone, rootLock, deviceVars, softirqVars,
                             next, sent>>

\* dev_deactivate returns once some_qdisc_is_busy says no.
Deactivated == /\ ~active /\ ~gone /\ ~running /\ ~sched
               /\ gone' = TRUE
               /\ UNCHANGED <<cpuVars, qdiscVars, running, sched, active, rootLock, deviceVars,
                              softirqVars, historyVars>>

\* dev_cpu_callback: CPU d is off; its completion and output queues are appended to c's.
DevCpuDead(d, c) ==
    /\ d \in online /\ c \in online \ {d} /\ pc[d] = "idle"
    /\ Cardinality(Cpu \ online) < MaxDown
    /\ online' = online \ {d}
    /\ completion' = [completion EXCEPT ![c] = @ + completion[d], ![d] = 0]
    /\ outQueue' = [outQueue EXCEPT ![c] = @ \/ outQueue[d], ![d] = FALSE]
    /\ raised' = [raised EXCEPT ![c] = TRUE, ![d] = FALSE]
    /\ UNCHANGED <<pc, hand, qdiscVars, running, sched, active, gone, rootLock, deviceVars,
                   historyVars>>
-----------------------------------------------------------------------------
Runner(c) == DevHardStartXmit(c) \/ XmitDone(c) \/ QdiscRun(c) \/ QdiscRunEnd(c)

Softirq(c) == NetTxAction(c) \/ TxLocked(c) \/ TxBusy(c)

Next == \/ \E c \in Cpu : \/ DevXmitSkb(c) \/ Runner(c) \/ Softirq(c)
                          \/ TxInterrupt(c) \/ NetifDeviceAttach(c)
        \/ \E d, c \in Cpu : DevCpuDead(d, c)
        \/ NetifDeviceDetach \/ Deactivate \/ Deactivated

Spec == Init /\ [][Next]_vars

\* Code that runs goes on, a pending softirq is run, the device sends what is in its ring
\* and is attached again in the end.
Fairness == /\ \A c \in Cpu : WF_vars(Runner(c)) /\ WF_vars(Softirq(c))
            /\ WF_vars(\E c \in Cpu : TxInterrupt(c))
            /\ WF_vars(\E c \in Cpu : NetifDeviceAttach(c))
            /\ WF_vars(Deactivated)

FairSpec == Spec /\ Fairness
-----------------------------------------------------------------------------
TypeOK == /\ online \subseteq Cpu /\ online # {}
          /\ pc \in [Cpu -> {"idle", "xmit", "run", "end", "tx"}]
          /\ \A c \in Cpu : \A s \in ToSet(hand[c]) : s[1] \in Packet
          /\ ToSet(queue) \subseteq Packet /\ Len(queue) <= MaxQueue
          /\ {running, sched, active, gone, xoff, present} \subseteq BOOLEAN
          /\ rootLock \in Cpu \cup {NoCpu}
          /\ flight \in 0 .. MaxRing
          /\ outQueue \in [Cpu -> BOOLEAN] /\ raised \in [Cpu -> BOOLEAN]
          /\ next \in 1 .. MaxPackets + 1 /\ dropped \subseteq Packet

\* The one next_sched link: a qdisc whose SCHED bit is set is on one CPU's output queue,
\* or in the hands of one net_tx_action, and a CPU whose queues are not empty is on and
\* has the softirq pending (src/dev.c:2306, 2382, 3718, 7624).
ListedOnce ==
    /\ TypeOK
    /\ Cardinality({c \in Cpu : outQueue[c]}) + Cardinality({c \in Cpu : pc[c] = "tx"})
           = IF sched THEN 1 ELSE 0
    /\ \A c \in Cpu : outQueue[c] \/ completion[c] > 0 => raised[c] /\ c \in online

\* No packet waits for nobody: while the qdisc holds packets and the driver has not
\* stopped the queue somebody runs the qdisc or is going to (src/dev.c:2343, 2974, 3739).
QueueIsRun == Backlogged /\ active /\ ~xoff => running \/ sched

Before(s, t) == s[1] < t[1] \/ (s[1] = t[1] /\ s[2] < t[2])

\* The driver gets the segments in the order in which the senders came to the root lock,
\* each once, and a packet all of whose segments have not gone yet is somewhere, or
\* dropped (src/dev.c:2787, 2973, 2994).
SentInOrder ==
    /\ \A i, j \in 1 .. Len(sent) : i < j => Before(sent[i], sent[j])
    /\ \A p \in 1 .. next - 1 :
           LET waits == {p} \cap (ToSet(queue) \cup dropped)
               held == {s \in ToSet(gso) \cup UNION {ToSet(hand[c]) : c \in Cpu} : s[1] = p}
           IN  waits # {} \/ \A s \in ToSet(Segments(p)) : s \in ToSet(sent) \cup held

\* The qdisc is emptied again and again, whatever stops and wakes the queue, while it is
\* active: what a runner puts back after dev_deactivate stays (src/dev.c:3732).
QueueDrains == []<>(~Backlogged \/ ~active)

\* dev_deactivate, which waits for the two bits, returns (src/dev.c:3742).
DeactivateReturns == ~active ~> gone
=============================================================================
