------------------------------ MODULE Backlog ------------------------------
(***************************************************************************)
(* The per-CPU backlogs of src/dev.c, through which every packet that      *)
(* netif_rx or receive packet steering (RPS) hands to a CPU passes after   *)
(* the firewall's hook.                                                    *)
(*                                                                         *)
(* A CPU c has two queues: input_pkt_queue, filled by any CPU under its    *)
(* lock, and process_queue, which process_backlog, run by c's softirq,     *)
(* fills from it and serves.  The bit NAPI_STATE_SCHED of c's backlog says *)
(* that somebody is going to run process_backlog: c itself, because the    *)
(* backlog is on its poll list; c's interrupt handler, because an IPI is   *)
(* on its way; or another CPU, which has c on the list of the CPUs it      *)
(* will send an IPI to at the end of its own softirq.  The packet that     *)
(* finds the queue empty sets the bit; all others rely on it.              *)
(*                                                                         *)
(* CPUs go off and come back (dev_cpu_callback moves what they leave       *)
(* behind), and one device goes away while packets of it are queued        *)
(* (flush_backlog).                                                        *)
(***************************************************************************)
EXTENDS Naturals, Sequences, FiniteSets

CONSTANTS
    Cpu,           \* processors
    NoCpu,
    Hotplug,       \* the context of dev_cpu_callback: the task that takes a CPU off
    MaxPackets,    \* bound: packets that arrive
    OfGone,        \* the packets, among 1 .. MaxPackets, of the device that goes away
    MaxBacklog,    \* netdev_max_backlog
    Weights,       \* the values that weight_p, the quota of a process_backlog call, takes:
                   \* a sysctl may change it at any time
    MaxHotplug     \* bound: times a CPU is taken off

Packet == 1 .. MaxPackets
Ctx == Cpu \cup {Hotplug}

ASSUME BacklogAssumption == /\ Cpu # {} /\ NoCpu \notin Cpu /\ Hotplug \notin Cpu
                            /\ MaxPackets \in Nat /\ MaxBacklog \in Nat
                            /\ MaxHotplug \in Nat /\ Weights \subseteq Nat \ {0}
                            /\ OfGone \subseteq Packet

VARIABLES
    online,     \* CPUs that are on
    input,      \* input[c]: input_pkt_queue
    process,    \* process[c]: process_queue
    state,      \* state[c]: NAPI_STATE_SCHED of the backlog
    link,       \* link[c]: where the backlog's poll_list link is: "none", "poll_list",
                \* "list" or "repoll" (the two locals of net_rx_action)
    raised,     \* raised[c]: NET_RX_SOFTIRQ is pending
    ipiList,    \* ipiList[c]: rps_ipi_list, the CPUs c still has to send an IPI to
    csd,        \* csd[c]: an IPI is on its way to c
    pc,         \* pc[c]: where c's softirq is in net_rx_action
    quota,      \* quota[c]: packets process_backlog may still serve in this call
    hand,       \* hand[c]: the packet in __netif_receive_skb, as a sequence
    sending,    \* sending[x]: the rest of the list net_rps_send_ipi walks in context x
    resetting,  \* resetting[x]: the CPU that x has found to be off and not reset yet
    dying,      \* the CPU that is being taken off, if any
    stage,      \* where dev_cpu_callback is
    downs,      \* CPUs taken off so far
    device,     \* of the device that goes away: "up", "closed", "flushing", "flushed", "freed"
    toFlush,    \* CPUs that have yet to run flush_backlog
    arrived,    \* packets that have arrived
    served,     \* packets handed to the protocols
    lost,       \* packets dropped
    stranded    \* history: CPUs reset while on and with packets waiting

queueVars == <<input, process, hand>>
wakeVars == <<state, link, raised, ipiList, csd>>
sendVars == <<sending, resetting>>
cpuVars == <<online, dying, stage, downs>>
deviceVars == <<device, toFlush>>
countVars == <<arrived, served, lost>>
vars == <<online, input, process, state, link, raised, ipiList, csd, pc, quota, hand,
          sending, resetting, dying, stage, downs, device, toFlush, arrived, served,
          lost, stranded>>

Elements(s) == {s[i] : i \in 1 .. Len(s)}

\* A context has no IPI to send (any more).
NothingToSend(x) == sending[x] = <<>> /\ resetting[x] = NoCpu

\* The queue s without the packets of the device that goes: the n-th of what is left is at
\* the place that has n such places up to it.
Left(s) == {i \in 1 .. Len(s) : s[i] \notin OfGone}
UpTo(s, i) == {j \in Left(s) : j <= i}
Place(s, n) == CHOOSE i \in Left(s) : Cardinality(UpTo(s, i)) = n
Kept(s) == [n \in 1 .. Cardinality(Left(s)) |-> s[Place(s, n)]]
-----------------------------------------------------------------------------
Init == /\ online = Cpu
        /\ input = [c \in Cpu |-> <<>>]
        /\ process = [c \in Cpu |-> <<>>]
        /\ state = [c \in Cpu |-> FALSE]
        /\ link = [c \in Cpu |-> "none"]
        /\ raised = [c \in Cpu |-> FALSE]
        /\ ipiList = [c \in Cpu |-> <<>>]
        /\ csd = [c \in Cpu |-> FALSE]
        /\ pc = [c \in Cpu |-> "idle"]
        /\ quota = [c \in Cpu |-> 0]
        /\ hand = [c \in Cpu |-> <<>>]
        /\ sending = [x \in Ctx |-> <<>>]
        /\ resetting = [x \in Ctx |-> NoCpu]
        /\ dying = NoCpu
        /\ stage = "none"
        /\ downs = 0
        /\ device = "up"
        /\ toFlush = {}
        /\ arrived = 0
        /\ served = {}
        /\ lost = {}
        /\ stranded = {}
-----------------------------------------------------------------------------
(* enqueue_to_backlog, with interrupts off and under the target's lock.    *)

Running(p) == p \in OfGone => device = "up"

\* The length test of enqueue_to_backlog admits a queue of MaxBacklog packets.
Fits(n) == n <= MaxBacklog

\* skb_flow_limit may say so, depending on the packet's flow, of a half full queue.
MayBeLimited(n) == n >= MaxBacklog \div 2

\* Mutant: the bit is not tested.
ScheduleAlways(c, t, n) ==
    IF n = 0
    THEN /\ state' = [state EXCEPT ![t] = TRUE]
         /\ raised' = [raised EXCEPT ![c] = TRUE]
         /\ IF t = c THEN link' = [link EXCEPT ![c] = "poll_list"] /\ UNCHANGED ipiList
                     ELSE ipiList' = [ipiList EXCEPT ![c] = <<t>> \o @] /\ UNCHANGED link
    ELSE UNCHANGED <<state, raised, link, ipiList>>

\* The first packet of a queue schedules the backlog, here or (rps_ipi_queued) by
\* putting its CPU on the list for an IPI.
Schedule(c, t, n) ==
    IF n = 0 /\ ~state[t]
    THEN /\ state' = [state EXCEPT ![t] = TRUE]
         /\ raised' = [raised EXCEPT ![c] = TRUE]
         /\ IF t = c THEN link' = [link EXCEPT ![c] = "poll_list"] /\ UNCHANGED ipiList
                     ELSE ipiList' = [ipiList EXCEPT ![c] = <<t>> \o @] /\ UNCHANGED link
    ELSE UNCHANGED <<state, raised, link, ipiList>>

\* CPU c puts p on the queue of t; queues is input_pkt_queue of all CPUs at that time.
EnqueueToBacklog(c, t, p, queues) ==
    LET n == Len(queues[t])
    IN  \/ /\ Running(p) /\ Fits(n)
           /\ input' = [queues EXCEPT ![t] = Append(@, p)]
           /\ Schedule(c, t, n)
           /\ UNCHANGED lost
        \/ /\ ~Running(p) \/ ~Fits(n) \/ MayBeLimited(n)
           /\ input' = queues
           /\ lost' = lost \cup {p}
           /\ UNCHANGED <<state, raised, link, ipiList>>

\* netif_rx, netif_receive_skb: in any context of CPU c a packet arrives, for a CPU that
\* get_rps_cpu has chosen among those that are on.
NetifRx(c, t) ==
    /\ {c, t} \subseteq online
    /\ arrived < MaxPackets
    /\ arrived' = arrived + 1
    /\ EnqueueToBacklog(c, t, arrived + 1, input)
    /\ UNCHANGED <<cpuVars, process, csd, pc, quota, hand, sendVars, deviceVars, served,
                   stranded>>
-----------------------------------------------------------------------------
(* IPIs: net_rps_send_ipi, rps_trigger_softirq.                            *)

\* The next CPU of the list gets its IPI, or is found to be off.
SendIpi(x) ==
    /\ sending[x] # <<>>
    /\ resetting[x] = NoCpu
    /\ LET r == Head(sending[x])
       IN  IF r \in online
           THEN csd' = [csd EXCEPT ![r] = TRUE] /\ UNCHANGED resetting
           ELSE resetting' = [resetting EXCEPT ![x] = r] /\ UNCHANGED csd
    /\ sending' = [sending EXCEPT ![x] = Tail(@)]
    /\ UNCHANGED <<cpuVars, queueVars, state, link, raised, ipiList, pc, quota, deviceVars,
                   countVars, stranded>>

\* remsd->backlog.state = 0 under the lock of remsd, which may be on again by now.
ResetRemote(x) ==
    /\ resetting[x] # NoCpu
    /\ LET r == resetting[x]
       IN  /\ state' = [state EXCEPT ![r] = FALSE]
           /\ stranded' = IF r \in online /\ input[r] # <<>> THEN stranded \cup {r} ELSE stranded
    /\ resetting' = [resetting EXCEPT ![x] = NoCpu]
    /\ UNCHANGED <<cpuVars, queueVars, link, raised, ipiList, csd, pc, quota, sending,
                   deviceVars, countVars>>

\* rps_trigger_softirq, in the interrupt.
RpsTriggerSoftirq(c) ==
    /\ csd[c]
    /\ c \in online
    /\ csd' = [csd EXCEPT ![c] = FALSE]
    /\ link' = [link EXCEPT ![c] = "poll_list"]
    /\ raised' = [raised EXCEPT ![c] = TRUE]
    /\ UNCHANGED <<cpuVars, queueVars, state, ipiList, pc, quota, sendVars, deviceVars,
                   countVars, stranded>>
-----------------------------------------------------------------------------
(* The softirq: net_rx_action, napi_poll, process_backlog.                 *)

\* net_rx_action begins; the poll list moves to a local one.
NetRxAction(c) ==
    /\ c \in online
    /\ raised[c]
    /\ pc[c] = "idle"
    /\ raised' = [raised EXCEPT ![c] = FALSE]
    /\ IF link[c] = "poll_list"
       THEN pc' = [pc EXCEPT ![c] = "poll"] /\ link' = [link EXCEPT ![c] = "list"]
       ELSE pc' = [pc EXCEPT ![c] = "end"] /\ UNCHANGED link
    /\ UNCHANGED <<cpuVars, queueVars, state, ipiList, csd, quota, sendVars, deviceVars,
                   countVars, stranded>>

\* napi_poll takes the backlog off the list and calls process_backlog, which first sends
\* the IPIs that are due.
NapiPoll(c) ==
    /\ pc[c] = "poll"
    /\ link' = [link EXCEPT ![c] = "none"]
    /\ sending' = [sending EXCEPT ![c] = ipiList[c]]
    /\ ipiList' = [ipiList EXCEPT ![c] = <<>>]
    /\ \E w \in Weights : quota' = [quota EXCEPT ![c] = w]
    /\ pc' = [pc EXCEPT ![c] = "loop"]
    /\ UNCHANGED <<cpuVars, queueVars, state, raised, csd, resetting, deviceVars, countVars,
                   stranded>>

\* Mutant: what the call before this one left in process_queue is forgotten.
NextPacketsFresh(c) == input[c]

\* Where process_backlog takes packets from: process_queue or, if that is empty,
\* input_pkt_queue, which is spliced to it.
NextPackets(c) == IF process[c] # <<>> THEN process[c] ELSE input[c]

\* One round of process_backlog with interrupts off: a packet is taken, or both queues
\* are empty and, still under the lock of input_pkt_queue, the backlog is complete.
ProcessBacklog(c) ==
    /\ pc[c] = "loop"
    /\ NothingToSend(c)
    /\ IF NextPackets(c) = <<>>
       THEN /\ state' = [state EXCEPT ![c] = FALSE]
            /\ pc' = [pc EXCEPT ![c] = "polled"]
            /\ quota' = [quota EXCEPT ![c] = 0]
            /\ UNCHANGED <<queueVars, served>>
       ELSE /\ hand' = [hand EXCEPT ![c] = <<Head(NextPackets(c))>>]
            /\ process' = [process EXCEPT ![c] = Tail(NextPackets(c))]
            /\ input' = IF process[c] # <<>> THEN input ELSE [input EXCEPT ![c] = <<>>]
            /\ served' = served \cup {Head(NextPackets(c))}
            /\ pc' = [pc EXCEPT ![c] = "receive"]
            /\ UNCHANGED <<state, quota>>
    /\ UNCHANGED <<cpuVars, link, raised, ipiList, csd, sendVars, deviceVars, arrived,
                   lost, stranded>>

\* __netif_receive_skb returns; at the quota process_backlog does too, and napi_poll puts
\* the backlog on the local repoll list.
Received(c) ==
    /\ pc[c] = "receive"
    /\ hand' = [hand EXCEPT ![c] = <<>>]
    /\ quota' = [quota EXCEPT ![c] = @ - 1]
    /\ IF quota[c] = 1
       THEN pc' = [pc EXCEPT ![c] = "polled"] /\ link' = [link EXCEPT ![c] = "repoll"]
       ELSE pc' = [pc EXCEPT ![c] = "loop"] /\ UNCHANGED link
    /\ UNCHANGED <<cpuVars, input, process, state, raised, ipiList, csd, sendVars,
                   deviceVars, countVars, stranded>>

\* net_rx_action after napi_poll: it returns if there is nothing left to do, and stops
\* in any case when its budget or its time is used up.
Polled(c) ==
    /\ pc[c] = "polled"
    /\ \/ pc' = [pc EXCEPT ![c] = "end"]
       \/ /\ ipiList[c] = <<>>
          /\ link[c] # "repoll"
          /\ pc' = [pc EXCEPT ![c] = "idle"]
    /\ UNCHANGED <<cpuVars, queueVars, wakeVars, quota, sendVars, deviceVars, countVars,
                   stranded>>

\* Mutant: net_rx_action ends without sending the IPIs that are due.
EndSilently(c) ==
    /\ pc[c] = "end"
    /\ link' = [link EXCEPT ![c] = IF @ = "repoll" THEN "poll_list" ELSE @]
    /\ raised' = [raised EXCEPT ![c] = @ \/ link[c] = "repoll"]
    /\ pc' = [pc EXCEPT ![c] = "idle"]
    /\ UNCHANGED <<cpuVars, queueVars, state, ipiList, csd, quota, sendVars, deviceVars,
                   countVars, stranded>>

\* The end of net_rx_action: what is to be polled again goes back to the poll list, and
\* the IPIs that are due are taken to be sent.
End(c) ==
    /\ pc[c] = "end"
    /\ link' = [link EXCEPT ![c] = IF @ = "repoll" THEN "poll_list" ELSE @]
    /\ raised' = [raised EXCEPT ![c] = @ \/ link[c] # "none"]
    /\ sending' = [sending EXCEPT ![c] = ipiList[c]]
    /\ ipiList' = [ipiList EXCEPT ![c] = <<>>]
    /\ pc' = [pc EXCEPT ![c] = "send"]
    /\ UNCHANGED <<cpuVars, queueVars, state, csd, quota, resetting, deviceVars, countVars,
                   stranded>>

\* net_rps_send_ipi is through, net_rx_action returns.
Sent(c) ==
    /\ pc[c] = "send"
    /\ NothingToSend(c)
    /\ pc' = [pc EXCEPT ![c] = "idle"]
    /\ UNCHANGED <<cpuVars, queueVars, wakeVars, quota, sendVars, deviceVars, countVars,
                   stranded>>
-----------------------------------------------------------------------------
(* CPU hotplug: dev_cpu_callback.                                          *)

\* A CPU goes off.  All CPUs take part in that (stop_machine), so no softirq is under
\* way; an IPI that is on its way to the CPU is handled before it is off.
CpuDown(r) ==
    /\ dying = NoCpu
    /\ downs < MaxHotplug
    /\ r \in online /\ online # {r}
    /\ \A c \in Cpu : pc[c] = "idle"
    /\ device # "flushing"
    /\ online' = online \ {r}
    /\ dying' = r
    /\ stage' = "lists"
    /\ downs' = downs + 1
    /\ csd' = [csd EXCEPT ![r] = FALSE]
    /\ link' = [link EXCEPT ![r] = IF csd[r] THEN "poll_list" ELSE @]
    /\ raised' = [raised EXCEPT ![r] = FALSE]
    /\ UNCHANGED <<queueVars, state, ipiList, pc, quota, sendVars, deviceVars, countVars,
                   stranded>>

\* dev_cpu_callback takes the backlog off the dead CPU's poll list and clears its bit,
\* and goes on to send the IPIs the dead CPU had not sent.
DeadLists ==
    /\ stage = "lists"
    /\ stage' = "drain"
    /\ link' = [link EXCEPT ![dying] = "none"]
    /\ state' = [state EXCEPT ![dying] = @ /\ link[dying] = "none"]
    /\ sending' = [sending EXCEPT ![Hotplug] = ipiList[dying]]
    /\ ipiList' = [ipiList EXCEPT ![dying] = <<>>]
    /\ UNCHANGED <<online, dying, downs, queueVars, raised, csd, pc, quota, resetting,
                   deviceVars, countVars, stranded>>

\* Mutant: the newer packets first.
DeadQueueInputFirst ==
    IF input[dying] # <<>> THEN <<"input", Head(input[dying])>>
    ELSE IF process[dying] # <<>> THEN <<"process", Head(process[dying])>> ELSE <<>>

\* The packet dev_cpu_callback takes next: process_queue goes first.
DeadQueue ==
    IF process[dying] # <<>> THEN <<"process", Head(process[dying])>>
    ELSE IF input[dying] # <<>> THEN <<"input", Head(input[dying])>> ELSE <<>>

\* dev_cpu_callback hands one packet to netif_rx_ni, on the CPU c it runs on.
DeadDrain(c, t) ==
    /\ stage = "drain"
    /\ NothingToSend(Hotplug)
    /\ {c, t} \subseteq online
    /\ DeadQueue # <<>>
    /\ IF DeadQueue[1] = "process"
       THEN /\ process' = [process EXCEPT ![dying] = Tail(@)]
            /\ EnqueueToBacklog(c, t, DeadQueue[2], input)
       ELSE /\ UNCHANGED process
            /\ EnqueueToBacklog(c, t, DeadQueue[2], [input EXCEPT ![dying] = Tail(@)])
    /\ UNCHANGED <<cpuVars, hand, csd, pc, quota, sendVars, deviceVars, arrived, served,
                   stranded>>

\* dev_cpu_callback returns.
DeadDone ==
    /\ stage = "drain"
    /\ NothingToSend(Hotplug)
    /\ DeadQueue = <<>>
    /\ stage' = "none"
    /\ dying' = NoCpu
    /\ UNCHANGED <<online, downs, queueVars, wakeVars, pc, quota, sendVars, deviceVars,
                   countVars, stranded>>

\* A CPU comes back.
CpuUp(r) ==
    /\ dying = NoCpu
    /\ r \notin online
    /\ online' = online \cup {r}
    /\ UNCHANGED <<dying, stage, downs, queueVars, wakeVars, pc, quota, sendVars, deviceVars,
                   countVars, stranded>>
-----------------------------------------------------------------------------
(* A device goes away: rollback_registered_many, flush_backlog.            *)

CloseDevice ==
    /\ device = "up"
    /\ OfGone # {}
    /\ device' = "closed"
    /\ UNCHANGED <<cpuVars, queueVars, wakeVars, pc, quota, sendVars, toFlush, countVars,
                   stranded>>

\* on_each_cpu(flush_backlog, dev, 1) sends its interrupts.
FlushBegin ==
    /\ device = "closed"
    /\ device' = "flushing"
    /\ toFlush' = online
    /\ UNCHANGED <<cpuVars, queueVars, wakeVars, pc, quota, sendVars, countVars, stranded>>

\* Mutant: flush_backlog leaves process_queue alone.
FlushInputOnly(c) ==
    /\ c \in toFlush
    /\ input' = [input EXCEPT ![c] = Kept(@)]
    /\ lost' = lost \cup (OfGone \cap Elements(input[c]))
    /\ toFlush' = toFlush \ {c}
    /\ UNCHANGED <<cpuVars, process, hand, wakeVars, pc, quota, sendVars, device, arrived,
                   served, stranded>>

\* flush_backlog on CPU c.
FlushBacklog(c) ==
    /\ c \in toFlush
    /\ input' = [input EXCEPT ![c] = Kept(@)]
    /\ process' = [process EXCEPT ![c] = Kept(@)]
    /\ lost' = lost \cup (OfGone \cap (Elements(input[c]) \cup Elements(process[c])))
    /\ toFlush' = toFlush \ {c}
    /\ UNCHANGED <<cpuVars, hand, wakeVars, pc, quota, sendVars, device, arrived, served,
                   stranded>>

FlushEnd ==
    /\ device = "flushing"
    /\ toFlush = {}
    /\ device' = "flushed"
    /\ UNCHANGED <<cpuVars, queueVars, wakeVars, pc, quota, sendVars, toFlush, countVars,
                   stranded>>

\* synchronize_net has waited for every __netif_receive_skb under way; the device is freed.
FreeDevice ==
    /\ device = "flushed"
    /\ \A c \in Cpu : Elements(hand[c]) \cap OfGone = {}
    /\ device' = "freed"
    /\ UNCHANGED <<cpuVars, queueVars, wakeVars, pc, quota, sendVars, toFlush, countVars,
                   stranded>>
-----------------------------------------------------------------------------
SoftirqStep(c) == \/ NetRxAction(c) \/ NapiPoll(c) \/ ProcessBacklog(c)
                  \/ Received(c) \/ Polled(c) \/ End(c) \/ Sent(c)
IpiStep(x) == SendIpi(x) \/ ResetRemote(x)
HotplugStep == DeadLists \/ DeadDone \/ \E c, t \in Cpu : DeadDrain(c, t)
DeviceStep == CloseDevice \/ FlushBegin \/ FlushEnd \/ FreeDevice

Next == \/ \E c, t \in Cpu : NetifRx(c, t)
        \/ \E c \in Cpu : \/ SoftirqStep(c) \/ RpsTriggerSoftirq(c)
                          \/ FlushBacklog(c) \/ CpuDown(c) \/ CpuUp(c)
        \/ \E x \in Ctx : IpiStep(x)
        \/ HotplugStep
        \/ DeviceStep

Spec == Init /\ [][Next]_vars

\* Pending softirqs run, interrupts arrive, dev_cpu_callback goes on.
Fairness == /\ \A c \in Cpu : WF_vars(SoftirqStep(c)) /\ WF_vars(RpsTriggerSoftirq(c))
            /\ \A x \in Ctx : WF_vars(IpiStep(x))
            /\ WF_vars(HotplugStep)

FairSpec == Spec /\ Fairness
-----------------------------------------------------------------------------
(* Properties.                                                             *)

QueueTypes ==
    /\ input \in [Cpu -> Seq(Packet)] /\ process \in [Cpu -> Seq(Packet)]
    /\ hand \in [Cpu -> Seq(Packet)] /\ \A c \in Cpu : Len(hand[c]) <= 1
    \* the two queues never hold more than one packet above twice the limit
    /\ \A c \in Cpu : Len(input[c]) <= MaxBacklog + 1 /\ Len(process[c]) <= MaxBacklog

WakeTypes ==
    /\ state \in [Cpu -> BOOLEAN] /\ raised \in [Cpu -> BOOLEAN] /\ csd \in [Cpu -> BOOLEAN]
    /\ link \in [Cpu -> {"none", "poll_list", "list", "repoll"}]
    /\ ipiList \in [Cpu -> Seq(Cpu)]

SoftirqTypes ==
    /\ pc \in [Cpu -> {"idle", "poll", "loop", "receive", "polled", "end", "send"}]
    /\ quota \in [Cpu -> Nat]
    /\ \A c \in Cpu : quota[c] > 0 <=> pc[c] \in {"loop", "receive"}
    /\ sending \in [Ctx -> Seq(Cpu)] /\ resetting \in [Ctx -> Cpu \cup {NoCpu}]

OtherTypes ==
    /\ online \subseteq Cpu /\ online # {} /\ dying \in Cpu \cup {NoCpu}
    /\ stage \in {"none", "lists", "drain"} /\ downs \in 0 .. MaxHotplug
    /\ device \in {"up", "closed", "flushing", "flushed", "freed"} /\ toFlush \subseteq Cpu
    /\ arrived \in 0 .. MaxPackets /\ served \subseteq Packet /\ lost \subseteq Packet
    /\ stranded \subseteq Cpu

TypeOK == QueueTypes /\ WakeTypes /\ SoftirqTypes /\ OtherTypes

\* Who is going to run c's process_backlog, or is running it.
Owners(c) ==
    {<<"list", x>> : x \in {x \in Cpu : c \in Elements(ipiList[x])}}
        \cup {<<"sending", x>> : x \in {x \in Ctx : c \in Elements(sending[x]) \/ resetting[x] = c}}
        \cup {<<"ipi", c>> : x \in {x \in {c} : csd[c]}}
        \cup {<<"poll", c>> : x \in {x \in {c} : link[c] # "none"}}
        \cup {<<"running", c>> : x \in {x \in {c} : pc[c] \in {"loop", "receive"}}}

\* NAPI_STATE_SCHED means that exactly one context is going to run process_backlog: the
\* poll list link and the IPI's descriptor exist once per CPU and are never used twice.
SchedHasOneOwner ==
    TypeOK /\ \A c \in Cpu :
                   /\ state[c] => Cardinality(Owners(c)) = 1
                   /\ ~state[c] => Owners(c) = {}

\* No packet waits for a CPU whose backlog nobody will run, but for a CPU that comes on
\* between another's cpu_online test and the reset of its bit, or is being cleared out.
QueueIsScheduled ==
    \A c \in online : input[c] \o process[c] # <<>> => state[c] \/ c \in stranded

\* Backlogs are FIFO queues that lose no packet and serve none twice.
BQ == INSTANCE BacklogQueue WITH fifo <- [c \in Cpu |-> process[c] \o input[c]]

ImplementsQueue == BQ!Spec

\* Once the device is freed no CPU that is on holds a packet of it, queued or in hand.
GoneDeviceLeavesNothing ==
    device = "freed" =>
        \A c \in online :
            (Elements(input[c]) \cup Elements(process[c]) \cup Elements(hand[c])) \cap OfGone = {}

\* process_backlog's comment: "only current cpu owns and manipulates this napi": nobody
\* but CPU c itself, in process_backlog, clears the bit of a CPU that is on.
OnlyOwnerClears == [][\A c \in online : state[c] /\ ~state'[c] => pc[c] = "loop"]_vars

\* Again and again every packet that has arrived is served or discarded, unless a CPU is
\* stranded: none of them waits for ever.
QueuesDrain == []<>((\A p \in 1 .. arrived : p \in served \cup lost) \/ stranded # {})
=============================================================================
