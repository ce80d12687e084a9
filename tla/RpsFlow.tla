------------------------------ MODULE RpsFlow ------------------------------
(***************************************************************************)
(* Receive flow steering in src/dev.c: one entry of a receive queue's flow *)
(* table, which lets a flow follow its reader to another CPU only once the *)
(* packets sent through the entry are gone from the old one (get_rps_cpu,  *)
(* set_rps_cpu, the counters of enqueue_to_backlog and process_backlog,    *)
(* flush_backlog, dev_cpu_callback).                                       *)
(*                                                                         *)
(* Several receivers share the entry: netif_rx and netif_receive_skb on    *)
(* some CPUs, and dev_cpu_callback.  Each is between get_rps_cpu and       *)
(* enqueue_to_backlog with preemption off; nothing keeps the others out.   *)
(* A CPU's two queues are one here, with the packet in process_backlog's   *)
(* hands apart.  Hardware filters (CONFIG_RFS_ACCEL) are left out.         *)
(*                                                                         *)
(* External: where recvmsg runs, and whether another flow has taken the    *)
(* entry of the global table; the other packets; CPU hotplug.              *)
(***************************************************************************)
EXTENDS Naturals, Sequences, FiniteSets, SeqOps

CONSTANTS
    Cpu, NoCpu,
    Receiver, Callback,     \* the receivers; Callback is dev_cpu_callback
    Width,          \* the counters are modulo Width
    MaxBacklog      \* netdev_max_backlog

\* What the values of the constants must satisfy
RpsFlowAssumption == /\ NoCpu \notin Cpu /\ MaxBacklog \in Nat /\ Callback \in Receiver
                     /\ Width \in Nat /\ Width % 2 = 0 /\ Width >= 2 * (MaxBacklog + 2)

VARIABLES
    on,         \* CPUs that are on
    ident,      \* the CPU in the global table's entry, NoCpu if it is another flow's
    rflowCpu, lastQtail,    \* the entry of the receive queue's table
    fifo,       \* fifo[c]: "flow" for a packet sent through the entry, "other"
    inHand,     \* the packet process_backlog has dequeued
    queueHead, queueTail,   \* input_queue_head, input_queue_tail
    steered,    \* steered[r]: its packet after get_rps_cpu, before the queue: [kind, cpu, from]
    loose       \* the entry has lost a packet: flush_backlog has counted one from behind it,
                \* or it was steered but not queued when another receiver moved the entry

flowVars == <<on, ident, rflowCpu, lastQtail, fifo, inHand, queueHead, queueTail,
              steered, loose>>

Nothing == [kind |-> "none", cpu |-> NoCpu, from |-> NoCpu]

Init == /\ on = Cpu
        /\ ident = NoCpu /\ rflowCpu = NoCpu /\ lastQtail = 0
        /\ fifo = [c \in Cpu |-> <<>>] /\ inHand = [c \in Cpu |-> <<>>]
        /\ queueHead = [c \in Cpu |-> 0] /\ queueTail = [c \in Cpu |-> 0]
        /\ steered = [r \in Receiver |-> Nothing] /\ loose = FALSE

Incr(n) == (n + 1) % Width
Idle(r) == steered[r] = Nothing
Steer(r, kind, cpu, from) ==
    steered' = [steered EXCEPT ![r] = [kind |-> kind, cpu |-> cpu, from |-> from]]
-----------------------------------------------------------------------------
\* (int)(input_queue_head - last_qtail) >= 0
Advanced(c) == (queueHead[c] + Width - lastQtail) % Width < Width \div 2

MaySwitch == /\ rflowCpu # ident
             /\ rflowCpu = NoCpu \/ rflowCpu \notin on \/ Advanced(rflowCpu)

\* get_rps_cpu of a packet of the flow: the entry's CPU, after set_rps_cpu perhaps; if
\* that is off, or the global entry is not the flow's, any CPU that is on by the map
GetRpsCpu(r, from) ==
    LET switch == ident # NoCpu /\ MaySwitch
        tcpu == IF switch THEN ident ELSE rflowCpu
    IN  /\ rflowCpu' = tcpu
        /\ lastQtail' = IF switch THEN queueHead[ident] ELSE lastQtail
        /\ loose' = (loose \/ (switch /\ \E s \in Receiver : steered[s].kind = "flow"))
        /\ IF ident # NoCpu /\ tcpu \in on THEN Steer(r, "flow", tcpu, from)
           ELSE \E c \in on : Steer(r, "other", c, from)

\* A packet for a backlog: of the flow, or not
Receive(r) == /\ Idle(r)
              /\ \/ GetRpsCpu(r, NoCpu)
                 \/ /\ \E c \in on : Steer(r, "other", c, NoCpu)
                    /\ UNCHANGED <<rflowCpu, lastQtail, loose>>
              /\ UNCHANGED <<on, ident, fifo, inHand, queueHead, queueTail>>

\* Mutant: the entry remembers the tail from before the packet.
QtailBefore(c) == queueTail[c]

\* input_queue_tail_incr_save
Qtail(c) == Incr(queueTail[c])

\* enqueue_to_backlog; dev_cpu_callback counts the packet as gone from the dead CPU
Enqueue(r) ==
    LET c == steered[r].cpu
        from == steered[r].from
    IN
    /\ ~Idle(r)
    /\ \/ /\ Len(fifo[c]) <= MaxBacklog
          /\ fifo' = [fifo EXCEPT ![c] = Append(@, steered[r].kind)]
          /\ queueTail' = [queueTail EXCEPT ![c] = Incr(@)]
          /\ lastQtail' = IF steered[r].kind = "flow" THEN Qtail(c) ELSE lastQtail
       \/ UNCHANGED <<fifo, queueTail, lastQtail>>      \* dropped
    /\ queueHead' = IF from = NoCpu THEN queueHead ELSE [queueHead EXCEPT ![from] = Incr(@)]
    /\ steered' = [steered EXCEPT ![r] = Nothing]
    /\ UNCHANGED <<on, ident, rflowCpu, inHand, loose>>

\* process_backlog takes a packet, hands it up, and counts it
Dequeue(c) == /\ c \in on
              /\ inHand[c] = <<>> /\ fifo[c] # <<>>
              /\ inHand' = [inHand EXCEPT ![c] = <<Head(fifo[c])>>]
              /\ fifo' = [fifo EXCEPT ![c] = Tail(@)]
              /\ UNCHANGED <<on, ident, rflowCpu, lastQtail, queueHead, queueTail, steered, loose>>

Processed(c) == /\ inHand[c] # <<>>
                /\ inHand' = [inHand EXCEPT ![c] = <<>>]
                /\ queueHead' = [queueHead EXCEPT ![c] = Incr(@)]
                /\ UNCHANGED <<on, ident, rflowCpu, lastQtail, fifo, queueTail, steered, loose>>

\* flush_backlog: a packet of the device that goes, wherever in the queue, counts as
\* one from its head
Flush(c, i) ==
    /\ c \in on
    /\ i \in DOMAIN fifo[c] /\ fifo[c][i] = "other"
    /\ fifo' = [fifo EXCEPT ![c] = RemoveAt(@, i)]
    /\ queueHead' = [queueHead EXCEPT ![c] = Incr(@)]
    /\ loose' = (loose \/ Contains(inHand[c] \o SubSeq(fifo[c], 1, i - 1), "flow"))
    /\ UNCHANGED <<on, ident, rflowCpu, lastQtail, inHand, queueTail, steered>>
-----------------------------------------------------------------------------
\* recvmsg on a CPU writes it into the global table; or another flow's does
Recvmsg(c) == /\ ident # c
              /\ ident' = c
              /\ UNCHANGED <<on, rflowCpu, lastQtail, fifo, inHand, queueHead, queueTail,
                             steered, loose>>

\* stop_machine: nobody receives meanwhile
CpuDown(c) == /\ c \in on /\ on # {c} /\ on = Cpu
              /\ (\A r \in Receiver : Idle(r)) /\ inHand[c] = <<>>
              /\ on' = on \ {c}
              /\ UNCHANGED <<ident, rflowCpu, lastQtail, fifo, inHand, queueHead, queueTail,
                             steered, loose>>

\* dev_cpu_callback: netif_rx_ni for each packet of the dead CPU
Reinject(c) == /\ c \notin on /\ fifo[c] # <<>>
               /\ Idle(Callback)
               /\ fifo' = [fifo EXCEPT ![c] = Tail(@)]
               /\ \/ GetRpsCpu(Callback, c)
                  \/ /\ Head(fifo[c]) = "other"
                     /\ \E d \in on : Steer(Callback, "other", d, c)
                     /\ UNCHANGED <<rflowCpu, lastQtail, loose>>
               /\ UNCHANGED <<on, ident, inHand, queueHead, queueTail>>

CpuUp(c) == /\ c \notin on /\ fifo[c] = <<>> /\ Idle(Callback)
            /\ on' = on \cup {c}
            /\ UNCHANGED <<ident, rflowCpu, lastQtail, fifo, inHand, queueHead, queueTail,
                           steered, loose>>

Next == \/ \E r \in Receiver \ {Callback} : Receive(r)
        \/ \E r \in Receiver : Enqueue(r)
        \/ \E c \in Cpu : \/ Dequeue(c) \/ Processed(c) \/ \E i \in 1 .. MaxBacklog + 1 : Flush(c, i)
                          \/ CpuDown(c) \/ Reinject(c) \/ CpuUp(c)
        \/ \E c \in Cpu \cup {NoCpu} : Recvmsg(c)

Spec == Init /\ [][Next]_flowVars
-----------------------------------------------------------------------------
\* The packets of a flow are not on two CPUs at once, so that no CPU can serve a later
\* one first: whatever is queued through the entry on a CPU that is on, in
\* process_backlog's hands or about to be queued is on the entry's CPU.  Two things are
\* excepted, against the comment at src/dev.c:3418: flush_backlog, which moves
\* input_queue_head past packets that are still queued, and a receiver that moves the
\* entry while another one's packet is between get_rps_cpu and the queue.
FlowStaysTogether ==
    ~loose => /\ \A r \in Receiver : steered[r].kind = "flow" => steered[r].cpu = rflowCpu
              /\ \A c \in on \ {rflowCpu} : ~Contains(fifo[c] \o inHand[c], "flow")

\* The counters are as far apart as there are packets between them.
CountersFit ==
    \A c \in Cpu : (queueTail[c] + Width - queueHead[c]) % Width
                     = Len(fifo[c]) + Len(inHand[c]) + (IF steered[Callback].from = c THEN 1 ELSE 0)

FlowsAreSound == FlowStaysTogether /\ CountersFit
=============================================================================
