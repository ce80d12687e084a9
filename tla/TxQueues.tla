------------------------------ MODULE TxQueues ------------------------------
(***************************************************************************)
(* The transmit queues of a device in src/dev.c: how many are in use       *)
(* (netif_set_real_num_tx_queues), which traffic class and which CPU may   *)
(* use which (netif_setup_tc, netif_set_xps_queue), and which one a packet *)
(* gets (netdev_pick_tx) while all that changes under it.  A packet a      *)
(* driver hands to another device with accel_priv (dev_queue_xmit_accel)   *)
(* goes where it is sent, even to a queue out of use.                      *)
(*                                                                         *)
(* Three parties: a task with the RTNL that changes the number, a writer   *)
(* of the XPS files, which holds xps_map_mutex only, and a CPU that sends  *)
(* and is in an RCU read-side section from Pick to Enqueue.                *)
(*                                                                         *)
(* A map of a CPU is a sequence of queues; NULL is <<>>.  A map that is    *)
(* changed in place while get_xps_queue reads it can give it a queue that  *)
(* was there before, which the test against real_num_tx_queues covers too: *)
(* the read is one step here.  The NUMA node of a queue is left out.       *)
(*                                                                         *)
(* External: the hash of a packet, ndo_select_queue, the driver that sets  *)
(* up the traffic classes, the qdisc.                                      *)
(***************************************************************************)
EXTENDS Naturals, Sequences, FiniteSets, SeqOps

CONSTANTS
    Cpu, Online,    \* possible and online CPUs
    Tc, Prio,       \* traffic classes and priorities, from 0 on
    NumQueues,      \* num_tx_queues
    NoQueue,
    MaxConfig       \* bound: changes of the set-up

\* What the values of the constants must satisfy
TxQueuesAssumption ==
    /\ Online \subseteq Cpu /\ 0 \in Tc /\ 0 \in Prio /\ Prio \subseteq Nat
    /\ NumQueues \in Nat \ {0} /\ NoQueue \notin Nat /\ MaxConfig \in Nat

Queue == 0 .. NumQueues - 1

VARIABLES
    real,       \* real_num_tx_queues
    xps,        \* dev->xps_maps is there
    maps,       \* maps[cpu]: its queues
    tcOn,       \* num_tc is not 0
    tcRange,    \* tc_to_txq[tc]: [offset, count]
    prioTc,     \* prio_tc_map
    resizing,   \* the task: "no", or what it does next: "sync", "reset"
    config,
    chosen,     \* the sending CPU: "no", or the queue it has so far
    capped,     \* it has been through netdev_cap_txqueue
    sockQueue,  \* sk_tx_queue_get of the sending socket
    accel,      \* its packet has accel_priv (dev_queue_xmit_accel)
    waiting     \* queues with a packet without accel_priv in their qdisc

confVars == <<real, xps, maps, tcOn, tcRange, prioTc, resizing, config>>
pickVars == <<chosen, capped, sockQueue, accel, waiting>>
txqVars == <<confVars, pickVars>>

Sending == chosen # NoQueue
Fits(tc, n) == tcRange[tc].offset + tcRange[tc].count <= n

Init == /\ real = NumQueues /\ xps = FALSE /\ maps = [c \in Cpu |-> <<>>]
        /\ tcOn = FALSE /\ tcRange = [tc \in Tc |-> [offset |-> 0, count |-> 0]]
        /\ prioTc = [p \in Prio |-> 0]
        /\ resizing = "no" /\ config = 0
        /\ chosen = NoQueue /\ capped = FALSE /\ sockQueue = NoQueue
        /\ accel = FALSE /\ waiting = {}
-----------------------------------------------------------------------------
Change == config < MaxConfig /\ config' = config + 1

\* The driver sets classes up that fit the queues in use.
SetTc(tc, off, n, prios) ==
    /\ Change /\ resizing = "no"
    /\ off + n <= real /\ n > 0
    /\ tcOn' = TRUE
    /\ tcRange' = [c \in Tc |-> IF c = tc THEN [offset |-> off, count |-> n]
                                ELSE IF tcOn THEN tcRange[c]
                                ELSE [offset |-> 0, count |-> 1]]
    /\ prioTc' = [p \in Prio |-> IF p \in prios THEN tc ELSE prioTc[p]]
    /\ UNCHANGED <<real, xps, maps, resizing, pickVars>>

\* netif_setup_tc: the loop over the priorities begins with 1
SetupTc(n) ==
    IF ~tcOn THEN UNCHANGED <<tcOn, prioTc>>
    ELSE IF ~Fits(0, n) THEN tcOn' = FALSE /\ UNCHANGED prioTc
    ELSE /\ prioTc' = [p \in Prio |-> IF p >= 1 /\ ~Fits(prioTc[p], n) THEN 0 ELSE prioTc[p]]
         /\ UNCHANGED tcOn

\* netif_set_real_num_tx_queues up to synchronize_net; only a smaller number waits
SetRealNum(n) ==
    /\ Change /\ resizing = "no"
    /\ n \in 1 .. NumQueues
    /\ SetupTc(n)
    /\ real' = n
    /\ resizing' = IF n < real THEN "sync" ELSE "no"
    /\ UNCHANGED <<xps, maps, tcRange, pickVars>>

\* synchronize_net: the CPU that was sending is done
Synchronized == ~Sending

\* remove_xps_queue: the last queue of the map takes the place of the one removed
Without(map, q) ==
    LET at == {i \in 1 .. Len(map) : map[i] = q}
    IN IF at = {} THEN map
       ELSE Front([map EXCEPT ![Min(at)] = Last(map)])

\* the loop of netif_reset_xps_queues_gt over the queues from first on
WithoutFrom(map, first) ==
    FoldLeft(LAMBDA m, i : Without(m, first + i - 1), map,
             [i \in 1 .. NumQueues - first |-> i])

\* Mutant: the qdiscs are emptied before the senders are gone.
ResetAtOnce ==
    /\ resizing = "sync"
    /\ waiting' = {q \in waiting : q < real}
    /\ maps' = IF xps THEN [c \in Cpu |-> WithoutFrom(maps[c], real)] ELSE maps
    /\ xps' = (xps /\ (real = NumQueues \/ \E c \in Cpu : maps'[c] # <<>>))
    /\ resizing' = "no"
    /\ UNCHANGED <<real, tcOn, tcRange, prioTc, config, chosen, capped, sockQueue, accel>>

\* qdisc_reset_all_tx_gt and netif_reset_xps_queues_gt
ResetGt ==
    /\ resizing = "sync" /\ Synchronized
    /\ waiting' = {q \in waiting : q < real}
    /\ maps' = IF xps THEN [c \in Cpu |-> WithoutFrom(maps[c], real)] ELSE maps
    /\ xps' = (xps /\ (real = NumQueues \/ \E c \in Cpu : maps'[c] # <<>>))
    /\ resizing' = "no"
    /\ UNCHANGED <<real, tcOn, tcRange, prioTc, config, chosen, capped, sockQueue, accel>>

\* expand_xps_map and the addition
With(map, q) == IF Contains(map, q) THEN map ELSE Append(map, q)

\* netif_set_xps_queue.  A file exists only for a queue in use.  When memory runs out
\* the new maps are freed and nothing has changed.
SetXps(mask, q) ==
    /\ Change
    /\ q < real
    /\ LET grown == mask \cap Online
           filled == [c \in Cpu |-> IF c \in grown THEN With(maps[c], q) ELSE maps[c]]
           active == grown # {} \/ \E c \in Cpu : maps'[c] # <<>>
       IN IF xps \/ grown # {}
          THEN /\ maps' = [c \in Cpu |-> IF c \in grown THEN filled[c]
                                         ELSE Without(filled[c], q)]
               /\ xps' = active
          ELSE UNCHANGED <<maps, xps>>
    /\ UNCHANGED <<real, tcOn, tcRange, prioTc, resizing, pickVars>>
-----------------------------------------------------------------------------
(* Sending: netdev_pick_tx and the queueing that follows in                *)
(* __dev_queue_xmit, all under rcu_read_lock_bh.                           *)

\* get_xps_queue: a queue of the CPU's map, unless that one is out of use
XpsQueues(cpu) == {q \in ToSet(maps[cpu]) : xps /\ q < real}
XpsMayFail(cpu) == XpsQueues(cpu) # ToSet(maps[cpu]) \/ XpsQueues(cpu) = {}

\* __skb_tx_hash: the queue the packet was received on, the range of its class, or any
HashQueues(prio) ==
    (0 .. real - 1) \cup
    {tcRange[prioTc[prio]].offset + i :
         i \in IF tcOn THEN 0 .. tcRange[prioTc[prio]].count - 1 ELSE {}}

\* __netdev_pick_tx, of a packet with a socket or without one
Fresh(cpu, prio) == XpsQueues(cpu) \cup IF XpsMayFail(cpu) THEN HashQueues(prio) ELSE {}
Pick(cpu, prio, ooo, withAccel) ==
    /\ ~Sending
    /\ real # 1
    /\ IF sockQueue # NoQueue /\ ~ooo /\ sockQueue < real
       THEN chosen' = sockQueue /\ UNCHANGED sockQueue
       ELSE \E q \in Fresh(cpu, prio) : chosen' = q /\ sockQueue' \in {q, sockQueue}
    /\ accel' = withAccel
    /\ UNCHANGED <<confVars, capped, waiting>>

\* netdev_pick_tx with one queue in use
PickOnly(withAccel) ==
    /\ ~Sending
    /\ real = 1
    /\ chosen' = 0 /\ capped' = TRUE /\ accel' = withAccel
    /\ UNCHANGED <<confVars, sockQueue, waiting>>

\* ndo_select_queue: any queue of the device
DriverPicks(q, withAccel) ==
    /\ ~Sending
    /\ real # 1
    /\ chosen' = q /\ accel' = withAccel
    /\ UNCHANGED <<confVars, capped, sockQueue, waiting>>

\* netdev_cap_txqueue, which a packet with accel_priv is spared
Cap == /\ Sending /\ ~capped
       /\ chosen' = IF ~accel /\ chosen >= real THEN 0 ELSE chosen
       /\ capped' = TRUE
       /\ UNCHANGED <<confVars, sockQueue, accel, waiting>>

\* __dev_xmit_skb on the queue's qdisc; packets with accel_priv are not followed further
Enqueue == /\ Sending /\ capped
           /\ waiting' = IF accel THEN waiting ELSE waiting \cup {chosen}
           /\ chosen' = NoQueue /\ capped' = FALSE /\ accel' = FALSE
           /\ UNCHANGED <<confVars, sockQueue>>

\* The qdisc runs and the packets of q are gone.
Drain(q) == /\ q \in waiting
            /\ waiting' = waiting \ {q}
            /\ UNCHANGED <<confVars, chosen, capped, sockQueue, accel>>

Next == \/ \E n \in Queue : SetRealNum(n + 1)
        \/ \E tc \in Tc, off \in Queue, n \in Queue : \E prios \in SUBSET Prio :
               SetTc(tc, off, n, prios)
        \/ \E mask \in SUBSET Cpu, q \in Queue : SetXps(mask, q)
        \/ \E withAccel \in BOOLEAN :
               \/ \E cpu \in Cpu, prio \in Prio, ooo \in BOOLEAN : Pick(cpu, prio, ooo, withAccel)
               \/ \E q \in Queue : DriverPicks(q, withAccel)
               \/ PickOnly(withAccel)
        \/ \E q \in Queue : Drain(q)
        \/ ResetGt \/ Cap \/ Enqueue

Spec == Init /\ [][Next]_txqVars
-----------------------------------------------------------------------------
\* Once the number of queues has been reduced nothing is left behind the last one but what
\* a driver has offloaded there: no packet without accel_priv in its qdisc, none on the way
\* to it, no CPU and, but for priority 0, no class that is sent there.
NothingBehindTheLast ==
    resizing = "no" =>
        /\ \A q \in waiting : q < real
        /\ capped /\ ~accel => chosen < real
        /\ \A c \in Cpu : \A q \in ToSet(maps[c]) : q < real
        /\ tcOn => \A p \in Prio \ {0} : Fits(prioTc[p], real)

\* The maps are there as long as one CPU has one, and a queue is in a map once, so that
\* remove_xps_queue removes it.
MapsAreTidy == /\ xps <=> \E c \in Cpu : maps[c] # <<>>
               /\ \A c \in Cpu : Cardinality(ToSet(maps[c])) = Len(maps[c])

QueuesAreSound == NothingBehindTheLast /\ MapsAreTidy
=============================================================================
