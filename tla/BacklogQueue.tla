---------------------------- MODULE BacklogQueue ----------------------------
(***************************************************************************)
(* What the per-CPU backlogs of src/dev.c promise a packet: netif_rx       *)
(* accepts it at the tail of one queue or refuses it; a queue is served    *)
(* from the head; a packet is served at most once; it leaves a queue       *)
(* unserved only when its device goes away or its CPU has gone and the     *)
(* queue is moved, in order, elsewhere.                                    *)
(***************************************************************************)
EXTENDS Naturals, Sequences

CONSTANTS Cpu, Packet

VARIABLES
    fifo,    \* fifo[c]: the packets waiting for CPU c
    served,  \* packets handed to the protocols
    lost     \* packets refused or discarded

vars == <<fifo, served, lost>>

Waiting(c) == {fifo[c][i] : i \in 1 .. Len(fifo[c])}
Known == (UNION {Waiting(c) : c \in Cpu}) \cup served \cup lost

\* f is the sequence s without the packets of D: it has the packets at the places that
\* are left, in order.
Left(s, D) == {i \in 1 .. Len(s) : s[i] \notin D}
IsRest(f, s, D) ==
    \E place \in [1 .. Len(f) -> Left(s, D)] :
        /\ \A j, k \in 1 .. Len(f) : j < k => place[j] < place[k]
        /\ \A i \in Left(s, D) : \E k \in 1 .. Len(f) : place[k] = i
        /\ \A k \in 1 .. Len(f) : f[k] = s[place[k]]

Init == fifo = [c \in Cpu |-> <<>>] /\ served = {} /\ lost = {}

\* A packet that is not known yet is accepted or refused.
Accept(c, p) == /\ fifo' = [fifo EXCEPT ![c] = Append(@, p)]
                /\ UNCHANGED <<served, lost>>

Refuse(p) == /\ lost' = lost \cup {p}
             /\ UNCHANGED <<fifo, served>>

Serve(c) == /\ fifo[c] # <<>>
            /\ served' = served \cup {Head(fifo[c])}
            /\ fifo' = [fifo EXCEPT ![c] = Tail(@)]
            /\ UNCHANGED lost

\* Packets D of a device that goes away are taken out of one queue.
Discard(c, D) == /\ lost' = lost \cup D
                 /\ fifo' = [fifo EXCEPT ![c] = fifo'[c]]
                 /\ IsRest(fifo'[c], fifo[c], D)
                 /\ UNCHANGED served

\* The head of the queue of c, which is off, goes to the tail of d's, or is refused.
Move(c, d) == /\ c # d
              /\ fifo[c] # <<>>
              /\ \/ /\ fifo' = [fifo EXCEPT ![c] = Tail(@), ![d] = Append(@, Head(fifo[c]))]
                    /\ UNCHANGED lost
                 \/ /\ fifo' = [fifo EXCEPT ![c] = Tail(@)]
                    /\ lost' = lost \cup {Head(fifo[c])}
              /\ UNCHANGED served

Next == \/ \E p \in Packet \ Known : Refuse(p) \/ \E c \in Cpu : Accept(c, p)
        \/ \E c \in Cpu : Serve(c)
        \/ \E c \in Cpu : \E D \in (SUBSET Waiting(c)) \ {{}} : Discard(c, D)
        \/ \E c, d \in Cpu : Move(c, d)

Spec == Init /\ [][Next]_vars
=============================================================================
