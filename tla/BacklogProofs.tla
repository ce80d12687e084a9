--------------------------- MODULE BacklogProofs ---------------------------
(***************************************************************************)
(* Theorems about the per-CPU backlogs (Backlog), for any CPUs, packets    *)
(* and limits.                                                             *)
(***************************************************************************)
EXTENDS Backlog, FiniteSetTheorems, SequenceTheorems, WellFoundedInduction, TLAPS

-----------------------------------------------------------------------------
(* What is left of a queue.                                                *)

\* A set of numbers that is not empty has a smallest one.
LEMMA Smallest == ASSUME NEW M \in SUBSET Nat, M # {}
                  PROVE  \E m \in M : \A k \in M : m <= k
<1> DEFINE R == OpToRel(<, Nat)
<1>1. PICK m \in M : \A k \in M : ~ (<<k, m>> \in R)
  BY NatLessThanWellFounded, WFMin, Zenon
<1>2. \A k, l \in Nat : k < l => <<k, l>> \in R
  BY DEF OpToRel
<1> HIDE DEF R
<1>3. \A k \in M : ~ (k < m)
  BY <1>1, <1>2
<1> QED BY <1>3

\* What is left can be counted, up to any place.
LEMMA LeftFinite ==
    ASSUME NEW s \in Seq(Packet)
    PROVE  /\ Left(s) \subseteq 1 .. Len(s) /\ Len(s) \in Nat
           /\ IsFiniteSet(Left(s)) /\ Cardinality(Left(s)) \in Nat
           /\ Cardinality(Left(s)) <= Len(s)
           /\ \A i : /\ UpTo(s, i) \subseteq Left(s) /\ IsFiniteSet(UpTo(s, i))
                     /\ Cardinality(UpTo(s, i)) \in Nat
                     /\ Cardinality(UpTo(s, i)) <= Cardinality(Left(s))
<1>1. Left(s) \in SUBSET (1 .. Len(s)) /\ Len(s) \in Nat
  BY DEF Left
<1>2. IsFiniteSet(1 .. Len(s)) /\ Cardinality(1 .. Len(s)) = Len(s)
  <2>1. 1 \in Int /\ Len(s) \in Int
    BY <1>1
  <2>2. /\ IsFiniteSet(1 .. Len(s))
        /\ Cardinality(1 .. Len(s)) = IF 1 > Len(s) THEN 0 ELSE Len(s) - 1 + 1
    BY <2>1, FS_Interval
  <2> QED BY <1>1, <2>2
<1>3. IsFiniteSet(Left(s)) /\ Cardinality(Left(s)) <= Cardinality(1 .. Len(s))
  BY <1>1, <1>2, FS_Subset
<1>4. Cardinality(Left(s)) \in Nat
  BY <1>3, FS_CardinalityType
<1>5. \A i : UpTo(s, i) \in SUBSET Left(s)
  BY DEF UpTo
<1>6. \A i : IsFiniteSet(UpTo(s, i)) /\ Cardinality(UpTo(s, i)) <= Cardinality(Left(s))
  BY <1>3, <1>5, FS_Subset
<1>7. \A i : Cardinality(UpTo(s, i)) \in Nat
  BY <1>6, FS_CardinalityType
<1> QED BY <1>1, <1>2, <1>3, <1>4, <1>5, <1>6, <1>7

\* Each of the first numbers is the number of places left up to one of them.
LEMMA EveryPlace ==
    ASSUME NEW s \in Seq(Packet), NEW n \in 1 .. Cardinality(Left(s))
    PROVE  Place(s, n) \in Left(s) /\ Cardinality(UpTo(s, Place(s, n))) = n
<1> DEFINE Count(i) == Cardinality(UpTo(s, i))
           M == {m \in Nat : Count(m) >= n}
<1>1. n \in Nat /\ n > 0 /\ Cardinality(Left(s)) >= n
  BY LeftFinite
<1>2. \A i : Count(i) \in Nat
  BY LeftFinite
<1>3. Len(s) \in M
  <2>1. UpTo(s, Len(s)) = Left(s)
    BY LeftFinite DEF UpTo
  <2> QED BY <1>1, <2>1, LeftFinite
<1>4. PICK m \in M : \A k \in M : m <= k
  <2> HIDE DEF M
  <2>1. M \in SUBSET Nat
    BY DEF M
  <2> QED BY <1>3, <2>1, Smallest
<1>5. Count(0) = 0
  <2>1. UpTo(s, 0) = {}
    BY LeftFinite DEF UpTo
  <2> QED BY <2>1, FS_EmptySet
<1>6. m \in Nat /\ Count(m) >= n /\ m - 1 \in Nat
  <2> HIDE DEF Count
  <2> QED BY <1>1, <1>5
<1>7. Count(m - 1) < n
  <2> HIDE DEF Count
  <2> QED BY <1>1, <1>2, <1>4, <1>6
<1>8. m \in Left(s)
  <2> SUFFICES ASSUME m \notin Left(s) PROVE FALSE
    OBVIOUS
  <2>1. UpTo(s, m) = UpTo(s, m - 1)
    BY <1>6, LeftFinite DEF UpTo
  <2>2. Count(m) = Count(m - 1)
    BY <2>1
  <2> HIDE DEF Count
  <2> QED BY <1>1, <1>2, <1>6, <1>7, <2>2
<1>9. Count(m) = Count(m - 1) + 1
  <2>1. UpTo(s, m) = UpTo(s, m - 1) \cup {m} /\ m \notin UpTo(s, m - 1)
    BY <1>6, <1>8, LeftFinite DEF UpTo
  <2>2. IsFiniteSet(UpTo(s, m - 1))
    BY LeftFinite
  <2> QED BY <2>1, <2>2, FS_AddElement
<1>10. Count(m) = n
  <2> HIDE DEF Count
  <2> QED BY <1>1, <1>2, <1>6, <1>7, <1>9
<1> QED BY <1>8, <1>10 DEF Place

\* What is left are packets of the queue, none of the device, and not more than before.
LEMMA KeptType ==
    ASSUME NEW s \in Seq(Packet)
    PROVE  /\ Kept(s) \in Seq(Packet)
           /\ Len(Kept(s)) <= Len(s)
           /\ Elements(Kept(s)) \subseteq Elements(s) \ OfGone
<1> DEFINE n == Cardinality(Left(s))
           w == Kept(s)
<1>1. n \in Nat /\ n <= Len(s)
  BY LeftFinite
<1>2. \A k \in 1 .. n : w[k] \in Elements(s) \ OfGone /\ w[k] \in Packet
  <2> TAKE k \in 1 .. n
  <2>1. Place(s, k) \in 1 .. Len(s) /\ s[Place(s, k)] \notin OfGone
    BY EveryPlace DEF Left
  <2> QED BY <2>1 DEF Kept, Elements
<1>3. w \in [1 .. n -> Packet]
  BY <1>2 DEF Kept
<1>4. w \in Seq(Packet) /\ Len(w) = n
  <2> HIDE DEF n, w
  <2> QED BY <1>1, <1>3
<1> QED BY <1>1, <1>2, <1>4 DEF Elements
-----------------------------------------------------------------------------
(* The invariant.                                                          *)

\* Who has c, as in Owners: a CPU on its list, a context that sends or resets, or c itself.
OnList(x, c) == c \in Elements(ipiList[x])
InSend(x, c) == c \in Elements(sending[x]) \/ resetting[x] = c
Runs(c) == pc[c] \in {"loop", "receive"}
Awake(c) == csd[c] \/ link[c] # "none" \/ Runs(c)
Distinct(s) == \A i, j \in 1 .. Len(s) : s[i] = s[j] => i = j

\* dev_cpu_callback is at work for a CPU that is off; softirqs run, and IPIs arrive, on CPUs
\* that are on.
HotplugOK == /\ stage = "none" <=> dying = NoCpu
             /\ dying \notin online
             /\ \A c \in Cpu \ online : pc[c] = "idle" /\ ~csd[c]

\* Only a softirq in process_backlog or at its end, and dev_cpu_callback, send IPIs.
SendOK == /\ \A c \in Cpu : pc[c] \notin {"loop", "send"} => NothingToSend(c)
          /\ stage # "drain" => NothingToSend(Hotplug)

\* Where the softirq is tells where the backlog's link is.
LinkOK == \A c \in Cpu : /\ pc[c] = "poll" => link[c] = "list"
                         /\ pc[c] \in {"idle", "send"} => link[c] \in {"none", "poll_list"}
                         /\ link[c] = "list" => pc[c] = "poll"
                         /\ csd[c] => link[c] = "none"
                         /\ Runs(c) => link[c] = "none" /\ ~csd[c]

\* No two have a CPU, none has it twice, and the bit says that one has it.
OneLists == \A c, x, y \in Cpu : OnList(x, c) /\ OnList(y, c) => x = y
OneSends == \A c \in Cpu : \A x, y \in Ctx : InSend(x, c) /\ InSend(y, c) => x = y
NotBoth == \A c, x \in Cpu : \A y \in Ctx : ~(OnList(x, c) /\ InSend(y, c))
AwakeAlone == \A c \in Cpu : Awake(c) => /\ \A x \in Cpu : ~OnList(x, c)
                                         /\ \A y \in Ctx : ~InSend(y, c)
BitTells == \A c \in Cpu : state[c] <=> \/ Awake(c)
                                        \/ \E x \in Cpu : OnList(x, c)
                                        \/ \E y \in Ctx : InSend(y, c)
OwnOK == OneLists /\ OneSends /\ NotBoth /\ AwakeAlone /\ BitTells

DistinctOK ==
    /\ \A x \in Cpu : Distinct(ipiList[x])
    /\ \A x \in Ctx : Distinct(sending[x]) /\ resetting[x] \notin Elements(sending[x])

\* A CPU that is off has been cleared out, and what a call of process_backlog has left
\* in process_queue is left to c itself.
QueueOK ==
    /\ \A c \in Cpu \ online : c # dying => input[c] = <<>> /\ process[c] = <<>>
    /\ \A c \in online : process[c] # <<>> => Runs(c) \/ link[c] # "none"
    /\ \A c \in Cpu : hand[c] # <<>> => pc[c] = "receive"

\* Once a CPU has run flush_backlog, or is not waited for, it holds no packet of the device.
FlushOK ==
    /\ device = "flushing" => toFlush \subseteq online
    /\ device \in {"flushing", "flushed", "freed"} =>
          \A c \in online : device # "flushing" \/ c \notin toFlush =>
              (Elements(input[c]) \cup Elements(process[c])) \cap OfGone = {}
    /\ device = "freed" => \A c \in Cpu : Elements(hand[c]) \cap OfGone = {}

TInv == TypeOK /\ HotplugOK
OInv == SendOK /\ LinkOK /\ OwnOK /\ DistinctOK
QInv == QueueOK /\ FlushOK /\ QueueIsScheduled
IInv == TInv /\ OInv /\ QInv
-----------------------------------------------------------------------------
(* Sequences.                                                              *)

LEMMA Emptied == Elements(<<>>) = {} /\ Distinct(<<>>)
  BY DEF Elements, Distinct

LEMMA NotEmpty == ASSUME NEW S, NEW s \in Seq(S)
                  PROVE  (Elements(s) = {} <=> s = <<>>) /\ Elements(s) \subseteq S
<1>1. s # <<>> => 1 \in 1 .. Len(s)
  OBVIOUS
<1>2. Elements(s) \subseteq S
  BY DEF Elements
<1>3. s # <<>> => Elements(s) # {}
  BY <1>1 DEF Elements
<1> QED BY <1>2, <1>3, Emptied

LEMMA Prefixed ==
    ASSUME NEW S, NEW s \in Seq(S), NEW t \in S
    PROVE  /\ <<t>> \o s \in Seq(S)
           /\ Elements(<<t>> \o s) = {t} \cup Elements(s)
           /\ Distinct(s) /\ t \notin Elements(s) => Distinct(<<t>> \o s)
<1> DEFINE u == <<t>> \o s
<1>1. u \in Seq(S) /\ Len(u) = Len(s) + 1 /\ u[1] = t
  OBVIOUS
<1>2. \A i \in 1 .. Len(s) : u[i + 1] = s[i]
  OBVIOUS
<1>3. \A i \in 2 .. Len(u) : i - 1 \in 1 .. Len(s) /\ u[i] = s[i - 1]
  OBVIOUS
<1> HIDE DEF u
<1>4. Elements(u) = {t} \cup Elements(s)
  <2>1. \A e \in Elements(s) : e \in Elements(u)
    BY <1>1, <1>2 DEF Elements
  <2>2. \A e \in Elements(u) : e = t \/ e \in Elements(s)
    <3> TAKE e \in Elements(u)
    <3>1. PICK i \in 1 .. Len(u) : u[i] = e
      BY DEF Elements
    <3>2. i = 1 \/ i \in 2 .. Len(u)
      BY <1>1
    <3> QED BY <1>1, <1>3, <3>1, <3>2 DEF Elements
  <2>3. t \in Elements(u)
    BY <1>1 DEF Elements
  <2> QED BY <2>1, <2>2, <2>3
<1>5. ASSUME Distinct(s), t \notin Elements(s) PROVE Distinct(u)
  <2> SUFFICES ASSUME NEW i \in 1 .. Len(u), NEW j \in 1 .. Len(u), u[i] = u[j] PROVE i = j
    BY DEF Distinct
  <2>1. \A k \in 2 .. Len(u) : u[k] # t
    BY <1>3, <1>5 DEF Elements
  <2>2. (i = 1 \/ i \in 2 .. Len(u)) /\ (j = 1 \/ j \in 2 .. Len(u))
    BY <1>1
  <2>3. CASE i \in 2 .. Len(u) /\ j \in 2 .. Len(u)
    BY <1>3, <1>5, <2>3 DEF Distinct
  <2> QED BY <1>1, <2>1, <2>2, <2>3
<1> QED BY <1>1, <1>4, <1>5 DEF u

LEMMA Taken ==
    ASSUME NEW S, NEW s \in Seq(S), s # <<>>
    PROVE  /\ Head(s) \in S /\ Tail(s) \in Seq(S)
           /\ Len(s) \in Nat \ {0} /\ Len(Tail(s)) = Len(s) - 1
           /\ Elements(s) = {Head(s)} \cup Elements(Tail(s))
           /\ Distinct(s) => Distinct(Tail(s)) /\ Head(s) \notin Elements(Tail(s))
<1> DEFINE u == Tail(s)
<1>1. /\ u \in Seq(S) /\ Len(u) = Len(s) - 1 /\ Len(s) \in Nat \ {0}
      /\ Head(s) = s[1] /\ s[1] \in S
  OBVIOUS
<1>2. \A i \in 1 .. Len(u) : u[i] = s[i + 1]
  OBVIOUS
<1> HIDE DEF u
<1>3. Elements(s) = {Head(s)} \cup Elements(u)
  <2>1. \A e \in Elements(u) : e \in Elements(s)
    BY <1>1, <1>2 DEF Elements
  <2>2. \A e \in Elements(s) : e = s[1] \/ e \in Elements(u)
    <3> TAKE e \in Elements(s)
    <3>1. PICK i \in 1 .. Len(s) : s[i] = e
      BY DEF Elements
    <3>2. CASE i # 1
      <4>1. i - 1 \in 1 .. Len(u) /\ u[i - 1] = s[i]
        BY <1>1, <1>2, <3>2
      <4> QED BY <3>1, <4>1 DEF Elements
    <3> QED BY <3>1, <3>2
  <2>3. s[1] \in Elements(s)
    BY <1>1 DEF Elements
  <2> QED BY <1>1, <2>1, <2>2, <2>3
<1>4. Distinct(s) => Distinct(u) /\ s[1] \notin Elements(u)
  BY <1>1, <1>2 DEF Distinct, Elements
<1> QED BY <1>1, <1>3, <1>4 DEF u

LEMMA Added == ASSUME NEW S, NEW s \in Seq(S), NEW e \in S
               PROVE  /\ Append(s, e) \in Seq(S) /\ Len(Append(s, e)) = Len(s) + 1
                      /\ Len(s) \in Nat /\ Append(s, e) # <<>>
                      /\ Elements(Append(s, e)) = Elements(s) \cup {e}
<1> DEFINE u == Append(s, e)
<1>1. u \in Seq(S) /\ Len(u) = Len(s) + 1 /\ u[Len(s) + 1] = e /\ Len(s) \in Nat
  OBVIOUS
<1>2. \A i \in 1 .. Len(s) : u[i] = s[i]
  OBVIOUS
<1> HIDE DEF u
<1>3. Elements(u) = Elements(s) \cup {e}
  BY <1>1, <1>2 DEF Elements
<1>4. u # <<>>
  BY <1>1
<1> QED BY <1>1, <1>3, <1>4 DEF u
-----------------------------------------------------------------------------
(* Types, and where dev_cpu_callback is.                                   *)

\* enqueue_to_backlog: what it leaves in the queues, and whose bit and link it sets.
LEMMA Enqueued ==
    ASSUME NEW c \in Cpu, NEW t \in Cpu, NEW p \in Packet,
           NEW queues \in [Cpu -> Seq(Packet)], state \in [Cpu -> BOOLEAN],
           EnqueueToBacklog(c, t, p, queues)
    PROVE  /\ input' = queues \/ /\ input' = [queues EXCEPT ![t] = Append(@, p)]
                                 /\ p \in OfGone => device = "up"
                                 /\ Len(queues[t]) <= MaxBacklog
                                 /\ Len(queues[t]) = 0 => state'[t]
           /\ lost' \in {lost, lost \cup {p}}
           /\ \/ UNCHANGED <<state, raised, link, ipiList>>
              \/ /\ ~state[t]
                 /\ state' = [state EXCEPT ![t] = TRUE]
                 /\ raised' = [raised EXCEPT ![c] = TRUE]
                 /\ \/ t = c /\ link' = [link EXCEPT ![c] = "poll_list"] /\ UNCHANGED ipiList
                    \/ t # c /\ ipiList' = [ipiList EXCEPT ![c] = <<t>> \o @] /\ UNCHANGED link
<1>1. Len(queues[t]) \in Nat
  OBVIOUS
<1> QED BY <1>1 DEF EnqueueToBacklog, Schedule, Fits, Running

LEMMA EnqueuedTypes ==
    ASSUME NEW c \in Cpu, NEW t \in Cpu, NEW p \in Packet, NEW queues \in [Cpu -> Seq(Packet)],
           WakeTypes, \A k \in Cpu : Len(queues[k]) <= MaxBacklog + 1, lost \subseteq Packet,
           EnqueueToBacklog(c, t, p, queues)
    PROVE  /\ input' \in [Cpu -> Seq(Packet)] /\ \A k \in Cpu : Len(input'[k]) <= MaxBacklog + 1
           /\ lost' \subseteq Packet
           /\ csd' = csd => WakeTypes'
<1> USE BacklogAssumption
<1>1. state \in [Cpu -> BOOLEAN] /\ ipiList[c] \in Seq(Cpu)
  BY DEF WakeTypes
<1>2. lost' \subseteq Packet
  BY DEF EnqueueToBacklog
<1>3. Append(queues[t], p) \in Seq(Packet) /\ Len(Append(queues[t], p)) = Len(queues[t]) + 1
      /\ Len(queues[t]) \in Nat
  OBVIOUS
<1>4. \/ input' = queues
      \/ input' = [queues EXCEPT ![t] = Append(queues[t], p)] /\ Len(queues[t]) <= MaxBacklog
  BY DEF EnqueueToBacklog, Fits
<1>5. Len(queues[t]) <= MaxBacklog => Len(Append(queues[t], p)) <= MaxBacklog + 1
  BY <1>3
<1>6. input' \in [Cpu -> Seq(Packet)] /\ \A k \in Cpu : Len(input'[k]) <= MaxBacklog + 1
  <2> DEFINE a == Append(queues[t], p)
  <2> HIDE DEF a
  <2> QED BY <1>3, <1>4, <1>5 DEF a
<1>7. <<t>> \o ipiList[c] \in Seq(Cpu)
  BY <1>1, Prefixed
<1>8. ASSUME csd' = csd PROVE WakeTypes'
  <2> DEFINE u == <<t>> \o ipiList[c]
  <2>1. \/ UNCHANGED <<state, raised, link, ipiList>>
        \/ /\ state' = [state EXCEPT ![t] = TRUE] /\ raised' = [raised EXCEPT ![c] = TRUE]
           /\ \/ link' = [link EXCEPT ![c] = "poll_list"] /\ UNCHANGED ipiList
              \/ ipiList' = [ipiList EXCEPT ![c] = u] /\ UNCHANGED link
    BY DEF EnqueueToBacklog, Schedule
  <2>2. u \in Seq(Cpu)
    BY <1>7
  <2> HIDE DEF u
  <2>3. state' \in [Cpu -> BOOLEAN] /\ raised' \in [Cpu -> BOOLEAN]
    BY <2>1 DEF WakeTypes
  <2>4. link' \in [Cpu -> {"none", "poll_list", "list", "repoll"}]
    BY <2>1 DEF WakeTypes
  <2>5. ipiList' \in [Cpu -> Seq(Cpu)]
    BY <2>1, <2>2 DEF WakeTypes
  <2> QED BY <1>8, <2>3, <2>4, <2>5 DEF WakeTypes
<1> QED BY <1>2, <1>6, <1>8

LEMMA TInvInit == Init => TInv
<1> SUFFICES ASSUME Init PROVE TInv
  OBVIOUS
<1> USE BacklogAssumption DEF Init
<1>0. <<>> \in Seq(Packet) /\ <<>> \in Seq(Cpu) /\ Len(<<>>) = 0
  OBVIOUS
<1>1. QueueTypes
  BY <1>0 DEF QueueTypes
<1>2. WakeTypes
  BY <1>0 DEF WakeTypes
<1>3. SoftirqTypes
  BY <1>0 DEF SoftirqTypes
<1>4. OtherTypes
  BY DEF OtherTypes
<1>5. HotplugOK
  BY DEF HotplugOK
<1> QED BY <1>1, <1>2, <1>3, <1>4, <1>5 DEF TInv, TypeOK

LEMMA TInvStep == ASSUME TInv, [Next]_vars PROVE TInv'
<1> USE BacklogAssumption DEF TInv, TypeOK
<1>1. ASSUME NEW c \in Cpu, NEW t \in Cpu, NetifRx(c, t) PROVE TInv'
  <2>1. /\ input' \in [Cpu -> Seq(Packet)] /\ \A k \in Cpu : Len(input'[k]) <= MaxBacklog + 1
        /\ lost' \subseteq Packet /\ WakeTypes'
    <3>1. arrived + 1 \in Packet /\ lost \subseteq Packet
      BY <1>1 DEF NetifRx, OtherTypes, Packet
    <3>2. input \in [Cpu -> Seq(Packet)] /\ \A k \in Cpu : Len(input[k]) <= MaxBacklog + 1
      BY DEF QueueTypes
    <3>3. EnqueueToBacklog(c, t, arrived + 1, input) /\ csd' = csd
      BY <1>1 DEF NetifRx
    <3> QED BY <3>1, <3>2, <3>3, EnqueuedTypes
  <2>2. QueueTypes'
    BY <1>1, <2>1 DEF NetifRx, QueueTypes, queueVars
  <2>3. WakeTypes'
    BY <1>1, <2>1 DEF NetifRx, WakeTypes, wakeVars
  <2>4. SoftirqTypes'
    BY <1>1 DEF NetifRx, SoftirqTypes, sendVars
  <2>5. OtherTypes'
    BY <1>1, <2>1 DEF NetifRx, OtherTypes, cpuVars, deviceVars, countVars
  <2>6. HotplugOK'
    BY <1>1 DEF NetifRx, HotplugOK, SoftirqTypes, WakeTypes, OtherTypes, cpuVars, wakeVars
  <2> QED BY <2>2, <2>3, <2>4, <2>5, <2>6
<1>2. ASSUME NEW c \in Cpu, RpsTriggerSoftirq(c) PROVE TInv'
  <2>1. QueueTypes'
    BY <1>2 DEF RpsTriggerSoftirq, QueueTypes, queueVars
  <2>2. WakeTypes'
    BY <1>2 DEF RpsTriggerSoftirq, WakeTypes, wakeVars
  <2>3. SoftirqTypes'
    BY <1>2 DEF RpsTriggerSoftirq, SoftirqTypes, sendVars
  <2>4. OtherTypes'
    BY <1>2 DEF RpsTriggerSoftirq, OtherTypes, cpuVars, deviceVars, countVars
  <2>5. HotplugOK'
    BY <1>2 DEF RpsTriggerSoftirq, HotplugOK, SoftirqTypes, WakeTypes, OtherTypes, cpuVars,
         wakeVars
  <2> QED BY <2>1, <2>2, <2>3, <2>4, <2>5
<1>3. ASSUME NEW c \in Cpu, NetRxAction(c) PROVE TInv'
  <2>1. QueueTypes'
    BY <1>3 DEF NetRxAction, QueueTypes, queueVars
  <2>2. WakeTypes'
    BY <1>3 DEF NetRxAction, WakeTypes, wakeVars
  <2>3. SoftirqTypes'
    BY <1>3 DEF NetRxAction, SoftirqTypes, sendVars
  <2>4. OtherTypes'
    BY <1>3 DEF NetRxAction, OtherTypes, cpuVars, deviceVars, countVars
  <2>5. HotplugOK'
    BY <1>3 DEF NetRxAction, HotplugOK, SoftirqTypes, WakeTypes, OtherTypes, cpuVars,
         wakeVars
  <2> QED BY <2>1, <2>2, <2>3, <2>4, <2>5
<1>4. ASSUME NEW c \in Cpu, NapiPoll(c) PROVE TInv'
  <2>1. PICK w \in Nat \ {0} : /\ quota' = [quota EXCEPT ![c] = w]
                              /\ pc' = [pc EXCEPT ![c] = "loop"]
                              /\ sending' = [sending EXCEPT ![c] = ipiList[c]]
                              /\ UNCHANGED resetting
    BY <1>4 DEF NapiPoll
  <2>2. QueueTypes'
    BY <1>4 DEF NapiPoll, QueueTypes, queueVars
  <2>3. WakeTypes'
    BY <1>4 DEF NapiPoll, WakeTypes, wakeVars
  <2>4. SoftirqTypes'
    BY <2>1 DEF SoftirqTypes, WakeTypes, Ctx
  <2>5. OtherTypes'
    BY <1>4 DEF NapiPoll, OtherTypes, cpuVars, deviceVars, countVars
  <2>6. HotplugOK'
    BY <1>4 DEF NapiPoll, HotplugOK, SoftirqTypes, WakeTypes, OtherTypes, cpuVars, wakeVars
  <2> QED BY <2>2, <2>3, <2>4, <2>5, <2>6
<1>5. ASSUME NEW c \in Cpu, Received(c) PROVE TInv'
  <2>1. QueueTypes'
    BY <1>5 DEF Received, QueueTypes, queueVars
  <2>2. WakeTypes'
    BY <1>5 DEF Received, WakeTypes, wakeVars
  <2>3. SoftirqTypes'
    BY <1>5 DEF Received, SoftirqTypes, sendVars
  <2>4. OtherTypes'
    BY <1>5 DEF Received, OtherTypes, cpuVars, deviceVars, countVars
  <2>5. HotplugOK'
    BY <1>5 DEF Received, HotplugOK, SoftirqTypes, WakeTypes, OtherTypes, cpuVars, wakeVars
  <2> QED BY <2>1, <2>2, <2>3, <2>4, <2>5
<1>6. ASSUME NEW c \in Cpu, Polled(c) PROVE TInv'
  <2>1. QueueTypes'
    BY <1>6 DEF Polled, QueueTypes, queueVars
  <2>2. WakeTypes'
    BY <1>6 DEF Polled, WakeTypes, wakeVars
  <2>3. SoftirqTypes'
    BY <1>6 DEF Polled, SoftirqTypes, sendVars
  <2>4. OtherTypes'
    BY <1>6 DEF Polled, OtherTypes, cpuVars, deviceVars, countVars
  <2>5. HotplugOK'
    BY <1>6 DEF Polled, HotplugOK, SoftirqTypes, WakeTypes, OtherTypes, cpuVars, wakeVars
  <2> QED BY <2>1, <2>2, <2>3, <2>4, <2>5
<1>7. ASSUME NEW c \in Cpu, End(c) PROVE TInv'
  <2>1. QueueTypes'
    BY <1>7 DEF End, QueueTypes, queueVars
  <2>2. WakeTypes'
    BY <1>7 DEF End, WakeTypes, wakeVars
  <2>3. SoftirqTypes'
    BY <1>7 DEF End, SoftirqTypes, WakeTypes, sendVars
  <2>4. OtherTypes'
    BY <1>7 DEF End, OtherTypes, cpuVars, deviceVars, countVars
  <2>5. HotplugOK'
    BY <1>7 DEF End, HotplugOK, SoftirqTypes, WakeTypes, OtherTypes, cpuVars, wakeVars
  <2> QED BY <2>1, <2>2, <2>3, <2>4, <2>5
<1>8. ASSUME NEW c \in Cpu, Sent(c) PROVE TInv'
  <2>1. QueueTypes'
    BY <1>8 DEF Sent, QueueTypes, queueVars
  <2>2. WakeTypes'
    BY <1>8 DEF Sent, WakeTypes, wakeVars
  <2>3. SoftirqTypes'
    BY <1>8 DEF Sent, SoftirqTypes, sendVars
  <2>4. OtherTypes'
    BY <1>8 DEF Sent, OtherTypes, cpuVars, deviceVars, countVars
  <2>5. HotplugOK'
    BY <1>8 DEF Sent, HotplugOK, SoftirqTypes, WakeTypes, OtherTypes, cpuVars, wakeVars
  <2> QED BY <2>1, <2>2, <2>3, <2>4, <2>5
<1>9. ASSUME NEW c \in Cpu, CpuDown(c) PROVE TInv'
  <2>1. QueueTypes'
    BY <1>9 DEF CpuDown, QueueTypes, queueVars
  <2>2. WakeTypes'
    BY <1>9 DEF CpuDown, WakeTypes, wakeVars
  <2>3. SoftirqTypes'
    BY <1>9 DEF CpuDown, SoftirqTypes, sendVars
  <2>4. OtherTypes'
    BY <1>9 DEF CpuDown, OtherTypes, cpuVars, deviceVars, countVars
  <2>5. HotplugOK'
    BY <1>9 DEF CpuDown, HotplugOK, SoftirqTypes, WakeTypes, OtherTypes, cpuVars, wakeVars
  <2> QED BY <2>1, <2>2, <2>3, <2>4, <2>5
<1>10. ASSUME NEW c \in Cpu, CpuUp(c) PROVE TInv'
  <2>1. QueueTypes'
    BY <1>10 DEF CpuUp, QueueTypes, queueVars
  <2>2. WakeTypes'
    BY <1>10 DEF CpuUp, WakeTypes, wakeVars
  <2>3. SoftirqTypes'
    BY <1>10 DEF CpuUp, SoftirqTypes, sendVars
  <2>4. OtherTypes'
    BY <1>10 DEF CpuUp, OtherTypes, cpuVars, deviceVars, countVars
  <2>5. HotplugOK'
    BY <1>10 DEF CpuUp, HotplugOK, SoftirqTypes, WakeTypes, OtherTypes, cpuVars, wakeVars
  <2> QED BY <2>1, <2>2, <2>3, <2>4, <2>5
<1>11. ASSUME DeadLists PROVE TInv'
  <2>1. QueueTypes'
    BY <1>11 DEF DeadLists, QueueTypes, queueVars
  <2>2. WakeTypes'
    BY <1>11 DEF DeadLists, WakeTypes, OtherTypes, HotplugOK, wakeVars
  <2>3. SoftirqTypes'
    BY <1>11 DEF DeadLists, SoftirqTypes, WakeTypes, OtherTypes, HotplugOK, sendVars
  <2>4. OtherTypes'
    BY <1>11 DEF DeadLists, OtherTypes, cpuVars, deviceVars, countVars
  <2>5. HotplugOK'
    BY <1>11 DEF DeadLists, HotplugOK, SoftirqTypes, WakeTypes, OtherTypes, cpuVars,
         wakeVars
  <2> QED BY <2>1, <2>2, <2>3, <2>4, <2>5
<1>12. ASSUME DeadDone PROVE TInv'
  <2>1. QueueTypes'
    BY <1>12 DEF DeadDone, QueueTypes, queueVars
  <2>2. WakeTypes'
    BY <1>12 DEF DeadDone, WakeTypes, wakeVars
  <2>3. SoftirqTypes'
    BY <1>12 DEF DeadDone, SoftirqTypes, sendVars
  <2>4. OtherTypes'
    BY <1>12 DEF DeadDone, OtherTypes, cpuVars, deviceVars, countVars
  <2>5. HotplugOK'
    BY <1>12 DEF DeadDone, HotplugOK, SoftirqTypes, WakeTypes, OtherTypes, cpuVars, wakeVars
  <2> QED BY <2>1, <2>2, <2>3, <2>4, <2>5
<1>13. ASSUME NEW x \in Ctx, ResetRemote(x) PROVE TInv'
  <2>1. QueueTypes'
    BY <1>13 DEF ResetRemote, QueueTypes, queueVars
  <2>2. WakeTypes'
    BY <1>13 DEF ResetRemote, WakeTypes, SoftirqTypes, wakeVars
  <2>3. SoftirqTypes'
    BY <1>13 DEF ResetRemote, SoftirqTypes, sendVars
  <2>4. OtherTypes'
    BY <1>13 DEF ResetRemote, OtherTypes, SoftirqTypes, cpuVars, deviceVars, countVars
  <2>5. HotplugOK'
    BY <1>13 DEF ResetRemote, HotplugOK, SoftirqTypes, WakeTypes, OtherTypes, cpuVars,
         wakeVars
  <2> QED BY <2>1, <2>2, <2>3, <2>4, <2>5
<1>14. ASSUME NEW x \in Ctx, SendIpi(x) PROVE TInv'
  <2>1. /\ Head(sending[x]) \in Cpu /\ Tail(sending[x]) \in Seq(Cpu)
        /\ sending' = [sending EXCEPT ![x] = Tail(sending[x])]
        /\ \/ Head(sending[x]) \in online /\ csd' = [csd EXCEPT ![Head(sending[x])] = TRUE]
              /\ UNCHANGED resetting
           \/ UNCHANGED csd /\ resetting' = [resetting EXCEPT ![x] = Head(sending[x])]
    BY <1>14 DEF SendIpi, SoftirqTypes
  <2>2. QueueTypes'
    BY <1>14 DEF SendIpi, QueueTypes, queueVars
  <2>3. WakeTypes'
    BY <1>14, <2>1 DEF SendIpi, WakeTypes, wakeVars
  <2>4. SoftirqTypes'
    BY <1>14, <2>1 DEF SendIpi, SoftirqTypes, sendVars
  <2>5. OtherTypes'
    BY <1>14 DEF SendIpi, OtherTypes, cpuVars, deviceVars, countVars
  <2>6. HotplugOK'
    BY <1>14, <2>1 DEF SendIpi, HotplugOK, WakeTypes, cpuVars, wakeVars
  <2> QED BY <2>2, <2>3, <2>4, <2>5, <2>6
<1>15. ASSUME NEW c \in Cpu, ProcessBacklog(c) PROVE TInv'
  <2>1. CASE NextPackets(c) = <<>>
    <3>1. /\ pc' = [pc EXCEPT ![c] = "polled"] /\ quota' = [quota EXCEPT ![c] = 0]
          /\ UNCHANGED <<sendVars>>
      BY <1>15, <2>1 DEF ProcessBacklog
    <3>2. QueueTypes'
      BY <1>15, <2>1 DEF ProcessBacklog, QueueTypes, queueVars
    <3>3. WakeTypes'
      BY <1>15, <2>1 DEF ProcessBacklog, WakeTypes, wakeVars
    <3>4. SoftirqTypes'
      BY <3>1 DEF SoftirqTypes, sendVars
    <3>5. OtherTypes'
      BY <1>15, <2>1 DEF ProcessBacklog, OtherTypes, cpuVars, deviceVars, countVars
    <3>6. HotplugOK'
      BY <1>15, <2>1 DEF ProcessBacklog, HotplugOK, SoftirqTypes, WakeTypes, OtherTypes,
           cpuVars, wakeVars
    <3> QED BY <3>2, <3>3, <3>4, <3>5, <3>6
  <2>2. CASE NextPackets(c) # <<>>
    <3> DEFINE s == NextPackets(c)
    <3>1. s \in Seq(Packet) /\ Len(s) <= MaxBacklog + 1
      BY DEF NextPackets, QueueTypes
    <3>2. /\ Head(s) \in Packet /\ Tail(s) \in Seq(Packet) /\ Len(Tail(s)) <= MaxBacklog
          /\ <<Head(s)>> \in Seq(Packet) /\ Len(<<Head(s)>>) = 1
      <4> HIDE DEF s
      <4>1. Head(s) \in Packet /\ Tail(s) \in Seq(Packet) /\ Len(Tail(s)) = Len(s) - 1
        BY <2>2, <3>1 DEF s
      <4> QED BY <3>1, <4>1
    <3>3. Len(<<>>) = 0 /\ <<>> \in Seq(Packet)
      OBVIOUS
    <3>4. /\ hand' = [hand EXCEPT ![c] = <<Head(s)>>]
          /\ process' = [process EXCEPT ![c] = Tail(s)]
          /\ input' = input \/ input' = [input EXCEPT ![c] = <<>>]
      BY <1>15, <2>2 DEF ProcessBacklog
    <3> HIDE DEF s
    <3>5. QueueTypes'
      <4>1. hand' \in [Cpu -> Seq(Packet)] /\ \A k \in Cpu : Len(hand'[k]) <= 1
        BY <3>2, <3>4 DEF QueueTypes
      <4>2. process' \in [Cpu -> Seq(Packet)] /\ \A k \in Cpu : Len(process'[k]) <= MaxBacklog
        BY <3>2, <3>4 DEF QueueTypes
      <4>3. input' \in [Cpu -> Seq(Packet)] /\ \A k \in Cpu : Len(input'[k]) <= MaxBacklog + 1
        <5>1. CASE input' = input
          BY <5>1 DEF QueueTypes
        <5>2. CASE input' = [input EXCEPT ![c] = <<>>]
          BY <3>3, <5>2 DEF QueueTypes
        <5> QED BY <3>4, <5>1, <5>2
      <4> QED BY <4>1, <4>2, <4>3 DEF QueueTypes
    <3>6. WakeTypes'
      BY <1>15, <2>2 DEF ProcessBacklog, WakeTypes, wakeVars
    <3>7. SoftirqTypes'
      BY <1>15, <2>2 DEF ProcessBacklog, SoftirqTypes, sendVars
    <3>8. OtherTypes'
      BY <1>15, <2>2, <3>2 DEF ProcessBacklog, OtherTypes, s, cpuVars, deviceVars, countVars
    <3>9. HotplugOK'
      BY <1>15, <2>2 DEF ProcessBacklog, HotplugOK, SoftirqTypes, WakeTypes, OtherTypes,
           cpuVars, wakeVars
    <3> QED BY <3>5, <3>6, <3>7, <3>8, <3>9
  <2> QED BY <2>1, <2>2
<1>16. ASSUME NEW c \in Cpu, NEW t \in Cpu, DeadDrain(c, t) PROVE TInv'
  <2>1. dying \in Cpu /\ t # dying /\ csd' = csd /\ lost \subseteq Packet
    BY <1>16 DEF DeadDrain, HotplugOK, OtherTypes
  <2>2. /\ input' \in [Cpu -> Seq(Packet)] /\ \A k \in Cpu : Len(input'[k]) <= MaxBacklog + 1
        /\ process' \in [Cpu -> Seq(Packet)] /\ \A k \in Cpu : Len(process'[k]) <= MaxBacklog
        /\ lost' \subseteq Packet /\ WakeTypes'
    <3>1. CASE process[dying] # <<>>
      <4>1. Head(process[dying]) \in Packet /\ process' = [process EXCEPT ![dying] = Tail(@)]
            /\ EnqueueToBacklog(c, t, Head(process[dying]), input)
        BY <1>16, <2>1, <3>1 DEF DeadDrain, DeadQueue, QueueTypes
      <4>2. Tail(process[dying]) \in Seq(Packet) /\ Len(Tail(process[dying])) <= MaxBacklog
        BY <2>1, <3>1 DEF QueueTypes
      <4>3. input \in [Cpu -> Seq(Packet)] /\ \A k \in Cpu : Len(input[k]) <= MaxBacklog + 1
        BY DEF QueueTypes
      <4>4. process' \in [Cpu -> Seq(Packet)] /\ \A k \in Cpu : Len(process'[k]) <= MaxBacklog
        BY <2>1, <4>1, <4>2 DEF QueueTypes
      <4> QED BY <2>1, <4>1, <4>3, <4>4, EnqueuedTypes
    <3>2. CASE process[dying] = <<>>
      <4> DEFINE queues == [input EXCEPT ![dying] = Tail(@)]
      <4>1. /\ Head(input[dying]) \in Packet /\ input[dying] # <<>> /\ UNCHANGED process
            /\ EnqueueToBacklog(c, t, Head(input[dying]), queues)
        BY <1>16, <2>1, <3>2 DEF DeadDrain, DeadQueue, QueueTypes
      <4>2. Tail(input[dying]) \in Seq(Packet) /\ Len(Tail(input[dying])) <= MaxBacklog + 1
        BY <2>1, <4>1 DEF QueueTypes
      <4>3. queues \in [Cpu -> Seq(Packet)] /\ \A k \in Cpu : Len(queues[k]) <= MaxBacklog + 1
        BY <2>1, <4>2 DEF QueueTypes
      <4> HIDE DEF queues
      <4>4. process' \in [Cpu -> Seq(Packet)] /\ \A k \in Cpu : Len(process'[k]) <= MaxBacklog
        BY <4>1 DEF QueueTypes
      <4> QED BY <2>1, <4>1, <4>3, <4>4, EnqueuedTypes
    <3> QED BY <3>1, <3>2
  <2>3. QueueTypes'
    BY <1>16, <2>2 DEF DeadDrain, QueueTypes, queueVars
  <2>4. WakeTypes'
    BY <1>16, <2>2 DEF DeadDrain, WakeTypes, wakeVars
  <2>5. SoftirqTypes'
    BY <1>16 DEF DeadDrain, SoftirqTypes, sendVars
  <2>6. OtherTypes'
    BY <1>16, <2>2 DEF DeadDrain, OtherTypes, cpuVars, deviceVars, countVars
  <2>7. HotplugOK'
    BY <1>16 DEF DeadDrain, HotplugOK, SoftirqTypes, WakeTypes, OtherTypes, cpuVars,
         wakeVars
  <2> QED BY <2>3, <2>4, <2>5, <2>6, <2>7
<1>17. ASSUME NEW c \in Cpu, FlushBacklog(c) PROVE TInv'
  <2>1. Kept(input[c]) \in Seq(Packet) /\ Len(Kept(input[c])) <= MaxBacklog + 1
    BY KeptType DEF QueueTypes
  <2>2. Kept(process[c]) \in Seq(Packet) /\ Len(Kept(process[c])) <= MaxBacklog
    BY KeptType DEF QueueTypes
  <2>3. QueueTypes'
    BY <1>17, <2>1, <2>2 DEF FlushBacklog, QueueTypes, queueVars
  <2>4. WakeTypes'
    BY <1>17 DEF FlushBacklog, WakeTypes, wakeVars
  <2>5. SoftirqTypes'
    BY <1>17 DEF FlushBacklog, SoftirqTypes, sendVars
  <2>6. OtherTypes'
    BY <1>17 DEF FlushBacklog, OtherTypes, cpuVars, deviceVars, countVars
  <2>7. HotplugOK'
    BY <1>17 DEF FlushBacklog, HotplugOK, SoftirqTypes, WakeTypes, OtherTypes, cpuVars,
         wakeVars
  <2> QED BY <2>3, <2>4, <2>5, <2>6, <2>7
<1>18. ASSUME DeviceStep PROVE TInv'
  <2>1. QueueTypes'
    BY <1>18 DEF DeviceStep, CloseDevice, FlushBegin, FlushEnd, FreeDevice, QueueTypes,
         queueVars
  <2>2. WakeTypes'
    BY <1>18 DEF DeviceStep, CloseDevice, FlushBegin, FlushEnd, FreeDevice, WakeTypes,
         wakeVars
  <2>3. SoftirqTypes'
    BY <1>18 DEF DeviceStep, CloseDevice, FlushBegin, FlushEnd, FreeDevice, SoftirqTypes,
         sendVars
  <2>4. OtherTypes'
    BY <1>18 DEF DeviceStep, CloseDevice, FlushBegin, FlushEnd, FreeDevice, OtherTypes,
         cpuVars, deviceVars, countVars
  <2>5. HotplugOK'
    BY <1>18 DEF DeviceStep, CloseDevice, FlushBegin, FlushEnd, FreeDevice, HotplugOK,
         SoftirqTypes, WakeTypes, OtherTypes, cpuVars, wakeVars
  <2> QED BY <2>1, <2>2, <2>3, <2>4, <2>5
<1>19. ASSUME UNCHANGED vars PROVE TInv'
  BY <1>19 DEF vars, QueueTypes, WakeTypes, SoftirqTypes, OtherTypes, HotplugOK
<1> QED
  BY <1>1, <1>2, <1>3, <1>4, <1>5, <1>6, <1>7, <1>8, <1>9, <1>10, <1>11, <1>12, <1>13, <1>14,
     <1>15, <1>16, <1>17, <1>18, <1>19 DEF Next, SoftirqStep, IpiStep, HotplugStep
-----------------------------------------------------------------------------
(* Owners.                                                                 *)

LEMMA OInvInit == Init => OInv
<1> SUFFICES ASSUME Init PROVE OInv
  OBVIOUS
<1> USE BacklogAssumption, Emptied DEF Init, Ctx
<1>1. SendOK /\ LinkOK
  BY DEF SendOK, LinkOK, NothingToSend, Runs
<1>2. OwnOK
  BY DEF OwnOK, OneLists, OneSends, NotBoth, AwakeAlone, BitTells,
     OnList, InSend, Awake, Runs
<1>3. DistinctOK
  BY DEF DistinctOK
<1> QED BY <1>1, <1>2, <1>3 DEF OInv

\* enqueue_to_backlog makes itself the owner of a backlog that had none.
LEMMA EnqueueOwners ==
    ASSUME TInv, OInv, NEW c \in Cpu, NEW t \in Cpu, NEW p \in Packet,
           NEW queues \in [Cpu -> Seq(Packet)], EnqueueToBacklog(c, t, p, queues),
           UNCHANGED <<csd, pc, sending, resetting, stage>>
    PROVE  OInv'
<1> USE DEF TInv, TypeOK, OInv
<1>1. SendOK'
  BY DEF SendOK, NothingToSend
<1>2. CASE UNCHANGED <<state, link, ipiList>>
  BY <1>1, <1>2 DEF LinkOK, OwnOK, OneLists, OneSends, NotBoth, AwakeAlone, BitTells,
     DistinctOK, OnList, InSend, Awake, Runs
<1>3. CASE ~UNCHANGED <<state, link, ipiList>>
  <2> DEFINE u == <<t>> \o ipiList[c]
  <2>1. /\ ~state[t] /\ state' = [state EXCEPT ![t] = TRUE]
        /\ \/ t = c /\ link' = [link EXCEPT ![c] = "poll_list"] /\ UNCHANGED ipiList
           \/ t # c /\ ipiList' = [ipiList EXCEPT ![c] = u] /\ UNCHANGED link
    BY <1>3 DEF EnqueueToBacklog, Schedule
  <2>2. ~Awake(t) /\ (\A x \in Cpu : ~OnList(x, t)) /\ \A y \in Ctx : ~InSend(y, t)
    BY <2>1 DEF OwnOK, BitTells
  <2>3. /\ u \in Seq(Cpu) /\ Elements(u) = {t} \cup Elements(ipiList[c])
        /\ Distinct(u)
    BY <2>2, Prefixed DEF WakeTypes, DistinctOK, OnList
  <2> HIDE DEF u
  <2>4. LinkOK'
    BY <2>1, <2>2 DEF LinkOK, WakeTypes, Awake, Runs
  <2>5. DistinctOK'
    BY <2>1, <2>3 DEF DistinctOK, WakeTypes
  <2>6. \A x, k \in Cpu : OnList(x, k)' <=> OnList(x, k) \/ (t # c /\ x = c /\ k = t)
    BY <2>1, <2>3 DEF OnList, WakeTypes
  <2>7. \A y \in Ctx, k \in Cpu : InSend(y, k)' <=> InSend(y, k)
    BY DEF InSend
  <2>8. \A k \in Cpu : Awake(k)' <=> Awake(k) \/ (t = c /\ k = t)
    BY <2>1 DEF Awake, Runs, WakeTypes
  <2>9. \A k \in Cpu : state'[k] <=> state[k] \/ k = t
    BY <2>1 DEF WakeTypes
  <2>10. OwnOK'
      <3>1. OneLists'
        BY <2>2, <2>6, <2>7, <2>8, <2>9 DEF OwnOK, OneLists
      <3>2. OneSends'
        BY <2>2, <2>6, <2>7, <2>8, <2>9 DEF OwnOK, OneSends, NotBoth
      <3>3. NotBoth'
        BY <2>2, <2>6, <2>7, <2>8, <2>9 DEF OwnOK, NotBoth, OneLists
      <3>4. AwakeAlone'
        BY <2>2, <2>6, <2>7, <2>8, <2>9 DEF OwnOK, AwakeAlone
      <3>5. BitTells'
        BY <2>2, <2>6, <2>7, <2>8, <2>9 DEF OwnOK, BitTells, AwakeAlone
      <3> QED BY <3>1, <3>2, <3>3, <3>4, <3>5 DEF OwnOK
  <2> QED BY <1>1, <2>4, <2>5, <2>10
<1> QED BY <1>2, <1>3

\* A step that moves the backlog of a CPU from one place to another of the same CPU.
LEMMA SameOwners ==
    ASSUME OInv, SendOK', LinkOK', UNCHANGED <<state, ipiList, sending, resetting>>,
           \A k \in Cpu : Awake(k)' <=> Awake(k)
    PROVE  OInv'
<1>1. (\A x, k \in Cpu : OnList(x, k)' <=> OnList(x, k))
      /\ \A y \in Ctx, k \in Cpu : InSend(y, k)' <=> InSend(y, k)
  BY DEF OnList, InSend
<1>2. DistinctOK'
  BY DEF OInv, DistinctOK
<1>3. OwnOK'
  BY <1>1 DEF OInv, OwnOK, OneLists, OneSends, NotBoth, AwakeAlone, BitTells
<1> QED BY <1>2, <1>3 DEF OInv

LEMMA OInvStep == ASSUME TInv, OInv, [Next]_vars PROVE OInv'
<1> USE DEF TInv, TypeOK, OInv
<1>1. ASSUME NEW c \in Cpu, NEW t \in Cpu, NetifRx(c, t) PROVE OInv'
  <2>1. arrived + 1 \in Packet /\ input \in [Cpu -> Seq(Packet)]
    BY <1>1, BacklogAssumption DEF NetifRx, OtherTypes, QueueTypes, Packet
  <2>2. /\ EnqueueToBacklog(c, t, arrived + 1, input)
        /\ UNCHANGED <<csd, pc, sending, resetting, stage>>
    BY <1>1 DEF NetifRx, cpuVars, sendVars
  <2> QED BY <2>1, <2>2, EnqueueOwners
<1>2. ASSUME NEW c \in Cpu, NEW t \in Cpu, DeadDrain(c, t) PROVE OInv'
  <2>1. dying \in Cpu /\ UNCHANGED <<csd, pc, sending, resetting, stage>>
    BY <1>2 DEF DeadDrain, HotplugOK, OtherTypes, cpuVars, sendVars
  <2>2. CASE process[dying] # <<>>
    <3>1. Head(process[dying]) \in Packet /\ input \in [Cpu -> Seq(Packet)]
          /\ EnqueueToBacklog(c, t, Head(process[dying]), input)
      BY <1>2, <2>1, <2>2 DEF DeadDrain, DeadQueue, QueueTypes
    <3> QED BY <2>1, <3>1, EnqueueOwners
  <2>3. CASE process[dying] = <<>>
    <3> DEFINE queues == [input EXCEPT ![dying] = Tail(@)]
    <3>1. Head(input[dying]) \in Packet /\ input[dying] # <<>>
          /\ EnqueueToBacklog(c, t, Head(input[dying]), queues)
      BY <1>2, <2>1, <2>3 DEF DeadDrain, DeadQueue, QueueTypes
    <3>2. queues \in [Cpu -> Seq(Packet)]
      BY <2>1, <3>1 DEF QueueTypes
    <3> HIDE DEF queues
    <3> QED BY <2>1, <3>1, <3>2, EnqueueOwners
  <2> QED BY <2>2, <2>3
<1>3. ASSUME NEW x \in Ctx, SendIpi(x) PROVE OInv'
  <2> DEFINE r == Head(sending[x])
             u == Tail(sending[x])
  <2>1. /\ r \in Cpu /\ u \in Seq(Cpu) /\ Elements(sending[x]) = {r} \cup Elements(u)
        /\ Distinct(u) /\ r \notin Elements(u)
    BY <1>3, Taken DEF SendIpi, SoftirqTypes, DistinctOK
  <2>2. /\ resetting[x] = NoCpu /\ sending' = [sending EXCEPT ![x] = u]
        /\ sending[x] # <<>>
        /\ UNCHANGED <<state, link, ipiList, pc, stage>>
        /\ \/ csd' = [csd EXCEPT ![r] = TRUE] /\ UNCHANGED resetting
           \/ resetting' = [resetting EXCEPT ![x] = r] /\ UNCHANGED csd
    BY <1>3 DEF SendIpi, cpuVars
  <2> HIDE DEF r, u
  <2>3. InSend(x, r) /\ ~Awake(r) /\ (\A y \in Cpu : ~OnList(y, r))
        /\ \A y \in Ctx : y # x => ~InSend(y, r)
    <3>1. InSend(x, r)
      BY <2>1 DEF InSend
    <3> QED BY <2>1, <3>1 DEF OwnOK, OneSends, NotBoth, AwakeAlone
  <2>4. SendOK'
    BY <2>2 DEF SendOK, NothingToSend, SoftirqTypes, Ctx
  <2>5. LinkOK'
    BY <2>1, <2>2, <2>3 DEF LinkOK, Awake, Runs, WakeTypes
  <2>6. DistinctOK'
    BY <2>1, <2>2 DEF DistinctOK, SoftirqTypes
  <2>7. \A y, k \in Cpu : OnList(y, k)' <=> OnList(y, k)
    BY <2>2 DEF OnList
  <2>8. \A k \in Cpu : state'[k] <=> state[k]
    BY <2>2
  <2>9. CASE csd' = [csd EXCEPT ![r] = TRUE] /\ UNCHANGED resetting
    <3>1. \A y \in Ctx, k \in Cpu : InSend(y, k)' <=> InSend(y, k) /\ ~(y = x /\ k = r)
      BY <2>1, <2>2, <2>9, BacklogAssumption DEF InSend, SoftirqTypes
    <3>2. \A k \in Cpu : Awake(k)' <=> Awake(k) \/ k = r
      BY <2>1, <2>2, <2>9 DEF Awake, Runs, WakeTypes
    <3>3. OwnOK'
        <4>1. OneLists'
          BY <1>3, <2>1, <2>3, <2>7, <2>8, <3>1, <3>2 DEF OwnOK, OneLists
        <4>2. OneSends'
          BY <1>3, <2>1, <2>3, <2>7, <2>8, <3>1, <3>2 DEF OwnOK, OneSends, NotBoth
        <4>3. NotBoth'
          BY <1>3, <2>1, <2>3, <2>7, <2>8, <3>1, <3>2 DEF OwnOK, NotBoth, OneLists
        <4>4. AwakeAlone'
          BY <1>3, <2>1, <2>3, <2>7, <2>8, <3>1, <3>2 DEF OwnOK, AwakeAlone
        <4>5. BitTells'
          BY <1>3, <2>1, <2>3, <2>7, <2>8, <3>1, <3>2 DEF OwnOK, BitTells, AwakeAlone
        <4> QED BY <4>1, <4>2, <4>3, <4>4, <4>5 DEF OwnOK
    <3> QED BY <2>4, <2>5, <2>6, <3>3
  <2>10. CASE resetting' = [resetting EXCEPT ![x] = r] /\ UNCHANGED csd
    <3>1. \A y \in Ctx, k \in Cpu : InSend(y, k)' <=> InSend(y, k)
      BY <2>1, <2>2, <2>10, BacklogAssumption DEF InSend, SoftirqTypes
    <3>2. \A k \in Cpu : Awake(k)' <=> Awake(k)
      BY <2>2, <2>10 DEF Awake, Runs
    <3>3. OwnOK'
        <4>1. OneLists'
          BY <2>7, <2>8, <3>1, <3>2 DEF OwnOK, OneLists
        <4>2. OneSends'
          BY <2>7, <2>8, <3>1, <3>2 DEF OwnOK, OneSends, NotBoth
        <4>3. NotBoth'
          BY <2>7, <2>8, <3>1, <3>2 DEF OwnOK, NotBoth, OneLists
        <4>4. AwakeAlone'
          BY <2>7, <2>8, <3>1, <3>2 DEF OwnOK, AwakeAlone
        <4>5. BitTells'
          BY <2>7, <2>8, <3>1, <3>2 DEF OwnOK, BitTells, AwakeAlone
        <4> QED BY <4>1, <4>2, <4>3, <4>4, <4>5 DEF OwnOK
    <3> QED BY <2>4, <2>5, <2>6, <3>3
  <2> QED BY <2>2, <2>9, <2>10
<1>4. ASSUME NEW x \in Ctx, ResetRemote(x) PROVE OInv'
  <2> DEFINE r == resetting[x]
  <2>1. /\ r \in Cpu /\ r \notin Elements(sending[x]) /\ InSend(x, r)
        /\ state' = [state EXCEPT ![r] = FALSE]
        /\ resetting' = [resetting EXCEPT ![x] = NoCpu]
        /\ UNCHANGED <<link, ipiList, csd, pc, sending, stage>>
    BY <1>4 DEF ResetRemote, SoftirqTypes, DistinctOK, InSend, cpuVars
  <2> HIDE DEF r
  <2>2. ~Awake(r) /\ (\A y \in Cpu : ~OnList(y, r)) /\ \A y \in Ctx : y # x => ~InSend(y, r)
    BY <1>4, <2>1 DEF OwnOK, OneSends, NotBoth, AwakeAlone
  <2>3. SendOK'
    BY <2>1 DEF SendOK, NothingToSend, SoftirqTypes, Ctx
  <2>4. LinkOK'
    BY <2>1 DEF LinkOK, Runs
  <2>5. NoCpu \notin Elements(sending[x])
    BY <1>4, NotEmpty, BacklogAssumption DEF SoftirqTypes
  <2>6. DistinctOK'
    BY <2>1, <2>5 DEF DistinctOK, SoftirqTypes
  <2>7. \A y, k \in Cpu : OnList(y, k)' <=> OnList(y, k)
    BY <2>1 DEF OnList
  <2>8. \A y \in Ctx, k \in Cpu : InSend(y, k)' <=> InSend(y, k) /\ ~(y = x /\ k = r)
    BY <2>1, BacklogAssumption DEF InSend, SoftirqTypes, r
  <2>9. \A k \in Cpu : Awake(k)' <=> Awake(k)
    BY <2>1 DEF Awake, Runs
  <2>10. \A k \in Cpu : state'[k] <=> state[k] /\ k # r
    BY <2>1 DEF WakeTypes
  <2>11. OwnOK'
      <3>1. OneLists'
        BY <1>4, <2>1, <2>2, <2>7, <2>8, <2>9, <2>10 DEF OwnOK, OneLists
      <3>2. OneSends'
        BY <1>4, <2>1, <2>2, <2>7, <2>8, <2>9, <2>10 DEF OwnOK, OneSends, NotBoth
      <3>3. NotBoth'
        BY <1>4, <2>1, <2>2, <2>7, <2>8, <2>9, <2>10 DEF OwnOK, NotBoth, OneLists
      <3>4. AwakeAlone'
        BY <1>4, <2>1, <2>2, <2>7, <2>8, <2>9, <2>10 DEF OwnOK, AwakeAlone
      <3>5. BitTells'
        BY <1>4, <2>1, <2>2, <2>7, <2>8, <2>9, <2>10 DEF OwnOK, BitTells, AwakeAlone
      <3> QED BY <3>1, <3>2, <3>3, <3>4, <3>5 DEF OwnOK
  <2> QED BY <2>3, <2>4, <2>6, <2>11
<1>5. ASSUME NEW c \in Cpu, RpsTriggerSoftirq(c) PROVE OInv'
  <2>1. SendOK'
    BY <1>5 DEF RpsTriggerSoftirq, SendOK, NothingToSend, SoftirqTypes, sendVars, cpuVars
  <2>2. LinkOK'
    BY <1>5 DEF RpsTriggerSoftirq, LinkOK, Runs, WakeTypes, SoftirqTypes, wakeVars
  <2>3. UNCHANGED <<state, ipiList, sending, resetting>>
    BY <1>5 DEF RpsTriggerSoftirq, wakeVars, sendVars
  <2>4. \A k \in Cpu : Awake(k)' <=> Awake(k)
    BY <1>5 DEF RpsTriggerSoftirq, Awake, Runs, LinkOK, WakeTypes, SoftirqTypes, wakeVars
  <2> QED BY <2>1, <2>2, <2>3, <2>4, SameOwners
<1>6. ASSUME NEW c \in Cpu, NetRxAction(c) PROVE OInv'
  <2>1. SendOK'
    BY <1>6 DEF NetRxAction, SendOK, NothingToSend, SoftirqTypes, sendVars, cpuVars
  <2>2. LinkOK'
    BY <1>6 DEF NetRxAction, LinkOK, Runs, WakeTypes, SoftirqTypes, wakeVars
  <2>3. UNCHANGED <<state, ipiList, sending, resetting>>
    BY <1>6 DEF NetRxAction, wakeVars, sendVars
  <2>4. \A k \in Cpu : Awake(k)' <=> Awake(k)
    BY <1>6 DEF NetRxAction, Awake, Runs, LinkOK, WakeTypes, SoftirqTypes, wakeVars
  <2> QED BY <2>1, <2>2, <2>3, <2>4, SameOwners
<1>7. ASSUME NEW c \in Cpu, Received(c) PROVE OInv'
  <2>1. SendOK'
    BY <1>7 DEF Received, SendOK, NothingToSend, SoftirqTypes, sendVars, cpuVars
  <2>2. LinkOK'
    BY <1>7 DEF Received, LinkOK, Runs, WakeTypes, SoftirqTypes, wakeVars
  <2>3. UNCHANGED <<state, ipiList, sending, resetting>>
    BY <1>7 DEF Received, wakeVars, sendVars
  <2>4. \A k \in Cpu : Awake(k)' <=> Awake(k)
    BY <1>7 DEF Received, Awake, Runs, LinkOK, WakeTypes, SoftirqTypes, wakeVars
  <2> QED BY <2>1, <2>2, <2>3, <2>4, SameOwners
<1>8. ASSUME NEW c \in Cpu, Polled(c) PROVE OInv'
  <2>1. SendOK'
    BY <1>8 DEF Polled, SendOK, NothingToSend, SoftirqTypes, sendVars, cpuVars
  <2>2. LinkOK'
    BY <1>8 DEF Polled, LinkOK, Runs, WakeTypes, SoftirqTypes, wakeVars
  <2>3. UNCHANGED <<state, ipiList, sending, resetting>>
    BY <1>8 DEF Polled, wakeVars, sendVars
  <2>4. \A k \in Cpu : Awake(k)' <=> Awake(k)
    BY <1>8 DEF Polled, Awake, Runs, LinkOK, WakeTypes, SoftirqTypes, wakeVars
  <2> QED BY <2>1, <2>2, <2>3, <2>4, SameOwners
<1>9. ASSUME NEW c \in Cpu, Sent(c) PROVE OInv'
  <2>1. SendOK'
    BY <1>9 DEF Sent, SendOK, NothingToSend, SoftirqTypes, sendVars, cpuVars
  <2>2. LinkOK'
    BY <1>9 DEF Sent, LinkOK, Runs, WakeTypes, SoftirqTypes, wakeVars
  <2>3. UNCHANGED <<state, ipiList, sending, resetting>>
    BY <1>9 DEF Sent, wakeVars, sendVars
  <2>4. \A k \in Cpu : Awake(k)' <=> Awake(k)
    BY <1>9 DEF Sent, Awake, Runs, LinkOK, WakeTypes, SoftirqTypes, wakeVars
  <2> QED BY <2>1, <2>2, <2>3, <2>4, SameOwners
<1>10. ASSUME NEW c \in Cpu, CpuDown(c) PROVE OInv'
  <2>1. SendOK'
    BY <1>10 DEF CpuDown, SendOK, NothingToSend, SoftirqTypes, sendVars, cpuVars, HotplugOK
  <2>2. LinkOK'
    BY <1>10 DEF CpuDown, LinkOK, Runs, WakeTypes, SoftirqTypes, wakeVars
  <2>3. UNCHANGED <<state, ipiList, sending, resetting>>
    BY <1>10 DEF CpuDown, wakeVars, sendVars
  <2>4. \A k \in Cpu : Awake(k)' <=> Awake(k)
    BY <1>10 DEF CpuDown, Awake, Runs, LinkOK, WakeTypes, SoftirqTypes, wakeVars
  <2> QED BY <2>1, <2>2, <2>3, <2>4, SameOwners
<1>11. ASSUME NEW c \in Cpu, CpuUp(c) PROVE OInv'
  <2>1. SendOK'
    BY <1>11 DEF CpuUp, SendOK, NothingToSend, SoftirqTypes, sendVars, cpuVars
  <2>2. LinkOK'
    BY <1>11 DEF CpuUp, LinkOK, Runs, WakeTypes, SoftirqTypes, wakeVars
  <2>3. UNCHANGED <<state, ipiList, sending, resetting>>
    BY <1>11 DEF CpuUp, wakeVars, sendVars
  <2>4. \A k \in Cpu : Awake(k)' <=> Awake(k)
    BY <1>11 DEF CpuUp, Awake, Runs, LinkOK, WakeTypes, SoftirqTypes, wakeVars
  <2> QED BY <2>1, <2>2, <2>3, <2>4, SameOwners
<1>12. ASSUME DeadDone PROVE OInv'
  <2>1. SendOK'
    BY <1>12 DEF DeadDone, SendOK, NothingToSend, SoftirqTypes, sendVars, cpuVars
  <2>2. LinkOK'
    BY <1>12 DEF DeadDone, LinkOK, Runs, WakeTypes, SoftirqTypes, wakeVars
  <2>3. UNCHANGED <<state, ipiList, sending, resetting>>
    BY <1>12 DEF DeadDone, wakeVars, sendVars
  <2>4. \A k \in Cpu : Awake(k)' <=> Awake(k)
    BY <1>12 DEF DeadDone, Awake, Runs, LinkOK, WakeTypes, SoftirqTypes, wakeVars
  <2> QED BY <2>1, <2>2, <2>3, <2>4, SameOwners
<1>13. ASSUME NEW c \in Cpu, FlushBacklog(c) PROVE OInv'
  <2>1. SendOK'
    BY <1>13 DEF FlushBacklog, SendOK, NothingToSend, SoftirqTypes, sendVars, cpuVars
  <2>2. LinkOK'
    BY <1>13 DEF FlushBacklog, LinkOK, Runs, WakeTypes, SoftirqTypes, wakeVars
  <2>3. UNCHANGED <<state, ipiList, sending, resetting>>
    BY <1>13 DEF FlushBacklog, wakeVars, sendVars
  <2>4. \A k \in Cpu : Awake(k)' <=> Awake(k)
    BY <1>13 DEF FlushBacklog, Awake, Runs, LinkOK, WakeTypes, SoftirqTypes, wakeVars
  <2> QED BY <2>1, <2>2, <2>3, <2>4, SameOwners
<1>14. ASSUME DeviceStep PROVE OInv'
  <2>1. SendOK'
    BY <1>14 DEF DeviceStep, CloseDevice, FlushBegin, FlushEnd, FreeDevice, SendOK,
       NothingToSend, SoftirqTypes, sendVars, cpuVars
  <2>2. LinkOK'
    BY <1>14 DEF DeviceStep, CloseDevice, FlushBegin, FlushEnd, FreeDevice, LinkOK, Runs,
       WakeTypes, SoftirqTypes, wakeVars
  <2>3. UNCHANGED <<state, ipiList, sending, resetting>>
    BY <1>14 DEF DeviceStep, CloseDevice, FlushBegin, FlushEnd, FreeDevice, wakeVars, sendVars
  <2>4. \A k \in Cpu : Awake(k)' <=> Awake(k)
    BY <1>14 DEF DeviceStep, CloseDevice, FlushBegin, FlushEnd, FreeDevice, Awake, Runs, LinkOK,
       WakeTypes, SoftirqTypes, wakeVars
  <2> QED BY <2>1, <2>2, <2>3, <2>4, SameOwners
<1>15. ASSUME NEW c \in Cpu, NapiPoll(c) PROVE OInv'
  <2>1. /\ NothingToSend(c) /\ ipiList' = [ipiList EXCEPT ![c] = <<>>]
        /\ sending' = [sending EXCEPT ![c] = ipiList[c]]
        /\ UNCHANGED <<state, csd, resetting, stage>>
        /\ pc' = [pc EXCEPT ![c] = "loop"] /\ pc[c] = "poll"
    BY <1>15 DEF NapiPoll, SendOK, cpuVars
  <2>2. c \in Ctx /\ c # Hotplug /\ NoCpu \notin Elements(ipiList[c])
    BY NotEmpty, BacklogAssumption DEF Ctx, WakeTypes
  <2>3. SendOK'
    BY <2>1, <2>2 DEF SendOK, NothingToSend, SoftirqTypes, Ctx
  <2>4. LinkOK'
    BY <1>15, <2>1 DEF NapiPoll, LinkOK, Runs, WakeTypes, SoftirqTypes
  <2>5. DistinctOK'
    BY <2>1, <2>2, Emptied DEF DistinctOK, NothingToSend, SoftirqTypes, WakeTypes
  <2>6. \A x, k \in Cpu : OnList(x, k)' <=> OnList(x, k) /\ x # c
    BY <2>1, Emptied DEF OnList, WakeTypes
  <2>7. \A y \in Ctx, k \in Cpu : InSend(y, k)' <=> InSend(y, k) \/ (y = c /\ OnList(c, k))
    BY <2>1, <2>2, Emptied, BacklogAssumption DEF InSend, OnList, NothingToSend, SoftirqTypes
  <2>8. \A k \in Cpu : Awake(k)' <=> Awake(k)
    BY <1>15, <2>1 DEF NapiPoll, Awake, Runs, LinkOK, WakeTypes, SoftirqTypes
  <2>9. \A k \in Cpu : ~InSend(c, k)
    BY <2>1, Emptied, BacklogAssumption DEF InSend, NothingToSend
  <2>10. OwnOK'
      <3>1. OneLists'
        BY <2>1, <2>2, <2>6, <2>7, <2>8, <2>9 DEF OwnOK, OneLists
      <3>2. OneSends'
        BY <2>1, <2>2, <2>6, <2>7, <2>8, <2>9 DEF OwnOK, OneSends, NotBoth
      <3>3. NotBoth'
        BY <2>1, <2>2, <2>6, <2>7, <2>8, <2>9 DEF OwnOK, NotBoth, OneLists
      <3>4. AwakeAlone'
        BY <2>1, <2>2, <2>6, <2>7, <2>8, <2>9 DEF OwnOK, AwakeAlone
      <3>5. BitTells'
        BY <2>1, <2>2, <2>6, <2>7, <2>8, <2>9 DEF OwnOK, BitTells, AwakeAlone
      <3> QED BY <3>1, <3>2, <3>3, <3>4, <3>5 DEF OwnOK
  <2> QED BY <2>3, <2>4, <2>5, <2>10
<1>16. ASSUME NEW c \in Cpu, End(c) PROVE OInv'
  <2>1. /\ NothingToSend(c) /\ ipiList' = [ipiList EXCEPT ![c] = <<>>]
        /\ sending' = [sending EXCEPT ![c] = ipiList[c]]
        /\ UNCHANGED <<state, csd, resetting, stage>>
        /\ pc' = [pc EXCEPT ![c] = "send"] /\ pc[c] = "end"
    BY <1>16 DEF End, SendOK, cpuVars
  <2>2. c \in Ctx /\ c # Hotplug /\ NoCpu \notin Elements(ipiList[c])
    BY NotEmpty, BacklogAssumption DEF Ctx, WakeTypes
  <2>3. SendOK'
    BY <2>1, <2>2 DEF SendOK, NothingToSend, SoftirqTypes, Ctx
  <2>4. LinkOK'
    BY <1>16, <2>1 DEF End, LinkOK, Runs, WakeTypes, SoftirqTypes
  <2>5. DistinctOK'
    BY <2>1, <2>2, Emptied DEF DistinctOK, NothingToSend, SoftirqTypes, WakeTypes
  <2>6. \A x, k \in Cpu : OnList(x, k)' <=> OnList(x, k) /\ x # c
    BY <2>1, Emptied DEF OnList, WakeTypes
  <2>7. \A y \in Ctx, k \in Cpu : InSend(y, k)' <=> InSend(y, k) \/ (y = c /\ OnList(c, k))
    BY <2>1, <2>2, Emptied, BacklogAssumption DEF InSend, OnList, NothingToSend, SoftirqTypes
  <2>8. \A k \in Cpu : Awake(k)' <=> Awake(k)
    BY <1>16, <2>1 DEF End, Awake, Runs, LinkOK, WakeTypes, SoftirqTypes
  <2>9. \A k \in Cpu : ~InSend(c, k)
    BY <2>1, Emptied, BacklogAssumption DEF InSend, NothingToSend
  <2>10. OwnOK'
      <3>1. OneLists'
        BY <2>1, <2>2, <2>6, <2>7, <2>8, <2>9 DEF OwnOK, OneLists
      <3>2. OneSends'
        BY <2>1, <2>2, <2>6, <2>7, <2>8, <2>9 DEF OwnOK, OneSends, NotBoth
      <3>3. NotBoth'
        BY <2>1, <2>2, <2>6, <2>7, <2>8, <2>9 DEF OwnOK, NotBoth, OneLists
      <3>4. AwakeAlone'
        BY <2>1, <2>2, <2>6, <2>7, <2>8, <2>9 DEF OwnOK, AwakeAlone
      <3>5. BitTells'
        BY <2>1, <2>2, <2>6, <2>7, <2>8, <2>9 DEF OwnOK, BitTells, AwakeAlone
      <3> QED BY <3>1, <3>2, <3>3, <3>4, <3>5 DEF OwnOK
  <2> QED BY <2>3, <2>4, <2>5, <2>10
<1>17. ASSUME DeadLists PROVE OInv'
  <2> DEFINE d == dying
  <2>1. /\ d \in Cpu /\ pc[d] = "idle" /\ ~csd[d] /\ NothingToSend(Hotplug)
        /\ ipiList' = [ipiList EXCEPT ![d] = <<>>] /\ link' = [link EXCEPT ![d] = "none"]
        /\ state' = [state EXCEPT ![d] = @ /\ link[d] = "none"]
        /\ sending' = [sending EXCEPT ![Hotplug] = ipiList[d]]
        /\ UNCHANGED <<csd, resetting, pc>> /\ stage' = "drain"
    BY <1>17 DEF DeadLists, SendOK, HotplugOK, OtherTypes
  <2> HIDE DEF d
  <2>2. Hotplug \in Ctx /\ Hotplug \notin Cpu /\ NoCpu \notin Elements(ipiList[d])
    BY <2>1, NotEmpty, BacklogAssumption DEF Ctx, WakeTypes
  <2>3. SendOK'
    BY <2>1, <2>2 DEF SendOK, NothingToSend, SoftirqTypes, Ctx
  <2>4. LinkOK'
    BY <2>1 DEF LinkOK, Runs, WakeTypes
  <2>5. DistinctOK'
    BY <2>1, <2>2, Emptied DEF DistinctOK, NothingToSend, SoftirqTypes, WakeTypes
  <2>6. \A x, k \in Cpu : OnList(x, k)' <=> OnList(x, k) /\ x # d
    BY <2>1, Emptied DEF OnList, WakeTypes
  <2>7. \A y \in Ctx, k \in Cpu : InSend(y, k)' <=> InSend(y, k) \/ (y = Hotplug /\ OnList(d, k))
    BY <2>1, <2>2, Emptied, BacklogAssumption DEF InSend, OnList, NothingToSend, SoftirqTypes
  <2>8. \A k \in Cpu : Awake(k)' <=> Awake(k) /\ k # d
    BY <2>1 DEF Awake, Runs, WakeTypes
  <2>9. \A k \in Cpu : state'[k] <=> state[k] /\ ~(k = d /\ Awake(d))
    BY <2>1 DEF WakeTypes, Awake, Runs
  <2>10. \A k \in Cpu : ~InSend(Hotplug, k)
    BY <2>1, Emptied, BacklogAssumption DEF InSend, NothingToSend
  <2>11. OwnOK'
      <3>1. OneLists'
        BY <2>1, <2>2, <2>6, <2>7, <2>8, <2>9, <2>10 DEF OwnOK, OneLists
      <3>2. OneSends'
        BY <2>1, <2>2, <2>6, <2>7, <2>8, <2>9, <2>10 DEF OwnOK, OneSends, NotBoth
      <3>3. NotBoth'
        BY <2>1, <2>2, <2>6, <2>7, <2>8, <2>9, <2>10 DEF OwnOK, NotBoth, OneLists
      <3>4. AwakeAlone'
        BY <2>1, <2>2, <2>6, <2>7, <2>8, <2>9, <2>10 DEF OwnOK, AwakeAlone
      <3>5. BitTells'
        BY <2>1, <2>2, <2>6, <2>7, <2>8, <2>9, <2>10 DEF OwnOK, BitTells, AwakeAlone
      <3> QED BY <3>1, <3>2, <3>3, <3>4, <3>5 DEF OwnOK
  <2> QED BY <2>3, <2>4, <2>5, <2>11
<1>18. ASSUME NEW c \in Cpu, ProcessBacklog(c) PROVE OInv'
  <2>1. NothingToSend(c) /\ UNCHANGED <<link, ipiList, csd, sending, resetting, stage>> /\ Runs(c)
    BY <1>18 DEF ProcessBacklog, Runs, sendVars, cpuVars
  <2>2. SendOK'
    BY <1>18, <2>1 DEF ProcessBacklog, SendOK, NothingToSend, SoftirqTypes
  <2>3. CASE NextPackets(c) = <<>>
    <3>1. pc' = [pc EXCEPT ![c] = "polled"] /\ state' = [state EXCEPT ![c] = FALSE]
      BY <1>18, <2>3 DEF ProcessBacklog
    <3>2. LinkOK'
      BY <2>1, <3>1 DEF LinkOK, Runs, SoftirqTypes
    <3>3. DistinctOK'
      BY <2>1 DEF DistinctOK
    <3>4. (\A x, k \in Cpu : OnList(x, k)' <=> OnList(x, k))
          /\ \A y \in Ctx, k \in Cpu : InSend(y, k)' <=> InSend(y, k)
      BY <2>1 DEF OnList, InSend
    <3>5. \A k \in Cpu : (Awake(k)' <=> Awake(k) /\ k # c) /\ (state'[k] <=> state[k] /\ k # c)
      BY <2>1, <3>1 DEF Awake, Runs, LinkOK, SoftirqTypes, WakeTypes
    <3>6. Awake(c)
      BY <2>1 DEF Awake
    <3>7. OwnOK'
        <4>1. OneLists'
          BY <3>4, <3>5, <3>6 DEF OwnOK, OneLists
        <4>2. OneSends'
          BY <3>4, <3>5, <3>6 DEF OwnOK, OneSends, NotBoth
        <4>3. NotBoth'
          BY <3>4, <3>5, <3>6 DEF OwnOK, NotBoth, OneLists
        <4>4. AwakeAlone'
          BY <3>4, <3>5, <3>6 DEF OwnOK, AwakeAlone
        <4>5. BitTells'
          BY <3>4, <3>5, <3>6 DEF OwnOK, BitTells, AwakeAlone
        <4> QED BY <4>1, <4>2, <4>3, <4>4, <4>5 DEF OwnOK
    <3> QED BY <2>2, <3>2, <3>3, <3>7
  <2>4. CASE NextPackets(c) # <<>>
    <3>1. pc' = [pc EXCEPT ![c] = "receive"] /\ UNCHANGED state
      BY <1>18, <2>4 DEF ProcessBacklog
    <3>2. LinkOK'
      BY <1>18, <2>1, <3>1 DEF LinkOK, Runs, SoftirqTypes
    <3>3. \A k \in Cpu : Awake(k)' <=> Awake(k)
      BY <2>1, <3>1 DEF Awake, Runs, SoftirqTypes
    <3> QED BY <2>1, <2>2, <3>1, <3>2, <3>3, SameOwners
  <2> QED BY <2>3, <2>4
<1>19. ASSUME UNCHANGED vars PROVE OInv'
  <2>1. SendOK' /\ LinkOK'
    BY <1>19 DEF vars, SendOK, LinkOK, NothingToSend, Runs
  <2>2. \A k \in Cpu : Awake(k)' <=> Awake(k)
    BY <1>19 DEF vars, Awake, Runs
  <2> QED BY <1>19, <2>1, <2>2, SameOwners DEF vars
<1> QED
  BY <1>1, <1>2, <1>3, <1>4, <1>5, <1>6, <1>7, <1>8, <1>9, <1>10, <1>11, <1>12, <1>13, <1>14,
     <1>15, <1>16, <1>17, <1>18, <1>19 DEF Next, SoftirqStep, IpiStep, HotplugStep
-----------------------------------------------------------------------------
(* Queues.                                                                 *)

\* QueueIsScheduled, queue by queue.
Scheduled == \A c \in online : input[c] # <<>> \/ process[c] # <<>> => state[c] \/ c \in stranded

LEMMA EitherQueue == ASSUME NEW s \in Seq(Packet), NEW t \in Seq(Packet)
                     PROVE  s \o t # <<>> <=> s # <<>> \/ t # <<>>
  OBVIOUS

LEMMA QInvInit == Init => QInv
<1> SUFFICES ASSUME Init PROVE QInv
  OBVIOUS
<1>1. QueueOK /\ FlushOK
  BY DEF Init, QueueOK, FlushOK
<1>2. Scheduled /\ TInv
  BY TInvInit DEF Init, Scheduled
<1> QED BY <1>1, <1>2, EitherQueue DEF QInv, TInv, TypeOK, QueueTypes, OtherTypes, Scheduled,
         QueueIsScheduled

\* enqueue_to_backlog puts a packet of a device that is up on the queue of a CPU that is on,
\* which is scheduled then.
LEMMA EnqueueQueues ==
    ASSUME TInv, QInv, NEW c \in Cpu, NEW t \in online, NEW p \in Packet,
           NEW queues \in [Cpu -> Seq(Packet)], EnqueueToBacklog(c, t, p, queues),
           \A k \in Cpu : k # dying => queues[k] = input[k] /\ process'[k] = process[k],
           UNCHANGED <<online, dying, pc, hand, deviceVars, stranded>>
    PROVE  QueueOK' /\ FlushOK' /\ Scheduled'
<1> USE DEF TInv, TypeOK, QInv, deviceVars
<1>1. t \in Cpu /\ dying \notin online /\ online \subseteq Cpu /\ state \in [Cpu -> BOOLEAN]
  BY DEF OtherTypes, HotplugOK, WakeTypes
<1>2. \A k \in Cpu : k \notin {dying, t} => input'[k] = input[k]
  BY <1>1 DEF EnqueueToBacklog
<1>3. (\A k \in Cpu : state[k] => state'[k]) /\ \A k \in Cpu : link[k] # "none" => link'[k] # "none"
  BY <1>1 DEF EnqueueToBacklog, Schedule, WakeTypes
<1>4. \/ input'[t] = input[t]
      \/ /\ Elements(input'[t]) = Elements(input[t]) \cup {p}
         /\ p \in OfGone => device = "up"
         /\ input[t] = <<>> => state'[t]
  <2>1. queues[t] = input[t] /\ input[t] \in Seq(Packet)
    BY <1>1 DEF QueueTypes
  <2>2. Elements(Append(input[t], p)) = Elements(input[t]) \cup {p}
    BY <2>1, Added
  <2>3. input[t] = <<>> => Len(input[t]) = 0
    OBVIOUS
  <2>4. Len(input[t]) = 0 => state'[t] \/ input' = queues
    BY <1>1, <2>1 DEF EnqueueToBacklog, Schedule
  <2> QED BY <1>1, <2>1, <2>2, <2>3, <2>4 DEF EnqueueToBacklog, Running
<1>5. QueueOK'
  BY <1>1, <1>2, <1>3 DEF QueueOK, Runs
<1>6. FlushOK'
  <2>1. ASSUME NEW k \in online, device # "up"
        PROVE  /\ Elements(input'[k]) \cap OfGone \subseteq Elements(input[k]) \cap OfGone
               /\ process'[k] = process[k]
    BY <1>1, <1>2, <1>4, <2>1
  <2> QED BY <2>1 DEF FlushOK
<1>7. Scheduled
  BY <1>1, EitherQueue DEF QueueTypes, QueueIsScheduled, Scheduled
<1>8. Scheduled'
  BY <1>1, <1>2, <1>3, <1>4, <1>7 DEF Scheduled
<1> QED BY <1>5, <1>6, <1>8

\* A step that leaves the queues alone, and whoever is going to run process_backlog.
LEMMA SameQueues ==
    ASSUME QueueOK, online \subseteq Cpu, UNCHANGED <<input, process, hand, online, dying>>,
           \A k \in Cpu : /\ Runs(k) \/ link[k] # "none" => Runs(k)' \/ link'[k] # "none"
                          /\ pc[k] = "receive" => pc'[k] = "receive"
    PROVE  QueueOK'
<1>1. \A c \in online : process[c] # <<>> => Runs(c)' \/ link'[c] # "none"
  BY DEF QueueOK
<1>2. \A c \in Cpu : hand[c] # <<>> => pc'[c] = "receive"
  BY DEF QueueOK
<1>3. \A c \in Cpu \ online : c # dying => input[c] = <<>> /\ process[c] = <<>>
  BY DEF QueueOK
<1>4. input' = input /\ process' = process /\ hand' = hand /\ online' = online /\ dying' = dying
  OBVIOUS
<1> QED BY <1>1, <1>2, <1>3, <1>4 DEF QueueOK

LEMMA KeptNone == ASSUME NEW s \in Seq(Packet)
                  PROVE  Elements(Kept(s)) \cap OfGone = {} /\ (s = <<>> => Kept(s) = <<>>)
<1>1. Kept(s) \in Seq(Packet) /\ Elements(Kept(s)) \subseteq Elements(s) \ OfGone
  BY KeptType
<1>2. s = <<>> => Elements(Kept(s)) = {}
  BY <1>1, Emptied
<1> QED BY <1>1, <1>2, NotEmpty

LEMMA QInvStep == ASSUME IInv, [Next]_vars PROVE QInv'
<1> USE DEF IInv, TInv, TypeOK, QInv
<1>0. SUFFICES QueueOK' /\ FlushOK' /\ Scheduled'
  <2>1. QueueTypes' /\ OtherTypes'
    BY TInvStep
  <2> QED BY <2>1, EitherQueue DEF QueueTypes, OtherTypes, Scheduled, QueueIsScheduled
<1>q. Scheduled
  BY EitherQueue DEF QueueTypes, OtherTypes, QueueIsScheduled, Scheduled
<1>1. ASSUME NEW c \in Cpu, NEW t \in Cpu, NetifRx(c, t) PROVE QueueOK' /\ FlushOK' /\ Scheduled'
  <2>1. arrived + 1 \in Packet /\ input \in [Cpu -> Seq(Packet)]
    BY <1>1, BacklogAssumption DEF NetifRx, OtherTypes, QueueTypes, Packet
  <2>2. /\ EnqueueToBacklog(c, t, arrived + 1, input) /\ t \in online /\ UNCHANGED process
        /\ UNCHANGED <<online, dying, pc, hand, deviceVars, stranded>>
    BY <1>1 DEF NetifRx, cpuVars
  <2> QED BY <2>1, <2>2, EnqueueQueues
<1>2. ASSUME NEW c \in Cpu, NEW t \in Cpu, DeadDrain(c, t)
      PROVE  QueueOK' /\ FlushOK' /\ Scheduled'
  <2>1. /\ dying \in Cpu /\ t \in online
        /\ UNCHANGED <<online, dying, pc, hand, deviceVars, stranded>>
    BY <1>2 DEF DeadDrain, HotplugOK, OtherTypes, cpuVars
  <2>2. CASE process[dying] # <<>>
    <3>1. /\ Head(process[dying]) \in Packet /\ input \in [Cpu -> Seq(Packet)]
          /\ EnqueueToBacklog(c, t, Head(process[dying]), input)
          /\ \A k \in Cpu : k # dying => process'[k] = process[k]
      BY <1>2, <2>1, <2>2 DEF DeadDrain, DeadQueue, QueueTypes
    <3> QED BY <2>1, <3>1, EnqueueQueues
  <2>3. CASE process[dying] = <<>>
    <3> DEFINE queues == [input EXCEPT ![dying] = Tail(@)]
    <3>1. /\ Head(input[dying]) \in Packet /\ input[dying] # <<>> /\ UNCHANGED process
          /\ EnqueueToBacklog(c, t, Head(input[dying]), queues)
      BY <1>2, <2>1, <2>3 DEF DeadDrain, DeadQueue, QueueTypes
    <3>2. queues \in [Cpu -> Seq(Packet)] /\ \A k \in Cpu : k # dying => queues[k] = input[k]
      BY <2>1, <3>1 DEF QueueTypes
    <3> HIDE DEF queues
    <3> QED BY <2>1, <3>1, <3>2, EnqueueQueues
  <2> QED BY <2>2, <2>3
<1>3. ASSUME NEW x \in Ctx, ResetRemote(x) PROVE QueueOK' /\ FlushOK' /\ Scheduled'
  <2> DEFINE r == resetting[x]
  <2>1. r \in Cpu /\ InSend(x, r) /\ ~Awake(r)
    BY <1>3 DEF ResetRemote, SoftirqTypes, InSend, OInv, OwnOK, AwakeAlone
  <2>2. r \in online => process[r] = <<>>
    BY <2>1 DEF QueueOK, Awake
  <2>3. \A k \in online : k # r \/ state'[k] \/ input[k] = <<>> \/ k \in stranded'
    BY <1>3 DEF ResetRemote
  <2>4. (\A k \in Cpu : k # r => state'[k] = state[k]) /\ stranded \subseteq stranded'
    BY <1>3 DEF ResetRemote, WakeTypes
  <2>5. UNCHANGED <<online, dying, input, process, hand, pc, link, device, toFlush>>
    BY <1>3 DEF ResetRemote, cpuVars, queueVars, deviceVars
  <2> HIDE DEF r
  <2>6. QueueOK' /\ FlushOK'
    BY <2>5 DEF QueueOK, FlushOK, Runs
  <2>7. Scheduled'
    BY <1>q, <2>1, <2>2, <2>3, <2>4, <2>5 DEF Scheduled, OtherTypes
  <2> QED BY <2>6, <2>7
<1>4. ASSUME NEW x \in Ctx, SendIpi(x) PROVE QueueOK' /\ FlushOK' /\ Scheduled'
  <2>1. QueueOK'
    <3>1. \A k \in Cpu : /\ Runs(k) \/ link[k] # "none" => Runs(k)' \/ link'[k] # "none"
                         /\ pc[k] = "receive" => pc'[k] = "receive"
      BY <1>4 DEF SendIpi, Runs, WakeTypes, SoftirqTypes, wakeVars
    <3>2. UNCHANGED <<input, process, hand, online, dying>>
      BY <1>4 DEF SendIpi, queueVars, cpuVars
    <3>3. online \subseteq Cpu
      BY DEF OtherTypes
    <3> QED BY <3>1, <3>2, <3>3, SameQueues
  <2>2. FlushOK'
    BY <1>4 DEF SendIpi, FlushOK, cpuVars, queueVars, deviceVars
  <2>3. Scheduled'
    BY <1>q, <1>4 DEF SendIpi, Scheduled, cpuVars, queueVars, wakeVars
  <2> QED BY <2>1, <2>2, <2>3
<1>5. ASSUME NEW c \in Cpu, RpsTriggerSoftirq(c) PROVE QueueOK' /\ FlushOK' /\ Scheduled'
  <2>1. QueueOK'
    <3>1. \A k \in Cpu : /\ Runs(k) \/ link[k] # "none" => Runs(k)' \/ link'[k] # "none"
                         /\ pc[k] = "receive" => pc'[k] = "receive"
      BY <1>5 DEF RpsTriggerSoftirq, Runs, WakeTypes, SoftirqTypes, wakeVars
    <3>2. UNCHANGED <<input, process, hand, online, dying>>
      BY <1>5 DEF RpsTriggerSoftirq, queueVars, cpuVars
    <3>3. online \subseteq Cpu
      BY DEF OtherTypes
    <3> QED BY <3>1, <3>2, <3>3, SameQueues
  <2>2. FlushOK'
    BY <1>5 DEF RpsTriggerSoftirq, FlushOK, cpuVars, queueVars, deviceVars
  <2>3. Scheduled'
    BY <1>q, <1>5 DEF RpsTriggerSoftirq, Scheduled, cpuVars, queueVars, wakeVars
  <2> QED BY <2>1, <2>2, <2>3
<1>6. ASSUME NEW c \in Cpu, NetRxAction(c) PROVE QueueOK' /\ FlushOK' /\ Scheduled'
  <2>1. QueueOK'
    <3>1. \A k \in Cpu : /\ Runs(k) \/ link[k] # "none" => Runs(k)' \/ link'[k] # "none"
                         /\ pc[k] = "receive" => pc'[k] = "receive"
      BY <1>6 DEF NetRxAction, Runs, WakeTypes, SoftirqTypes, wakeVars
    <3>2. UNCHANGED <<input, process, hand, online, dying>>
      BY <1>6 DEF NetRxAction, queueVars, cpuVars
    <3>3. online \subseteq Cpu
      BY DEF OtherTypes
    <3> QED BY <3>1, <3>2, <3>3, SameQueues
  <2>2. FlushOK'
    BY <1>6 DEF NetRxAction, FlushOK, cpuVars, queueVars, deviceVars
  <2>3. Scheduled'
    BY <1>q, <1>6 DEF NetRxAction, Scheduled, cpuVars, queueVars, wakeVars
  <2> QED BY <2>1, <2>2, <2>3
<1>7. ASSUME NEW c \in Cpu, NapiPoll(c) PROVE QueueOK' /\ FlushOK' /\ Scheduled'
  <2>1. QueueOK'
    <3>1. \A k \in Cpu : /\ Runs(k) \/ link[k] # "none" => Runs(k)' \/ link'[k] # "none"
                         /\ pc[k] = "receive" => pc'[k] = "receive"
      BY <1>7 DEF NapiPoll, Runs, WakeTypes, SoftirqTypes, wakeVars
    <3>2. UNCHANGED <<input, process, hand, online, dying>>
      BY <1>7 DEF NapiPoll, queueVars, cpuVars
    <3>3. online \subseteq Cpu
      BY DEF OtherTypes
    <3> QED BY <3>1, <3>2, <3>3, SameQueues
  <2>2. FlushOK'
    BY <1>7 DEF NapiPoll, FlushOK, cpuVars, queueVars, deviceVars
  <2>3. Scheduled'
    BY <1>q, <1>7 DEF NapiPoll, Scheduled, cpuVars, queueVars, wakeVars
  <2> QED BY <2>1, <2>2, <2>3
<1>8. ASSUME NEW c \in Cpu, Polled(c) PROVE QueueOK' /\ FlushOK' /\ Scheduled'
  <2>1. QueueOK'
    <3>1. \A k \in Cpu : /\ Runs(k) \/ link[k] # "none" => Runs(k)' \/ link'[k] # "none"
                         /\ pc[k] = "receive" => pc'[k] = "receive"
      BY <1>8 DEF Polled, Runs, WakeTypes, SoftirqTypes, wakeVars
    <3>2. UNCHANGED <<input, process, hand, online, dying>>
      BY <1>8 DEF Polled, queueVars, cpuVars
    <3>3. online \subseteq Cpu
      BY DEF OtherTypes
    <3> QED BY <3>1, <3>2, <3>3, SameQueues
  <2>2. FlushOK'
    BY <1>8 DEF Polled, FlushOK, cpuVars, queueVars, deviceVars
  <2>3. Scheduled'
    BY <1>q, <1>8 DEF Polled, Scheduled, cpuVars, queueVars, wakeVars
  <2> QED BY <2>1, <2>2, <2>3
<1>9. ASSUME NEW c \in Cpu, End(c) PROVE QueueOK' /\ FlushOK' /\ Scheduled'
  <2>1. QueueOK'
    <3>1. \A k \in Cpu : /\ Runs(k) \/ link[k] # "none" => Runs(k)' \/ link'[k] # "none"
                         /\ pc[k] = "receive" => pc'[k] = "receive"
      BY <1>9 DEF End, Runs, WakeTypes, SoftirqTypes, wakeVars
    <3>2. UNCHANGED <<input, process, hand, online, dying>>
      BY <1>9 DEF End, queueVars, cpuVars
    <3>3. online \subseteq Cpu
      BY DEF OtherTypes
    <3> QED BY <3>1, <3>2, <3>3, SameQueues
  <2>2. FlushOK'
    BY <1>9 DEF End, FlushOK, cpuVars, queueVars, deviceVars
  <2>3. Scheduled'
    BY <1>q, <1>9 DEF End, Scheduled, cpuVars, queueVars, wakeVars
  <2> QED BY <2>1, <2>2, <2>3
<1>10. ASSUME NEW c \in Cpu, Sent(c) PROVE QueueOK' /\ FlushOK' /\ Scheduled'
  <2>1. QueueOK'
    <3>1. \A k \in Cpu : /\ Runs(k) \/ link[k] # "none" => Runs(k)' \/ link'[k] # "none"
                         /\ pc[k] = "receive" => pc'[k] = "receive"
      BY <1>10 DEF Sent, Runs, WakeTypes, SoftirqTypes, wakeVars
    <3>2. UNCHANGED <<input, process, hand, online, dying>>
      BY <1>10 DEF Sent, queueVars, cpuVars
    <3>3. online \subseteq Cpu
      BY DEF OtherTypes
    <3> QED BY <3>1, <3>2, <3>3, SameQueues
  <2>2. FlushOK'
    BY <1>10 DEF Sent, FlushOK, cpuVars, queueVars, deviceVars
  <2>3. Scheduled'
    BY <1>q, <1>10 DEF Sent, Scheduled, cpuVars, queueVars, wakeVars
  <2> QED BY <2>1, <2>2, <2>3
<1>11. ASSUME NEW c \in Cpu, Received(c) PROVE QueueOK' /\ FlushOK' /\ Scheduled'
  <2>1. /\ hand' = [hand EXCEPT ![c] = <<>>]
        /\ \/ pc' = [pc EXCEPT ![c] = "polled"] /\ link' = [link EXCEPT ![c] = "repoll"]
           \/ pc' = [pc EXCEPT ![c] = "loop"] /\ UNCHANGED link
        /\ UNCHANGED <<online, dying, input, process, state, device, toFlush, stranded>>
    BY <1>11 DEF Received, cpuVars, deviceVars
  <2>2. QueueOK'
    <3>1. /\ \A k \in Cpu : k # c => /\ hand'[k] = hand[k] /\ pc'[k] = pc[k]
                                    /\ link'[k] = link[k]
          /\ hand'[c] = <<>> /\ (Runs(c)' \/ link'[c] # "none")
      BY <2>1 DEF Runs, WakeTypes, SoftirqTypes, QueueTypes
    <3> QED BY <2>1, <3>1 DEF QueueOK, Runs, OtherTypes
  <2>3. FlushOK'
    BY <2>1, Emptied DEF FlushOK, QueueTypes
  <2>4. Scheduled'
    BY <1>q, <2>1 DEF Scheduled
  <2> QED BY <2>2, <2>3, <2>4
<1>12. ASSUME NEW c \in Cpu, ProcessBacklog(c) PROVE QueueOK' /\ FlushOK' /\ Scheduled'
  <2> DEFINE s == NextPackets(c)
  <2>1. /\ pc[c] = "loop" /\ c \in online
        /\ UNCHANGED <<online, dying, link, device, toFlush, stranded>>
    BY <1>12 DEF ProcessBacklog, HotplugOK, cpuVars, deviceVars
  <2>2. /\ s \in Seq(Packet) /\ Elements(s) \subseteq Elements(input[c]) \cup Elements(process[c])
        /\ s = <<>> => input[c] = <<>> /\ process[c] = <<>>
    BY DEF NextPackets, QueueTypes
  <2>3. CASE s = <<>>
    <3>1. /\ state' = [state EXCEPT ![c] = FALSE] /\ pc' = [pc EXCEPT ![c] = "polled"]
          /\ UNCHANGED <<input, process, hand>>
      BY <1>12, <2>3 DEF ProcessBacklog, queueVars
    <3> HIDE DEF s
    <3>2. QueueOK'
      BY <2>1, <2>2, <2>3, <3>1 DEF QueueOK, Runs, SoftirqTypes
    <3>3. FlushOK'
      BY <2>1, <3>1 DEF FlushOK
    <3>4. Scheduled'
      BY <1>q, <2>1, <2>2, <2>3, <3>1 DEF Scheduled, WakeTypes, OtherTypes
    <3> QED BY <3>2, <3>3, <3>4
  <2>4. CASE s # <<>>
    <3>1. /\ hand' = [hand EXCEPT ![c] = <<Head(s)>>]
          /\ process' = [process EXCEPT ![c] = Tail(s)]
          /\ input' = input \/ input' = [input EXCEPT ![c] = <<>>]
          /\ pc' = [pc EXCEPT ![c] = "receive"] /\ UNCHANGED state
      BY <1>12, <2>4 DEF ProcessBacklog
    <3> HIDE DEF s
    <3>2. /\ Elements(Tail(s)) \subseteq Elements(input[c]) \cup Elements(process[c])
          /\ Head(s) \in Elements(input[c]) \cup Elements(process[c])
      BY <2>2, <2>4, Taken
    <3>3. state[c]
      BY <2>1 DEF OInv, OwnOK, BitTells, Awake, Runs
    <3>4. /\ \A k \in Cpu : k # c => /\ input'[k] = input[k] /\ process'[k] = process[k]
                                    /\ hand'[k] = hand[k] /\ pc'[k] = pc[k]
          /\ pc'[c] = "receive" /\ Elements(hand'[c]) = {Head(s)}
          /\ process'[c] = Tail(s) /\ Elements(input'[c]) \subseteq Elements(input[c])
      <4>1. Elements(<<Head(s)>>) = {Head(s)}
        BY DEF Elements
      <4> QED BY <3>1, <4>1, Emptied DEF QueueTypes, SoftirqTypes
    <3>5. QueueOK'
      BY <2>1, <3>4 DEF QueueOK, Runs, OtherTypes
    <3>6. FlushOK'
      BY <2>1, <3>2, <3>4 DEF FlushOK, OtherTypes
    <3>7. Scheduled'
      BY <1>q, <2>1, <3>1, <3>3, <3>4 DEF Scheduled, OtherTypes
    <3> QED BY <3>5, <3>6, <3>7
  <2> QED BY <2>3, <2>4
<1>13. ASSUME NEW r \in Cpu, CpuDown(r) PROVE QueueOK' /\ FlushOK' /\ Scheduled'
  <2>1. /\ online' = online \ {r} /\ dying = NoCpu /\ dying' = r /\ device # "flushing"
        /\ UNCHANGED <<input, process, hand, state, pc, device, toFlush, stranded>>
        /\ \A k \in Cpu : link[k] # "none" => link'[k] # "none"
    BY <1>13 DEF CpuDown, queueVars, deviceVars, WakeTypes
  <2>2. QueueOK'
    BY <2>1, BacklogAssumption DEF QueueOK, Runs, OtherTypes
  <2>3. FlushOK' /\ Scheduled'
    BY <1>q, <2>1 DEF FlushOK, Scheduled
  <2> QED BY <2>2, <2>3
<1>14. ASSUME NEW r \in Cpu, CpuUp(r) PROVE QueueOK' /\ FlushOK' /\ Scheduled'
  <2>1. /\ online' = online \cup {r} /\ r \notin online /\ dying = NoCpu
        /\ UNCHANGED <<dying, input, process, hand, state, link, pc, device, toFlush, stranded>>
    BY <1>14 DEF CpuUp, queueVars, wakeVars, deviceVars
  <2>2. /\ input[r] = <<>> /\ process[r] = <<>>
        /\ Elements(input[r]) = {} /\ Elements(process[r]) = {}
    BY <2>1, BacklogAssumption, Emptied DEF QueueOK
  <2>3. QueueOK'
    BY <2>1, <2>2 DEF QueueOK, Runs
  <2>4. FlushOK'
    BY <2>1, <2>2 DEF FlushOK
  <2>5. Scheduled'
    BY <1>q, <2>1, <2>2 DEF Scheduled
  <2> QED BY <2>3, <2>4, <2>5
<1>15. ASSUME DeadLists PROVE QueueOK' /\ FlushOK' /\ Scheduled'
  <2>1. /\ dying \notin online /\ online \subseteq Cpu
        /\ UNCHANGED <<online, dying, input, process, hand, pc, device, toFlush, stranded>>
        /\ \A k \in Cpu : k # dying => link'[k] = link[k] /\ state'[k] = state[k]
    BY <1>15 DEF DeadLists, HotplugOK, OtherTypes, WakeTypes, queueVars, deviceVars
  <2>2. QueueOK'
    BY <2>1 DEF QueueOK, Runs
  <2>3. FlushOK' /\ Scheduled'
    BY <1>q, <2>1 DEF FlushOK, Scheduled
  <2> QED BY <2>2, <2>3
<1>16. ASSUME DeadDone PROVE QueueOK' /\ FlushOK' /\ Scheduled'
  <2>1. /\ dying \in Cpu /\ input[dying] = <<>> /\ process[dying] = <<>>
        /\ UNCHANGED <<online, input, process, hand, state, link, pc, device, toFlush, stranded>>
    BY <1>16 DEF DeadDone, DeadQueue, HotplugOK, OtherTypes, queueVars, wakeVars, deviceVars
  <2>2. QueueOK'
    BY <2>1 DEF QueueOK, Runs
  <2>3. FlushOK' /\ Scheduled'
    BY <1>q, <2>1 DEF FlushOK, Scheduled
  <2> QED BY <2>2, <2>3
<1>17. ASSUME NEW c \in Cpu, FlushBacklog(c) PROVE QueueOK' /\ FlushOK' /\ Scheduled'
  <2>2. /\ \A k \in Cpu : k # c => input'[k] = input[k] /\ process'[k] = process[k]
        /\ input'[c] = Kept(input[c]) /\ process'[c] = Kept(process[c])
        /\ toFlush' = toFlush \ {c}
        /\ UNCHANGED <<online, dying, hand, state, link, pc, device, stranded>>
    BY <1>17 DEF FlushBacklog, cpuVars, wakeVars, QueueTypes
  <2>3. input[c] \in Seq(Packet) /\ process[c] \in Seq(Packet) /\ online \subseteq Cpu
    BY DEF QueueTypes, OtherTypes
  <2>4. /\ Elements(input'[c]) \cap OfGone = {} /\ Elements(process'[c]) \cap OfGone = {}
        /\ input[c] = <<>> => input'[c] = <<>>
        /\ process[c] = <<>> => process'[c] = <<>>
    <3>1. Elements(Kept(input[c])) \cap OfGone = {} /\ (input[c] = <<>> => Kept(input[c]) = <<>>)
      BY <2>3, KeptNone
    <3>2. /\ Elements(Kept(process[c])) \cap OfGone = {}
          /\ process[c] = <<>> => Kept(process[c]) = <<>>
      BY <2>3, KeptNone
    <3> QED BY <2>2, <3>1, <3>2
  <2>5. QueueOK'
    BY <2>2, <2>3, <2>4 DEF QueueOK, Runs
  <2>6. FlushOK'
    BY <2>2, <2>3, <2>4 DEF FlushOK
  <2>7. Scheduled'
    BY <1>q, <2>2, <2>3, <2>4 DEF Scheduled
  <2> QED BY <2>5, <2>6, <2>7
<1>18. ASSUME DeviceStep PROVE QueueOK' /\ FlushOK' /\ Scheduled'
  <2>1. UNCHANGED <<online, dying, input, process, hand, state, link, pc, stranded>>
    BY <1>18 DEF DeviceStep, CloseDevice, FlushBegin, FlushEnd, FreeDevice, cpuVars,
         queueVars, wakeVars
  <2>2. QueueOK' /\ Scheduled'
    BY <1>q, <2>1 DEF QueueOK, Runs, Scheduled
  <2>3. FlushOK'
    BY <1>18, <2>1 DEF DeviceStep, CloseDevice, FlushBegin, FlushEnd, FreeDevice, FlushOK
  <2> QED BY <2>2, <2>3
<1>19. ASSUME UNCHANGED vars PROVE QueueOK' /\ FlushOK' /\ Scheduled'
  BY <1>q, <1>19 DEF vars, QueueOK, FlushOK, Scheduled, Runs
<1> QED
  BY <1>1, <1>2, <1>3, <1>4, <1>5, <1>6, <1>7, <1>8, <1>9, <1>10, <1>11, <1>12,
     <1>13, <1>14, <1>15, <1>16, <1>17, <1>18, <1>19 DEF Next, SoftirqStep, IpiStep, HotplugStep
-----------------------------------------------------------------------------
(* Theorems.                                                               *)

\* Whatever order CPUs, interrupts, dev_cpu_callback and flush_backlog take, the invariant
\* holds.
THEOREM BacklogInvariant == Spec => []IInv
<1>1. Init => IInv
  BY TInvInit, OInvInit, QInvInit DEF IInv
<1>2. IInv /\ [Next]_vars => IInv'
  <2>1. IInv /\ [Next]_vars => TInv' /\ OInv'
    BY TInvStep, OInvStep DEF IInv
  <2>2. IInv /\ [Next]_vars => QInv'
    BY QInvStep
  <2> QED BY <2>1, <2>2 DEF IInv
<1> QED BY <1>1, <1>2, PTL DEF Spec

\* A backlog whose bit is set has one owner, the others none.
LEMMA OneOwner == ASSUME IInv, NEW c \in Cpu
                  PROVE  /\ state[c] => \E o : Owners(c) = {o}
                         /\ ~state[c] => Owners(c) = {}
<1> DEFINE L == {<<"list", x>> : x \in {x \in Cpu : OnList(x, c)}}
           S == {<<"sending", x>> : x \in {x \in Ctx : InSend(x, c)}}
           I == {<<"ipi", c>> : x \in {x \in {c} : csd[c]}}
           P == {<<"poll", c>> : x \in {x \in {c} : link[c] # "none"}}
           R == {<<"running", c>> : x \in {x \in {c} : Runs(c)}}
<1>1. Owners(c) = L \cup S \cup I \cup P \cup R
  BY DEF Owners, OnList, InSend, Runs
<1>2. /\ (\A x \in Cpu : ~OnList(x, c)) => L = {}
      /\ (\A x \in Ctx : ~InSend(x, c)) => S = {}
      /\ ~csd[c] => I = {}
      /\ link[c] = "none" => P = {}
      /\ ~Runs(c) => R = {}
  OBVIOUS
<1>3. /\ csd[c] => I = {<<"ipi", c>>}
      /\ link[c] # "none" => P = {<<"poll", c>>}
      /\ Runs(c) => R = {<<"running", c>>}
  OBVIOUS
<1>4. \A x \in Cpu : OnList(x, c) => L = {<<"list", x>>}
  BY DEF IInv, OInv, OwnOK, OneLists
<1>5. \A x \in Ctx : InSend(x, c) => S = {<<"sending", x>>}
  BY DEF IInv, OInv, OwnOK, OneSends
<1> HIDE DEF L, S, I, P, R
<1>6. CASE ~state[c]
  BY <1>1, <1>2, <1>6 DEF IInv, OInv, OwnOK, BitTells, Awake
<1>7. CASE Awake(c)
  <2>1. L = {} /\ S = {}
    BY <1>2, <1>7 DEF IInv, OInv, OwnOK, AwakeAlone
  <2>2. /\ csd[c] => ~Runs(c) /\ link[c] = "none"
        /\ Runs(c) => link[c] = "none"
    BY DEF IInv, OInv, LinkOK
  <2> QED BY <1>1, <1>2, <1>3, <1>6, <1>7, <2>1, <2>2 DEF Awake
<1>8. ASSUME NEW x \in Cpu, OnList(x, c) PROVE \E o : Owners(c) = {o}
  BY <1>1, <1>2, <1>4, <1>8 DEF IInv, OInv, OwnOK, NotBoth, AwakeAlone, Awake
<1>9. ASSUME NEW x \in Ctx, InSend(x, c) PROVE \E o : Owners(c) = {o}
  BY <1>1, <1>2, <1>5, <1>9 DEF IInv, OInv, OwnOK, NotBoth, AwakeAlone, Awake
<1>10. state[c] => Awake(c) \/ (\E x \in Cpu : OnList(x, c)) \/ \E x \in Ctx : InSend(x, c)
  BY DEF IInv, OInv, OwnOK, BitTells
<1> QED BY <1>6, <1>7, <1>8, <1>9, <1>10

\* NAPI_STATE_SCHED means that exactly one context is going to run process_backlog.
THEOREM SchedOwned == Spec => []SchedHasOneOwner
<1>1. ASSUME IInv PROVE SchedHasOneOwner
  <2>1. ASSUME NEW c \in Cpu, state[c] PROVE Cardinality(Owners(c)) = 1
    BY <1>1, <2>1, OneOwner, FS_Singleton
  <2>2. ASSUME NEW c \in Cpu, ~state[c] PROVE Owners(c) = {}
    BY <1>1, <2>2, OneOwner
  <2> QED BY <1>1, <2>1, <2>2 DEF SchedHasOneOwner, IInv, TInv
<1> QED BY <1>1, BacklogInvariant, PTL

\* No packet waits on a CPU that is on with nobody to run its process_backlog, but for the
\* CPUs that net_rps_send_ipi reset after they had come on.
THEOREM WaitingIsScheduled == Spec => []QueueIsScheduled
<1>1. IInv => QueueIsScheduled
  BY DEF IInv, QInv
<1> QED BY <1>1, BacklogInvariant, PTL

\* flush_backlog and synchronize_net leave nothing of a device that is freed, whatever CPUs
\* come and go meanwhile.
THEOREM NothingLeftOfGone == Spec => []GoneDeviceLeavesNothing
<1>1. ASSUME IInv PROVE GoneDeviceLeavesNothing
  <2>1. online \subseteq Cpu
    BY <1>1 DEF IInv, TInv, TypeOK, OtherTypes
  <2>2. ASSUME device = "freed", NEW c \in online
        PROVE  /\ (Elements(input[c]) \cup Elements(process[c])) \cap OfGone = {}
               /\ Elements(hand[c]) \cap OfGone = {}
    BY <1>1, <2>1, <2>2 DEF IInv, QInv, FlushOK
  <2> QED BY <2>2 DEF GoneDeviceLeavesNothing
<1> QED BY <1>1, BacklogInvariant, PTL
-----------------------------------------------------------------------------
(* Refinement.                                                             *)

\* Of two places that are left, the later one has more up to it.
LEMMA MoreUpTo ==
    ASSUME NEW s \in Seq(Packet), NEW i \in Left(s), NEW j \in Left(s), i < j
    PROVE  Cardinality(UpTo(s, i)) < Cardinality(UpTo(s, j))
<1>1. i \in Nat /\ j \in Nat
  BY LeftFinite
<1>2. UpTo(s, i) \in SUBSET UpTo(s, j) /\ j \in UpTo(s, j) /\ j \notin UpTo(s, i)
  BY <1>1, LeftFinite DEF UpTo
<1>3. IsFiniteSet(UpTo(s, j)) /\ Cardinality(UpTo(s, j)) \in Nat /\ Cardinality(UpTo(s, i)) \in Nat
  BY LeftFinite
<1>4. /\ Cardinality(UpTo(s, i)) <= Cardinality(UpTo(s, j))
      /\ Cardinality(UpTo(s, j)) = Cardinality(UpTo(s, i)) => UpTo(s, j) = UpTo(s, i)
  BY <1>2, <1>3, FS_Subset
<1> QED BY <1>2, <1>3, <1>4

\* Kept takes the places that are left in order, and every one of them.
LEMMA PlacesInOrder ==
    ASSUME NEW s \in Seq(Packet)
    PROVE  /\ \A j, k \in 1 .. Len(Kept(s)) : j < k => Place(s, j) < Place(s, k)
           /\ \A i \in Left(s) : \E k \in 1 .. Len(Kept(s)) : Place(s, k) = i
           /\ \A k \in 1 .. Len(Kept(s)) : Place(s, k) \in Left(s) /\ Kept(s)[k] = s[Place(s, k)]
<1> DEFINE n == Cardinality(Left(s))
<1>1. n \in Nat /\ Left(s) \subseteq Nat /\ \A i : Cardinality(UpTo(s, i)) \in Nat
  BY LeftFinite
<1>2. Len(Kept(s)) = n /\ \A k \in 1 .. n : Kept(s)[k] = s[Place(s, k)]
  <2> HIDE DEF n
  <2> QED BY <1>1, KeptType DEF Kept, n
<1>3. \A k \in 1 .. n : Place(s, k) \in Left(s) /\ Cardinality(UpTo(s, Place(s, k))) = k
  BY EveryPlace
<1>4. ASSUME NEW j \in 1 .. n, NEW k \in 1 .. n, j < k PROVE Place(s, j) < Place(s, k)
  <2> HIDE DEF n
  <2>1. Place(s, j) \in Left(s) /\ Place(s, k) \in Left(s)
    BY <1>3
  <2>2. Place(s, j) \in Nat /\ Place(s, k) \in Nat
    BY <1>1, <2>1
  <2>3. Cardinality(UpTo(s, Place(s, j))) = j /\ Cardinality(UpTo(s, Place(s, k))) = k
    BY <1>3
  <2>4. Place(s, j) # Place(s, k)
    BY <1>4, <2>3
  <2>5. ~(Place(s, k) < Place(s, j))
    BY <1>1, <1>4, <2>1, <2>3, MoreUpTo
  <2> QED BY <2>2, <2>4, <2>5
<1>5. ASSUME NEW i \in Left(s) PROVE \E k \in 1 .. n : Place(s, k) = i
  <2> DEFINE k == Cardinality(UpTo(s, i))
  <2>1. k \in Nat /\ k <= n
    BY LeftFinite
  <2>2. k # 0
    <3>1. i \in UpTo(s, i)
      BY <1>1 DEF UpTo
    <3>2. IsFiniteSet(UpTo(s, i))
      BY LeftFinite
    <3> QED BY <3>1, <3>2, FS_EmptySet
  <2>3. k \in 1 .. n
    BY <1>1, <2>1, <2>2
  <2>4. Place(s, k) \in Left(s) /\ Cardinality(UpTo(s, Place(s, k))) = k
    BY <1>3, <2>3
  <2>5. Place(s, k) = i
    <3>1. Place(s, k) \in Nat /\ i \in Nat
      BY <1>1, <2>4
    <3>2. ~(Place(s, k) < i)
      BY <2>1, <2>4, MoreUpTo
    <3>3. ~(i < Place(s, k))
      BY <2>1, <2>4, MoreUpTo
    <3> QED BY <3>1, <3>2, <3>3
  <2> QED BY <2>3, <2>5
<1> QED BY <1>2, <1>3, <1>4, <1>5

\* Nothing is taken from a queue that has no packet of the device.
LEMMA KeptAll == ASSUME NEW s \in Seq(Packet), Elements(s) \cap OfGone = {}
                 PROVE  Kept(s) = s
<1>1. Left(s) = 1 .. Len(s) /\ Len(s) \in Nat
  BY DEF Left, Elements
<1>2. Cardinality(Left(s)) = Len(s)
  BY <1>1, FS_Interval
<1>3. \A k \in 1 .. Len(s) : Place(s, k) = k
  <2> TAKE k \in 1 .. Len(s)
  <2>1. Place(s, k) \in 1 .. Len(s) /\ Cardinality(UpTo(s, Place(s, k))) = k
    BY <1>1, <1>2, EveryPlace
  <2>2. UpTo(s, Place(s, k)) = 1 .. Place(s, k)
    BY <1>1, <2>1 DEF UpTo
  <2>3. Cardinality(1 .. Place(s, k)) = Place(s, k)
    BY <1>1, <2>1, FS_Interval
  <2> QED BY <2>1, <2>2, <2>3
<1>4. Kept(s) \in Seq(Packet) /\ Len(Kept(s)) = Len(s) /\ \A k \in 1 .. Len(s) : Kept(s)[k] = s[k]
  BY <1>1, <1>2, <1>3, KeptType DEF Kept
<1> QED BY <1>4, SeqEqual

\* flush_backlog of both queues leaves the rest of the two together.
LEMMA KeptIsRest ==
    ASSUME NEW s \in Seq(Packet), NEW t \in Seq(Packet), NEW D,
           D = OfGone \cap (Elements(s) \cup Elements(t))
    PROVE  BQ!IsRest(Kept(s) \o Kept(t), s \o t, D)
<1> DEFINE u == s \o t
           f == Kept(s) \o Kept(t)
           m == Len(Kept(s))
           n == Len(Kept(t))
           place == [k \in 1 .. m + n |-> IF k <= m THEN Place(s, k) ELSE Len(s) + Place(t, k - m)]
<1>1. /\ m \in Nat /\ n \in Nat /\ Len(s) \in Nat /\ Len(t) \in Nat
      /\ Kept(s) \in Seq(Packet) /\ Kept(t) \in Seq(Packet)
  BY KeptType
<1>2. /\ Len(u) = Len(s) + Len(t) /\ \A i \in 1 .. Len(s) : u[i] = s[i]
      /\ \A i \in 1 .. Len(t) : u[Len(s) + i] = t[i]
  BY <1>1, ConcatProperties
<1>3. /\ Len(f) = m + n /\ \A i \in 1 .. m : f[i] = Kept(s)[i]
      /\ \A i \in 1 .. n : f[m + i] = Kept(t)[i]
  BY <1>1, ConcatProperties
<1>4. /\ Left(s) \subseteq 1 .. Len(s) /\ \A i \in 1 .. Len(s) : i \in Left(s) <=> u[i] \notin D
      /\ Left(t) \subseteq 1 .. Len(t) /\ \A i \in 1 .. Len(t) : i \in Left(t) <=> u[Len(s) + i] \notin D
  BY <1>2 DEF Left, Elements
<1>5. /\ \A j, k \in 1 .. m : j < k => Place(s, j) < Place(s, k)
      /\ \A i \in Left(s) : \E k \in 1 .. m : Place(s, k) = i
      /\ \A k \in 1 .. m : Place(s, k) \in Left(s) /\ Kept(s)[k] = s[Place(s, k)]
  BY PlacesInOrder
<1>6. /\ \A j, k \in 1 .. n : j < k => Place(t, j) < Place(t, k)
      /\ \A i \in Left(t) : \E k \in 1 .. n : Place(t, k) = i
      /\ \A k \in 1 .. n : Place(t, k) \in Left(t) /\ Kept(t)[k] = t[Place(t, k)]
  BY PlacesInOrder
<1>7. \A k \in 1 .. m + n : k \in 1 .. m \/ (k - m \in 1 .. n /\ ~(k <= m) /\ k = m + (k - m))
  BY <1>1
<1>8. /\ \A k \in 1 .. m : place[k] = Place(s, k) /\ place[k] \in 1 .. Len(s)
      /\ \A k \in 1 .. n : place[m + k] = Len(s) + Place(t, k) /\ place[m + k] \in Len(s) + 1 .. Len(u)
  <2>1. \A k \in 1 .. n : m + k \in 1 .. m + n /\ ~(m + k <= m) /\ (m + k) - m = k
    BY <1>1
  <2>2. \A k \in 1 .. m : k \in 1 .. m + n /\ k <= m
    BY <1>1
  <2> HIDE DEF m, n, u
  <2>3. \A k \in 1 .. m : place[k] = Place(s, k)
    BY <2>2
  <2>4. \A k \in 1 .. n : place[m + k] = Len(s) + Place(t, k)
    BY <2>1
  <2> QED BY <1>1, <1>2, <1>4, <1>5, <1>6, <2>3, <2>4
<1> HIDE DEF u, f, m, n, place
<1>9. \A k \in 1 .. m + n : place[k] \in BQ!Left(u, D) /\ f[k] = u[place[k]]
  <2> TAKE k \in 1 .. m + n
  <2>1. CASE k \in 1 .. m
    <3>1. place[k] \in Left(s) /\ place[k] \in 1 .. Len(s)
      BY <1>5, <1>8, <2>1
    <3>2. f[k] = s[place[k]]
      BY <1>3, <1>5, <1>8, <2>1
    <3>3. place[k] \in 1 .. Len(u) /\ u[place[k]] = s[place[k]]
      BY <1>1, <1>2, <3>1
    <3> QED BY <1>4, <3>1, <3>2, <3>3 DEF BQ!Left
  <2>2. CASE k - m \in 1 .. n /\ k = m + (k - m)
    <3> DEFINE l == k - m
    <3>1. l \in 1 .. n /\ f[k] = Kept(t)[l] /\ place[k] = Len(s) + Place(t, l)
      BY <1>3, <1>8, <2>2
    <3> HIDE DEF l
    <3>2. Place(t, l) \in Left(t) /\ Place(t, l) \in 1 .. Len(t) /\ f[k] = t[Place(t, l)]
      BY <1>4, <1>6, <3>1
    <3>3. u[place[k]] = t[Place(t, l)] /\ u[place[k]] \notin D /\ place[k] \in 1 .. Len(u)
      BY <1>1, <1>2, <1>4, <3>1, <3>2
    <3> QED BY <3>2, <3>3 DEF BQ!Left
  <2> QED BY <1>7, <2>1, <2>2
<1>10. \A j, k \in 1 .. m + n : j < k => place[j] < place[k]
  <2> SUFFICES ASSUME NEW j \in 1 .. m + n, NEW k \in 1 .. m + n, j < k PROVE place[j] < place[k]
    OBVIOUS
  <2>1. CASE j \in 1 .. m /\ k \in 1 .. m
    BY <1>5, <1>8, <2>1
  <2>2. CASE j \in 1 .. m /\ k - m \in 1 .. n /\ k = m + (k - m)
    <3>1. place[j] \in 1 .. Len(s) /\ place[k] \in Len(s) + 1 .. Len(u)
      BY <1>8, <2>2
    <3> QED BY <1>1, <1>2, <3>1
  <2>3. CASE j - m \in 1 .. n /\ j = m + (j - m) /\ k - m \in 1 .. n /\ k = m + (k - m)
    <3>1. j - m < k - m
      BY <1>1
    <3>2. Place(t, j - m) < Place(t, k - m) /\ Place(t, j - m) \in Nat /\ Place(t, k - m) \in Nat
      BY <1>1, <1>4, <1>6, <2>3, <3>1
    <3>3. place[j] = Len(s) + Place(t, j - m) /\ place[k] = Len(s) + Place(t, k - m)
      BY <1>8, <2>3
    <3> QED BY <1>1, <3>2, <3>3
  <2>4. ~(k \in 1 .. m /\ ~(j \in 1 .. m))
    BY <1>1
  <2> QED BY <1>7, <2>1, <2>2, <2>3, <2>4
<1>11. \A i \in BQ!Left(u, D) : \E k \in 1 .. m + n : place[k] = i
  <2> SUFFICES ASSUME NEW i \in BQ!Left(u, D) PROVE \E k \in 1 .. m + n : place[k] = i
    OBVIOUS
  <2>1. i \in 1 .. Len(u) /\ u[i] \notin D
    BY DEF BQ!Left
  <2>2. CASE i \in 1 .. Len(s)
    <3>1. PICK k \in 1 .. m : Place(s, k) = i
      BY <1>4, <1>5, <2>1, <2>2
    <3> QED BY <1>1, <1>8, <3>1
  <2>3. CASE i \notin 1 .. Len(s)
    <3>1. i - Len(s) \in 1 .. Len(t) /\ i = Len(s) + (i - Len(s))
      BY <1>1, <1>2, <2>1, <2>3
    <3>2. i - Len(s) \in Left(t)
      BY <1>4, <2>1, <3>1
    <3>3. PICK k \in 1 .. n : Place(t, k) = i - Len(s)
      BY <1>6, <3>2
    <3>4. place[m + k] = i /\ m + k \in 1 .. m + n
      BY <1>1, <1>8, <3>1, <3>3
    <3> QED BY <3>4
  <2> QED BY <2>2, <2>3
<1>12. place \in [1 .. Len(f) -> BQ!Left(u, D)]
  <2>1. Len(f) = m + n
    BY <1>3
  <2> QED BY <1>9, <2>1 DEF place
<1>13. BQ!IsRest(f, u, D)
  <2> SUFFICES \E q \in [1 .. Len(f) -> BQ!Left(u, D)] :
                  /\ \A j, k \in 1 .. Len(f) : j < k => q[j] < q[k]
                  /\ \A i \in BQ!Left(u, D) : \E k \in 1 .. Len(f) : q[k] = i
                  /\ \A k \in 1 .. Len(f) : f[k] = u[q[k]]
    BY DEF BQ!IsRest
  <2> WITNESS place \in [1 .. Len(f) -> BQ!Left(u, D)]
  <2> QED BY <1>3, <1>9, <1>10, <1>11
<1> QED BY <1>13 DEF u, f
-----------------------------------------------------------------------------
(* Steps of the queue.                                                     *)

Fifo == [c \in Cpu |-> process[c] \o input[c]]

\* What is queued, served or lost are packets that have arrived.
KnownOK == /\ served \cup lost \subseteq 1 .. arrived
           /\ \A c \in Cpu : Elements(input[c]) \cup Elements(process[c]) \subseteq 1 .. arrived

Quiet == UNCHANGED <<input, process, served, lost, arrived>>

LEMMA TailConcat ==
    ASSUME NEW S, NEW s \in Seq(S), NEW t \in Seq(S), s # <<>>
    PROVE  s \o t # <<>> /\ Head(s \o t) = Head(s) /\ Tail(s \o t) = Tail(s) \o t
<1>1. /\ s \o t \in Seq(S) /\ Len(s \o t) = Len(s) + Len(t) /\ Len(s) \in Nat \ {0}
      /\ Len(t) \in Nat /\ s \o t # <<>>
      /\ \A i \in 1 .. Len(s) + Len(t) : (s \o t)[i] = IF i <= Len(s) THEN s[i] ELSE t[i - Len(s)]
  BY ConcatProperties, EmptySeq, LenProperties
<1>2. /\ Tail(s) \in Seq(S) /\ Len(Tail(s)) = Len(s) - 1
      /\ \A i \in 1 .. Len(s) - 1 : Tail(s)[i] = s[i + 1]
  BY HeadTailProperties
<1>3. /\ Tail(s) \o t \in Seq(S) /\ Len(Tail(s) \o t) = Len(s) - 1 + Len(t)
      /\ \A i \in 1 .. Len(s) - 1 + Len(t) :
            (Tail(s) \o t)[i] = IF i <= Len(s) - 1 THEN Tail(s)[i] ELSE t[i - (Len(s) - 1)]
  BY <1>1, <1>2, ConcatProperties
<1>4. /\ Tail(s \o t) \in Seq(S) /\ Len(Tail(s \o t)) = Len(s) + Len(t) - 1
      /\ \A i \in 1 .. Len(s) + Len(t) - 1 : Tail(s \o t)[i] = (s \o t)[i + 1]
  BY <1>1, HeadTailProperties
<1>5. Head(s \o t) = Head(s)
  BY <1>1
<1>6. ASSUME NEW i \in 1 .. Len(s) + Len(t) - 1 PROVE Tail(s \o t)[i] = (Tail(s) \o t)[i]
  <2>1. Tail(s \o t)[i] = IF i + 1 <= Len(s) THEN s[i + 1] ELSE t[i + 1 - Len(s)]
    BY <1>1, <1>4
  <2>2. (Tail(s) \o t)[i] = IF i <= Len(s) - 1 THEN s[i + 1] ELSE t[i - (Len(s) - 1)]
    BY <1>1, <1>2, <1>3
  <2>3. i + 1 - Len(s) = i - (Len(s) - 1) /\ (i + 1 <= Len(s) <=> i <= Len(s) - 1)
    BY <1>1
  <2> QED BY <2>1, <2>2, <2>3
<1>7. Tail(s \o t) = Tail(s) \o t
  BY <1>1, <1>3, <1>4, <1>6, SeqEqual
<1> QED BY <1>1, <1>5, <1>7

LEMMA AppendConcat ==
    ASSUME NEW S, NEW s \in Seq(S), NEW t \in Seq(S), NEW e \in S
    PROVE  s \o Append(t, e) = Append(s \o t, e)
<1>1. s \o t \in Seq(S) /\ <<e>> \in Seq(S)
  BY ConcatProperties
<1>2. Append(t, e) = t \o <<e>> /\ Append(s \o t, e) = (s \o t) \o <<e>>
  BY <1>1, AppendIsConcat
<1> QED BY <1>1, <1>2, ConcatAssociative

LEMMA ConcatElements ==
    ASSUME NEW S, NEW s \in Seq(S), NEW t \in Seq(S)
    PROVE  Elements(s \o t) = Elements(s) \cup Elements(t)
<1>1. /\ Len(s \o t) = Len(s) + Len(t) /\ Len(s) \in Nat /\ Len(t) \in Nat
      /\ \A i \in 1 .. Len(s) + Len(t) : (s \o t)[i] = IF i <= Len(s) THEN s[i] ELSE t[i - Len(s)]
  BY ConcatProperties, LenProperties
<1>2. \A i \in 1 .. Len(s) : i \in 1 .. Len(s) + Len(t) /\ (s \o t)[i] = s[i]
  BY <1>1
<1>3. \A i \in 1 .. Len(t) : Len(s) + i \in 1 .. Len(s) + Len(t) /\ (s \o t)[Len(s) + i] = t[i]
  BY <1>1
<1>4. \A i \in 1 .. Len(s) + Len(t) : i \in 1 .. Len(s) \/ (i - Len(s) \in 1 .. Len(t)
                                                             /\ (s \o t)[i] = t[i - Len(s)])
  BY <1>1
<1>5. Elements(s) \cup Elements(t) \subseteq Elements(s \o t)
  <2> DEFINE u == s \o t
  <2>1. Len(u) = Len(s) + Len(t) /\ (\A i \in 1 .. Len(s) : i \in 1 .. Len(u) /\ u[i] = s[i])
        /\ \A i \in 1 .. Len(t) : Len(s) + i \in 1 .. Len(u) /\ u[Len(s) + i] = t[i]
    BY <1>1, <1>2, <1>3
  <2> HIDE DEF u
  <2>2. Elements(s) \cup Elements(t) \subseteq Elements(u)
    BY <2>1 DEF Elements
  <2> QED BY <2>2 DEF u
<1>6. Elements(s \o t) \subseteq Elements(s) \cup Elements(t)
  BY <1>1, <1>2, <1>4 DEF Elements
<1> QED BY <1>5, <1>6

\* What the steps of BacklogQueue are on these queues.
LEMMA QueueSteps ==
    /\ \A c, p : BQ!Accept(c, p) <=> /\ Fifo' = [Fifo EXCEPT ![c] = Append(Fifo[c], p)]
                                     /\ UNCHANGED <<served, lost>>
    /\ \A p : BQ!Refuse(p) <=> lost' = lost \cup {p} /\ UNCHANGED <<Fifo, served>>
    /\ \A c : BQ!Serve(c) <=> /\ Fifo[c] # <<>>
                              /\ served' = served \cup {Head(Fifo[c])}
                              /\ Fifo' = [Fifo EXCEPT ![c] = Tail(Fifo[c])]
                              /\ UNCHANGED lost
    /\ \A c, D : BQ!Discard(c, D) <=> /\ lost' = lost \cup D
                                      /\ Fifo' = [Fifo EXCEPT ![c] = Fifo'[c]]
                                      /\ BQ!IsRest(Fifo'[c], Fifo[c], D)
                                      /\ UNCHANGED served
    /\ \A c : BQ!Waiting(c) = Elements(Fifo[c])
<1>1. \A c, p : BQ!Accept(c, p) <=> /\ Fifo' = [Fifo EXCEPT ![c] = Append(Fifo[c], p)]
                                    /\ UNCHANGED <<served, lost>>
  BY DEF BQ!Accept, Fifo
<1>2. \A p : BQ!Refuse(p) <=> lost' = lost \cup {p} /\ UNCHANGED <<Fifo, served>>
  BY DEF BQ!Refuse, Fifo
<1>3. \A c : BQ!Serve(c) <=> /\ Fifo[c] # <<>>
                             /\ served' = served \cup {Head(Fifo[c])}
                             /\ Fifo' = [Fifo EXCEPT ![c] = Tail(Fifo[c])]
                             /\ UNCHANGED lost
  BY DEF BQ!Serve, Fifo
<1>4. \A c, D : BQ!Discard(c, D) <=> /\ lost' = lost \cup D
                                     /\ Fifo' = [Fifo EXCEPT ![c] = Fifo'[c]]
                                     /\ BQ!IsRest(Fifo'[c], Fifo[c], D)
                                     /\ UNCHANGED served
  BY DEF BQ!Discard, Fifo
<1>5. \A c : BQ!Waiting(c) = Elements(Fifo[c])
  BY DEF BQ!Waiting, Fifo, Elements
<1> QED BY <1>1, <1>2, <1>3, <1>4, <1>5

\* All but four actions leave the queues alone.
LEMMA FourSteps ==
    ASSUME [Next]_vars
    PROVE  \/ \E c, t \in Cpu : NetifRx(c, t) \/ DeadDrain(c, t)
           \/ \E c \in Cpu : ProcessBacklog(c) \/ FlushBacklog(c)
           \/ Quiet
<1> USE DEF Quiet, queueVars, countVars
<1>1. ASSUME NEW c \in Cpu, NetRxAction(c) \/ NapiPoll(c) \/ Received(c) \/ Polled(c) \/ End(c) \/ Sent(c)
      PROVE  Quiet
  BY <1>1 DEF NetRxAction, NapiPoll, Received, Polled, End, Sent
<1>2. ASSUME NEW c \in Cpu, RpsTriggerSoftirq(c) \/ CpuDown(c) \/ CpuUp(c) PROVE Quiet
  BY <1>2 DEF RpsTriggerSoftirq, CpuDown, CpuUp
<1>3. ASSUME NEW x \in Ctx, SendIpi(x) \/ ResetRemote(x) PROVE Quiet
  BY <1>3 DEF SendIpi, ResetRemote
<1>4. ASSUME DeadLists \/ DeadDone PROVE Quiet
  BY <1>4 DEF DeadLists, DeadDone
<1>5. ASSUME DeviceStep PROVE Quiet
  BY <1>5 DEF DeviceStep, CloseDevice, FlushBegin, FlushEnd, FreeDevice
<1>6. ASSUME UNCHANGED vars PROVE Quiet
  BY <1>6 DEF vars
<1> HIDE DEF Quiet
<1> QED BY <1>1, <1>2, <1>3, <1>4, <1>5, <1>6 DEF Next, SoftirqStep, IpiStep, HotplugStep

\* process_backlog serves the head of the two queues taken together, or nothing.
LEMMA ServeStep ==
    ASSUME TInv, NEW c \in Cpu, ProcessBacklog(c)
    PROVE  \/ Quiet
           \/ /\ Fifo[c] # <<>> /\ served' = served \cup {Head(Fifo[c])}
              /\ Fifo' = [Fifo EXCEPT ![c] = Tail(Fifo[c])]
              /\ UNCHANGED <<lost, arrived>>
              /\ \A k \in Cpu : Elements(input'[k]) \cup Elements(process'[k])
                                   \subseteq Elements(input[k]) \cup Elements(process[k])
              /\ Head(Fifo[c]) \in Elements(input[c]) \cup Elements(process[c])
<1> USE DEF TInv, TypeOK
<1> DEFINE s == NextPackets(c)
<1>1. CASE s = <<>>
  BY <1>1 DEF ProcessBacklog, Quiet, queueVars
<1>2. CASE s # <<>>
  <2>1. process[c] \in Seq(Packet) /\ input[c] \in Seq(Packet)
    BY DEF QueueTypes
  <2>2. s \in Seq(Packet) /\ s \in {process[c], input[c]}
    BY <2>1 DEF NextPackets
  <2>3. /\ process' = [process EXCEPT ![c] = Tail(s)] /\ served' = served \cup {Head(s)}
        /\ input' = IF process[c] # <<>> THEN input ELSE [input EXCEPT ![c] = <<>>]
        /\ UNCHANGED <<lost, arrived>>
    BY <1>2 DEF ProcessBacklog
  <2>4. process[c] = <<>> => s = input[c]
    BY DEF NextPackets
  <2>5. process[c] # <<>> => s = process[c]
    BY DEF NextPackets
  <2> HIDE DEF s
  <2>6. /\ process'[c] = Tail(s) /\ input'[c] = IF process[c] # <<>> THEN input[c] ELSE <<>>
        /\ \A k \in Cpu : k # c => process'[k] = process[k] /\ input'[k] = input[k]
    BY <2>3 DEF QueueTypes
  <2>7. /\ Fifo[c] # <<>> /\ Head(Fifo[c]) = Head(s)
        /\ process'[c] \o input'[c] = Tail(Fifo[c])
    <3>1. Fifo[c] = process[c] \o input[c]
      BY DEF Fifo
    <3>2. CASE process[c] # <<>>
      <4>1. s = process[c] /\ input'[c] = input[c] /\ process'[c] = Tail(process[c])
        BY <2>5, <2>6, <3>2
      <4>2. /\ process[c] \o input[c] # <<>> /\ Head(process[c] \o input[c]) = Head(process[c])
            /\ Tail(process[c] \o input[c]) = Tail(process[c]) \o input[c]
        BY <2>1, <3>2, TailConcat
      <4> QED BY <3>1, <4>1, <4>2
    <3>3. CASE process[c] = <<>>
      <4>1. Fifo[c] = s
        BY <2>1, <2>4, <3>1, <3>3, ConcatEmptySeq
      <4>2. Tail(s) \in Seq(Packet)
        BY <1>2, <2>2, HeadTailProperties
      <4>3. Tail(s) \o <<>> = Tail(s)
        BY <4>2, ConcatEmptySeq
      <4> QED BY <1>2, <2>6, <3>3, <4>1, <4>3
    <3> QED BY <3>2, <3>3
  <2>8. Fifo' = [Fifo EXCEPT ![c] = Tail(Fifo[c])]
    BY <2>6, <2>7 DEF Fifo
  <2>9. Elements(s) = {Head(s)} \cup Elements(Tail(s))
    BY <1>2, <2>2, Taken
  <2>10. Elements(s) \subseteq Elements(input[c]) \cup Elements(process[c])
    BY <2>2
  <2>11. Elements(input'[c]) \subseteq Elements(input[c])
    BY <2>6, Emptied
  <2>12. \A k \in Cpu : Elements(input'[k]) \cup Elements(process'[k])
                           \subseteq Elements(input[k]) \cup Elements(process[k])
    BY <2>6, <2>9, <2>10, <2>11
  <2> QED BY <2>3, <2>7, <2>8, <2>9, <2>10, <2>12
<1> QED BY <1>1, <1>2

\* A packet that is put on the queue of t goes to the tail of the two queues taken together.
LEMMA EnqueueStep ==
    ASSUME NEW c \in Cpu, NEW t \in Cpu, NEW p \in Packet, NEW queues \in [Cpu -> Seq(Packet)],
           process' \in [Cpu -> Seq(Packet)], EnqueueToBacklog(c, t, p, queues)
    PROVE  LET After == [k \in Cpu |-> process'[k] \o queues[k]]
           IN  /\ \/ Fifo' = [After EXCEPT ![t] = Append(After[t], p)] /\ UNCHANGED lost
                  \/ Fifo' = After /\ lost' = lost \cup {p}
               /\ \A k \in Cpu : Elements(input'[k]) \subseteq Elements(queues[k]) \cup {p}
<1> DEFINE After == [k \in Cpu |-> process'[k] \o queues[k]]
<1>1. \/ input' = [queues EXCEPT ![t] = Append(queues[t], p)] /\ UNCHANGED lost
      \/ input' = queues /\ lost' = lost \cup {p}
  BY DEF EnqueueToBacklog
<1>2. /\ Elements(Append(queues[t], p)) = Elements(queues[t]) \cup {p}
      /\ process'[t] \o Append(queues[t], p) = Append(process'[t] \o queues[t], p)
  BY Added, AppendConcat
<1>3. CASE input' = [queues EXCEPT ![t] = Append(queues[t], p)] /\ UNCHANGED lost
  <2>1. input'[t] = Append(queues[t], p) /\ \A k \in Cpu : k # t => input'[k] = queues[k]
    BY <1>3
  <2>2. \A k \in Cpu : Elements(input'[k]) \subseteq Elements(queues[k]) \cup {p}
    BY <1>2, <2>1
  <2>3. After[t] = process'[t] \o queues[t]
    OBVIOUS
  <2>4. \A k \in Cpu : process'[k] \o input'[k]
                         = IF k = t THEN Append(After[t], p) ELSE process'[k] \o queues[k]
    BY <1>2, <2>1, <2>3
  <2>5. Fifo' = [k \in Cpu |-> IF k = t THEN Append(After[t], p) ELSE process'[k] \o queues[k]]
    BY <2>4 DEF Fifo
  <2>6. Fifo' = [After EXCEPT ![t] = Append(After[t], p)]
    BY <2>5
  <2> QED BY <1>3, <2>2, <2>6
<1>4. CASE input' = queues /\ lost' = lost \cup {p}
  BY <1>4 DEF Fifo
<1> QED BY <1>1, <1>3, <1>4

\* dev_cpu_callback takes the head of the two queues of the CPU that is off.
LEMMA DrainStep ==
    ASSUME TInv, NEW c \in Cpu, NEW t \in Cpu, DeadDrain(c, t)
    PROVE  /\ dying \in Cpu /\ t # dying /\ Fifo[dying] # <<>>
           /\ \/ /\ Fifo' = [Fifo EXCEPT ![dying] = Tail(Fifo[dying]),
                                        ![t] = Append(Fifo[t], Head(Fifo[dying]))]
                 /\ UNCHANGED lost
              \/ /\ Fifo' = [Fifo EXCEPT ![dying] = Tail(Fifo[dying])]
                 /\ lost' = lost \cup {Head(Fifo[dying])}
           /\ UNCHANGED <<served, arrived>>
           /\ Head(Fifo[dying]) \in Elements(input[dying]) \cup Elements(process[dying])
           /\ \A k \in Cpu : Elements(input'[k]) \cup Elements(process'[k])
                                 \subseteq Elements(input[k]) \cup Elements(process[k])
                                             \cup {Head(Fifo[dying])}
<1> USE DEF TInv, TypeOK
<1> DEFINE d == dying
           p == Head(Fifo[d])
<1>1. d \in Cpu /\ t # d /\ UNCHANGED <<served, arrived>>
  BY DEF DeadDrain, HotplugOK, OtherTypes
<1>2. /\ process[d] \in Seq(Packet) /\ input[d] \in Seq(Packet)
      /\ process \in [Cpu -> Seq(Packet)] /\ input \in [Cpu -> Seq(Packet)]
      /\ Fifo[d] = process[d] \o input[d]
  BY <1>1 DEF QueueTypes, Fifo
\* what is left behind when the head is taken
<1>3. PICK queues \in [Cpu -> Seq(Packet)] :
         /\ EnqueueToBacklog(c, t, p, queues) /\ process' \in [Cpu -> Seq(Packet)]
         /\ p \in Packet /\ Fifo[d] # <<>>
         /\ process'[d] \o queues[d] = Tail(Fifo[d])
         /\ \A k \in Cpu : k # d => process'[k] = process[k] /\ queues[k] = input[k]
         /\ p \in Elements(input[d]) \cup Elements(process[d])
         /\ Elements(queues[d]) \cup Elements(process'[d])
               \subseteq Elements(input[d]) \cup Elements(process[d])
  <2>1. CASE process[d] # <<>>
    <3>1. process' = [process EXCEPT ![d] = Tail(process[d])]
          /\ EnqueueToBacklog(c, t, Head(process[d]), input)
      BY <2>1 DEF DeadDrain, DeadQueue
    <3>2. /\ Fifo[d] # <<>> /\ p = Head(process[d]) /\ Tail(process[d]) \o input[d] = Tail(Fifo[d])
      BY <1>2, <2>1, TailConcat
    <3>3. /\ p \in Packet /\ Tail(process[d]) \in Seq(Packet)
          /\ Elements(process[d]) = {p} \cup Elements(Tail(process[d]))
      BY <1>2, <2>1, <3>2, Taken
    <3>4. process' \in [Cpu -> Seq(Packet)] /\ process'[d] = Tail(process[d])
          /\ \A k \in Cpu : k # d => process'[k] = process[k]
      BY <1>1, <1>2, <3>1, <3>3
    <3> HIDE DEF d, p
    <3> QED BY <1>2, <3>1, <3>2, <3>3, <3>4
  <2>2. CASE process[d] = <<>>
    <3> DEFINE queues == [input EXCEPT ![d] = Tail(input[d])]
    <3>1. /\ UNCHANGED process /\ input[d] # <<>>
          /\ EnqueueToBacklog(c, t, Head(input[d]), queues)
      BY <1>1, <2>2 DEF DeadDrain, DeadQueue
    <3>2. Fifo[d] = input[d]
      BY <1>2, <2>2, ConcatEmptySeq
    <3>3. /\ p \in Packet /\ Tail(input[d]) \in Seq(Packet) /\ p = Head(input[d])
          /\ Elements(input[d]) = {p} \cup Elements(Tail(input[d]))
      BY <1>2, <3>1, <3>2, Taken
    <3>4. <<>> \o Tail(input[d]) = Tail(input[d])
      BY <3>3, ConcatEmptySeq
    <3>5. queues \in [Cpu -> Seq(Packet)] /\ queues[d] = Tail(input[d])
          /\ \A k \in Cpu : k # d => queues[k] = input[k]
      BY <1>1, <1>2, <3>3
    <3> HIDE DEF queues, d, p
    <3> QED BY <1>2, <2>2, <3>1, <3>2, <3>3, <3>4, <3>5
  <2> QED BY <2>1, <2>2
<1> DEFINE After == [k \in Cpu |-> process'[k] \o queues[k]]
<1>4. After = [Fifo EXCEPT ![d] = Tail(Fifo[d])]
  <2> HIDE DEF d, p
  <2> QED BY <1>1, <1>3 DEF Fifo
<1>5. /\ \/ Fifo' = [After EXCEPT ![t] = Append(After[t], p)] /\ UNCHANGED lost
         \/ Fifo' = After /\ lost' = lost \cup {p}
      /\ \A k \in Cpu : Elements(input'[k]) \subseteq Elements(queues[k]) \cup {p}
  BY <1>3, EnqueueStep
<1>6. After[t] = Fifo[t]
  BY <1>1, <1>4 DEF Fifo
<1>7. \A k \in Cpu : Elements(input'[k]) \cup Elements(process'[k])
                        \subseteq Elements(input[k]) \cup Elements(process[k]) \cup {p}
  <2> HIDE DEF d, p, After
  <2> QED BY <1>3, <1>5
<1> HIDE DEF After
<1>8. \/ /\ Fifo' = [Fifo EXCEPT ![d] = Tail(Fifo[d]), ![t] = Append(Fifo[t], p)]
         /\ UNCHANGED lost
      \/ /\ Fifo' = [Fifo EXCEPT ![d] = Tail(Fifo[d])]
         /\ lost' = lost \cup {p}
  BY <1>4, <1>5, <1>6
<1> QED BY <1>1, <1>3, <1>7, <1>8

\* Of the packets that arrive, the one NetifRx has is not known yet.
LEMMA ArriveStep ==
    ASSUME TInv, KnownOK, NEW c \in Cpu, NEW t \in Cpu, NetifRx(c, t)
    PROVE  \E p \in Packet :
              /\ p \notin 1 .. arrived /\ 1 .. arrived' = 1 .. arrived \cup {p}
              /\ \/ Fifo' = [Fifo EXCEPT ![t] = Append(Fifo[t], p)] /\ UNCHANGED lost
                 \/ UNCHANGED Fifo /\ lost' = lost \cup {p}
              /\ UNCHANGED <<served, process>>
              /\ \A k \in Cpu : Elements(input'[k]) \subseteq Elements(input[k]) \cup {p}
<1> DEFINE p == arrived + 1
<1>1. /\ arrived \in Nat /\ arrived < MaxPackets /\ MaxPackets \in Nat /\ arrived' = p
      /\ input \in [Cpu -> Seq(Packet)] /\ process \in [Cpu -> Seq(Packet)]
      /\ UNCHANGED <<served, process>> /\ EnqueueToBacklog(c, t, p, input)
  BY BacklogAssumption DEF TInv, TypeOK, OtherTypes, QueueTypes, NetifRx
<1>2. p \in Packet /\ p \notin 1 .. arrived /\ 1 .. arrived' = 1 .. arrived \cup {p}
  BY <1>1 DEF Packet
<1> HIDE DEF p
<1> DEFINE After == [k \in Cpu |-> process'[k] \o input[k]]
<1>3. /\ \/ Fifo' = [After EXCEPT ![t] = Append(After[t], p)] /\ UNCHANGED lost
         \/ Fifo' = After /\ lost' = lost \cup {p}
      /\ \A k \in Cpu : Elements(input'[k]) \subseteq Elements(input[k]) \cup {p}
  BY <1>1, <1>2, EnqueueStep
<1>4. After = Fifo
  BY <1>1 DEF Fifo
<1> HIDE DEF After
<1> QED BY <1>1, <1>2, <1>3, <1>4

\* flush_backlog takes the packets of the device out of both queues, if there are any.
LEMMA FlushStep ==
    ASSUME TInv, NEW c \in Cpu, FlushBacklog(c)
    PROVE  LET D == OfGone \cap (Elements(process[c]) \cup Elements(input[c]))
           IN  /\ Fifo' = [Fifo EXCEPT ![c] = Fifo'[c]] /\ lost' = lost \cup D
               /\ UNCHANGED <<served, arrived>>
               /\ BQ!IsRest(Fifo'[c], Fifo[c], D)
               /\ D = {} => UNCHANGED Fifo
               /\ \A k \in Cpu : Elements(input'[k]) \cup Elements(process'[k])
                                     \subseteq Elements(input[k]) \cup Elements(process[k])
<1> DEFINE s == process[c]
           u == input[c]
           D == OfGone \cap (Elements(s) \cup Elements(u))
<1>1. /\ input \in [Cpu -> Seq(Packet)] /\ process \in [Cpu -> Seq(Packet)]
      /\ s \in Seq(Packet) /\ u \in Seq(Packet)
  BY DEF TInv, TypeOK, QueueTypes
<1>2. /\ lost' = lost \cup D /\ UNCHANGED <<served, arrived>>
      /\ input' = [input EXCEPT ![c] = Kept(u)] /\ process' = [process EXCEPT ![c] = Kept(s)]
  BY DEF FlushBacklog
<1>3. /\ input'[c] = Kept(u) /\ process'[c] = Kept(s)
      /\ \A k \in Cpu : k # c => input'[k] = input[k] /\ process'[k] = process[k]
  BY <1>1, <1>2
<1>4. BQ!IsRest(Kept(s) \o Kept(u), s \o u, D)
  BY <1>1, KeptIsRest
<1>5. Elements(Kept(s)) \subseteq Elements(s) /\ Elements(Kept(u)) \subseteq Elements(u)
  BY <1>1, KeptType
<1>6. ASSUME D = {} PROVE Kept(s) = s /\ Kept(u) = u
  BY <1>1, <1>6, KeptAll
<1> HIDE DEF D
<1>7. Fifo[c] = s \o u /\ Fifo'[c] = Kept(s) \o Kept(u)
  BY <1>3 DEF Fifo
<1>8. Fifo' = [Fifo EXCEPT ![c] = Fifo'[c]]
  BY <1>3 DEF Fifo
<1>9. D = {} => Fifo' = Fifo
  BY <1>3, <1>6 DEF Fifo
<1>10. \A k \in Cpu : Elements(input'[k]) \cup Elements(process'[k])
                         \subseteq Elements(input[k]) \cup Elements(process[k])
  BY <1>3, <1>5
<1>11. BQ!IsRest(Fifo'[c], Fifo[c], D)
  BY <1>4, <1>7
<1> HIDE DEF s, u
<1> QED BY <1>2, <1>8, <1>9, <1>10, <1>11 DEF D, s, u

LEMMA KnownStep == ASSUME TInv, KnownOK, [Next]_vars PROVE KnownOK'
<1>1. ASSUME NEW c \in Cpu, NEW t \in Cpu, NetifRx(c, t) PROVE KnownOK'
  <2>1. PICK p \in Packet :
           /\ 1 .. arrived' = 1 .. arrived \cup {p}
           /\ (UNCHANGED lost \/ lost' = lost \cup {p}) /\ UNCHANGED <<served, process>>
           /\ \A k \in Cpu : Elements(input'[k]) \subseteq Elements(input[k]) \cup {p}
    BY <1>1, ArriveStep
  <2>2. (served \cup lost)' \subseteq 1 .. arrived'
    BY <2>1 DEF KnownOK
  <2>3. \A k \in Cpu : Elements(input'[k]) \cup Elements(process'[k]) \subseteq 1 .. arrived'
    BY <2>1 DEF KnownOK
  <2> QED BY <2>2, <2>3 DEF KnownOK, Elements
<1>2. ASSUME NEW c \in Cpu, NEW t \in Cpu, DeadDrain(c, t) PROVE KnownOK'
  <2>1. PICK p :
           /\ UNCHANGED <<served, arrived>> /\ (UNCHANGED lost \/ lost' = lost \cup {p})
           /\ dying \in Cpu /\ p \in Elements(input[dying]) \cup Elements(process[dying])
           /\ \A k \in Cpu : Elements(input'[k]) \cup Elements(process'[k])
                                 \subseteq Elements(input[k]) \cup Elements(process[k]) \cup {p}
    BY <1>2, DrainStep
  <2>2. p \in 1 .. arrived
    BY <2>1 DEF KnownOK
  <2>3. (served \cup lost)' \subseteq 1 .. arrived'
    BY <2>1, <2>2 DEF KnownOK
  <2>4. \A k \in Cpu : Elements(input'[k]) \cup Elements(process'[k]) \subseteq 1 .. arrived'
    BY <2>1, <2>2 DEF KnownOK
  <2> QED BY <2>3, <2>4 DEF KnownOK, Elements
<1>3. ASSUME NEW c \in Cpu, ProcessBacklog(c), ~Quiet PROVE KnownOK'
  <2>1. PICK p :
           /\ UNCHANGED <<lost, arrived>> /\ served' = served \cup {p}
           /\ p \in Elements(input[c]) \cup Elements(process[c])
           /\ \A k \in Cpu : Elements(input'[k]) \cup Elements(process'[k])
                                 \subseteq Elements(input[k]) \cup Elements(process[k])
    BY <1>3, ServeStep
  <2>2. (served \cup lost)' \subseteq 1 .. arrived'
    BY <2>1 DEF KnownOK
  <2>3. \A k \in Cpu : Elements(input'[k]) \cup Elements(process'[k]) \subseteq 1 .. arrived'
    BY <2>1 DEF KnownOK
  <2> QED BY <2>2, <2>3 DEF KnownOK, Elements
<1>4. ASSUME NEW c \in Cpu, FlushBacklog(c) PROVE KnownOK'
  <2>1. /\ UNCHANGED <<served, arrived>>
        /\ lost' \subseteq lost \cup (Elements(process[c]) \cup Elements(input[c]))
        /\ \A k \in Cpu : Elements(input'[k]) \cup Elements(process'[k])
                              \subseteq Elements(input[k]) \cup Elements(process[k])
    BY <1>4, FlushStep
  <2>2. (served \cup lost)' \subseteq 1 .. arrived'
    BY <2>1 DEF KnownOK
  <2>3. \A k \in Cpu : Elements(input'[k]) \cup Elements(process'[k]) \subseteq 1 .. arrived'
    BY <2>1 DEF KnownOK
  <2> QED BY <2>2, <2>3 DEF KnownOK, Elements
<1>5. ASSUME Quiet PROVE KnownOK'
  BY <1>5 DEF Quiet, KnownOK, Elements
<1> QED BY <1>1, <1>2, <1>3, <1>4, <1>5, FourSteps

\* The queues, and what they hold, are those of BacklogQueue.
LEMMA QueueVars == /\ UNCHANGED <<Fifo, served, lost>> => UNCHANGED BQ!vars
                   /\ Quiet => UNCHANGED <<Fifo, served, lost>>
BY DEF BQ!vars, Fifo, Quiet

LEMMA MoveStep ==
    ASSUME NEW c \in Cpu, NEW d \in Cpu, c # d, Fifo[c] # <<>>, UNCHANGED served,
           \/ /\ Fifo' = [Fifo EXCEPT ![c] = Tail(Fifo[c]), ![d] = Append(Fifo[d], Head(Fifo[c]))]
              /\ UNCHANGED lost
           \/ Fifo' = [Fifo EXCEPT ![c] = Tail(Fifo[c])] /\ lost' = lost \cup {Head(Fifo[c])}
    PROVE  BQ!Move(c, d)
<1>1. BQ!Move(c, d) <=>
         /\ c # d /\ Fifo[c] # <<>>
         /\ \/ /\ Fifo' = [Fifo EXCEPT ![c] = Tail(@), ![d] = Append(@, Head(Fifo[c]))]
               /\ UNCHANGED lost
            \/ /\ Fifo' = [Fifo EXCEPT ![c] = Tail(@)]
               /\ lost' = lost \cup {Head(Fifo[c])}
         /\ UNCHANGED served
  BY DEF BQ!Move, Fifo
<1>2. [Fifo EXCEPT ![c] = Tail(@), ![d] = Append(@, Head(Fifo[c]))]
         = [Fifo EXCEPT ![c] = Tail(Fifo[c]), ![d] = Append(Fifo[d], Head(Fifo[c]))]
  BY DEF Fifo
<1> QED BY <1>1, <1>2

\* What waits in the queues of BacklogQueue waits in one of the two of the CPU.
LEMMA WaitingIs ==
    ASSUME TInv, NEW c \in Cpu
    PROVE  BQ!Waiting(c) = Elements(process[c]) \cup Elements(input[c])
<1>1. process[c] \in Seq(Packet) /\ input[c] \in Seq(Packet) /\ Fifo[c] = process[c] \o input[c]
  BY DEF TInv, TypeOK, QueueTypes, Fifo
<1>2. Elements(Fifo[c]) = Elements(process[c]) \cup Elements(input[c])
  BY <1>1, ConcatElements
<1>3. BQ!Waiting(c) = Elements(Fifo[c])
  BY DEF BQ!Waiting, Fifo, Elements
<1> QED BY <1>2, <1>3

LEMMA KnownIs ==
    ASSUME TInv, KnownOK
    PROVE  BQ!Known \subseteq 1 .. arrived
<1> SUFFICES ASSUME NEW p \in BQ!Known PROVE p \in 1 .. arrived
  OBVIOUS
<1>1. CASE p \in served \cup lost
  BY <1>1 DEF KnownOK
<1>2. CASE \E c \in Cpu : p \in BQ!Waiting(c)
  <2>1. PICK c \in Cpu : p \in BQ!Waiting(c)
    BY <1>2
  <2>2. p \in Elements(process[c]) \cup Elements(input[c])
    BY <2>1, WaitingIs
  <2> QED BY <2>2 DEF KnownOK
<1>3. p \in served \cup lost \/ \E c \in Cpu : p \in BQ!Waiting(c)
  BY DEF BQ!Known, BQ!Waiting
<1> QED BY <1>1, <1>2, <1>3

\* Every step of the backlogs is a step of BacklogQueue, or none.
LEMMA QueueNext == ASSUME TInv, KnownOK, [Next]_vars PROVE [BQ!Next]_(BQ!vars)
<1>1. ASSUME NEW c \in Cpu, NEW t \in Cpu, NetifRx(c, t) PROVE BQ!Next
  <2>1. PICK p \in Packet :
           /\ p \notin 1 .. arrived
           /\ \/ Fifo' = [Fifo EXCEPT ![t] = Append(Fifo[t], p)] /\ UNCHANGED lost
              \/ UNCHANGED Fifo /\ lost' = lost \cup {p}
           /\ UNCHANGED served
    BY <1>1, ArriveStep
  <2>2. p \in Packet \ BQ!Known
    BY <2>1, KnownIs
  <2>3. BQ!Refuse(p) \/ BQ!Accept(t, p)
    BY <2>1, QueueSteps
  <2> QED BY <2>2, <2>3 DEF BQ!Next
<1>2. ASSUME NEW c \in Cpu, NEW t \in Cpu, DeadDrain(c, t) PROVE BQ!Next
  <2>1. dying \in Cpu /\ BQ!Move(dying, t)
    BY <1>2, DrainStep, MoveStep
  <2> QED BY <2>1 DEF BQ!Next
<1>3. ASSUME NEW c \in Cpu, ProcessBacklog(c), ~Quiet PROVE BQ!Next
  <2>1. BQ!Serve(c)
    BY <1>3, ServeStep, QueueSteps
  <2> QED BY <2>1 DEF BQ!Next
<1>4. ASSUME NEW c \in Cpu, FlushBacklog(c) PROVE BQ!Next \/ UNCHANGED BQ!vars
  <2> PICK D : D = OfGone \cap (Elements(process[c]) \cup Elements(input[c]))
    OBVIOUS
  <2>1. /\ Fifo' = [Fifo EXCEPT ![c] = Fifo'[c]] /\ lost' = lost \cup D /\ UNCHANGED served
        /\ BQ!IsRest(Fifo'[c], Fifo[c], D) /\ (D = {} => UNCHANGED Fifo)
    BY <1>4, FlushStep
  <2>2. CASE D = {}
    BY <2>1, <2>2, QueueVars
  <2>3. CASE D # {}
    <3>1. BQ!Discard(c, D)
      BY <2>1 DEF BQ!Discard, Fifo
    <3>2. D \subseteq BQ!Waiting(c)
      BY WaitingIs
    <3>3. D \in (SUBSET BQ!Waiting(c)) \ {{}}
      BY <2>3, <3>2
    <3>4. \E E \in (SUBSET BQ!Waiting(c)) \ {{}} : BQ!Discard(c, E)
      BY <3>1, <3>3
    <3> QED BY <3>4 DEF BQ!Next, BQ!Waiting
  <2> QED BY <2>2, <2>3
<1>5. ASSUME Quiet PROVE UNCHANGED BQ!vars
  BY <1>5, QueueVars
<1> QED BY <1>1, <1>2, <1>3, <1>4, <1>5, FourSteps

LEMMA QueueInit == Init => BQ!Init /\ KnownOK
<1> SUFFICES ASSUME Init PROVE BQ!Init /\ KnownOK
  OBVIOUS
<1>1. \A c \in Cpu : process[c] = <<>> /\ input[c] = <<>>
  BY DEF Init
<1>2. <<>> \o <<>> = <<>>
  BY ConcatEmptySeq, EmptySeq
<1>3. Fifo = [c \in Cpu |-> <<>>]
  BY <1>1, <1>2 DEF Fifo
<1>4. BQ!Init
  BY <1>3 DEF BQ!Init, Fifo, Init
<1>5. KnownOK
  BY <1>1, Emptied DEF KnownOK, Init
<1> QED BY <1>4, <1>5

\* For any number of CPUs, whichever of them go off and come back, whatever the limits and
\* whatever device goes away, the two queues of each CPU, one behind the other, are one FIFO
\* queue of which no packet is lost, overtaken or served twice but as BacklogQueue says:
\* enqueue_to_backlog, process_backlog, flush_backlog and dev_cpu_callback together.
THEOREM BacklogsAreQueues == Spec => ImplementsQueue
<1>1. Init => BQ!Init /\ KnownOK
  BY QueueInit
<1>2. IInv /\ KnownOK /\ [Next]_vars => KnownOK' /\ [BQ!Next]_(BQ!vars)
  BY KnownStep, QueueNext DEF IInv
<1>3. Spec => []IInv
  BY BacklogInvariant
<1> QED BY <1>1, <1>2, <1>3, PTL DEF Spec, ImplementsQueue, BQ!Spec
=============================================================================
