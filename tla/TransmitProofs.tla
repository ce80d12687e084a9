--------------------------- MODULE TransmitProofs ---------------------------
(***************************************************************************)
(* Theorems about Transmit, for any number of CPUs, packets and segments   *)
(* and any limits: the qdisc is listed once, never left with packets that  *)
(* nobody is going to send, and segments leave in order, none lost.        *)
(*                                                                         *)
(* The first part of the invariant is about who looks at the qdisc, bits   *)
(* and counters only; the second about where the segments are.             *)
(***************************************************************************)
EXTENDS Transmit, FiniteSetTheorems, SequenceTheorems, TLAPS

Seg == Packet \X (Nat \ {0})
Has(c) == outQueue[c] \/ pc[c] = "tx"
Runs(c) == pc[c] \in {"xmit", "run", "end"}

\* The types of the bits, counters and program counters, and those of the packets.
Plain == /\ pc \in [Cpu -> {"idle", "xmit", "run", "end", "tx"}]
         /\ rootLock \in Cpu \cup {NoCpu}
         /\ outQueue \in [Cpu -> BOOLEAN] /\ raised \in [Cpu -> BOOLEAN]
         /\ sched \in BOOLEAN /\ running \in BOOLEAN /\ xoff \in BOOLEAN /\ active \in BOOLEAN
         /\ gone \in BOOLEAN /\ present \in BOOLEAN
         /\ online \subseteq Cpu /\ online # {}
         /\ completion \in [Cpu -> Nat] /\ flight \in 0 .. MaxRing

Seqs == /\ hand \in [Cpu -> Seq(Seg)] /\ gso \in Seq(Seg) /\ sent \in Seq(Seg)
        /\ queue \in Seq(Packet) /\ Len(queue) <= MaxQueue
        /\ next \in 1 .. MaxPackets + 1 /\ dropped \subseteq Packet

\* SCHED is set iff one CPU has the qdisc on its list or in net_tx_action's hands.
SchedOK == /\ \A c, d \in Cpu : Has(c) /\ Has(d) => c = d
           /\ \A c \in Cpu : ~(outQueue[c] /\ pc[c] = "tx")
           /\ sched <=> \E c \in Cpu : Has(c)

\* The running bit is that of one CPU, which has the root lock but for the driver's part.
RunOK == /\ \A c, d \in Cpu : Runs(c) /\ Runs(d) => c = d
         /\ running <=> \E c \in Cpu : Runs(c)
         /\ \A c \in Cpu : pc[c] \in {"run", "end"} <=> rootLock = c

\* CPUs at work, or with something left to free or to run, are on, and look at it.
CpuOK == /\ \A c \in Cpu : pc[c] # "idle" => c \in online
         /\ \A c \in Cpu : outQueue[c] \/ completion[c] > 0 => raised[c] /\ c \in online

\* A queue that is not stopped has room in the ring.
RingOK == ~xoff => flight < MaxRing

\* A runner leaves only what is stopped or scheduled.
LeftOK == /\ QueueIsRun
          /\ \A c \in Cpu : pc[c] = "end" /\ Backlogged /\ active /\ ~xoff => sched


Sorted(s) == \A i, j \in 1 .. Len(s) : i < j => Before(s[i], s[j])
Held == ToSet(gso) \cup UNION {ToSet(hand[c]) : c \in Cpu}

\* Only the runner has segments in hand, and while it has none are put back.
HandOK == \A c \in Cpu : /\ pc[c] # "xmit" => hand[c] = <<>>
                         /\ pc[c] = "xmit" => gso = <<>>

\* What was sent comes before what is held, that before what is queued, all in order.
SortedOK == /\ Sorted(sent) /\ Sorted(gso) /\ \A c \in Cpu : Sorted(hand[c])
            /\ \A i, j \in 1 .. Len(queue) : i < j => queue[i] < queue[j]
AheadOK == /\ \A s \in ToSet(sent), t \in Held : Before(s, t)
           /\ \A t \in ToSet(sent) \cup Held : t[1] < next /\ \A p \in ToSet(queue) : t[1] < p
           /\ \A p \in ToSet(queue) : p < next

\* No packet is lost.
DoneOK == \A p \in 1 .. next - 1 : p \in ToSet(queue) \cup dropped
              \/ ToSet(Segments(p)) \subseteq ToSet(sent) \cup Held

OrderInv == HandOK /\ SortedOK /\ AheadOK /\ DoneOK
IInv == Plain /\ Seqs /\ SchedOK /\ RunOK /\ CpuOK /\ RingOK /\ LeftOK /\ OrderInv
-----------------------------------------------------------------------------
(* Types.                                                                  *)

LEMMA MembersAreOf == ASSUME NEW S, NEW s \in Seq(S) PROVE ToSet(s) \subseteq S
  BY DEF ToSet

LEMMA TypesFollow == ASSUME Plain, Seqs PROVE TypeOK
  <1>1. ToSet(queue) \subseteq Packet
    BY MembersAreOf DEF Seqs
  <1>2. ASSUME NEW c \in Cpu, NEW s \in ToSet(hand[c]) PROVE s[1] \in Packet
    <2>1. s \in Seg
      BY MembersAreOf DEF Seqs
    <2> QED BY <2>1 DEF Seg
  <1> QED BY <1>1, <1>2 DEF Plain, Seqs, TypeOK

LEMMA SegmentsType == ASSUME NEW p \in Packet
                      PROVE  /\ Segments(p) \in Seq(Seg) /\ Segments(p) # <<>>
                             /\ Len(Segments(p)) = SegmentsOf(p)
  <1>1. SegmentsOf(p) \in Nat \ {0}
    BY TransmitAssumption
  <1>2. \A i \in 1 .. SegmentsOf(p) : <<p, i>> \in Seg
    BY <1>1 DEF Seg
  <1> QED BY <1>1, <1>2 DEF Segments

-----------------------------------------------------------------------------
LEMMA PlainStep == ASSUME Plain, Seqs, RingOK, [Next]_vars PROVE Plain'
  <1> USE DEF Plain, RingOK, qdiscVars, cpuVars, softirqVars, deviceVars, historyVars
  <1>1. ASSUME NEW c \in Cpu, DevXmitSkb(c) PROVE Plain'
    BY <1>1 DEF DevXmitSkb
  <1>2. ASSUME NEW c \in Cpu, DevHardStartXmit(c) PROVE Plain'
    <2>1. flight' \in 0 .. MaxRing
      BY <1>2, TransmitAssumption DEF DevHardStartXmit
    <2>2. xoff' \in BOOLEAN
      BY <1>2 DEF DevHardStartXmit
    <2> QED BY <1>2, <2>1, <2>2 DEF DevHardStartXmit
  <1>3. ASSUME NEW c \in Cpu, XmitDone(c) PROVE Plain'
    BY <1>3 DEF XmitDone, NetifSchedule, NetifReschedule, Raise, Requeue
  <1>4. ASSUME NEW c \in Cpu, QdiscRun(c) PROVE Plain'
    BY <1>4 DEF QdiscRun
  <1>5. ASSUME NEW c \in Cpu, QdiscRunEnd(c) PROVE Plain'
    BY <1>5 DEF QdiscRunEnd
  <1>6. ASSUME NEW c \in Cpu, NetTxAction(c) PROVE Plain'
    BY <1>6 DEF NetTxAction
  <1>7. ASSUME NEW c \in Cpu, TxLocked(c) PROVE Plain'
    BY <1>7 DEF TxLocked
  <1>8. ASSUME NEW c \in Cpu, TxBusy(c) PROVE Plain'
    BY <1>8 DEF TxBusy, NetifReschedule, Raise
  <1>9. ASSUME NEW c \in Cpu, TxInterrupt(c) PROVE Plain'
    <2>1. flight' \in 0 .. MaxRing /\ completion' \in [Cpu -> Nat]
      BY <1>9, TransmitAssumption DEF TxInterrupt
    <2>2. raised' \in [Cpu -> BOOLEAN]
      BY <1>9 DEF TxInterrupt
    <2>3. xoff' \in BOOLEAN /\ sched' \in BOOLEAN /\ outQueue' \in [Cpu -> BOOLEAN]
      BY <1>9 DEF TxInterrupt, WakeQueue, NetifSchedule, NetifReschedule
    <2> QED BY <1>9, <2>1, <2>2, <2>3 DEF TxInterrupt
  <1>10. ASSUME NEW c \in Cpu, NetifDeviceAttach(c) PROVE Plain'
    BY <1>10 DEF NetifDeviceAttach, WakeQueue, NetifSchedule, NetifReschedule, Raise
  <1>11. ASSUME NEW d \in Cpu, NEW c \in Cpu, DevCpuDead(d, c) PROVE Plain'
    <2>1. completion' \in [Cpu -> Nat]
      BY <1>11 DEF DevCpuDead
    <2>2. outQueue' \in [Cpu -> BOOLEAN] /\ raised' \in [Cpu -> BOOLEAN]
      BY <1>11 DEF DevCpuDead
    <2>3. online' \subseteq Cpu /\ online' # {}
      BY <1>11 DEF DevCpuDead
    <2> QED BY <1>11, <2>1, <2>2, <2>3 DEF DevCpuDead
  <1>12. CASE NetifDeviceDetach
    BY <1>12 DEF NetifDeviceDetach
  <1>13. CASE Deactivate
    BY <1>13 DEF Deactivate
  <1>14. CASE Deactivated
    BY <1>14 DEF Deactivated
  <1>15. CASE UNCHANGED vars
    BY <1>15 DEF vars
  <1> QED BY <1>1, <1>2, <1>3, <1>4, <1>5, <1>6, <1>7, <1>8, <1>9, <1>10, <1>11, <1>12,
    <1>13, <1>14, <1>15
      DEF Next, Runner, Softirq
-----------------------------------------------------------------------------
LEMMA SeqsStep == ASSUME Plain, Seqs, [Next]_vars PROVE Seqs'
  <1> USE DEF Plain, Seqs, qdiscVars, cpuVars, softirqVars, deviceVars, historyVars
  <1>1. ASSUME NEW c \in Cpu, DevXmitSkb(c) PROVE Seqs'
    <2>1. hand' \in [Cpu -> Seq(Seg)] /\ UNCHANGED <<gso, sent>>
      BY <1>1, SegmentsType DEF DevXmitSkb
    <2>2. queue' = queue \/ (Len(queue) < MaxQueue /\ queue' = Append(queue, next))
      BY <1>1 DEF DevXmitSkb
    <2>3. next \in Packet
      BY <1>1 DEF DevXmitSkb
    <2>4. queue' \in Seq(Packet) /\ Len(queue') <= MaxQueue
      <3>1. MaxQueue \in Nat
        BY TransmitAssumption
      <3>2. Len(Append(queue, next)) = Len(queue) + 1 /\ Append(queue, next) \in Seq(Packet)
        BY <2>3, AppendProperties
      <3>3. Len(queue) \in Nat
        BY LenProperties
      <3>4. CASE queue' = queue
        BY <3>4
      <3>5. CASE Len(queue) < MaxQueue /\ queue' = Append(queue, next)
        BY <3>1, <3>2, <3>3, <3>5
      <3> QED BY <2>2, <3>4, <3>5
    <2>5. next' \in 1 .. MaxPackets + 1
      <3>1. next' = next + 1 /\ next <= MaxPackets /\ next \in Nat /\ MaxPackets \in Nat
        BY <1>1, <2>3, TransmitAssumption DEF DevXmitSkb, Packet
      <3> QED BY <3>1
    <2>6. dropped' \subseteq Packet
      BY <1>1, <2>3 DEF DevXmitSkb
    <2> QED BY <2>1, <2>4, <2>5, <2>6
  <1>2. ASSUME NEW c \in Cpu, DevHardStartXmit(c) PROVE Seqs'
    <2>1. hand[c] \in Seq(Seg) /\ hand[c] # <<>>
      BY <1>2 DEF DevHardStartXmit
    <2>2. Head(hand[c]) \in Seg /\ Tail(hand[c]) \in Seq(Seg)
      BY <2>1
    <2>3. sent' \in Seq(Seg) /\ hand' \in [Cpu -> Seq(Seg)]
      BY <1>2, <2>2 DEF DevHardStartXmit
    <2> QED BY <1>2, <2>3 DEF DevHardStartXmit
  <1>3. ASSUME NEW c \in Cpu, XmitDone(c) PROVE Seqs'
    BY <1>3 DEF XmitDone, NetifSchedule, NetifReschedule, Raise, Requeue
  <1>4. ASSUME NEW c \in Cpu, QdiscRun(c) PROVE Seqs'
    <2>1. CASE Backlogged /\ gso # <<>>
      <3>1. hand' \in [Cpu -> Seq(Seg)]
        BY <1>4, <2>1 DEF QdiscRun
      <3>2. gso' \in Seq(Seg) /\ queue' = queue
        <4>1. queue' = queue /\ (gso' = gso \/ gso' = <<>>)
          BY <1>4, <2>1 DEF QdiscRun
        <4>2. <<>> \in Seq(Seg)
          BY EmptySeq
        <4> QED BY <4>1, <4>2
      <3>3. UNCHANGED <<sent, next, dropped>>
        BY <1>4 DEF QdiscRun
      <3> QED BY <3>1, <3>2, <3>3
    <2>2. CASE Backlogged /\ gso = <<>>
      <3>1. queue # <<>> /\ Head(queue) \in Packet /\ Tail(queue) \in Seq(Packet)
            /\ Len(Tail(queue)) <= MaxQueue
        BY <2>2, TransmitAssumption DEF Backlogged
      <3>2. (hand' = [hand EXCEPT ![c] = Segments(Head(queue))] /\ queue' = Tail(queue) /\ gso' = <<>>)
            \/ UNCHANGED <<hand, queue, gso>>
        BY <1>4, <2>2 DEF QdiscRun
      <3>3. Segments(Head(queue)) \in Seq(Seg)
        BY <3>1, SegmentsType
      <3>4. hand' \in [Cpu -> Seq(Seg)] /\ gso' \in Seq(Seg)
        BY <3>2, <3>3, EmptySeq
      <3>5. queue' \in Seq(Packet) /\ Len(queue') <= MaxQueue
        BY <3>1, <3>2
      <3>6. UNCHANGED <<sent, next, dropped>>
        BY <1>4 DEF QdiscRun
      <3> QED BY <3>4, <3>5, <3>6
    <2>3. CASE ~Backlogged
      BY <1>4, <2>3 DEF QdiscRun
    <2> QED BY <2>1, <2>2, <2>3
  <1>5. ASSUME NEW c \in Cpu, QdiscRunEnd(c) PROVE Seqs'
    BY <1>5 DEF QdiscRunEnd
  <1>6. ASSUME NEW c \in Cpu, NetTxAction(c) PROVE Seqs'
    BY <1>6 DEF NetTxAction
  <1>7. ASSUME NEW c \in Cpu, TxLocked(c) PROVE Seqs'
    BY <1>7 DEF TxLocked
  <1>8. ASSUME NEW c \in Cpu, TxBusy(c) PROVE Seqs'
    BY <1>8 DEF TxBusy, NetifReschedule, Raise
  <1>9. ASSUME NEW c \in Cpu, TxInterrupt(c) PROVE Seqs'
    BY <1>9 DEF TxInterrupt, WakeQueue, NetifSchedule, NetifReschedule
  <1>10. ASSUME NEW c \in Cpu, NetifDeviceAttach(c) PROVE Seqs'
    BY <1>10 DEF NetifDeviceAttach, WakeQueue, NetifSchedule, NetifReschedule, Raise
  <1>11. ASSUME NEW d \in Cpu, NEW c \in Cpu, DevCpuDead(d, c) PROVE Seqs'
    BY <1>11 DEF DevCpuDead
  <1>12. CASE NetifDeviceDetach
    BY <1>12 DEF NetifDeviceDetach
  <1>13. CASE Deactivate
    <2>1. ToSet(queue) \subseteq Packet /\ ToSet(gso) \subseteq Seg
      BY MembersAreOf
    <2>2. dropped' \subseteq Packet
      BY <1>13, <2>1 DEF Deactivate, Seg
    <2> QED BY <1>13, <2>2, TransmitAssumption DEF Deactivate
  <1>14. CASE Deactivated
    BY <1>14 DEF Deactivated
  <1>15. CASE UNCHANGED vars
    BY <1>15 DEF vars
  <1> QED BY <1>1, <1>2, <1>3, <1>4, <1>5, <1>6, <1>7, <1>8, <1>9, <1>10, <1>11, <1>12,
    <1>13, <1>14, <1>15
      DEF Next, Runner, Softirq
-----------------------------------------------------------------------------
LEMMA SchedStep == ASSUME Plain, SchedOK, RunOK, [Next]_vars PROVE SchedOK'
  <1> USE DEF Plain, SchedOK, RunOK, Has, Runs, qdiscVars, cpuVars, softirqVars,
    deviceVars, historyVars
  <1>1. ASSUME NEW c \in Cpu, DevXmitSkb(c) PROVE SchedOK'
    BY <1>1 DEF DevXmitSkb
  <1>2. ASSUME NEW c \in Cpu, DevHardStartXmit(c) PROVE SchedOK'
    BY <1>2 DEF DevHardStartXmit
  <1>3. ASSUME NEW c \in Cpu, XmitDone(c) PROVE SchedOK'
    <2>1. \/ UNCHANGED <<sched, outQueue>>
          \/ ~sched /\ sched' = TRUE /\ outQueue' = [outQueue EXCEPT ![c] = TRUE]
      BY <1>3 DEF XmitDone, NetifSchedule, NetifReschedule, Raise, Requeue
    <2>2. pc[c] = "xmit" /\ pc' \in {[pc EXCEPT ![c] = "run"], [pc EXCEPT ![c] = "end"]}
      BY <1>3 DEF XmitDone
    <2> QED BY <2>1, <2>2
  <1>4. ASSUME NEW c \in Cpu, QdiscRun(c) PROVE SchedOK'
    BY <1>4 DEF QdiscRun
  <1>5. ASSUME NEW c \in Cpu, QdiscRunEnd(c) PROVE SchedOK'
    BY <1>5 DEF QdiscRunEnd
  <1>6. ASSUME NEW c \in Cpu, NetTxAction(c) PROVE SchedOK'
    BY <1>6 DEF NetTxAction
  <1>7. ASSUME NEW c \in Cpu, TxLocked(c) PROVE SchedOK'
    BY <1>7 DEF TxLocked
  <1>8. ASSUME NEW c \in Cpu, TxBusy(c) PROVE SchedOK'
    BY <1>8 DEF TxBusy, NetifReschedule, Raise
  <1>9. ASSUME NEW c \in Cpu, TxInterrupt(c) PROVE SchedOK'
    BY <1>9 DEF TxInterrupt, WakeQueue, NetifSchedule, NetifReschedule
  <1>10. ASSUME NEW c \in Cpu, NetifDeviceAttach(c) PROVE SchedOK'
    BY <1>10 DEF NetifDeviceAttach, WakeQueue, NetifSchedule, NetifReschedule, Raise
  <1>11. ASSUME NEW d \in Cpu, NEW c \in Cpu, DevCpuDead(d, c) PROVE SchedOK'
    BY <1>11 DEF DevCpuDead
  <1>12. CASE NetifDeviceDetach
    BY <1>12 DEF NetifDeviceDetach
  <1>13. CASE Deactivate
    BY <1>13 DEF Deactivate
  <1>14. CASE Deactivated
    BY <1>14 DEF Deactivated
  <1>15. CASE UNCHANGED vars
    BY <1>15 DEF vars
  <1> QED BY <1>1, <1>2, <1>3, <1>4, <1>5, <1>6, <1>7, <1>8, <1>9, <1>10, <1>11, <1>12,
    <1>13, <1>14, <1>15
      DEF Next, Runner, Softirq
-----------------------------------------------------------------------------
LEMMA RunStep == ASSUME Plain, RunOK, [Next]_vars PROVE RunOK'
  <1> USE TransmitAssumption DEF Plain, RunOK, Runs, qdiscVars, cpuVars, softirqVars, deviceVars, historyVars
  <1>1. ASSUME NEW c \in Cpu, DevXmitSkb(c) PROVE RunOK'
    <2>1. CASE UNCHANGED <<pc, running, rootLock>>
      BY <2>1
    <2>2. CASE pc' = [pc EXCEPT ![c] = "xmit"] /\ running' = TRUE /\ rootLock' = rootLock
      BY <1>1, <2>2 DEF DevXmitSkb, MayBypass
    <2>3. CASE pc' = [pc EXCEPT ![c] = "run"] /\ running' = TRUE /\ rootLock' = c
      BY <1>1, <2>3 DEF DevXmitSkb
    <2> QED BY <1>1, <2>1, <2>2, <2>3 DEF DevXmitSkb
  <1>2. ASSUME NEW c \in Cpu, DevHardStartXmit(c) PROVE RunOK'
    BY <1>2 DEF DevHardStartXmit
  <1>3. ASSUME NEW c \in Cpu, XmitDone(c) PROVE RunOK'
    BY <1>3 DEF XmitDone, NetifSchedule, NetifReschedule, Raise, Requeue
  <1>4. ASSUME NEW c \in Cpu, QdiscRun(c) PROVE RunOK'
    BY <1>4 DEF QdiscRun
  <1>5. ASSUME NEW c \in Cpu, QdiscRunEnd(c) PROVE RunOK'
    BY <1>5 DEF QdiscRunEnd
  <1>6. ASSUME NEW c \in Cpu, NetTxAction(c) PROVE RunOK'
    BY <1>6 DEF NetTxAction
  <1>7. ASSUME NEW c \in Cpu, TxLocked(c) PROVE RunOK'
    BY <1>7 DEF TxLocked
  <1>8. ASSUME NEW c \in Cpu, TxBusy(c) PROVE RunOK'
    BY <1>8 DEF TxBusy, NetifReschedule, Raise
  <1>9. ASSUME NEW c \in Cpu, TxInterrupt(c) PROVE RunOK'
    BY <1>9 DEF TxInterrupt, WakeQueue, NetifSchedule, NetifReschedule
  <1>10. ASSUME NEW c \in Cpu, NetifDeviceAttach(c) PROVE RunOK'
    BY <1>10 DEF NetifDeviceAttach, WakeQueue, NetifSchedule, NetifReschedule, Raise
  <1>11. ASSUME NEW d \in Cpu, NEW c \in Cpu, DevCpuDead(d, c) PROVE RunOK'
    BY <1>11 DEF DevCpuDead
  <1>12. CASE NetifDeviceDetach
    BY <1>12 DEF NetifDeviceDetach
  <1>13. CASE Deactivate
    BY <1>13 DEF Deactivate
  <1>14. CASE Deactivated
    BY <1>14 DEF Deactivated
  <1>15. CASE UNCHANGED vars
    BY <1>15 DEF vars
  <1> QED BY <1>1, <1>2, <1>3, <1>4, <1>5, <1>6, <1>7, <1>8, <1>9, <1>10, <1>11, <1>12,
    <1>13, <1>14, <1>15
      DEF Next, Runner, Softirq
-----------------------------------------------------------------------------
LEMMA CpuStep == ASSUME Plain, CpuOK, [Next]_vars PROVE CpuOK'
  <1> USE DEF Plain, CpuOK, qdiscVars, cpuVars, softirqVars, deviceVars, historyVars
  <1>1. ASSUME NEW c \in Cpu, DevXmitSkb(c) PROVE CpuOK'
    BY <1>1 DEF DevXmitSkb
  <1>2. ASSUME NEW c \in Cpu, DevHardStartXmit(c) PROVE CpuOK'
    BY <1>2 DEF DevHardStartXmit
  <1>3. ASSUME NEW c \in Cpu, XmitDone(c) PROVE CpuOK'
    BY <1>3 DEF XmitDone, NetifSchedule, NetifReschedule, Raise, Requeue
  <1>4. ASSUME NEW c \in Cpu, QdiscRun(c) PROVE CpuOK'
    BY <1>4 DEF QdiscRun
  <1>5. ASSUME NEW c \in Cpu, QdiscRunEnd(c) PROVE CpuOK'
    BY <1>5 DEF QdiscRunEnd
  <1>6. ASSUME NEW c \in Cpu, NetTxAction(c) PROVE CpuOK'
    BY <1>6 DEF NetTxAction
  <1>7. ASSUME NEW c \in Cpu, TxLocked(c) PROVE CpuOK'
    BY <1>7 DEF TxLocked
  <1>8. ASSUME NEW c \in Cpu, TxBusy(c) PROVE CpuOK'
    BY <1>8 DEF TxBusy, NetifReschedule, Raise
  <1>9. ASSUME NEW c \in Cpu, TxInterrupt(c) PROVE CpuOK'
    BY <1>9 DEF TxInterrupt, WakeQueue, NetifSchedule, NetifReschedule
  <1>10. ASSUME NEW c \in Cpu, NetifDeviceAttach(c) PROVE CpuOK'
    BY <1>10 DEF NetifDeviceAttach, WakeQueue, NetifSchedule, NetifReschedule, Raise
  <1>11. ASSUME NEW d \in Cpu, NEW c \in Cpu, DevCpuDead(d, c) PROVE CpuOK'
    BY <1>11 DEF DevCpuDead
  <1>12. CASE NetifDeviceDetach
    BY <1>12 DEF NetifDeviceDetach
  <1>13. CASE Deactivate
    BY <1>13 DEF Deactivate
  <1>14. CASE Deactivated
    BY <1>14 DEF Deactivated
  <1>15. CASE UNCHANGED vars
    BY <1>15 DEF vars
  <1> QED BY <1>1, <1>2, <1>3, <1>4, <1>5, <1>6, <1>7, <1>8, <1>9, <1>10, <1>11, <1>12,
    <1>13, <1>14, <1>15
      DEF Next, Runner, Softirq
-----------------------------------------------------------------------------
LEMMA RingStep == ASSUME Plain, RingOK, [Next]_vars PROVE RingOK'
  <1> USE DEF Plain, RingOK, qdiscVars, cpuVars, softirqVars, deviceVars, historyVars
  <1>1. ASSUME NEW c \in Cpu, DevXmitSkb(c) PROVE RingOK'
    BY <1>1 DEF DevXmitSkb
  <1>2. ASSUME NEW c \in Cpu, DevHardStartXmit(c) PROVE RingOK'
    <2>1. flight' = flight + 1 /\ flight < MaxRing /\ xoff' = (flight + 1 = MaxRing)
      BY <1>2 DEF DevHardStartXmit
    <2>2. CASE flight + 1 = MaxRing
      BY <2>1, <2>2
    <2>3. CASE flight + 1 # MaxRing
      BY <2>1, <2>3, TransmitAssumption
    <2> QED BY <2>2, <2>3
  <1>3. ASSUME NEW c \in Cpu, XmitDone(c) PROVE RingOK'
    BY <1>3 DEF XmitDone, NetifSchedule, NetifReschedule, Raise, Requeue
  <1>4. ASSUME NEW c \in Cpu, QdiscRun(c) PROVE RingOK'
    BY <1>4 DEF QdiscRun
  <1>5. ASSUME NEW c \in Cpu, QdiscRunEnd(c) PROVE RingOK'
    BY <1>5 DEF QdiscRunEnd
  <1>6. ASSUME NEW c \in Cpu, NetTxAction(c) PROVE RingOK'
    BY <1>6 DEF NetTxAction
  <1>7. ASSUME NEW c \in Cpu, TxLocked(c) PROVE RingOK'
    BY <1>7 DEF TxLocked
  <1>8. ASSUME NEW c \in Cpu, TxBusy(c) PROVE RingOK'
    BY <1>8 DEF TxBusy, NetifReschedule, Raise
  <1>9. ASSUME NEW c \in Cpu, TxInterrupt(c) PROVE RingOK'
    <2>1. flight' = flight - 1 /\ flight > 0
      BY <1>9 DEF TxInterrupt
    <2> QED BY <2>1, TransmitAssumption
  <1>10. ASSUME NEW c \in Cpu, NetifDeviceAttach(c) PROVE RingOK'
    BY <1>10 DEF NetifDeviceAttach, WakeQueue, NetifSchedule, NetifReschedule, Raise
  <1>11. ASSUME NEW d \in Cpu, NEW c \in Cpu, DevCpuDead(d, c) PROVE RingOK'
    BY <1>11 DEF DevCpuDead
  <1>12. CASE NetifDeviceDetach
    BY <1>12 DEF NetifDeviceDetach
  <1>13. CASE Deactivate
    BY <1>13 DEF Deactivate
  <1>14. CASE Deactivated
    BY <1>14 DEF Deactivated
  <1>15. CASE UNCHANGED vars
    BY <1>15 DEF vars
  <1> QED BY <1>1, <1>2, <1>3, <1>4, <1>5, <1>6, <1>7, <1>8, <1>9, <1>10, <1>11, <1>12,
    <1>13, <1>14, <1>15
      DEF Next, Runner, Softirq
-----------------------------------------------------------------------------
LEMMA LeftStep == ASSUME Plain, SchedOK, RunOK, LeftOK, [Next]_vars PROVE LeftOK'
  <1> USE TransmitAssumption DEF Plain, RunOK, Runs, LeftOK, QueueIsRun, Backlogged, qdiscVars, cpuVars,
    softirqVars, deviceVars, historyVars
  <1>1. ASSUME NEW c \in Cpu, DevXmitSkb(c) PROVE LeftOK'
    BY <1>1 DEF DevXmitSkb
  <1>2. ASSUME NEW c \in Cpu, DevHardStartXmit(c) PROVE LeftOK'
    BY <1>2 DEF DevHardStartXmit
  <1>3. ASSUME NEW c \in Cpu, XmitDone(c) PROVE LeftOK'
    BY <1>3 DEF XmitDone, NetifSchedule, NetifReschedule, Raise, Requeue
  <1>4. ASSUME NEW c \in Cpu, QdiscRun(c) PROVE LeftOK'
    BY <1>4 DEF QdiscRun
  <1>5. ASSUME NEW c \in Cpu, QdiscRunEnd(c) PROVE LeftOK'
    BY <1>5 DEF QdiscRunEnd
  <1>6. ASSUME NEW c \in Cpu, NetTxAction(c) PROVE LeftOK'
    BY <1>6 DEF NetTxAction
  <1>7. ASSUME NEW c \in Cpu, TxLocked(c) PROVE LeftOK'
    BY <1>7 DEF TxLocked
  <1>8. ASSUME NEW c \in Cpu, TxBusy(c) PROVE LeftOK'
    BY <1>8 DEF TxBusy, NetifReschedule, Raise
  <1>9. ASSUME NEW c \in Cpu, TxInterrupt(c) PROVE LeftOK'
    BY <1>9 DEF TxInterrupt, WakeQueue, NetifSchedule, NetifReschedule
  <1>10. ASSUME NEW c \in Cpu, NetifDeviceAttach(c) PROVE LeftOK'
    BY <1>10 DEF NetifDeviceAttach, WakeQueue, NetifSchedule, NetifReschedule, Raise
  <1>11. ASSUME NEW d \in Cpu, NEW c \in Cpu, DevCpuDead(d, c) PROVE LeftOK'
    BY <1>11 DEF DevCpuDead
  <1>12. CASE NetifDeviceDetach
    BY <1>12 DEF NetifDeviceDetach
  <1>13. CASE Deactivate
    BY <1>13 DEF Deactivate
  <1>14. CASE Deactivated
    BY <1>14 DEF Deactivated
  <1>15. CASE UNCHANGED vars
    BY <1>15 DEF vars
  <1> QED BY <1>1, <1>2, <1>3, <1>4, <1>5, <1>6, <1>7, <1>8, <1>9, <1>10, <1>11, <1>12,
    <1>13, <1>14, <1>15
      DEF Next, Runner, Softirq
-----------------------------------------------------------------------------
(* Sequences, their sets and their order.                                  *)

LEMMA SetOfEmpty == ToSet(<<>>) = {}
  BY DEF ToSet

LEMMA SetOfAppend == ASSUME NEW S, NEW s \in Seq(S), NEW x \in S
                     PROVE  ToSet(Append(s, x)) = ToSet(s) \cup {x}
  <1>1. /\ Len(Append(s, x)) = Len(s) + 1 /\ Len(s) \in Nat
        /\ \A i \in 1 .. Len(s) : Append(s, x)[i] = s[i]
        /\ Append(s, x)[Len(s) + 1] = x
    BY AppendProperties, LenProperties
  <1>2. DOMAIN s = 1 .. Len(s) /\ DOMAIN Append(s, x) = 1 .. Len(s) + 1
    BY <1>1, AppendProperties, LenProperties
  <1> QED BY <1>1, <1>2 DEF ToSet

LEMMA SetOfHeadTail == ASSUME NEW S, NEW s \in Seq(S), s # <<>>
                       PROVE  ToSet(s) = {Head(s)} \cup ToSet(Tail(s))
  <1>1. /\ Len(Tail(s)) = Len(s) - 1 /\ Len(s) \in Nat \ {0}
        /\ \A i \in 1 .. Len(Tail(s)) : Tail(s)[i] = s[i + 1]
        /\ Head(s) = s[1]
    BY HeadTailProperties, EmptySeq
  <1>2. DOMAIN s = 1 .. Len(s) /\ DOMAIN Tail(s) = 1 .. Len(s) - 1
    BY <1>1, HeadTailProperties, LenProperties
  <1>3. ASSUME NEW i \in 1 .. Len(s) PROVE s[i] \in {Head(s)} \cup ToSet(Tail(s))
    <2>1. CASE i = 1
      BY <1>1, <2>1
    <2>2. CASE i # 1
      <3>1. i - 1 \in 1 .. Len(Tail(s)) /\ Tail(s)[i - 1] = s[i]
        BY <1>1, <2>2
      <3> QED BY <1>1, <1>2, <3>1 DEF ToSet
    <2> QED BY <2>1, <2>2
  <1>4. ASSUME NEW i \in 1 .. Len(Tail(s)) PROVE Tail(s)[i] \in ToSet(s)
    <2>1. i + 1 \in 1 .. Len(s)
      BY <1>1
    <2> QED BY <1>1, <1>2, <2>1 DEF ToSet
  <1>5. Head(s) \in ToSet(s)
    BY <1>1, <1>2 DEF ToSet
  <1> QED BY <1>1, <1>2, <1>3, <1>4, <1>5 DEF ToSet

LEMMA SortedTail == ASSUME NEW s \in Seq(Seg), s # <<>>, Sorted(s)
                    PROVE  Sorted(Tail(s)) /\ \A t \in ToSet(Tail(s)) : Before(Head(s), t)
  <1>1. /\ Len(Tail(s)) = Len(s) - 1 /\ Len(s) \in Nat \ {0} /\ Tail(s) \in Seq(Seg)
        /\ \A i \in 1 .. Len(Tail(s)) : Tail(s)[i] = s[i + 1]
        /\ Head(s) = s[1]
    BY HeadTailProperties, EmptySeq
  <1>2. ASSUME NEW i \in 1 .. Len(Tail(s)), NEW j \in 1 .. Len(Tail(s)), i < j
        PROVE  Before(Tail(s)[i], Tail(s)[j])
    <2>1. i + 1 \in 1 .. Len(s) /\ j + 1 \in 1 .. Len(s) /\ i + 1 < j + 1
      BY <1>1, <1>2
    <2> QED BY <1>1, <2>1 DEF Sorted
  <1>3. ASSUME NEW i \in 1 .. Len(Tail(s)) PROVE Before(Head(s), Tail(s)[i])
    <2>1. i + 1 \in 1 .. Len(s) /\ 1 < i + 1 /\ 1 \in 1 .. Len(s)
      BY <1>1
    <2> QED BY <1>1, <2>1 DEF Sorted
  <1>4. DOMAIN Tail(s) = 1 .. Len(Tail(s))
    BY <1>1, LenProperties
  <1> QED BY <1>2, <1>3, <1>4 DEF Sorted, ToSet

LEMMA SortedAppend == ASSUME NEW s \in Seq(Seg), NEW x \in Seg, Sorted(s),
                             \A t \in ToSet(s) : Before(t, x)
                      PROVE  Sorted(Append(s, x))
  <1>1. /\ Len(Append(s, x)) = Len(s) + 1 /\ Len(s) \in Nat
        /\ \A i \in 1 .. Len(s) : Append(s, x)[i] = s[i]
        /\ Append(s, x)[Len(s) + 1] = x
    BY AppendProperties, LenProperties
  <1>2. \A i \in 1 .. Len(s) : s[i] \in ToSet(s)
    BY LenProperties DEF ToSet
  <1> QED BY <1>1, <1>2 DEF Sorted

LEMMA SegmentsInOrder == ASSUME NEW p \in Packet
                         PROVE  /\ Sorted(Segments(p))
                                /\ \A t \in ToSet(Segments(p)) : t[1] = p
  <1>1. SegmentsOf(p) \in Nat \ {0} /\ Len(Segments(p)) = SegmentsOf(p)
    BY SegmentsType, TransmitAssumption
  <1>2. \A i \in 1 .. SegmentsOf(p) : Segments(p)[i] = <<p, i>>
    BY DEF Segments
  <1> QED BY <1>1, <1>2 DEF Sorted, Before, ToSet, Segments

\* With one runner, what is held is what it has in hand and what was put back.
LEMMA HeldOfOne == ASSUME NEW c \in Cpu, \A d \in Cpu \ {c} : hand[d] = <<>>
                   PROVE  Held = ToSet(gso) \cup ToSet(hand[c])
  BY SetOfEmpty DEF Held
-----------------------------------------------------------------------------
\* One CPU runs the qdisc: the others have nothing in hand.
LEMMA OthersEmpty == ASSUME RunOK, HandOK, NEW c \in Cpu, Runs(c)
                     PROVE  \A d \in Cpu \ {c} : hand[d] = <<>>
  BY DEF RunOK, HandOK, Runs

\* Nobody runs it: what is held was put back.
LEMMA NobodysHand == ASSUME RunOK, HandOK, ~running
                     PROVE  /\ \A c \in Cpu : hand[c] = <<>>
                            /\ Held = ToSet(gso)
  <1>1. \A c \in Cpu : hand[c] = <<>>
    BY DEF RunOK, HandOK, Runs
  <1> QED BY <1>1, SetOfEmpty DEF Held

LEMMA SeqsAreSets == ASSUME Seqs PROVE /\ ToSet(sent) \subseteq Seg /\ Held \subseteq Seg
                                       /\ ToSet(queue) \subseteq Packet
  <1>1. \A c \in Cpu : ToSet(hand[c]) \subseteq Seg
    BY MembersAreOf DEF Seqs
  <1>2. ToSet(sent) \subseteq Seg /\ ToSet(gso) \subseteq Seg /\ ToSet(queue) \subseteq Packet
    BY MembersAreOf DEF Seqs
  <1> QED BY <1>1, <1>2 DEF Held

\* Nothing that the order is about changes.
LEMMA SameOrder == ASSUME SortedOK, AheadOK, DoneOK, UNCHANGED <<hand, qdiscVars, historyVars>>
                   PROVE  SortedOK' /\ AheadOK' /\ DoneOK'
  <1>1. UNCHANGED <<hand, queue, gso, next, dropped, sent>>
    BY DEF qdiscVars, historyVars
  <1>2. UNCHANGED <<Held, ToSet(sent), ToSet(queue)>>
    BY <1>1 DEF Held
  <1> QED BY <1>1, <1>2 DEF SortedOK, AheadOK, DoneOK

LEMMA HandStep == ASSUME Plain, RunOK, HandOK, Seqs, [Next]_vars PROVE HandOK'
  <1> USE DEF Plain, RunOK, Runs, HandOK, Seqs, qdiscVars, cpuVars
  <1>1. ASSUME NEW c \in Cpu, DevXmitSkb(c) PROVE HandOK'
    BY <1>1 DEF DevXmitSkb, MayBypass, Backlogged
  <1>2. ASSUME NEW c \in Cpu, DevHardStartXmit(c) PROVE HandOK'
    BY <1>2 DEF DevHardStartXmit
  <1>3. ASSUME NEW c \in Cpu, XmitDone(c) PROVE HandOK'
    BY <1>3 DEF XmitDone, Requeue
  <1>4. ASSUME NEW c \in Cpu, QdiscRun(c) PROVE HandOK'
    BY <1>4 DEF QdiscRun
  <1>5. ASSUME NEW c \in Cpu, QdiscRunEnd(c) \/ Softirq(c) PROVE HandOK'
    BY <1>5 DEF QdiscRunEnd, Softirq, NetTxAction, TxLocked, TxBusy
  <1>6. ASSUME NEW c \in Cpu, TxInterrupt(c) \/ NetifDeviceAttach(c) PROVE HandOK'
    BY <1>6 DEF TxInterrupt, NetifDeviceAttach
  <1>7. ASSUME NEW d \in Cpu, NEW c \in Cpu, DevCpuDead(d, c) PROVE HandOK'
    BY <1>7 DEF DevCpuDead
  <1>8. CASE NetifDeviceDetach \/ Deactivate \/ Deactivated \/ UNCHANGED vars
    BY <1>8 DEF NetifDeviceDetach, Deactivate, Deactivated, vars
  <1> QED BY <1>1, <1>2, <1>3, <1>4, <1>5, <1>6, <1>7, <1>8 DEF Next, Runner
-----------------------------------------------------------------------------
\* A packet that takes the short way is younger than all others, and alone.
LEMMA XmitSkbOrder == ASSUME Plain, Seqs, RunOK, OrderInv, NEW c \in Cpu, DevXmitSkb(c)
                      PROVE  SortedOK' /\ AheadOK' /\ DoneOK'
  <1> USE DEF OrderInv
  <1>1. next \in Packet /\ next' = next + 1 /\ UNCHANGED <<sent, gso>>
    BY DEF DevXmitSkb
  <1>2. next \in Nat \ {0}
    BY <1>1, TransmitAssumption DEF Packet
  <1>3. CASE MayBypass /\ hand' = [hand EXCEPT ![c] = Segments(next)] /\ UNCHANGED <<queue, dropped>>
    <2>1. queue = <<>> /\ gso = <<>> /\ ~running
      BY <1>3 DEF MayBypass, Backlogged
    <2>2. \A d \in Cpu : hand[d] = <<>>
      BY <2>1, NobodysHand
    <2>3. Held = {} /\ ToSet(queue) = {} /\ ToSet(queue') = {}
      BY <1>3, <2>1, NobodysHand, SetOfEmpty
    <2>4. Held' = ToSet(Segments(next))
      <3>1. \A d \in Cpu \ {c} : hand'[d] = <<>>
        BY <1>3, <2>2 DEF Seqs
      <3>2. hand'[c] = Segments(next) /\ gso' = <<>>
        BY <1>1, <1>3, <2>1 DEF Seqs
      <3> QED BY <3>1, <3>2, SetOfEmpty DEF Held
    <2>5. SortedOK'
      BY <1>1, <1>3, SegmentsInOrder DEF SortedOK, Seqs, Sorted
    <2>6. AheadOK'
      <3>1. \A s \in ToSet(sent) : s \in Seg /\ s[1] < next
        BY SeqsAreSets DEF AheadOK
      <3>2. \A t \in Held' : t[1] = next
        BY <1>1, <2>4, SegmentsInOrder
      <3> QED BY <1>1, <1>2, <2>3, <3>1, <3>2 DEF AheadOK, Before, Seg, Packet
    <2>7. DoneOK'
      <3> SUFFICES ASSUME NEW p \in 1 .. next, p \notin dropped
                   PROVE  ToSet(Segments(p)) \subseteq ToSet(sent') \cup Held'
        BY <1>1, <1>2, <1>3 DEF DoneOK, Segments
      <3>1. CASE p = next
        BY <2>4, <3>1
      <3>2. CASE p \in 1 .. next - 1
        BY <1>1, <2>3, <3>2 DEF DoneOK
      <3> QED BY <1>2, <3>1, <3>2
    <2> QED BY <2>5, <2>6, <2>7
  <1>4. CASE queue' = Append(queue, next) /\ UNCHANGED <<hand, dropped>>
    <2>1. ToSet(queue') = ToSet(queue) \cup {next} /\ Held' = Held
      BY <1>1, <1>4, SetOfAppend DEF Seqs, Held
    <2>2. SortedOK'
      <3>1. /\ Len(queue') = Len(queue) + 1 /\ Len(queue) \in Nat
            /\ \A i \in 1 .. Len(queue) : queue'[i] = queue[i]
            /\ queue'[Len(queue) + 1] = next
        BY <1>1, <1>4, AppendProperties, LenProperties DEF Seqs
      <3>2. \A i \in 1 .. Len(queue) : queue[i] < next
        BY LenProperties DEF AheadOK, ToSet, Seqs
      <3> QED BY <1>1, <1>4, <3>1, <3>2 DEF SortedOK, Sorted
    <2>3. AheadOK'
      BY <1>1, <1>2, <2>1, SeqsAreSets DEF AheadOK, Seg, Packet
    <2>4. DoneOK'
      BY <1>1, <1>2, <1>4, <2>1 DEF DoneOK, Segments
    <2> QED BY <2>2, <2>3, <2>4
  <1>5. CASE dropped' = dropped \cup {next} /\ UNCHANGED <<hand, queue>>
    <2>1. UNCHANGED <<Held, ToSet(queue), ToSet(sent)>>
      BY <1>1, <1>5 DEF Held
    <2>2. SortedOK'
      BY <1>1, <1>5 DEF SortedOK, Sorted
    <2>3. AheadOK'
      BY <1>1, <1>2, <2>1, SeqsAreSets DEF AheadOK, Seg, Packet
    <2>4. DoneOK'
      BY <1>1, <1>2, <1>5, <2>1 DEF DoneOK, Segments
    <2> QED BY <2>2, <2>3, <2>4
  <1> QED BY <1>3, <1>4, <1>5 DEF DevXmitSkb

LEMMA HardStartOrder == ASSUME Plain, Seqs, RunOK, OrderInv, NEW c \in Cpu, DevHardStartXmit(c)
                        PROVE  SortedOK' /\ AheadOK' /\ DoneOK'
  <1> DEFINE h == hand[c]
  <1> USE DEF OrderInv
  <1>1. /\ h \in Seq(Seg) /\ h # <<>> /\ Sorted(h) /\ Head(h) \in Seg /\ Tail(h) \in Seq(Seg)
    BY HeadTailProperties DEF DevHardStartXmit, Seqs, SortedOK
  <1>2. /\ sent' = Append(sent, Head(h)) /\ hand' = [hand EXCEPT ![c] = Tail(h)]
        /\ UNCHANGED <<queue, gso, next, dropped>>
    BY DEF DevHardStartXmit, qdiscVars
  <1>3. gso = <<>> /\ \A d \in Cpu \ {c} : hand[d] = <<>>
    BY OthersEmpty DEF DevHardStartXmit, HandOK, Runs
  <1>4. Held = ToSet(h) /\ Held' = ToSet(Tail(h)) /\ ToSet(h) = {Head(h)} \cup ToSet(Tail(h))
    <2>1. Held = ToSet(h)
      BY <1>3, HeldOfOne, SetOfEmpty
    <2>2. Held' = ToSet(Tail(h))
      <3>1. hand'[c] = Tail(h) /\ gso' = <<>> /\ \A d \in Cpu \ {c} : hand'[d] = <<>>
        BY <1>2, <1>3 DEF Seqs
      <3> HIDE DEF h
      <3> QED BY <3>1, SetOfEmpty DEF Held
    <2> QED BY <1>1, <2>1, <2>2, SetOfHeadTail
  <1>5. ToSet(sent') = ToSet(sent) \cup {Head(h)}
    BY <1>1, <1>2, SetOfAppend DEF Seqs
  <1>6. /\ Sorted(Tail(h)) /\ \A t \in ToSet(Tail(h)) : Before(Head(h), t)
    BY <1>1, SortedTail
  <1>7. \A s \in ToSet(sent) : Before(s, Head(h))
    BY <1>4 DEF AheadOK
  <1> HIDE DEF h
  <1>8. SortedOK'
    <2>1. Sorted(sent')
      BY <1>1, <1>2, <1>7, SortedAppend DEF Seqs, SortedOK
    <2>2. \A d \in Cpu : Sorted(hand'[d])
      BY <1>2, <1>6 DEF SortedOK, Seqs
    <2> QED BY <1>2, <2>1, <2>2 DEF SortedOK
  <1>9. AheadOK'
    <2>1. \A s \in ToSet(sent)', t \in Held' : Before(s, t)
      BY <1>4, <1>5, <1>6 DEF AheadOK
    <2>2. ToSet(sent)' \cup Held' = ToSet(sent) \cup Held
      BY <1>4, <1>5
    <2> QED BY <1>2, <2>1, <2>2 DEF AheadOK
  <1>10. DoneOK'
    BY <1>2, <1>4, <1>5 DEF DoneOK, Segments
  <1> QED BY <1>8, <1>9, <1>10

LEMMA XmitDoneOrder == ASSUME Plain, Seqs, RunOK, OrderInv, NEW c \in Cpu, XmitDone(c)
                       PROVE  SortedOK' /\ AheadOK' /\ DoneOK'
  <1> USE DEF OrderInv
  <1>1. /\ gso' = (IF hand[c] # <<>> THEN hand[c] ELSE gso)
        /\ hand' = [hand EXCEPT ![c] = <<>>] /\ UNCHANGED <<queue, next, dropped, sent>>
    BY DEF XmitDone, Requeue, qdiscVars, historyVars
  <1>2. gso = <<>> /\ \A d \in Cpu \ {c} : hand[d] = <<>>
    BY OthersEmpty DEF XmitDone, HandOK, Runs
  <1>3. Held' = Held
    <2>1. Held = ToSet(hand[c])
      BY <1>2, HeldOfOne, SetOfEmpty
    <2>2. \A d \in Cpu : hand'[d] = <<>>
      BY <1>1, <1>2 DEF Seqs
    <2>3. Held' = ToSet(gso')
      BY <2>2, SetOfEmpty DEF Held
    <2> QED BY <1>1, <1>2, <2>1, <2>3
  <1>4. SortedOK'
    BY <1>1 DEF SortedOK, Sorted, Seqs
  <1> QED BY <1>1, <1>3, <1>4 DEF AheadOK, DoneOK

LEMMA QdiscRunOrder == ASSUME Plain, Seqs, RunOK, OrderInv, NEW c \in Cpu, QdiscRun(c)
                       PROVE  SortedOK' /\ AheadOK' /\ DoneOK'
  <1> USE DEF OrderInv
  <1>0. UNCHANGED <<next, dropped, sent>>
    BY DEF QdiscRun, historyVars
  <1>1. \A d \in Cpu : hand[d] = <<>>
    BY OthersEmpty DEF QdiscRun, HandOK, Runs
  <1>2. Held = ToSet(gso)
    BY <1>1, SetOfEmpty DEF Held
  <1>3. CASE UNCHANGED <<hand, qdiscVars>>
    BY <1>0, <1>3, SameOrder DEF historyVars
  <1>4. CASE hand' = [hand EXCEPT ![c] = gso] /\ gso' = <<>> /\ queue' = queue
    <2>1. Held' = Held
      <3>1. hand'[c] = gso /\ \A d \in Cpu \ {c} : hand'[d] = <<>>
        BY <1>1, <1>4 DEF Seqs
      <3> QED BY <1>2, <1>4, <3>1, SetOfEmpty DEF Held
    <2>2. SortedOK'
      BY <1>0, <1>4 DEF SortedOK, Sorted, Seqs
    <2> QED BY <1>0, <1>4, <2>1, <2>2 DEF AheadOK, DoneOK
  <1>5. CASE /\ gso = <<>> /\ queue # <<>> /\ hand' = [hand EXCEPT ![c] = Segments(Head(queue))]
             /\ gso' = <<>> /\ queue' = Tail(queue)
    <2> DEFINE p == Head(queue)
    <2>1. p \in Packet /\ p \in Nat /\ ToSet(queue) = {p} \cup ToSet(queue')
      <3>1. p \in Packet
        BY <1>5, HeadTailProperties DEF Seqs
      <3>2. ToSet(queue) = {p} \cup ToSet(queue')
        BY <1>5, SetOfHeadTail DEF Seqs
      <3> QED BY <3>1, <3>2, TransmitAssumption DEF Packet
    <2>2. \A q \in ToSet(queue') : p < q
      <3>1. /\ Len(queue') = Len(queue) - 1 /\ Len(queue) \in Nat \ {0}
            /\ \A i \in 1 .. Len(queue') : queue'[i] = queue[i + 1]
            /\ p = queue[1] /\ queue' \in Seq(Packet)
        BY <1>5, HeadTailProperties, EmptySeq DEF Seqs
      <3>2. \A i \in 1 .. Len(queue') : queue[1] < queue[i + 1]
        BY <3>1 DEF SortedOK
      <3>3. DOMAIN queue' = 1 .. Len(queue')
        BY <3>1, LenProperties
      <3> HIDE DEF p
      <3> QED BY <3>1, <3>2, <3>3 DEF ToSet
    <2>3. Held = {} /\ Held' = ToSet(Segments(p))
      <3>1. hand'[c] = Segments(p) /\ \A d \in Cpu \ {c} : hand'[d] = <<>>
        BY <1>1, <1>5 DEF Seqs
      <3> QED BY <1>2, <1>5, <3>1, SetOfEmpty DEF Held
    <2>4. SortedOK'
      <3>1. \A i, j \in 1 .. Len(queue') : i < j => queue'[i] < queue'[j]
        <4>1. /\ Len(queue') = Len(queue) - 1 /\ Len(queue) \in Nat \ {0}
              /\ \A i \in 1 .. Len(queue') : queue'[i] = queue[i + 1]
          BY <1>5, HeadTailProperties, EmptySeq DEF Seqs
        <4>2. \A i \in 1 .. Len(queue') : i + 1 \in 1 .. Len(queue)
          BY <4>1
        <4> QED BY <4>1, <4>2 DEF SortedOK
      <3>2. \A d \in Cpu : Sorted(hand'[d])
        BY <1>5, <2>1, SegmentsInOrder DEF SortedOK, Seqs
      <3>3. Sorted(gso')
        BY <1>5 DEF SortedOK
      <3> QED BY <1>0, <3>1, <3>2, <3>3 DEF SortedOK
    <2>5. AheadOK'
      <3>1. \A t \in Held' : t[1] = p
        BY <2>1, <2>3, SegmentsInOrder
      <3>2. \A s \in ToSet(sent) : s \in Seg /\ s[1] < p
        BY <2>1, SeqsAreSets DEF AheadOK
      <3>3. p < next /\ \A q \in ToSet(queue') : q < next /\ \A s \in ToSet(sent) : s[1] < q /\ s[1] < next
        BY <2>1 DEF AheadOK
      <3> HIDE DEF p
      <3> QED BY <1>0, <2>2, <3>1, <3>2, <3>3 DEF AheadOK, Before
    <2>6. DoneOK'
      BY <1>0, <2>1, <2>3 DEF DoneOK, Segments
    <2> QED BY <2>4, <2>5, <2>6
  <1> QED BY <1>3, <1>4, <1>5 DEF QdiscRun, Backlogged

LEMMA DeactivateOrder == ASSUME Plain, Seqs, OrderInv, Deactivate
                         PROVE  SortedOK' /\ AheadOK' /\ DoneOK'
  <1> USE DEF OrderInv
  <1>1. /\ queue' = <<>> /\ gso' = <<>> /\ UNCHANGED <<hand, next, sent>>
        /\ dropped' = dropped \cup ToSet(queue) \cup {s[1] : s \in ToSet(gso)}
    BY DEF Deactivate, cpuVars
  <1>2. Held \subseteq Held' \cup ToSet(gso) /\ Held' \subseteq Held /\ ToSet(queue') = {}
    BY <1>1, SetOfEmpty DEF Held
  <1>3. SortedOK'
    BY <1>1 DEF SortedOK, Sorted
  <1>4. AheadOK'
    BY <1>1, <1>2 DEF AheadOK
  <1>5. DoneOK'
    <2> SUFFICES ASSUME NEW p \in 1 .. next - 1, p \notin dropped'
                 PROVE  ToSet(Segments(p)) \subseteq ToSet(sent) \cup Held'
      BY <1>1 DEF DoneOK, Segments
    <2>1. p \in Packet
      BY TransmitAssumption DEF Seqs, Packet
    <2>2. ToSet(Segments(p)) \subseteq ToSet(sent) \cup Held
      BY <1>1 DEF DoneOK
    <2>3. ToSet(Segments(p)) \cap ToSet(gso) = {}
      BY <1>1, <2>1, SegmentsInOrder
    <2> QED BY <1>2, <2>2, <2>3
  <1> QED BY <1>3, <1>4, <1>5
-----------------------------------------------------------------------------
LEMMA OrderStep == ASSUME Plain, Seqs, RunOK, OrderInv, [Next]_vars PROVE OrderInv'
  <1>1. ASSUME NEW c \in Cpu, Runner(c) \/ DevXmitSkb(c) PROVE SortedOK' /\ AheadOK' /\ DoneOK'
    BY <1>1, XmitSkbOrder, HardStartOrder, XmitDoneOrder, QdiscRunOrder, SameOrder
      DEF Runner, QdiscRunEnd, OrderInv
  <1>2. ASSUME NEW c \in Cpu, Softirq(c) PROVE SortedOK' /\ AheadOK' /\ DoneOK'
    BY <1>2, SameOrder DEF Softirq, NetTxAction, TxLocked, TxBusy, OrderInv
  <1>3. ASSUME NEW c \in Cpu, TxInterrupt(c) \/ NetifDeviceAttach(c)
        PROVE  SortedOK' /\ AheadOK' /\ DoneOK'
    BY <1>3, SameOrder DEF TxInterrupt, NetifDeviceAttach, cpuVars, OrderInv
  <1>4. ASSUME NEW d \in Cpu, NEW c \in Cpu, DevCpuDead(d, c)
        PROVE  SortedOK' /\ AheadOK' /\ DoneOK'
    BY <1>4, SameOrder DEF DevCpuDead, OrderInv
  <1>5. ASSUME NetifDeviceDetach \/ Deactivated \/ UNCHANGED vars
        PROVE  SortedOK' /\ AheadOK' /\ DoneOK'
    <2>1. UNCHANGED <<hand, qdiscVars, historyVars>>
      BY <1>5 DEF NetifDeviceDetach, Deactivated, vars, cpuVars
    <2> QED BY <2>1, SameOrder DEF OrderInv
  <1>6. SortedOK' /\ AheadOK' /\ DoneOK'
    BY <1>1, <1>2, <1>3, <1>4, <1>5, DeactivateOrder DEF Next
  <1>7. HandOK'
    BY HandStep DEF OrderInv
  <1> QED BY <1>6, <1>7 DEF OrderInv
-----------------------------------------------------------------------------

LEMMA TransmitInit == ASSUME Init PROVE IInv
  <1> USE TransmitAssumption DEF Init
  <1>1. Plain /\ SchedOK /\ RunOK /\ CpuOK /\ RingOK
    <2>1. flight \in 0 .. MaxRing /\ completion \in [Cpu -> Nat] /\ RingOK
      BY DEF RingOK
    <2>2. SchedOK /\ RunOK /\ CpuOK
      BY DEF SchedOK, RunOK, CpuOK, Has, Runs
    <2> QED BY <2>1, <2>2 DEF Plain
  <1>2. Seqs
    <2>1. MaxPackets \in Nat /\ MaxQueue \in Nat
      OBVIOUS
    <2> QED BY <2>1, EmptySeq DEF Seqs
  <1>3. LeftOK
    BY DEF LeftOK, QueueIsRun, Backlogged
  <1>4. Held = {} /\ ToSet(queue) = {} /\ ToSet(sent) = {}
    BY SetOfEmpty DEF Held
  <1>5. OrderInv
    BY <1>4 DEF OrderInv, HandOK, SortedOK, AheadOK, DoneOK, Sorted
  <1> QED BY <1>1, <1>2, <1>3, <1>5 DEF IInv

\* The invariant holds in every state of every behaviour.
THEOREM TransmitInvariant == Spec => []IInv
  <1>1. Init => IInv
    BY TransmitInit
  <1>2. IInv /\ [Next]_vars => IInv'
    BY PlainStep, SeqsStep, SchedStep, RunStep, CpuStep, RingStep, LeftStep, OrderStep DEF IInv
  <1> QED BY <1>1, <1>2, PTL DEF Spec

\* However senders, net_tx_action on any CPUs, the driver's interrupt, detach and attach
\* and CPUs that go off meet, a scheduled qdisc is on exactly one output queue or in the
\* hands of one net_tx_action, and its CPU is going to look (src/dev.c:2306, 2382, 3718, 7624).
THEOREM QdiscListedOnce == Spec => []ListedOnce
  <1>1. IInv => ListedOnce
    <2> SUFFICES ASSUME IInv PROVE ListedOnce
      OBVIOUS
    <2> DEFINE listed == {c \in Cpu : outQueue[c]}
               taken == {c \in Cpu : pc[c] = "tx"}
               Count == Cardinality(listed) + Cardinality(taken) = IF sched THEN 1 ELSE 0
    <2>1. ASSUME NEW c \in Cpu, outQueue[c] PROVE Count
      <3>1. listed = {c} /\ taken = {} /\ sched
        BY <2>1 DEF IInv, SchedOK, Has
      <3>2. Cardinality(listed) = 1 /\ Cardinality(taken) = 0
        BY <3>1, FS_Singleton, FS_EmptySet
      <3> HIDE DEF listed, taken
      <3> QED BY <3>1, <3>2
    <2>2. ASSUME NEW c \in Cpu, pc[c] = "tx" PROVE Count
      <3>1. listed = {} /\ taken = {c} /\ sched
        BY <2>2 DEF IInv, SchedOK, Has
      <3>2. Cardinality(listed) = 0 /\ Cardinality(taken) = 1
        BY <3>1, FS_Singleton, FS_EmptySet
      <3> HIDE DEF listed, taken
      <3> QED BY <3>1, <3>2
    <2>3. ASSUME ~\E c \in Cpu : outQueue[c] \/ pc[c] = "tx" PROVE Count
      <3>1. listed = {} /\ taken = {} /\ ~sched
        BY <2>3 DEF IInv, SchedOK, Has
      <3>2. Cardinality(listed) = 0 /\ Cardinality(taken) = 0
        BY <3>1, FS_EmptySet
      <3> HIDE DEF listed, taken
      <3> QED BY <3>1, <3>2
    <2>4. Count
      BY <2>1, <2>2, <2>3
    <2> QED BY <2>4, TypesFollow DEF ListedOnce, IInv, CpuOK
  <1> QED BY <1>1, TransmitInvariant, PTL

\* While the qdisc holds packets and the driver has not stopped the queue, somebody runs
\* the qdisc or is scheduled to (src/dev.c:2343, 2974, 3739).
THEOREM NobodyWaitsForNobody == Spec => []QueueIsRun
  <1>1. IInv => QueueIsRun
    BY DEF IInv, LeftOK
  <1> QED BY <1>1, TransmitInvariant, PTL

\* Segments reach the driver in the order of the senders and each once, although packets
\* may take the short way past the qdisc and may be put back half sent; none of a packet
\* gets lost but by a drop (src/dev.c:2787, 2973, 2994).
THEOREM SegmentsLeaveInOrder == Spec => []SentInOrder
  <1>1. IInv => SentInOrder
    <2> SUFFICES ASSUME IInv PROVE SentInOrder
      OBVIOUS
    <2>1. \A i, j \in 1 .. Len(sent) : i < j => Before(sent[i], sent[j])
      BY DEF IInv, OrderInv, SortedOK, Sorted
    <2>2. ASSUME NEW p \in 1 .. next - 1
          PROVE  \/ {p} \cap (ToSet(queue) \cup dropped) # {}
                 \/ \A s \in ToSet(Segments(p)) :
                        s \in ToSet(sent) \cup {t \in Held : t[1] = p}
      <3>1. p \in Packet
        BY TransmitAssumption DEF IInv, Seqs, Packet
      <3>2. \A s \in ToSet(Segments(p)) : s[1] = p
        BY <3>1, SegmentsInOrder
      <3>3. p \in ToSet(queue) \cup dropped \/ ToSet(Segments(p)) \subseteq ToSet(sent) \cup Held
        BY DEF IInv, OrderInv, DoneOK
      <3> QED BY <3>2, <3>3
    <2> QED BY <2>1, <2>2 DEF SentInOrder, Held
  <1> QED BY <1>1, TransmitInvariant, PTL
=============================================================================
