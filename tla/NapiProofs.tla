----------------------------- MODULE NapiProofs -----------------------------
(***************************************************************************)
(* Theorems about Napi: a context has one owner, nothing held is forgotten *)
(* and napi_disable leaves nobody behind, for any number of CPUs, ring and *)
(* weight.  What has to be known for that is who may be where while        *)
(* somebody else owns the context: poll_lock keeps netpoll and the         *)
(* softirqs apart, NAPI_STATE_NPSVC netpoll and the task.                  *)
(***************************************************************************)
EXTENDS Napi, FiniteSetTheorems, TLAPS

Busy(c) == pc[c] \in {"lock", "poll", "done", "full", "clear"}
Linked == link # Unlinked
TaskOwns == task \notin {"up", "want_sched"}
Kept == timer # NoCpu \/ stalled

\* Nobody owns the context together with another, and somebody does iff SCHED is set.
Sole == /\ \A c, d \in Cpu : Busy(c) /\ Busy(d) => c = d
        /\ Linked => ~TaskOwns /\ \A c \in Cpu : ~Busy(c)
        /\ TaskOwns => \A c \in Cpu : ~Busy(c)
        /\ sched <=> Linked \/ TaskOwns \/ \E c \in Cpu : Busy(c)

\* Where the link is, that CPU is going to look.
LinkOK == /\ Linked => link.at # "none" /\ link.cpu \in Cpu
          /\ link.at = "poll_list" => raised[link.cpu] /\ link.cpu \in online
          /\ link.at = "repoll" => pc[link.cpu] = "polled"

\* CPUs that are at work or have the timer are on.
CpusOn == /\ \A c \in Cpu : pc[c] # "idle" => c \in online
          /\ timer # NoCpu => timer \in online

\* poll_lock is with the softirq that polls, or with netpoll.
LockOK == /\ \A c \in Cpu : pc[c] \notin {"idle", "lock"} => lock = c
          /\ netpoll # "idle" <=> lock = "netpoll"

\* NPSVC is netpoll's, or the task's from napi_disable to napi_enable.
NpsvcOK == /\ npsvc => netpoll \in {"polling", "polled"} \/ task \in {"cancel", "disabled", "deleted"}
           /\ netpoll \in {"polling", "polled"} => npsvc
           /\ task \in {"cancel", "disabled", "deleted"} =>
                  npsvc /\ netpoll \notin {"polling", "polled"}

\* What is held when the context is about to be given up, or is the task's, has its timer
\* or is known to be stalled; a disabled context has no timer.
HeldOK == /\ held # {} /\ ~sched => Kept
          /\ \A c \in Cpu : held # {} /\ pc[c] = "clear" => Kept
          /\ held # {} /\ TaskOwns => Kept
          /\ task \in {"disabled", "deleted"} => timer = NoCpu

IInv == TypeOK /\ Sole /\ LinkOK /\ CpusOn /\ LockOK /\ NpsvcOK /\ HeldOK
-----------------------------------------------------------------------------
Links == [at : {"none", "poll_list", "repoll"}, cpu : Cpu \cup {NoCpu}]
Bools == {sched, npsvc, disable, irqOn, stalled}

\* The types, first of the actions that lists, Booleans and functions meet in.
LEMMA PollTypes == ASSUME TypeOK, NEW c \in Cpu, CompleteDone(c) \/ PollFull(c) PROVE TypeOK'
  <1> USE DEF TypeOK, CompleteDone, PollFull, SettleHeld, bits, deviceVars, groVars
  <1>1. Bools' \subseteq BOOLEAN
    BY Zenon DEF Bools
  <1>2. held' \subseteq Ages /\ timer' \in Cpu \cup {NoCpu}
    BY DEF Ages
  <1>3. link' \in Links
    BY DEF Links, OnList
  <1>4. pc' \in [Cpu -> {"idle", "lock", "poll", "done", "full", "clear", "polled"}]
    OBVIOUS
  <1> QED BY <1>1, <1>2, <1>3, <1>4 DEF Bools, Links

LEMMA ScheduleTypes == ASSUME TypeOK, (\E c \in Cpu : Interrupt(c)) \/ NapiWatchdog PROVE TypeOK'
  <1>1. ASSUME NEW c \in Cpu, NapiSchedule(c) PROVE raised' \in [Cpu -> BOOLEAN] /\ link' \in Links
    <2>1. raised' \in [Cpu -> BOOLEAN]
      BY <1>1 DEF TypeOK, NapiSchedule
    <2>2. link' \in Links
      BY <1>1 DEF TypeOK, NapiSchedule, OnList, Links
    <2> QED BY <2>1, <2>2
  <1>2. Bools' \subseteq BOOLEAN
    BY Zenon DEF TypeOK, Bools, Interrupt, NapiWatchdog, NapiSchedule, deviceVars, groVars
  <1>3. raised' \in [Cpu -> BOOLEAN] /\ link' \in Links
    BY <1>1 DEF TypeOK, Interrupt, NapiWatchdog, Links
  <1> QED BY <1>2, <1>3, NapiAssumption
          DEF TypeOK, Bools, Links, Interrupt, NapiWatchdog, deviceVars, groVars

LEMMA ListTypes == ASSUME TypeOK, NEW d \in Cpu, NEW c \in Cpu, Polled(c) \/ DevCpuDead(d, c)
                   PROVE  TypeOK'
  <1> USE DEF TypeOK, Polled, DevCpuDead, bits, deviceVars, groVars
  <1>1. raised' \in [Cpu -> BOOLEAN]
    OBVIOUS
  <1>2. link' \in Links
    BY DEF Links, OnList
  <1>3. online' \subseteq Cpu /\ online' # {}
    OBVIOUS
  <1> QED BY <1>1, <1>2, <1>3 DEF Links

LEMMA TypeStep == ASSUME TypeOK, [Next]_vars PROVE TypeOK'
  <1> USE NapiAssumption DEF TypeOK, Ages, Unlinked, bits, cpuVars, deviceVars, groVars
  <1>1. ASSUME NEW c \in Cpu, Softirq(c) PROVE TypeOK'
    <2>1. CASE NetRxAction(c)
      BY <2>1 DEF NetRxAction
    <2>2. CASE PollLock(c)
      BY <2>2 DEF PollLock
    <2>3. CASE PollReturns(c)
      BY <2>3 DEF PollReturns
    <2>4. CASE PollPacket(c)
      BY <2>4 DEF PollPacket
    <2>5. CASE CompleteClear(c)
      BY <2>5 DEF CompleteClear
    <2> QED BY <1>1, <2>1, <2>2, <2>3, <2>4, <2>5, PollTypes, ListTypes DEF Softirq
  <1>2. CASE PacketArrives \/ Tick
    <2>1. CASE PacketArrives
      BY <2>1 DEF PacketArrives
    <2>2. CASE Tick
      BY <2>2 DEF Tick
    <2> QED BY <1>2, <2>1, <2>2
  <1>3. CASE Netpoll
    BY <1>3 DEF Netpoll, NetpollLock, NetpollTake, NetpollPoll, NetpollLeave
  <1>4. CASE Task
    BY <1>4 DEF Task, Disabling, NapiEnable, NapiDisable, TakeSched, TakeNpsvc, Cancelled,
      NetifNapiDel, NetifNapiAdd
  <1>5. CASE UNCHANGED vars
    BY <1>5 DEF vars
  <1> QED BY <1>1, <1>2, <1>3, <1>4, <1>5, ScheduleTypes, ListTypes DEF Next
-----------------------------------------------------------------------------
\* The owner changes hands only through the owner: the bit keeps all others out, and
\* poll_lock netpoll, so that NPSVC does not end a softirq's napi_complete_done early.
LEMMA SoleStep == ASSUME IInv, TypeOK', [Next]_vars PROVE Sole'
  <1> USE NapiAssumption DEF IInv, TypeOK, Sole, Busy, Linked, TaskOwns, LinkOK, NpsvcOK,
    LockOK, Unlinked, OnList, bits, cpuVars, deviceVars, groVars
  <1>1. ASSUME UNCHANGED <<sched, link, pc, task>> PROVE Sole'
    BY <1>1
  <1>2. ASSUME NEW c \in Cpu, Interrupt(c) PROVE Sole'
    BY <1>2 DEF Interrupt, NapiSchedule
  <1>3. ASSUME NEW c \in Cpu, NetRxAction(c) PROVE Sole'
    BY <1>3 DEF NetRxAction
  <1>4. ASSUME NEW c \in Cpu, PollLock(c) PROVE Sole'
    BY <1>4 DEF PollLock
  <1>5. ASSUME NEW c \in Cpu, PollReturns(c) PROVE Sole'
    BY <1>5 DEF PollReturns
  <1>6. ASSUME NEW c \in Cpu, CompleteDone(c) PROVE Sole'
    BY <1>6 DEF CompleteDone, SettleHeld
  <1>7. ASSUME NEW c \in Cpu, CompleteClear(c) PROVE Sole'
    BY <1>7 DEF CompleteClear
  <1>8. ASSUME NEW c \in Cpu, PollFull(c) PROVE Sole'
    BY <1>8 DEF PollFull, SettleHeld
  <1>9. ASSUME NEW c \in Cpu, Polled(c) PROVE Sole'
    BY <1>9 DEF Polled
  <1>10. ASSUME NEW d \in Cpu, NEW c \in Cpu, DevCpuDead(d, c) PROVE Sole'
    BY <1>10 DEF DevCpuDead
  <1>11. CASE NapiWatchdog
    BY <1>11 DEF NapiWatchdog, NapiSchedule
  <1>12. CASE NapiEnable
    BY <1>12 DEF NapiEnable
  <1>13. CASE NapiDisable
    BY <1>13 DEF NapiDisable
  <1>14. CASE TakeSched
    BY <1>14 DEF TakeSched
  <1>15. CASE TakeNpsvc
    BY <1>15 DEF TakeNpsvc
  <1>16. CASE Cancelled
    BY <1>16 DEF Cancelled
  <1>17. CASE NetifNapiDel
    BY <1>17 DEF NetifNapiDel
  <1>18. CASE NetifNapiAdd
    BY <1>18 DEF NetifNapiAdd
  <1>19. ASSUME NEW c \in Cpu, PollPacket(c) PROVE Sole'
    BY <1>1, <1>19 DEF PollPacket
  <1>20. CASE PacketArrives \/ Tick \/ NetpollLock \/ NetpollTake \/ NetpollPoll \/
           NetpollLeave \/ UNCHANGED vars
    BY <1>1, <1>20 DEF NetpollLeave, NetpollLock, NetpollPoll, NetpollTake, PacketArrives,
      Tick, vars
  <1> QED BY <1>1, <1>2, <1>3, <1>4, <1>5, <1>6, <1>7, <1>8, <1>9, <1>10, <1>11, <1>12, <1>13,
    <1>14, <1>15, <1>16, <1>17, <1>18, <1>19, <1>20
    DEF Next, Softirq, Netpoll, Task, Disabling
-----------------------------------------------------------------------------
\* Whoever links the context raises its CPU's softirq; dev_cpu_callback moves both.
LEMMA LinkStep == ASSUME IInv, TypeOK', Sole', [Next]_vars PROVE LinkOK'
  <1> USE NapiAssumption DEF IInv, TypeOK, Sole, Busy, Linked, TaskOwns, LinkOK, CpusOn,
    Unlinked, OnList, bits, cpuVars, deviceVars, groVars
  <1>1. ASSUME UNCHANGED <<link, raised, online, pc>> PROVE LinkOK'
    BY <1>1
  <1>2. ASSUME NEW c \in Cpu, Interrupt(c) PROVE LinkOK'
    BY <1>2 DEF Interrupt, NapiSchedule
  <1>3. ASSUME NEW c \in Cpu, NetRxAction(c) PROVE LinkOK'
    BY <1>3 DEF NetRxAction
  <1>4. ASSUME NEW c \in Cpu, PollLock(c) PROVE LinkOK'
    BY <1>4 DEF PollLock
  <1>5. ASSUME NEW c \in Cpu, PollReturns(c) PROVE LinkOK'
    BY <1>5 DEF PollReturns
  <1>6. ASSUME NEW c \in Cpu, CompleteDone(c) PROVE LinkOK'
    BY <1>6 DEF CompleteDone, SettleHeld
  <1>7. ASSUME NEW c \in Cpu, CompleteClear(c) PROVE LinkOK'
    BY <1>7 DEF CompleteClear
  <1>8. ASSUME NEW c \in Cpu, PollFull(c) PROVE LinkOK'
    BY <1>8 DEF PollFull, SettleHeld
  <1>9. ASSUME NEW c \in Cpu, Polled(c) PROVE LinkOK'
    BY <1>9 DEF Polled
  <1>10. ASSUME NEW d \in Cpu, NEW c \in Cpu, DevCpuDead(d, c) PROVE LinkOK'
    BY <1>10 DEF DevCpuDead
  <1>11. CASE NapiWatchdog
    BY <1>11 DEF NapiWatchdog, NapiSchedule
  <1>12. ASSUME NEW c \in Cpu, PollPacket(c) PROVE LinkOK'
    BY <1>1, <1>12 DEF PollPacket
  <1>13. CASE PacketArrives \/ Tick \/ NetpollLock \/ NetpollTake \/ NetpollPoll \/
           NetpollLeave \/ NapiEnable \/ NapiDisable \/ TakeSched \/ TakeNpsvc \/ Cancelled \/
           NetifNapiDel \/ NetifNapiAdd \/ UNCHANGED vars
    BY <1>1, <1>13 DEF Cancelled, NapiDisable, NapiEnable, NetifNapiAdd, NetifNapiDel,
      NetpollLeave, NetpollLock, NetpollPoll, NetpollTake, PacketArrives, TakeNpsvc,
      TakeSched, Tick, vars
  <1> QED BY <1>1, <1>2, <1>3, <1>4, <1>5, <1>6, <1>7, <1>8, <1>9, <1>10, <1>11, <1>12, <1>13
    DEF Next, Softirq, Netpoll, Task, Disabling
-----------------------------------------------------------------------------
\* A CPU goes off only between softirqs, and its timers move.
LEMMA OnStep == ASSUME IInv, TypeOK', [Next]_vars PROVE CpusOn'
  <1> USE NapiAssumption DEF IInv, TypeOK, CpusOn, Unlinked, OnList, bits, cpuVars, deviceVars,
    groVars
  <1>1. ASSUME UNCHANGED <<online, pc, timer>> PROVE CpusOn'
    BY <1>1
  <1>2. ASSUME NEW c \in Cpu, NetRxAction(c) PROVE CpusOn'
    BY <1>2 DEF NetRxAction
  <1>3. ASSUME NEW c \in Cpu, PollLock(c) PROVE CpusOn'
    BY <1>3 DEF PollLock
  <1>4. ASSUME NEW c \in Cpu, PollReturns(c) PROVE CpusOn'
    BY <1>4 DEF PollReturns
  <1>5. ASSUME NEW c \in Cpu, CompleteDone(c) PROVE CpusOn'
    BY <1>5 DEF CompleteDone, SettleHeld
  <1>6. ASSUME NEW c \in Cpu, CompleteClear(c) PROVE CpusOn'
    BY <1>6 DEF CompleteClear
  <1>7. ASSUME NEW c \in Cpu, PollFull(c) PROVE CpusOn'
    BY <1>7 DEF PollFull, SettleHeld
  <1>8. ASSUME NEW c \in Cpu, Polled(c) PROVE CpusOn'
    BY <1>8 DEF Polled
  <1>9. ASSUME NEW d \in Cpu, NEW c \in Cpu, DevCpuDead(d, c) PROVE CpusOn'
    BY <1>9 DEF DevCpuDead
  <1>10. CASE NapiWatchdog
    BY <1>10 DEF NapiWatchdog, NapiSchedule
  <1>11. CASE Cancelled
    BY <1>11 DEF Cancelled
  <1>12. ASSUME NEW c \in Cpu, Interrupt(c) \/ PollPacket(c) PROVE CpusOn'
    BY <1>1, <1>12 DEF Interrupt, NapiSchedule, PollPacket
  <1>13. CASE PacketArrives \/ Tick \/ NetpollLock \/ NetpollTake \/ NetpollPoll \/
           NetpollLeave \/ NapiEnable \/ NapiDisable \/ TakeSched \/ TakeNpsvc \/ NetifNapiDel
           \/ NetifNapiAdd \/ UNCHANGED vars
    BY <1>1, <1>13 DEF NapiDisable, NapiEnable, NetifNapiAdd, NetifNapiDel, NetpollLeave,
      NetpollLock, NetpollPoll, NetpollTake, PacketArrives, TakeNpsvc, TakeSched, Tick,
      vars
  <1> QED BY <1>1, <1>2, <1>3, <1>4, <1>5, <1>6, <1>7, <1>8, <1>9, <1>10, <1>11, <1>12, <1>13
    DEF Next, Softirq, Netpoll, Task, Disabling
-----------------------------------------------------------------------------
\* poll_lock.
LEMMA LockStep == ASSUME IInv, TypeOK', [Next]_vars PROVE LockOK'
  <1> USE NapiAssumption DEF IInv, TypeOK, LockOK, Unlinked, OnList, bits, cpuVars, deviceVars,
    groVars
  <1>1. ASSUME UNCHANGED <<pc, lock, netpoll>> PROVE LockOK'
    BY <1>1
  <1>2. ASSUME NEW c \in Cpu, NetRxAction(c) PROVE LockOK'
    BY <1>2 DEF NetRxAction
  <1>3. ASSUME NEW c \in Cpu, PollLock(c) PROVE LockOK'
    BY <1>3 DEF PollLock
  <1>4. ASSUME NEW c \in Cpu, PollReturns(c) PROVE LockOK'
    BY <1>4 DEF PollReturns
  <1>5. ASSUME NEW c \in Cpu, CompleteDone(c) PROVE LockOK'
    BY <1>5 DEF CompleteDone, SettleHeld
  <1>6. ASSUME NEW c \in Cpu, CompleteClear(c) PROVE LockOK'
    BY <1>6 DEF CompleteClear
  <1>7. ASSUME NEW c \in Cpu, PollFull(c) PROVE LockOK'
    BY <1>7 DEF PollFull, SettleHeld
  <1>8. ASSUME NEW c \in Cpu, Polled(c) PROVE LockOK'
    BY <1>8 DEF Polled
  <1>9. CASE NetpollLock
    BY <1>9 DEF NetpollLock
  <1>10. CASE NetpollTake
    BY <1>10 DEF NetpollTake
  <1>11. CASE NetpollPoll
    BY <1>11 DEF NetpollPoll
  <1>12. CASE NetpollLeave
    BY <1>12 DEF NetpollLeave
  <1>13. ASSUME NEW c \in Cpu, Interrupt(c) \/ PollPacket(c) PROVE LockOK'
    BY <1>1, <1>13 DEF Interrupt, NapiSchedule, PollPacket
  <1>14. ASSUME NEW d \in Cpu, NEW c \in Cpu, DevCpuDead(d, c) PROVE LockOK'
    BY <1>1, <1>14 DEF DevCpuDead
  <1>15. CASE PacketArrives \/ Tick \/ NapiWatchdog \/ NapiEnable \/ NapiDisable \/ TakeSched
           \/ TakeNpsvc \/ Cancelled \/ NetifNapiDel \/ NetifNapiAdd \/ UNCHANGED vars
    BY <1>1, <1>15 DEF Cancelled, NapiDisable, NapiEnable, NapiSchedule, NapiWatchdog,
      NetifNapiAdd, NetifNapiDel, PacketArrives, TakeNpsvc, TakeSched, Tick, vars
  <1> QED BY <1>1, <1>2, <1>3, <1>4, <1>5, <1>6, <1>7, <1>8, <1>9, <1>10, <1>11, <1>12, <1>13,
    <1>14, <1>15
    DEF Next, Softirq, Netpoll, Task, Disabling
-----------------------------------------------------------------------------
\* Netpoll and the task take NPSVC from each other only when it is clear.
LEMMA NpsvcStep == ASSUME IInv, TypeOK', [Next]_vars PROVE NpsvcOK'
  <1> USE NapiAssumption DEF IInv, TypeOK, LockOK, NpsvcOK, Unlinked, OnList, bits, cpuVars,
    deviceVars, groVars
  <1>1. ASSUME UNCHANGED <<npsvc, netpoll, task>> PROVE NpsvcOK'
    BY <1>1
  <1>2. CASE NetpollLock
    BY <1>2 DEF NetpollLock
  <1>3. CASE NetpollTake
    BY <1>3 DEF NetpollTake
  <1>4. CASE NetpollPoll
    BY <1>4 DEF NetpollPoll
  <1>5. CASE NetpollLeave
    BY <1>5 DEF NetpollLeave
  <1>6. CASE NapiEnable
    BY <1>6 DEF NapiEnable
  <1>7. CASE NapiDisable
    BY <1>7 DEF NapiDisable
  <1>8. CASE TakeSched
    BY <1>8 DEF TakeSched
  <1>9. CASE TakeNpsvc
    BY <1>9 DEF TakeNpsvc
  <1>10. CASE Cancelled
    BY <1>10 DEF Cancelled
  <1>11. CASE NetifNapiDel
    BY <1>11 DEF NetifNapiDel
  <1>12. CASE NetifNapiAdd
    BY <1>12 DEF NetifNapiAdd
  <1>13. ASSUME NEW c \in Cpu, Interrupt(c) \/ NetRxAction(c) \/ PollLock(c) \/ PollPacket(c) \/ PollReturns(c) \/ CompleteDone(c) \/ CompleteClear(c) \/ PollFull(c) \/ Polled(c) PROVE NpsvcOK'
    BY <1>1, <1>13 DEF CompleteClear, CompleteDone, Interrupt, NapiSchedule, NetRxAction,
      PollFull, PollLock, PollPacket, PollReturns, Polled, SettleHeld
  <1>14. ASSUME NEW d \in Cpu, NEW c \in Cpu, DevCpuDead(d, c) PROVE NpsvcOK'
    BY <1>1, <1>14 DEF DevCpuDead
  <1>15. CASE PacketArrives \/ Tick \/ NapiWatchdog \/ UNCHANGED vars
    BY <1>1, <1>15 DEF NapiSchedule, NapiWatchdog, PacketArrives, Tick, vars
  <1> QED BY <1>1, <1>2, <1>3, <1>4, <1>5, <1>6, <1>7, <1>8, <1>9, <1>10, <1>11, <1>12, <1>13,
    <1>14, <1>15
    DEF Next, Softirq, Netpoll, Task, Disabling
-----------------------------------------------------------------------------
\* Before SCHED is cleared, what is held is flushed or has a timer.
LEMMA HeldStep == ASSUME IInv, TypeOK', [Next]_vars PROVE HeldOK'
  <1> USE NapiAssumption DEF IInv, TypeOK, Sole, Busy, Linked, TaskOwns, Kept, HeldOK, NpsvcOK,
    Unlinked, OnList, bits, cpuVars, deviceVars, groVars
  <1>1. ASSUME UNCHANGED <<held, sched, timer, stalled, pc, task>> PROVE HeldOK'
    BY <1>1
  <1>2. ASSUME NEW c \in Cpu, Interrupt(c) PROVE HeldOK'
    BY <1>2 DEF Interrupt, NapiSchedule
  <1>3. ASSUME NEW c \in Cpu, NetRxAction(c) PROVE HeldOK'
    BY <1>3 DEF NetRxAction
  <1>4. ASSUME NEW c \in Cpu, PollLock(c) PROVE HeldOK'
    BY <1>4 DEF PollLock
  <1>5. ASSUME NEW c \in Cpu, PollPacket(c) PROVE HeldOK'
    BY <1>5 DEF PollPacket
  <1>6. ASSUME NEW c \in Cpu, PollReturns(c) PROVE HeldOK'
    BY <1>6 DEF PollReturns
  <1>7. ASSUME NEW c \in Cpu, CompleteDone(c) PROVE HeldOK'
    BY <1>7 DEF CompleteDone, SettleHeld
  <1>8. ASSUME NEW c \in Cpu, CompleteClear(c) PROVE HeldOK'
    BY <1>8 DEF CompleteClear
  <1>9. ASSUME NEW c \in Cpu, PollFull(c) PROVE HeldOK'
    BY <1>9 DEF PollFull, SettleHeld
  <1>10. ASSUME NEW c \in Cpu, Polled(c) PROVE HeldOK'
    BY <1>10 DEF Polled
  <1>11. ASSUME NEW d \in Cpu, NEW c \in Cpu, DevCpuDead(d, c) PROVE HeldOK'
    BY <1>11 DEF DevCpuDead
  <1>12. CASE Tick
    BY <1>12 DEF Tick
  <1>13. CASE NapiWatchdog
    BY <1>13 DEF NapiWatchdog, NapiSchedule
  <1>14. CASE NapiEnable
    BY <1>14 DEF NapiEnable
  <1>15. CASE NapiDisable
    BY <1>15 DEF NapiDisable
  <1>16. CASE TakeSched
    BY <1>16 DEF TakeSched
  <1>17. CASE TakeNpsvc
    BY <1>17 DEF TakeNpsvc
  <1>18. CASE Cancelled
    BY <1>18 DEF Cancelled
  <1>19. CASE NetifNapiDel
    BY <1>19 DEF NetifNapiDel
  <1>20. CASE NetifNapiAdd
    BY <1>20 DEF NetifNapiAdd
  <1>21. CASE PacketArrives \/ NetpollLock \/ NetpollTake \/ NetpollPoll \/ NetpollLeave \/
           UNCHANGED vars
    BY <1>1, <1>21 DEF NetpollLeave, NetpollLock, NetpollPoll, NetpollTake, PacketArrives,
      vars
  <1> QED BY <1>1, <1>2, <1>3, <1>4, <1>5, <1>6, <1>7, <1>8, <1>9, <1>10, <1>11, <1>12, <1>13,
    <1>14, <1>15, <1>16, <1>17, <1>18, <1>19, <1>20, <1>21
    DEF Next, Softirq, Netpoll, Task, Disabling
-----------------------------------------------------------------------------
\* The invariant holds in every state of every behaviour.
THEOREM NapiInvariant == Spec => []IInv
  <1>1. Init => IInv
    <2> SUFFICES ASSUME Init PROVE IInv
      OBVIOUS
    <2>1. TypeOK
      <3>1. work \in [Cpu -> 0 .. Weight] /\ ring \in 0 .. MaxRing
        BY NapiAssumption DEF Init
      <3>2. raised \in [Cpu -> BOOLEAN] /\ link \in Links
        BY DEF Init, Links, Unlinked
      <3>3. Bools \subseteq BOOLEAN
        BY DEF Init, Bools
      <3>4. pc \in [Cpu -> {"idle", "lock", "poll", "done", "full", "clear", "polled"}]
        BY DEF Init
      <3> QED BY <3>1, <3>2, <3>3, <3>4, NapiAssumption DEF Init, TypeOK, Links, Bools, Ages
    <2>2. Sole /\ HeldOK
      BY DEF Init, Sole, Busy, Linked, TaskOwns, HeldOK, Kept
    <2>3. LinkOK /\ CpusOn /\ LockOK /\ NpsvcOK
      BY NapiAssumption DEF Init, LinkOK, CpusOn, LockOK, NpsvcOK, Linked, Unlinked
    <2> QED BY <2>1, <2>2, <2>3 DEF IInv
  <1>2. IInv /\ [Next]_vars => IInv'
    <2> SUFFICES ASSUME IInv, [Next]_vars PROVE IInv'
      OBVIOUS
    <2>1. TypeOK'
      BY TypeStep DEF IInv
    <2> QED BY <2>1, SoleStep, LinkStep, OnStep, LockStep, NpsvcStep, HeldStep DEF IInv
  <1> QED BY <1>1, <1>2, PTL DEF Spec

\* However interrupts, timers, softirqs on any CPUs, netpoll, napi_disable and CPUs that
\* go off meet, NAPI_STATE_SCHED stands for exactly one owner of the poll_list link, and
\* the list it is on is one some CPU will look at (src/dev.c:4753, 4814, 5002, 7640).
THEOREM OwnerIsOne == Spec => []OneOwner
  <1>1. IInv => OneOwner
    <2> SUFFICES ASSUME IInv PROVE OneOwner
      OBVIOUS
    <2> DEFINE ofLink == {<<"list", link.cpu>> : l \in {link} \ {Unlinked}}
               ofSoftirq == {<<"softirq", c>> : c \in {d \in Cpu : pc[d] \in {"lock", "poll", "done", "full", "clear"}}}
               ofTask == {<<"task", NoCpu>> : t \in {task} \ {"up", "want_sched"}}
    <2>1. Owners = ofLink \cup ofSoftirq \cup ofTask
      BY DEF Owners
    <2>2. Linked => ofLink = {<<"list", link.cpu>>} /\ ofSoftirq = {} /\ ofTask = {}
      BY DEF IInv, Sole, Linked, TaskOwns, Busy
    <2>3. TaskOwns => ofTask = {<<"task", NoCpu>>} /\ ofSoftirq = {} /\ ofLink = {}
      BY DEF IInv, Sole, Linked, TaskOwns, Busy
    <2>4. ASSUME NEW c \in Cpu, Busy(c)
          PROVE  ofSoftirq = {<<"softirq", c>>} /\ ofLink = {} /\ ofTask = {}
      BY <2>4 DEF IInv, Sole, Linked, TaskOwns, Busy
    <2>5. (~Linked /\ ~TaskOwns /\ \A c \in Cpu : ~Busy(c)) => Owners = {}
      BY <2>1 DEF Linked, TaskOwns, Busy
    <2>6. sched => \E o : Owners = {o}
      <3> HIDE DEF ofLink, ofSoftirq, ofTask
      <3> QED BY <2>1, <2>2, <2>3, <2>4 DEF IInv, Sole
    <2>7. ~sched => Owners = {}
      BY <2>5 DEF IInv, Sole
    <2>8. Cardinality(Owners) = IF sched THEN 1 ELSE 0
      BY <2>6, <2>7, FS_EmptySet, FS_Singleton
    <2> QED BY <2>8 DEF OneOwner, IInv, LinkOK
  <1> QED BY <1>1, NapiInvariant, PTL

\* What GRO holds is never left with neither an owner of its context nor a timer, the
\* two known exceptions apart (src/dev.c:4808, 4919).
THEOREM HeldPacketsAreWatched == Spec => []HeldIsWatched
  <1>1. IInv => HeldIsWatched
    BY DEF IInv, HeldOK, Kept, HeldIsWatched
  <1> QED BY <1>1, NapiInvariant, PTL

\* Between napi_disable and napi_enable no softirq and no netpoll is in the poll
\* function, and no timer is armed (src/dev.c:4909).
THEOREM QuietWhenDisabled == Spec => []DisabledIsQuiet
  <1>1. IInv => DisabledIsQuiet
    BY DEF IInv, TypeOK, NpsvcOK, HeldOK, Sole, TaskOwns, Busy, DisabledIsQuiet
  <1> QED BY <1>1, NapiInvariant, PTL
=============================================================================
