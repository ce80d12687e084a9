-------------------------------- MODULE Napi --------------------------------
(***************************************************************************)
(* One NAPI context of a network driver, as src/dev.c runs it: napi_poll   *)
(* and net_rx_action, napi_complete_done with the timer of                 *)
(* gro_flush_timeout, napi_watchdog, netif_napi_add, napi_disable and      *)
(* netif_napi_del.  The per-CPU backlogs, whose bit nobody else may touch, *)
(* are in Backlog; the list of packets GRO holds is in Gro, and is here    *)
(* only the set of their ages.                                             *)
(*                                                                         *)
(* Who sets NAPI_STATE_SCHED owns the context: the interrupt handler or    *)
(* the timer, which put it on their CPU's poll list; the softirq that took *)
(* it from there; the task in napi_disable.  Netpoll polls a context that  *)
(* another owns, under poll_lock and NAPI_STATE_NPSVC.                     *)
(*                                                                         *)
(* External: the driver (its poll function takes packets from a ring until *)
(* it is empty or the weight is used up, completes in the first case only  *)
(* and then turns its interrupt on; an interrupt that finds the context    *)
(* scheduled stays pending), netpoll, and napi_schedule_prep and           *)
(* napi_enable of netdevice.h.                                             *)
(***************************************************************************)
EXTENDS Naturals, FiniteSets

CONSTANTS
    Cpu,        \* processors
    NoCpu,
    MaxRing,    \* packets the driver's ring holds
    Weight      \* napi->weight

ASSUME NapiAssumption == /\ NoCpu \notin Cpu /\ Cpu # {}
                         /\ "netpoll" \notin Cpu \cup {NoCpu}
                         /\ MaxRing \in Nat /\ Weight \in Nat \ {0}

VARIABLES
    online,     \* CPUs that are on
    sched,      \* NAPI_STATE_SCHED
    npsvc,      \* NAPI_STATE_NPSVC
    disable,    \* NAPI_STATE_DISABLE
    link,       \* poll_list: [at |-> "none" | "poll_list" | "repoll", cpu |-> its CPU]
    raised,     \* raised[c]: NET_RX_SOFTIRQ is pending on c
    pc,         \* pc[c]: where c's softirq is in net_rx_action
    work,       \* work[c]: packets the poll function has taken in this call
    lock,       \* holder of poll_lock: a CPU, "netpoll" or NoCpu
    netpoll,    \* netpoll's place in poll_napi
    task,       \* the task that brings the context up and down
    timer,      \* the CPU napi->timer is armed on, or NoCpu
    held,       \* ages of the packets on gro_list: subset of {"old", "fresh"}
    irqOn,      \* the driver's interrupt is on
    ring,       \* packets in the driver's ring
    stalled     \* history: a timer has passed, or was cancelled, to no effect while
                \* packets were held, and they are held still

bits == <<sched, npsvc, disable>>
cpuVars == <<online, raised, pc, work>>
deviceVars == <<irqOn, ring>>
groVars == <<timer, held, stalled>>
vars == <<online, sched, npsvc, disable, link, raised, pc, work, lock, netpoll, task,
          timer, held, irqOn, ring, stalled>>

Ages == {"old", "fresh"}
Unlinked == [at |-> "none", cpu |-> NoCpu]
OnList(l, c) == [at |-> l, cpu |-> c]
-----------------------------------------------------------------------------
\* netif_napi_add: the context starts disabled.
Init == /\ online = Cpu
        /\ sched = TRUE /\ npsvc = TRUE /\ disable = FALSE
        /\ link = Unlinked
        /\ raised = [c \in Cpu |-> FALSE]
        /\ pc = [c \in Cpu |-> "idle"]
        /\ work = [c \in Cpu |-> 0]
        /\ lock = NoCpu
        /\ netpoll = "idle"
        /\ task = "disabled"
        /\ timer = NoCpu
        /\ held = {}
        /\ irqOn = TRUE
        /\ ring = 0
        /\ stalled = FALSE
-----------------------------------------------------------------------------
(* Scheduling.                                                             *)

\* Mutant: the context is put on the list whoever owns it.
NapiScheduleAlways(c) == /\ sched' = TRUE
                         /\ link' = OnList("poll_list", c)
                         /\ raised' = [raised EXCEPT ![c] = TRUE]

\* napi_schedule_prep and, if it says so, __napi_schedule.
NapiSchedule(c) == IF disable \/ sched
                   THEN UNCHANGED <<sched, link, raised>>
                   ELSE /\ sched' = TRUE
                        /\ link' = OnList("poll_list", c)
                        /\ raised' = [raised EXCEPT ![c] = TRUE]

\* The driver's interrupt handler turns its interrupt off when it owns the context.
Interrupt(c) == /\ c \in online /\ irqOn /\ ring > 0 /\ ~disable /\ ~sched
                /\ NapiSchedule(c)
                /\ irqOn' = FALSE
                /\ UNCHANGED <<npsvc, disable, online, pc, work, lock, netpoll, task,
                               groVars, ring>>

\* The device: a packet comes in; unbounded in number.
PacketArrives == /\ ring < MaxRing
                 /\ ring' = ring + 1
                 /\ UNCHANGED <<bits, link, cpuVars, lock, netpoll, task, groVars, irqOn>>

\* jiffies moves on: what is held is old now.
Tick == /\ "fresh" \in held
        /\ held' = {"old"}
        /\ UNCHANGED <<bits, link, cpuVars, lock, netpoll, task, timer, stalled, deviceVars>>

\* napi_watchdog, in the timer interrupt of the CPU the timer is pinned on.
NapiWatchdog == /\ timer # NoCpu
                /\ timer' = NoCpu
                /\ IF held = {} THEN UNCHANGED <<sched, link, raised, stalled>>
                   ELSE /\ NapiSchedule(timer)
                        /\ stalled' = (stalled \/ disable \/ sched)
                /\ UNCHANGED <<npsvc, disable, online, pc, work, lock, netpoll, task,
                               held, deviceVars>>
-----------------------------------------------------------------------------
(* The softirq of CPU c.  With one context net_rx_action's list is empty   *)
(* after one napi_poll.                                                    *)

\* net_rx_action: the poll list becomes the function's own; napi_poll takes the context
\* off it and waits for poll_lock (netpoll_poll_lock).
NetRxAction(c) == /\ pc[c] = "idle" /\ raised[c] /\ c \in online
                  /\ raised' = [raised EXCEPT ![c] = FALSE]
                  /\ IF link = OnList("poll_list", c)
                     THEN link' = Unlinked /\ pc' = [pc EXCEPT ![c] = "lock"]
                     ELSE UNCHANGED <<link, pc>>
                  /\ UNCHANGED <<bits, online, work, lock, netpoll, task, groVars, deviceVars>>

PollLock(c) == /\ pc[c] = "lock" /\ lock = NoCpu
               /\ lock' = c
               /\ pc' = [pc EXCEPT ![c] = IF sched THEN "poll" ELSE "polled"]
               /\ work' = [work EXCEPT ![c] = 0]
               /\ UNCHANGED <<bits, link, online, raised, netpoll, task, groVars, deviceVars>>

\* The driver hands a packet to napi_gro_receive.  What GRO does with its list is the
\* subject of Gro: here the packet is held or not, and others may leave.
PollPacket(c) == /\ pc[c] = "poll" /\ ring > 0 /\ work[c] < Weight
                 /\ ring' = ring - 1
                 /\ work' = [work EXCEPT ![c] = @ + 1]
                 /\ held' \in {held, held \ {"old"}, held \cup {"fresh"}, {"fresh"}, {}}
                 /\ stalled' = (stalled /\ held' # {})
                 /\ UNCHANGED <<bits, link, online, raised, pc, lock, netpoll, task,
                                timer, irqOn>>

\* The poll function returns with its weight used up, or completes.
PollReturns(c) == /\ pc[c] = "poll" /\ (ring = 0 \/ work[c] = Weight)
                  /\ pc' = [pc EXCEPT ![c] = IF work[c] = Weight THEN "full" ELSE "done"]
                  /\ UNCHANGED <<bits, link, online, raised, work, lock, netpoll, task,
                                 groVars, deviceVars>>

\* Mutant: what is held stays held when the context goes idle without a timer.
SettleHeldLazily(c, n) == \/ UNCHANGED groVars
                          \/ /\ n > 0 /\ timer' = c
                             /\ UNCHANGED <<held, stalled>>

\* napi_complete_done's first half: what is held is flushed, or, if packets came in and
\* the device has a gro_flush_timeout (which sysfs may change at any time), a timer is
\* started.
SettleHeld(c, n) ==
    IF held = {} THEN UNCHANGED groVars
    ELSE \/ held' = {} /\ stalled' = FALSE /\ UNCHANGED timer
         \/ n > 0 /\ timer' = c /\ UNCHANGED <<held, stalled>>

\* napi_complete_done(n, work) in the poll function; NPSVC ends it at once.
CompleteDone(c) ==
    /\ pc[c] = "done"
    /\ IF npsvc THEN UNCHANGED groVars /\ pc' = [pc EXCEPT ![c] = "polled"]
                ELSE SettleHeld(c, work[c]) /\ pc' = [pc EXCEPT ![c] = "clear"]
    /\ UNCHANGED <<bits, link, online, raised, work, lock, netpoll, task, deviceVars>>

\* napi_complete_done's second half, after which the driver turns its interrupt on.
CompleteClear(c) == /\ pc[c] = "clear"
                    /\ sched' = FALSE
                    /\ link' = Unlinked
                    /\ irqOn' = TRUE
                    /\ pc' = [pc EXCEPT ![c] = "polled"]
                    /\ UNCHANGED <<npsvc, disable, online, raised, work, lock, netpoll,
                                   task, groVars, ring>>

\* Mutant: a context under load is never given up to napi_disable.
PollFullAgain(c) == /\ pc[c] = "full"
                    /\ held' \in {{}, held \cap {"fresh"}}
                    /\ stalled' = (stalled /\ held' # {})
                    /\ link' = OnList("repoll", c)
                    /\ pc' = [pc EXCEPT ![c] = "polled"]
                    /\ UNCHANGED <<bits, online, raised, work, lock, netpoll, task, timer, deviceVars>>

\* napi_poll after a full poll: a pending napi_disable gets the context (napi_complete,
\* whose work_done of 0 means no timer), else what is old is flushed, all of it if HZ is
\* below 1000, and the context goes on the repoll list.
PollFull(c) ==
    /\ pc[c] = "full"
    /\ IF disable
       THEN /\ SettleHeld(c, 0)
            /\ pc' = [pc EXCEPT ![c] = "clear"]
            /\ UNCHANGED link
       ELSE /\ held' \in {{}, held \cap {"fresh"}}
            /\ stalled' = (stalled /\ held' # {})
            /\ link' = OnList("repoll", c)
            /\ pc' = [pc EXCEPT ![c] = "polled"]
            /\ UNCHANGED timer
    /\ UNCHANGED <<bits, online, raised, work, lock, netpoll, task, deviceVars>>

\* netpoll_poll_unlock, and the end of net_rx_action: the repoll list goes back.
Polled(c) == /\ pc[c] = "polled"
             /\ lock' = NoCpu
             /\ pc' = [pc EXCEPT ![c] = "idle"]
             /\ IF link = OnList("repoll", c)
                THEN link' = OnList("poll_list", c) /\ raised' = [raised EXCEPT ![c] = TRUE]
                ELSE UNCHANGED <<link, raised>>
             /\ UNCHANGED <<bits, online, work, netpoll, task, groVars, deviceVars>>
-----------------------------------------------------------------------------
(* Netpoll, on a CPU of its own: poll_napi and poll_one_napi of netpoll.c. *)

NetpollLock == /\ netpoll = "idle" /\ lock = NoCpu /\ sched
               /\ lock' = "netpoll"
               /\ netpoll' = "locked"
               /\ UNCHANGED <<bits, link, cpuVars, task, groVars, deviceVars>>

\* A bit that is set already means that the context is disabled.
NetpollTake == /\ netpoll = "locked"
               /\ npsvc' = TRUE
               /\ netpoll' = IF npsvc THEN "leave" ELSE "polling"
               /\ UNCHANGED <<sched, disable, link, cpuVars, lock, task, groVars, deviceVars>>

\* The poll function with a budget of 0: it frees transmitted packets; the driver may
\* call napi_complete_done, which returns at its first test, and turn its interrupt on.
NetpollPoll == /\ netpoll = "polling"
               /\ netpoll' = "polled"
               /\ irqOn' \in {irqOn, TRUE}
               /\ UNCHANGED <<bits, link, cpuVars, lock, task, groVars, ring>>

NetpollLeave == /\ netpoll \in {"polled", "leave"}
                /\ npsvc' = (netpoll = "leave" /\ npsvc)
                /\ lock' = NoCpu
                /\ netpoll' = "idle"
                /\ UNCHANGED <<sched, disable, link, cpuVars, task, groVars, deviceVars>>
-----------------------------------------------------------------------------
(* The task.                                                               *)

\* napi_enable; the driver turns its interrupt on.
NapiEnable == /\ task = "disabled"
              /\ task' = "up"
              /\ sched' = FALSE /\ npsvc' = FALSE /\ irqOn' = TRUE
              /\ UNCHANGED <<disable, link, cpuVars, lock, netpoll, groVars, ring>>

NapiDisable == /\ task = "up"
               /\ task' = "want_sched"
               /\ disable' = TRUE
               /\ UNCHANGED <<sched, npsvc, link, cpuVars, lock, netpoll, groVars, deviceVars>>

TakeSched == /\ task = "want_sched" /\ ~sched
             /\ sched' = TRUE
             /\ task' = "want_npsvc"
             /\ UNCHANGED <<npsvc, disable, link, cpuVars, lock, netpoll, groVars, deviceVars>>

\* Mutant: napi_disable does not wait for netpoll.
TakeNpsvcAtOnce == /\ task = "want_npsvc"
                   /\ npsvc' = TRUE
                   /\ task' = "cancel"
                   /\ UNCHANGED <<sched, disable, link, cpuVars, lock, netpoll, groVars, deviceVars>>

TakeNpsvc == /\ task = "want_npsvc" /\ ~npsvc
             /\ npsvc' = TRUE
             /\ task' = "cancel"
             /\ UNCHANGED <<sched, disable, link, cpuVars, lock, netpoll, groVars, deviceVars>>

\* hrtimer_cancel, and the end of napi_disable.
Cancelled == /\ task = "cancel"
             /\ stalled' = (stalled \/ (timer # NoCpu /\ held # {}))
             /\ timer' = NoCpu
             /\ disable' = FALSE
             /\ task' = "disabled"
             /\ UNCHANGED <<sched, npsvc, link, cpuVars, lock, netpoll, held, deviceVars>>

\* netif_napi_del frees what is held; the context is gone.
NetifNapiDel == /\ task = "disabled" /\ netpoll = "idle"
                /\ task' = "deleted"
                /\ held' = {} /\ stalled' = FALSE
                /\ UNCHANGED <<bits, link, cpuVars, lock, netpoll, timer, deviceVars>>

\* The driver adds the context anew (netif_napi_add).
NetifNapiAdd == /\ task = "deleted"
                /\ task' = "disabled"
                /\ sched' = TRUE /\ npsvc' = TRUE
                /\ UNCHANGED <<disable, link, cpuVars, lock, netpoll, groVars, deviceVars>>

\* dev_cpu_callback: a CPU that is off leaves its poll list to the CPU c; its timers
\* move as well.  External: nothing runs on d any more, and one CPU stays on.
DevCpuDead(d, c) ==
    /\ d \in online /\ c \in online \ {d} /\ pc[d] = "idle"
    /\ online' = online \ {d}
    /\ IF link = OnList("poll_list", d)
       THEN link' = OnList("poll_list", c) /\ raised' = [raised EXCEPT ![d] = FALSE, ![c] = TRUE]
       ELSE raised' = [raised EXCEPT ![d] = FALSE] /\ UNCHANGED link
    /\ timer' = IF timer = d THEN c ELSE timer
    /\ UNCHANGED <<bits, pc, work, lock, netpoll, task, held, stalled, deviceVars>>
-----------------------------------------------------------------------------
Softirq(c) == \/ NetRxAction(c) \/ PollLock(c) \/ PollPacket(c) \/ PollReturns(c)
              \/ CompleteDone(c) \/ CompleteClear(c) \/ PollFull(c) \/ Polled(c)

Netpoll == NetpollLock \/ NetpollTake \/ NetpollPoll \/ NetpollLeave

Disabling == TakeSched \/ TakeNpsvc \/ Cancelled

Task == NapiEnable \/ NapiDisable \/ Disabling \/ NetifNapiDel \/ NetifNapiAdd

Next == \/ \E c \in Cpu : Interrupt(c) \/ Softirq(c)
        \/ \E d, c \in Cpu : DevCpuDead(d, c)
        \/ PacketArrives \/ Tick \/ NapiWatchdog \/ Netpoll \/ Task

Spec == Init /\ [][Next]_vars

\* ksoftirqd runs a pending softirq, the holder of poll_lock gets on, and the task that
\* waits in napi_disable looks at the bits every millisecond.  Netpoll may hold poll_lock
\* again and again, so that a softirq that spins for it gets it by the spinlock's queue
\* (SF), and NPSVC may be taken again and again as well (SF).
Fairness == /\ \A c \in Cpu : WF_vars(Softirq(c)) /\ SF_vars(PollLock(c))
            /\ WF_vars(NetpollTake \/ NetpollPoll \/ NetpollLeave)
            /\ WF_vars(TakeSched) /\ SF_vars(TakeNpsvc) /\ WF_vars(Cancelled)

FairSpec == Spec /\ Fairness
-----------------------------------------------------------------------------
TypeOK == /\ online \subseteq Cpu /\ online # {}
          /\ {sched, npsvc, disable, irqOn, stalled} \subseteq BOOLEAN
          /\ link \in [at : {"none", "poll_list", "repoll"}, cpu : Cpu \cup {NoCpu}]
          /\ raised \in [Cpu -> BOOLEAN]
          /\ pc \in [Cpu -> {"idle", "lock", "poll", "done", "full", "clear", "polled"}]
          /\ work \in [Cpu -> 0 .. Weight]
          /\ lock \in Cpu \cup {NoCpu, "netpoll"}
          /\ netpoll \in {"idle", "locked", "polling", "polled", "leave"}
          /\ task \in {"up", "want_sched", "want_npsvc", "cancel", "disabled", "deleted"}
          /\ timer \in Cpu \cup {NoCpu}
          /\ held \subseteq Ages
          /\ ring \in 0 .. MaxRing

\* Who relies on having set NAPI_STATE_SCHED: the list the context is on, a softirq
\* between napi_poll's list_del_init and the clearing of the bit, the task.
Owners == {<<"list", link.cpu>> : l \in {link} \ {Unlinked}}
          \cup {<<"softirq", c>> : c \in {d \in Cpu : pc[d] \in {"lock", "poll", "done", "full", "clear"}}}
          \cup {<<"task", NoCpu>> : t \in {task} \ {"up", "want_sched"}}

\* The context has one owner while NAPI_STATE_SCHED is set and none while it is not,
\* and the list of an owner is one its CPU's softirq is going to look at: so that the
\* one poll_list link is never put on two lists and a scheduled context never forgotten
\* (src/dev.c:4753, 4814, 5002, 7640).
OneOwner == /\ TypeOK
            /\ Cardinality(Owners) = IF sched THEN 1 ELSE 0
            /\ link.at = "poll_list" => raised[link.cpu] /\ link.cpu \in online
            /\ link.at = "repoll" => pc[link.cpu] = "polled"

\* Packets that GRO holds wait for somebody: the context is owned, the timer is on, or,
\* the known exceptions, the timer passed before napi_complete_done had cleared the bit,
\* when napi_watchdog cannot schedule (src/dev.c:4808, 4814), or napi_disable cancelled
\* it (src/dev.c:4919).
HeldIsWatched == held # {} => sched \/ timer # NoCpu \/ stalled

\* Once napi_disable has returned nobody polls the context and no timer of it will
\* fire, until napi_enable (src/dev.c:4909).
DisabledIsQuiet ==
    task \in {"disabled", "deleted"} =>
        /\ timer = NoCpu
        /\ netpoll \notin {"polling", "polled"}
        /\ \A c \in Cpu : pc[c] \in {"idle", "polled"}

\* napi_disable returns, whatever load the device is under (src/dev.c:4981): packets
\* may come in, and netpoll may poll, for ever.
DisableReturns == task = "want_sched" ~> task = "disabled"
=============================================================================
