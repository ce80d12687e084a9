----------------------------- MODULE Timestamps -----------------------------
(***************************************************************************)
(* Who wants received packets to be stamped: net_enable_timestamp,         *)
(* net_disable_timestamp and the work netstamp_clear of src/dev.c, built   *)
(* with jump labels.  The callers may be atomic and the key may not be     *)
(* patched there, so a caller that would take netstamp_wanted from or to   *)
(* zero leaves that to the work.                                           *)
(*                                                                         *)
(* The loop around atomic_cmpxchg is one step: it tries again until what   *)
(* it has read is still so.  A caller that leaves the loop acts on what it *)
(* has read, at any later time.                                            *)
(*                                                                         *)
(* External: the workqueue, which runs a work once however often it was    *)
(* scheduled before it began, and never twice at once; the callers, each   *)
(* of which disables what it has enabled.                                  *)
(***************************************************************************)
EXTENDS Integers, FiniteSets

CONSTANT User       \* callers: sockets with SO_TIMESTAMP, packet sockets, ...

\* What the values of the constants must satisfy
StampsAssumption == IsFiniteSet(User)

VARIABLES
    wantedBy,   \* netstamp_wanted
    deferred,   \* netstamp_needed_deferred
    key,        \* the static key netstamp_needed
    pending,    \* netstamp_work is scheduled and has not begun
    work,       \* where netstamp_clear is
    taken,      \* its local deferred, until it is added
    sum,        \* its local wanted
    user        \* where each caller is

stampVars == <<wantedBy, deferred, key, pending, work, taken, sum, user>>

Init == /\ wantedBy = 0 /\ deferred = 0 /\ key = FALSE
        /\ pending = FALSE /\ work = "idle" /\ taken = 0 /\ sum = 0
        /\ user = [u \in User |-> "off"]
-----------------------------------------------------------------------------
WorkStays == UNCHANGED <<key, work, taken, sum>>

Goes(u, from, to) == user[u] = from /\ user' = [user EXCEPT ![u] = to]

\* The condition that leaves the loop of net_enable_timestamp
EnableIsSlow(n) == n <= 0

\* Mutant: the last one that wants stamps leaves without the work.
DisableIsSlowAtZero(n) == n <= 0

\* The condition that leaves the loop of net_disable_timestamp
DisableIsSlow(n) == n <= 1

\* net_enable_timestamp, while others want stamps
EnableFast(u) == /\ ~EnableIsSlow(wantedBy)
                 /\ Goes(u, "off", "on")
                 /\ wantedBy' = wantedBy + 1
                 /\ UNCHANGED <<deferred, pending>> /\ WorkStays

\* It has read that nobody does.
EnableReads(u) == /\ EnableIsSlow(wantedBy)
                  /\ Goes(u, "off", "enabling")
                  /\ UNCHANGED <<wantedBy, deferred, pending>> /\ WorkStays

Enable(u) == /\ Goes(u, "enabling", "enabled")
             /\ deferred' = deferred + 1
             /\ UNCHANGED <<wantedBy, pending>> /\ WorkStays

EnableSchedules(u) == /\ Goes(u, "enabled", "on")
                      /\ pending' = TRUE
                      /\ UNCHANGED <<wantedBy, deferred>> /\ WorkStays

\* net_disable_timestamp, while others want stamps, too
DisableFast(u) == /\ ~DisableIsSlow(wantedBy)
                  /\ Goes(u, "on", "off")
                  /\ wantedBy' = wantedBy - 1
                  /\ UNCHANGED <<deferred, pending>> /\ WorkStays

DisableReads(u) == /\ DisableIsSlow(wantedBy)
                   /\ Goes(u, "on", "disabling")
                   /\ UNCHANGED <<wantedBy, deferred, pending>> /\ WorkStays

Disable(u) == /\ Goes(u, "disabling", "disabled")
              /\ deferred' = deferred - 1
              /\ UNCHANGED <<wantedBy, pending>> /\ WorkStays

DisableSchedules(u) == /\ Goes(u, "disabled", "off")
                       /\ pending' = TRUE
                       /\ UNCHANGED <<wantedBy, deferred>> /\ WorkStays

\* The workqueue lets netstamp_clear begin.
WorkBegins == /\ pending /\ work = "idle"
              /\ pending' = FALSE /\ work' = "take"
              /\ UNCHANGED <<wantedBy, deferred, key, taken, sum, user>>

\* netstamp_clear: atomic_xchg, atomic_add_return, and the key.
Take == /\ work = "take"
        /\ taken' = deferred /\ deferred' = 0
        /\ work' = "add"
        /\ UNCHANGED <<wantedBy, key, pending, sum, user>>

AddTaken == /\ work = "add"
            /\ wantedBy' = wantedBy + taken /\ sum' = wantedBy + taken
            /\ taken' = 0
            /\ work' = "key"
            /\ UNCHANGED <<deferred, key, pending, user>>

SetKey == /\ work = "key"
          /\ key' = (sum > 0) /\ sum' = 0
          /\ work' = "idle"
          /\ UNCHANGED <<wantedBy, deferred, pending, taken, user>>

Next == \/ \E u \in User : \/ EnableFast(u) \/ EnableReads(u) \/ Enable(u) \/ EnableSchedules(u)
                           \/ DisableFast(u) \/ DisableReads(u) \/ Disable(u) \/ DisableSchedules(u)
        \/ WorkBegins \/ Take \/ AddTaken \/ SetKey
-----------------------------------------------------------------------------
TypeOK == /\ {wantedBy, deferred, taken, sum} \subseteq Int
          /\ {key, pending} \subseteq BOOLEAN
          /\ work \in {"idle", "take", "add", "key"}
          /\ user \in [User -> {"off", "enabling", "enabled", "on", "disabling", "disabled"}]

Wanting == {u \in User : user[u] \in {"enabled", "on", "disabling"}}
Scheduling == {u \in User : user[u] \in {"enabled", "disabled"}}

\* Whatever the callers and the work do in between, the three counters together count
\* those that want stamps (src/dev.c:1700-1757).  netstamp_wanted alone may be below zero
\* for a while: the work can apply two decrements of callers that were the last one in
\* turn before the increment of one that has come and, the fast way, gone since.
CountsWanting == wantedBy + deferred + taken = Cardinality(Wanting)

\* Unless the work is about to set it, the key is on iff netstamp_wanted is above zero:
\* the callers that change the counter themselves never take it from or to zero.
KeyFollowsCount == work # "key" => key = (wantedBy > 0)

\* Once no work is due and no caller is about to schedule it, nothing is left deferred
\* and packets are stamped iff somebody wants it.
SettledIsRight == ~pending /\ work = "idle" /\ Scheduling = {} =>
                      deferred = 0 /\ key = (Wanting # {})

StampsAreRight == TypeOK /\ CountsWanting /\ KeyFollowsCount /\ SettledIsRight
=============================================================================
