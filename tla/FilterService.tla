--------------------------- MODULE FilterService ---------------------------
(***************************************************************************)
(* The user-space half of the firewall: the Android service MyService, its *)
(* native netlink client (src/NMJFilter/app/src/main/jni/nmjfilter.cpp),   *)
(* the Room database of rules, and the kernel as they see it.              *)
(*                                                                         *)
(* One netlink socket is shared by the receiver thread, which loops in     *)
(* nl_recvmsgs_default, and by every thread that sends a rule: nl_send_sync*)
(* makes the kernel handle the message at once (the rule is pushed, "add   *)
(* <rule>" is multicast, the acknowledgement is queued) and then reads one *)
(* datagram, whichever comes first, running the callback if it is not the  *)
(* acknowledgement.  So the callback, with its test-then-insert on the     *)
(* database, runs in several threads.                                      *)
(*                                                                         *)
(* The kernel's table is a set here (RuleTable has its steps), a rule row  *)
(* is counted per rule, a packet row is the rule a click on it would make. *)
(***************************************************************************)
EXTENDS Naturals, Sequences, FiniteSets

CONSTANTS
    Rule,        \* admissible rules
    NoRule,      \* no rule
    Receiver,    \* receiver threads, one per creation of the service in a process
    Sender,      \* sending threads that run at the same time (bound)
    MaxSock,     \* sockets a process opens, one per creation (bound)
    QueueCap,    \* datagrams a socket buffers (bound)
    MaxWaiting,  \* sends of a rule that wait for a thread, and start commands (bound)
    FamilyIds    \* ids the kernels that are booted may generate for NMJfamily

ASSUME ServiceAssumption == /\ NoRule \notin Rule
                            /\ Receiver \cap Sender = {}
                            /\ IsFiniteSet(Receiver) /\ IsFiniteSet(Sender)
                            /\ MaxSock \in Nat /\ QueueCap \in Nat /\ MaxWaiting \in Nat
                            /\ FamilyIds \subseteq Nat

Thread == Receiver \cup Sender
Socket == 1 .. MaxSock
Add(r) == <<"add", r>>
Seen(r) == <<"report", r>>
Ack == <<"ack", "none">>
Message == {Add(r) : r \in Rule} \cup {Seen(r) : r \in Rule} \cup {Ack}
NullIntent == <<"null intent">>
Command == {<<"rule", r>> : r \in Rule} \cup {NullIntent}

VARIABLES
    kernel,    \* rules in the kernel's table
    family,    \* id of NMJfamily in the running kernel
    sockets,   \* sockets[s]: "unused"; "closed": genl_connect failed; "deaf":
               \* connected but not in the group; "open": in the group
    queue,     \* queue[s]: datagrams waiting on socket s
    sk,        \* the client's global socket, 0 before do_things
    service,   \* "none", "connect", "resend" (stages of onCreate) or "up"
    started,   \* the system wants the service running (START_STICKY)
    commands,  \* start commands the system has yet to deliver
    waiting,   \* waiting[r]: threads made for sendData(r) that have not run yet
    at,        \* at[t]: what thread t is doing
    on,        \* on[t]: the socket thread t reads or writes
    holds,     \* holds[t]: the rule thread t sends or was told of
    rows,      \* rows[r]: rows of the Rules table for r
    packets,   \* rules of the flows listed in the packet table
    clicked,   \* history: rules the user has ever asked for
    excused    \* history: rules whose row may be missing (see AddsAreRecorded)

processVars == <<sockets, queue, sk, service, commands, waiting, at, on, holds>>
kernelVars == <<kernel, family>>
socketVars == <<sockets, sk>>
threadVars == <<at, on, holds>>
databaseVars == <<rows, packets>>
history == <<clicked, excused>>
vars == <<kernel, family, sockets, queue, sk, service, started, commands, waiting,
          at, on, holds, rows, packets, clicked, excused>>

Open == {s \in Socket : sockets[s] = "open"}
Connected == {s \in Socket : sockets[s] \in {"deaf", "open"}}
Idle == {t \in Sender : at[t] = "off"}

\* The rules some thread or queue still has to enter into the database.
InFlight ==
    {r \in Rule : \/ \E s \in Socket : \E i \in 1 .. Len(queue[s]) : queue[s][i] = Add(r)
                  \/ \E t \in Thread : at[t] \in {"check", "insert"} /\ holds[t] = r}
-----------------------------------------------------------------------------
Init == /\ kernel = {}
        /\ family \in FamilyIds
        /\ sockets = [s \in Socket |-> "unused"]
        /\ queue = [s \in Socket |-> <<>>]
        /\ sk = 0
        /\ service = "none"
        /\ started = FALSE
        /\ commands = <<>>
        /\ waiting = [r \in Rule |-> 0]
        /\ at = [t \in Thread |-> "off"]
        /\ on = [t \in Thread |-> 0]
        /\ holds = [t \in Thread |-> NoRule]
        /\ rows = [r \in Rule |-> 0]
        /\ packets = {}
        /\ clicked = {}
        /\ excused = {}
-----------------------------------------------------------------------------
(* The kernel and the netlink sockets.                                     *)

Deliver(q, m) == IF Len(q) < QueueCap THEN Append(q, m) ELSE q
Multicast(m) == [s \in Socket |-> IF s \in Open THEN Deliver(queue[s], m) ELSE queue[s]]
Unheard == \A s \in Open : Len(queue[s]) >= QueueCap

\* A hook reports a packet of the flow r.
Traffic(r) ==
    /\ queue' = Multicast(Seen(r))
    /\ UNCHANGED <<kernelVars, socketVars, service, started, commands, waiting, threadVars,
                   databaseVars, history>>

\* The kernel handles the message of thread t on socket s while t is in nl_send: the
\* rule is pushed, announced and acknowledged; with another family id it is refused.
KernelTakes(s, r) ==
    IF family = 27
    THEN /\ kernel' = kernel \cup {r}
         /\ queue' = [Multicast(Add(r)) EXCEPT ![s] = Deliver(@, Ack)]
         /\ excused' = IF Unheard THEN excused \cup {r} ELSE excused
    ELSE /\ queue' = [queue EXCEPT ![s] = Deliver(@, Ack)]
         /\ UNCHANGED <<kernel, excused>>
-----------------------------------------------------------------------------
(* The native client.                                                      *)

\* sendBlock: nl_send_sync up to the wait for the acknowledgement, or its failure on
\* a socket that do_things did not set up.
SendRule(t) ==
    /\ at[t] = "send"
    /\ IF sk \in Connected
       THEN /\ KernelTakes(sk, holds[t])
            /\ on' = [on EXCEPT ![t] = sk]
            /\ at' = [at EXCEPT ![t] = "receive"]
       ELSE /\ at' = [at EXCEPT ![t] = "off"]
            /\ UNCHANGED <<kernel, queue, excused, on>>
    /\ UNCHANGED <<family, socketVars, service, started, commands, waiting, holds,
                   databaseVars, clicked>>

\* A receiver goes back to nl_recvmsgs_default on the socket that is global now; a
\* sender is done after the one datagram nl_wait_for_ack reads.
Resting(t) == IF t \in Receiver THEN "receive" ELSE "off"
NextSocket(t) == IF t \in Receiver THEN sk ELSE 0

\* Mutant: a sender ignores every datagram but an acknowledgement.
ReceiveOrIgnore(t) ==
    /\ at[t] = "receive"
    /\ on[t] \in Connected
    /\ queue[on[t]] # <<>>
    /\ LET m == Head(queue[on[t]]) IN
        /\ queue' = [queue EXCEPT ![on[t]] = Tail(@)]
        /\ IF m[1] = "add" /\ t \in Receiver
           THEN /\ at' = [at EXCEPT ![t] = "check"]
                /\ holds' = [holds EXCEPT ![t] = m[2]]
                /\ UNCHANGED on
           ELSE /\ at' = [at EXCEPT ![t] = Resting(t)]
                /\ on' = [on EXCEPT ![t] = NextSocket(t)]
                /\ UNCHANGED holds
        /\ packets' = IF m[1] = "report" THEN packets \cup {m[2]} ELSE packets
    /\ UNCHANGED <<kernelVars, socketVars, service, started, commands, waiting, rows,
                   history>>

\* Mutant: the callback takes a report for an "add" (onNativeRcvCall without the test
\* of the prefix).
ReceiveAll(t) ==
    /\ at[t] = "receive"
    /\ on[t] \in Connected
    /\ queue[on[t]] # <<>>
    /\ queue' = [queue EXCEPT ![on[t]] = Tail(@)]
    /\ LET m == Head(queue[on[t]]) IN
        IF m # Ack
        THEN /\ at' = [at EXCEPT ![t] = "check"]
             /\ holds' = [holds EXCEPT ![t] = m[2]]
             /\ UNCHANGED on
        ELSE /\ at' = [at EXCEPT ![t] = Resting(t)]
             /\ on' = [on EXCEPT ![t] = NextSocket(t)]
             /\ UNCHANGED holds
    /\ UNCHANGED <<kernelVars, socketVars, service, started, commands, waiting, databaseVars,
                   history>>

\* One datagram is read and, unless it is an acknowledgement, handed to the callback:
\* onNativeRcvCall inserts a packet row, or starts on the rule of an "add".
Receive(t) ==
    /\ at[t] = "receive"
    /\ on[t] \in Connected
    /\ queue[on[t]] # <<>>
    /\ LET m == Head(queue[on[t]]) IN
        /\ queue' = [queue EXCEPT ![on[t]] = Tail(@)]
        /\ IF m[1] = "add"
           THEN /\ at' = [at EXCEPT ![t] = "check"]
                /\ holds' = [holds EXCEPT ![t] = m[2]]
                /\ UNCHANGED on
           ELSE /\ at' = [at EXCEPT ![t] = Resting(t)]
                /\ on' = [on EXCEPT ![t] = NextSocket(t)]
                /\ holds' = [holds EXCEPT ![t] = NoRule]
        /\ packets' = IF m[1] = "report" THEN packets \cup {m[2]} ELSE packets
    /\ UNCHANGED <<kernelVars, socketVars, service, started, commands, waiting, rows,
                   history>>
\* nl_recvmsgs_default fails at once on a socket that is not connected; the loop of
\* MyRun calls it again, on the socket that is global by then.
ReceiveFails(t) ==
    /\ at[t] = "receive"
    /\ on[t] \notin Connected
    /\ on[t] # sk
    /\ on' = [on EXCEPT ![t] = sk]
    /\ UNCHANGED <<kernelVars, socketVars, queue, service, started, commands, waiting, at,
                   holds, databaseVars, history>>
-----------------------------------------------------------------------------
(* The service.                                                            *)

Finish(t) == /\ at' = [at EXCEPT ![t] = Resting(t)]
             /\ on' = [on EXCEPT ![t] = NextSocket(t)]
             /\ holds' = [holds EXCEPT ![t] = NoRule]

\* Mutant: onNativeRcvCall without the test of isInTable.
CheckNothing(t) ==
    /\ at[t] = "check"
    /\ at' = [at EXCEPT ![t] = "insert"]
    /\ UNCHANGED <<kernelVars, socketVars, queue, service, started, commands, waiting, on,
                   holds, databaseVars, history>>

\* onNativeRcvCall: isInTable(rule) == null.
CheckRow(t) ==
    /\ at[t] = "check"
    /\ IF rows[holds[t]] = 0
       THEN at' = [at EXCEPT ![t] = "insert"] /\ UNCHANGED <<on, holds>>
       ELSE Finish(t)
    /\ UNCHANGED <<kernelVars, socketVars, queue, service, started, commands, waiting,
                   databaseVars, history>>

\* onNativeRcvCall: insertAll(rule) with isIn = 1.
InsertRow(t) ==
    /\ at[t] = "insert"
    /\ rows' = [rows EXCEPT ![holds[t]] = @ + 1]
    /\ Finish(t)
    /\ UNCHANGED <<kernelVars, socketVars, queue, service, started, commands, waiting,
                   packets, history>>

\* onCreate: stringFromJNI replaces the global socket by a new one (the old one stays
\* open and joined).  do_things may fail; onCreate ignores that.
Connect ==
    /\ service = "connect"
    /\ \E s \in Socket : /\ sockets[s] = "unused"
                         /\ \E o \in {"closed", "deaf", "open"} :
                                sockets' = [sockets EXCEPT ![s] = o]
                         /\ sk' = s
    /\ service' = "resend"
    /\ UNCHANGED <<kernelVars, queue, started, commands, waiting, threadVars, databaseVars,
                   history>>

\* Mutant: onCreate does not send the rules of the database again.
ResendNothing ==
    /\ service = "resend"
    /\ \E t \in Receiver : /\ at[t] = "off"
                           /\ at' = [at EXCEPT ![t] = "receive"]
                           /\ on' = [on EXCEPT ![t] = sk]
    /\ service' = "up"
    /\ UNCHANGED <<kernelVars, socketVars, queue, started, commands, waiting, holds,
                   databaseVars, history>>

\* onCreate: the receiver thread starts, and a thread for every row of the table.
Resend ==
    /\ service = "resend"
    /\ \E t \in Receiver : /\ at[t] = "off"
                           /\ at' = [at EXCEPT ![t] = "receive"]
                           /\ on' = [on EXCEPT ![t] = sk]
    /\ waiting' = [r \in Rule |-> waiting[r] + rows[r]]
    /\ service' = "up"
    /\ UNCHANGED <<kernelVars, socketVars, queue, started, commands, holds, databaseVars,
                   history>>

\* A thread made for sendData(r) begins to run.
RunSender(t, r) ==
    /\ t \in Idle
    /\ waiting[r] > 0
    /\ waiting' = [waiting EXCEPT ![r] = @ - 1]
    /\ at' = [at EXCEPT ![t] = "send"]
    /\ holds' = [holds EXCEPT ![t] = r]
    /\ UNCHANGED <<kernelVars, socketVars, queue, service, started, commands, on,
                   databaseVars, history>>

\* The process ends: its threads and sockets are gone, what they had to do is lost.
ProcessEnds ==
    /\ sockets' = [s \in Socket |-> "unused"]
    /\ queue' = [s \in Socket |-> <<>>]
    /\ sk' = 0
    /\ service' = "none"
    /\ waiting' = [r \in Rule |-> 0]
    /\ at' = [t \in Thread |-> "off"]
    /\ on' = [t \in Thread |-> 0]
    /\ holds' = [t \in Thread |-> NoRule]
    /\ excused' = excused \cup InFlight
    /\ UNCHANGED <<databaseVars, clicked>>

\* onStartCommand: the rule of the intent, if any, goes to a new thread; the null
\* intent of a restart is dereferenced, which ends the process.
OnStartCommand ==
    /\ service = "up"
    /\ commands # <<>>
    /\ commands' = Tail(commands)
    /\ IF Head(commands) = NullIntent
       THEN ProcessEnds
       ELSE /\ waiting' = [waiting EXCEPT ![Head(commands)[2]] = @ + 1]
            /\ UNCHANGED <<socketVars, queue, service, threadVars, databaseVars, history>>
    /\ UNCHANGED <<kernelVars, started>>
-----------------------------------------------------------------------------
(* The user and the system.                                                *)

\* startService creates the service if it is not there.
StartService ==
    /\ service = "none" => \E s \in Socket : sockets[s] = "unused"
    /\ service' = IF service = "none" THEN "connect" ELSE service
    /\ started' = TRUE

\* MainActivity.onCreate starts the service (its intents carry no rule).
Launch ==
    /\ service = "none"
    /\ StartService
    /\ UNCHANGED <<kernelVars, socketVars, queue, commands, waiting, threadVars, databaseVars,
                   history>>

\* MainActivity.onSkbClick on a packet row of the flow r.
Click(r) ==
    /\ r \in packets
    /\ Len(commands) < MaxWaiting /\ waiting[r] < MaxWaiting
    /\ commands' = Append(commands, <<"rule", r>>)
    /\ clicked' = clicked \cup {r}
    /\ StartService
    /\ UNCHANGED <<kernelVars, socketVars, queue, waiting, threadVars, databaseVars, excused>>

\* RuleDialogFragment is given the row and the DAO: the row goes, the kernel's rule
\* stays, there being no message that would remove it.
DeleteRow(r) ==
    /\ rows[r] > 0
    /\ rows' = [rows EXCEPT ![r] = @ - 1]
    /\ excused' = excused \cup {r}
    /\ UNCHANGED <<kernelVars, processVars, started, packets, clicked>>

\* MainActivity.onClick: nukeTable on the packet table.
ClearPackets ==
    /\ packets # {}
    /\ packets' = {}
    /\ UNCHANGED <<kernelVars, processVars, started, rows, history>>

\* The system destroys the service and keeps the process: onDestroy does nothing, the
\* threads and the socket stay.
Destroy ==
    /\ service = "up"
    /\ service' = "none"
    /\ started' = FALSE
    /\ commands' = <<>>
    /\ UNCHANGED <<kernelVars, socketVars, queue, waiting, threadVars, databaseVars, history>>

\* The system kills the process, or it crashes.
Kill == /\ service # "none" \/ sk # 0
        /\ ProcessEnds
        /\ UNCHANGED <<kernelVars, started, commands>>

\* START_STICKY: the service is created again, with the commands not delivered yet
\* or, if there are none, a null intent.
StickyRestart ==
    /\ service = "none"
    /\ started
    /\ service' = "connect"
    /\ commands' = IF commands = <<>> THEN <<NullIntent>> ELSE commands
    /\ UNCHANGED <<kernelVars, socketVars, queue, started, waiting, threadVars, databaseVars,
                   history>>

\* The phone restarts: the database is all that stays.
Reboot == /\ ProcessEnds
          /\ kernel' = {}
          /\ family' \in FamilyIds
          /\ started' = FALSE
          /\ commands' = <<>>
-----------------------------------------------------------------------------
ThreadStep(t) == SendRule(t) \/ Receive(t) \/ ReceiveFails(t) \/ CheckRow(t) \/ InsertRow(t)
CreateStep == Connect \/ Resend
RunStep(t) == \E r \in Rule : RunSender(t, r)

UserStep == \/ Launch
            \/ \E r \in Rule : Click(r) \/ DeleteRow(r)
            \/ ClearPackets
SystemStep == Destroy \/ Kill \/ StickyRestart \/ Reboot

Next == \/ \E r \in Rule : Traffic(r)
        \/ \E t \in Thread : ThreadStep(t) \/ RunStep(t)
        \/ CreateStep
        \/ OnStartCommand
        \/ UserStep
        \/ SystemStep

Spec == Init /\ [][Next]_vars

\* Threads that can run do run, and the main thread executes onCreate and
\* onStartCommand; nothing obliges the user, the network or the system.
Fairness == /\ WF_vars(CreateStep)
            /\ WF_vars(OnStartCommand)
            /\ \A t \in Thread : WF_vars(ThreadStep(t)) /\ WF_vars(RunStep(t))

FairSpec == Spec /\ Fairness
-----------------------------------------------------------------------------
(* Properties.                                                             *)

TypeOK ==
    /\ kernel \subseteq Rule
    /\ family \in FamilyIds
    /\ sockets \in [Socket -> {"unused", "closed", "deaf", "open"}]
    /\ queue \in [Socket -> Seq(Message)]
    /\ sk \in 0 .. MaxSock
    /\ service \in {"none", "connect", "resend", "up"}
    /\ started \in BOOLEAN
    /\ commands \in Seq(Command)
    /\ waiting \in [Rule -> Nat]
    /\ at \in [Thread -> {"off", "send", "receive", "check", "insert"}]
    /\ on \in [Thread -> 0 .. MaxSock]
    /\ holds \in [Thread -> Rule \cup {NoRule}]
    /\ rows \in [Rule -> Nat]
    /\ packets \subseteq Rule
    /\ clicked \subseteq Rule
    /\ excused \subseteq Rule

\* The test-then-insert of onNativeRcvCall runs in several threads, so a rule can get
\* more than one row; never more than there are threads to run the callback.
RowsBoundedByThreads ==
    TypeOK /\ \A r \in Rule :
        rows[r] + Cardinality({t \in Thread : at[t] = "insert" /\ holds[t] = r})
            <= Cardinality(Thread)

\* Whatever was clicked, sent, lost, restarted and sent again: the kernel allows and
\* the database names only rules the user has asked for.
NothingUnasked == kernel \cup {r \in Rule : rows[r] > 0} \subseteq clicked

\* No thread swallows an "add": a rule the kernel took in this boot has a row, or its
\* announcement is queued or being handled, or there is an excuse for it (no socket
\* had room for it, the process ended with the message unhandled, the user deleted the row).
AddsAreRecorded ==
    \A r \in kernel : rows[r] > 0 \/ r \in InFlight \/ r \in excused

\* Every rule of the database gets into the kernel once the service is up and has a
\* connected socket, however often it was rebooted before, unless the process ends or
\* the row is deleted meanwhile.
RulesRestored ==
    \A r \in Rule : (service = "up" /\ rows[r] > 0 /\ sk \in Connected)
                        ~> (r \in kernel \/ service = "none" \/ rows[r] = 0)
=============================================================================
