------------------------- MODULE FilterServiceProofs -------------------------
(***************************************************************************)
(* Theorems about FilterService, for any number of rules, threads, sockets *)
(* and whatever the sockets buffer.                                        *)
(*                                                                         *)
(* A rule goes a long way from the click to the kernel and from there to   *)
(* the database: command, thread, kernel, datagram, thread, row.  Asked    *)
(* says of each station that only rules the user has asked for are there;  *)
(* AddsAreRecorded, that none is lost between the last three.              *)
(***************************************************************************)
EXTENDS FilterService, FiniteSetTheorems, TLAPS

USE DEF kernelVars, socketVars, threadVars, databaseVars, history, processVars

Holding(q, m) == \E i \in 1 .. Len(q) : q[i] = m

\* Every station of a rule but the kernel and the rows, of which NothingUnasked speaks
Asked == /\ \A r \in Rule : waiting[r] > 0 => r \in clicked
         /\ \A r \in Rule : Holding(commands, <<"rule", r>>) => r \in clicked
         /\ \A t \in Thread : at[t] \in {"send", "check", "insert"} => holds[t] \in clicked
         /\ \A s \in Socket : \A r \in Rule : Holding(queue[s], Add(r)) => r \in clicked

IInv == TypeOK /\ NothingUnasked /\ Asked /\ AddsAreRecorded
-----------------------------------------------------------------------------
(* Datagrams.                                                              *)

LEMMA Messages ==
    /\ Ack \in Message
    /\ \A r \in Rule : Add(r) \in Message /\ Seen(r) \in Message
    /\ \A r \in Rule : Add(r) # Ack /\ \A p \in Rule : Add(r) # Seen(p) /\ (Add(r) = Add(p) => r = p)
    /\ \A m \in Message : m[1] = "add" => m[2] \in Rule /\ m = Add(m[2])
    /\ \A m \in Message : m[1] = "report" => m[2] \in Rule
    /\ \A r \in Rule : Add(r)[1] = "add"
  BY DEF Message, Add, Seen, Ack

LEMMA DeliverType == ASSUME NEW q \in Seq(Message), NEW m \in Message
                     PROVE  Deliver(q, m) \in Seq(Message)
  BY DEF Deliver

LEMMA DeliverKeeps == ASSUME NEW q \in Seq(Message), NEW m \in Message, NEW n, Holding(q, n)
                      PROVE  Holding(Deliver(q, m), n)
  BY DEF Deliver, Holding

LEMMA DeliverAdds == ASSUME NEW q \in Seq(Message), NEW m \in Message, Len(q) < QueueCap
                     PROVE  Holding(Deliver(q, m), m)
  BY DEF Deliver, Holding

LEMMA DeliverOnly == ASSUME NEW q \in Seq(Message), NEW m \in Message, NEW n,
                            Holding(Deliver(q, m), n)
                     PROVE  Holding(q, n) \/ n = m
  BY DEF Deliver, Holding

LEMMA TailKeeps == ASSUME NEW S, NEW q \in Seq(S), q # <<>>, NEW n, Holding(q, n)
                   PROVE  n = Head(q) \/ Holding(Tail(q), n)
  <1>1. PICK i \in 1 .. Len(q) : q[i] = n
    BY DEF Holding
  <1>2. CASE i = 1
    BY <1>1, <1>2
  <1>3. CASE i # 1
    <2>1. i - 1 \in 1 .. Len(Tail(q)) /\ Tail(q)[i - 1] = n
      BY <1>1, <1>3
    <2> QED BY <2>1 DEF Holding
  <1> QED BY <1>2, <1>3

LEMMA TailOnly == ASSUME NEW S, NEW q \in Seq(S), q # <<>>, NEW n, Holding(Tail(q), n)
                  PROVE  Holding(q, n)
  <1>1. PICK i \in 1 .. Len(Tail(q)) : Tail(q)[i] = n
    BY DEF Holding
  <1>2. i + 1 \in 1 .. Len(q) /\ q[i + 1] = n
    BY <1>1
  <1> QED BY <1>2 DEF Holding

LEMMA HeadHolds == ASSUME NEW S, NEW q \in Seq(S), q # <<>>
                   PROVE  Head(q) \in S /\ Tail(q) \in Seq(S) /\ Holding(q, Head(q))
  <1>1. 1 \in 1 .. Len(q) /\ q[1] = Head(q)
    OBVIOUS
  <1> QED BY <1>1 DEF Holding

LEMMA MulticastType == ASSUME queue \in [Socket -> Seq(Message)], NEW m \in Message
                       PROVE  Multicast(m) \in [Socket -> Seq(Message)]
  BY DeliverType DEF Multicast
-----------------------------------------------------------------------------
(* The types.                                                              *)

LEMMA EmptySeq == ASSUME NEW S PROVE <<>> \in Seq(S)
  OBVIOUS

LEMMA InitType == Init => TypeOK
  <1> SUFFICES ASSUME Init PROVE TypeOK
    OBVIOUS
  <1>1. commands \in Seq(Command) /\ queue \in [Socket -> Seq(Message)]
    BY EmptySeq DEF Init
  <1>2. sk \in 0 .. MaxSock /\ on \in [Thread -> 0 .. MaxSock]
    BY ServiceAssumption DEF Init
  <1> QED BY <1>1, <1>2 DEF Init, TypeOK

LEMMA SendType == ASSUME IInv, NEW t \in Thread, SendRule(t) PROVE TypeOK'
  <1>1. CASE sk \in Connected
    <2>1. sk \in Socket /\ holds[t] \in Rule
      BY <1>1 DEF IInv, TypeOK, Asked, SendRule, Connected
    <2>2. kernel' \subseteq Rule /\ excused' \subseteq Rule /\ queue' \in [Socket -> Seq(Message)]
      <3>1. CASE family = 27
        <4>1. kernel' \subseteq Rule /\ excused' \subseteq Rule
          BY <1>1, <2>1, <3>1 DEF IInv, TypeOK, SendRule, KernelTakes
        <4>2. Multicast(Add(holds[t])) \in [Socket -> Seq(Message)]
          BY <2>1, Messages, MulticastType DEF IInv, TypeOK
        <4>3. Deliver(Multicast(Add(holds[t]))[sk], Ack) \in Seq(Message)
          BY <2>1, <4>2, Messages, DeliverType
        <4>4. queue' = [Multicast(Add(holds[t])) EXCEPT ![sk] = Deliver(@, Ack)]
          BY <1>1, <3>1 DEF SendRule, KernelTakes
        <4> QED BY <4>1, <4>2, <4>3, <4>4
      <3>2. CASE family # 27
        <4>1. Deliver(queue[sk], Ack) \in Seq(Message)
          BY <2>1, Messages, DeliverType DEF IInv, TypeOK
        <4>2. queue' = [queue EXCEPT ![sk] = Deliver(@, Ack)] /\ UNCHANGED <<kernel, excused>>
          BY <1>1, <3>2 DEF SendRule, KernelTakes
        <4> QED BY <4>1, <4>2 DEF IInv, TypeOK
      <3> QED BY <3>1, <3>2
    <2> QED BY <1>1, <2>2 DEF IInv, TypeOK, SendRule
  <1>2. CASE sk \notin Connected
    BY <1>2 DEF IInv, TypeOK, SendRule
  <1> QED BY <1>1, <1>2

LEMMA FinishType == ASSUME IInv, NEW t \in Thread, Finish(t) PROVE
     /\ at' \in [Thread -> {"off", "send", "receive", "check", "insert"}]
     /\ on' \in [Thread -> 0 .. MaxSock]
     /\ holds' \in [Thread -> Rule \cup {NoRule}]
  <1>1. Resting(t) \in {"off", "receive"} /\ NextSocket(t) \in 0 .. MaxSock
    BY ServiceAssumption DEF IInv, TypeOK, Resting, NextSocket
  <1> QED BY <1>1 DEF IInv, TypeOK, Finish

LEMMA ReceiveType == ASSUME IInv, NEW t \in Thread, Receive(t) PROVE TypeOK'
  <1>1. on[t] \in Socket /\ queue[on[t]] \in Seq(Message) /\ queue[on[t]] # <<>>
    BY DEF IInv, TypeOK, Receive, Connected
  <1>2. Head(queue[on[t]]) \in Message /\ Tail(queue[on[t]]) \in Seq(Message)
    BY <1>1, HeadHolds
  <1>3. /\ queue' \in [Socket -> Seq(Message)]
        /\ packets' \subseteq Rule
    BY <1>1, <1>2, Messages DEF IInv, TypeOK, Receive
  <1>4. /\ at' \in [Thread -> {"off", "send", "receive", "check", "insert"}]
        /\ on' \in [Thread -> 0 .. MaxSock]
        /\ holds' \in [Thread -> Rule \cup {NoRule}]
    <2>1. CASE Head(queue[on[t]])[1] = "add"
      <3>1. Head(queue[on[t]])[2] \in Rule
        BY <1>2, <2>1, Messages
      <3>2. /\ at' = [at EXCEPT ![t] = "check"]
            /\ holds' = [holds EXCEPT ![t] = Head(queue[on[t]])[2]]
            /\ UNCHANGED on
        BY <2>1 DEF Receive
      <3> QED BY <3>1, <3>2 DEF IInv, TypeOK
    <2>2. CASE Head(queue[on[t]])[1] # "add"
      <3>1. Finish(t)
        BY <2>2 DEF Receive, Finish
      <3> QED BY <3>1, FinishType
    <2> QED BY <2>1, <2>2
  <1> QED BY <1>3, <1>4 DEF IInv, TypeOK, Receive

LEMMA CallbackType == ASSUME IInv, NEW t \in Thread, ReceiveFails(t) \/ CheckRow(t) \/ InsertRow(t)
                      PROVE  TypeOK'
  <1>1. CASE ReceiveFails(t)
    BY <1>1 DEF IInv, TypeOK, ReceiveFails
  <1>2. CASE CheckRow(t)
    <2>1. CASE rows[holds[t]] = 0
      BY <1>2, <2>1 DEF IInv, TypeOK, CheckRow
    <2>2. CASE rows[holds[t]] # 0
      BY <1>2, <2>2, FinishType DEF IInv, TypeOK, CheckRow
    <2> QED BY <2>1, <2>2
  <1>3. CASE InsertRow(t)
    <2>1. rows' \in [Rule -> Nat]
      <3>1. holds[t] \in Rule
        BY <1>3 DEF IInv, TypeOK, Asked, InsertRow
      <3> QED BY <1>3, <3>1 DEF IInv, TypeOK, InsertRow
    <2> QED BY <1>3, <2>1, FinishType DEF IInv, TypeOK, InsertRow
  <1> QED BY <1>1, <1>2, <1>3

LEMMA CreateType == ASSUME IInv, Connect \/ Resend PROVE TypeOK'
  <1>1. CASE Connect
    BY <1>1 DEF IInv, TypeOK, Connect, Socket
  <1>2. CASE Resend
    BY <1>2 DEF IInv, TypeOK, Resend, Thread
  <1> QED BY <1>1, <1>2

LEMMA EndsType == ASSUME IInv, ProcessEnds PROVE
     /\ sockets' \in [Socket -> {"unused", "closed", "deaf", "open"}]
     /\ queue' \in [Socket -> Seq(Message)]
     /\ sk' \in 0 .. MaxSock
     /\ service' \in {"none", "connect", "resend", "up"}
     /\ waiting' \in [Rule -> Nat]
     /\ at' \in [Thread -> {"off", "send", "receive", "check", "insert"}]
     /\ on' \in [Thread -> 0 .. MaxSock]
     /\ holds' \in [Thread -> Rule \cup {NoRule}]
     /\ rows' \in [Rule -> Nat]
     /\ packets' \subseteq Rule
     /\ clicked' \subseteq Rule
     /\ excused' \subseteq Rule
  BY ServiceAssumption DEF IInv, TypeOK, ProcessEnds, InFlight

LEMMA CommandType == ASSUME IInv, OnStartCommand PROVE TypeOK'
  <1>1. Head(commands) \in Command /\ Tail(commands) \in Seq(Command)
    BY HeadHolds DEF IInv, TypeOK, OnStartCommand
  <1>2. CASE Head(commands) = NullIntent
    BY <1>1, <1>2, EndsType DEF IInv, TypeOK, OnStartCommand
  <1>3. CASE Head(commands) # NullIntent
    <2>1. PICK r \in Rule : Head(commands) = <<"rule", r>>
      BY <1>1, <1>3 DEF Command
    <2>2. /\ waiting' = [waiting EXCEPT ![r] = @ + 1] /\ commands' = Tail(commands)
          /\ UNCHANGED <<socketVars, queue, service, threadVars, databaseVars, history,
                         kernelVars, started>>
      BY <1>3, <2>1 DEF OnStartCommand
    <2> QED BY <1>1, <2>2 DEF IInv, TypeOK
  <1> QED BY <1>2, <1>3

LEMMA RunType == ASSUME IInv, NEW t \in Thread, NEW r \in Rule, RunSender(t, r) PROVE TypeOK'
  BY DEF IInv, TypeOK, RunSender

LEMMA UserType == ASSUME IInv, UserStep PROVE TypeOK'
  <1>1. CASE Launch
    BY <1>1 DEF IInv, TypeOK, Launch, StartService
  <1>2. ASSUME NEW r \in Rule, Click(r) PROVE TypeOK'
    <2>1. <<"rule", r>> \in Command
      BY DEF Command
    <2> QED BY <1>2, <2>1 DEF IInv, TypeOK, Click, StartService
  <1>3. ASSUME NEW r \in Rule, DeleteRow(r) PROVE TypeOK'
    BY <1>3 DEF IInv, TypeOK, DeleteRow
  <1>4. CASE ClearPackets
    BY <1>4 DEF IInv, TypeOK, ClearPackets
  <1> QED BY <1>1, <1>2, <1>3, <1>4 DEF UserStep

LEMMA SystemType == ASSUME IInv, SystemStep PROVE TypeOK'
  <1>1. CASE Destroy
    BY <1>1, EmptySeq DEF IInv, TypeOK, Destroy
  <1>2. CASE Kill
    BY <1>2, EndsType DEF IInv, TypeOK, Kill
  <1>3. CASE StickyRestart
    <2>1. <<NullIntent>> \in Seq(Command)
      BY DEF Command
    <2> QED BY <1>3, <2>1 DEF IInv, TypeOK, StickyRestart
  <1>4. CASE Reboot
    <2>1. kernel' \subseteq Rule /\ family' \in FamilyIds /\ started' \in BOOLEAN
      BY <1>4 DEF Reboot
    <2>2. commands' \in Seq(Command)
      BY <1>4, EmptySeq DEF Reboot
    <2> QED BY <1>4, <2>1, <2>2, EndsType DEF TypeOK, Reboot
  <1> QED BY <1>1, <1>2, <1>3, <1>4 DEF SystemStep

LEMMA TypeStep == ASSUME IInv, [Next]_vars PROVE TypeOK'
  <1>1. ASSUME NEW r \in Rule, Traffic(r) PROVE TypeOK'
    BY <1>1, Messages, MulticastType DEF IInv, TypeOK, Traffic
  <1>2. ASSUME NEW t \in Thread, ThreadStep(t) \/ RunStep(t) PROVE TypeOK'
    BY <1>2, SendType, ReceiveType, CallbackType, RunType DEF ThreadStep, RunStep
  <1>3. CASE UNCHANGED vars
    BY <1>3 DEF IInv, TypeOK, vars
  <1> QED BY <1>1, <1>2, <1>3, CreateType, CommandType, UserType, SystemType DEF Next, CreateStep
-----------------------------------------------------------------------------
(* What the kernel does with a rule.                                       *)

LEMMA MulticastOnly == ASSUME queue \in [Socket -> Seq(Message)], NEW m \in Message,
                              NEW s \in Socket, NEW n, Holding(Multicast(m)[s], n)
                       PROVE  Holding(queue[s], n) \/ n = m
  BY DeliverOnly DEF Multicast

LEMMA MulticastKeeps == ASSUME queue \in [Socket -> Seq(Message)], NEW m \in Message,
                               NEW s \in Socket, NEW n, Holding(queue[s], n)
                        PROVE  Holding(Multicast(m)[s], n)
  BY DeliverKeeps DEF Multicast

\* The rule is announced where there is room, or excused; what was queued stays queued.
LEMMA KernelStep ==
    ASSUME queue \in [Socket -> Seq(Message)], NEW s \in Socket, NEW r \in Rule, KernelTakes(s, r)
    PROVE  /\ \A u \in Socket : \A p \in Rule :
                  Holding(queue[u], Add(p)) => Holding(queue'[u], Add(p))
           /\ \A u \in Socket : \A p \in Rule :
                  Holding(queue'[u], Add(p)) => Holding(queue[u], Add(p)) \/ p = r
           /\ excused \subseteq excused'
           /\ \/ kernel' = kernel
              \/ /\ kernel' = kernel \cup {r}
                 /\ r \in excused' \/ \E u \in Socket : Holding(queue'[u], Add(r))
  <1> DEFINE M == Multicast(Add(r))
  <1>1. M \in [Socket -> Seq(Message)]
    BY Messages, MulticastType
  <1> Ack \in Message /\ \A p \in Rule : Add(p) # Ack
    BY Messages
  <1> HIDE DEF M
  <1>2. CASE family = 27
    <2>1. /\ queue' = [M EXCEPT ![s] = Deliver(@, Ack)]
          /\ kernel' = kernel \cup {r}
          /\ excused' = IF Unheard THEN excused \cup {r} ELSE excused
      BY <1>2 DEF KernelTakes, M
    <2>2. \A u \in Socket : queue'[u] = IF u = s THEN Deliver(M[s], Ack) ELSE M[u]
      BY <1>1, <2>1
    <2>3. ASSUME NEW u \in Socket, NEW p \in Rule, Holding(M[u], Add(p))
          PROVE  Holding(queue'[u], Add(p))
      <3>1. CASE u = s
        BY <1>1, <2>2, <2>3, <3>1, DeliverKeeps
      <3>2. CASE u # s
        BY <2>2, <2>3, <3>2
      <3> QED BY <3>1, <3>2
    <2>4. ASSUME NEW u \in Socket, NEW p \in Rule, Holding(queue[u], Add(p))
          PROVE  Holding(queue'[u], Add(p))
      BY <2>3, <2>4, Messages, MulticastKeeps DEF M
    <2>5. ASSUME NEW u \in Socket, NEW p \in Rule, Holding(queue'[u], Add(p))
          PROVE  Holding(queue[u], Add(p)) \/ p = r
      <3>1. Holding(M[u], Add(p))
        <4>1. CASE u = s
          BY <1>1, <2>2, <2>5, <4>1, DeliverOnly
        <4>2. CASE u # s
          BY <2>2, <2>5, <4>2
        <4> QED BY <4>1, <4>2
      <3> QED BY <3>1, Messages, MulticastOnly DEF M
    <2>6. CASE Unheard
      BY <2>1, <2>4, <2>5, <2>6
    <2>7. CASE ~Unheard
      <3>1. PICK u \in Socket : u \in Open /\ ~(Len(queue[u]) >= QueueCap)
        BY <2>7 DEF Unheard, Open
      <3>2. Len(queue[u]) < QueueCap
        BY <3>1, ServiceAssumption
      <3>3. Holding(M[u], Add(r))
        BY <3>1, <3>2, Messages, DeliverAdds DEF Multicast, M
      <3> QED BY <2>1, <2>3, <2>4, <2>5, <3>3
    <2> QED BY <2>6, <2>7
  <1>3. CASE family # 27
    <2>1. queue' = [queue EXCEPT ![s] = Deliver(@, Ack)] /\ UNCHANGED <<kernel, excused>>
      BY <1>3 DEF KernelTakes
    <2>2. \A u \in Socket : queue'[u] = IF u = s THEN Deliver(queue[s], Ack) ELSE queue[u]
      BY <2>1
    <2> QED BY <2>1, <2>2, Messages, DeliverKeeps, DeliverOnly
  <1> QED BY <1>2, <1>3
-----------------------------------------------------------------------------
(* Nothing but what was asked for.                                         *)

LEMMA SendAsked == ASSUME IInv, NEW t \in Thread, SendRule(t) PROVE NothingUnasked' /\ Asked'
  <1>1. CASE sk \in Connected
    <2>1. sk \in Socket /\ holds[t] \in Rule \cap clicked
      BY <1>1 DEF IInv, TypeOK, Asked, SendRule, Connected
    <2>2. queue \in [Socket -> Seq(Message)] /\ KernelTakes(sk, holds[t])
      BY <1>1 DEF IInv, TypeOK, SendRule
    <2>3. kernel' \subseteq clicked
      BY <2>1, <2>2, KernelStep DEF IInv, NothingUnasked
    <2>4. \A s \in Socket : \A r \in Rule : Holding(queue'[s], Add(r)) => r \in clicked
      BY <2>1, <2>2, KernelStep DEF IInv, Asked
    <2>5. /\ at' = [at EXCEPT ![t] = "receive"]
          /\ UNCHANGED <<rows, clicked, waiting, commands, holds>>
      BY <1>1 DEF SendRule
    <2> QED BY <2>3, <2>4, <2>5 DEF IInv, TypeOK, NothingUnasked, Asked
  <1>2. CASE sk \notin Connected
    BY <1>2 DEF IInv, TypeOK, NothingUnasked, Asked, SendRule
  <1> QED BY <1>1, <1>2

\* A thread that has done what it had to
LEMMA FinishAsked ==
    ASSUME IInv, NEW t \in Thread, Finish(t), clicked' = clicked
    PROVE  \A u \in Thread : at'[u] \in {"send", "check", "insert"} => holds'[u] \in clicked'
  BY DEF IInv, TypeOK, Asked, Finish, Resting

LEMMA ReceiveAsked == ASSUME IInv, NEW t \in Thread, Receive(t) PROVE NothingUnasked' /\ Asked'
  <1> DEFINE m == Head(queue[on[t]])
  <1>1. on[t] \in Socket /\ queue[on[t]] \in Seq(Message) /\ queue[on[t]] # <<>>
    BY DEF IInv, TypeOK, Receive, Connected
  <1>2. m \in Message /\ Holding(queue[on[t]], m)
    BY <1>1, HeadHolds
  <1>3. /\ queue' = [queue EXCEPT ![on[t]] = Tail(@)]
        /\ UNCHANGED <<kernel, rows, clicked, waiting, commands>>
    BY DEF Receive
  <1>4. ASSUME NEW s \in Socket, NEW r \in Rule, Holding(queue'[s], Add(r)) PROVE r \in clicked
    <2>1. Holding(queue[s], Add(r))
      BY <1>1, <1>3, <1>4, TailOnly DEF IInv, TypeOK
    <2> QED BY <2>1 DEF IInv, Asked
  <1>5. ASSUME NEW u \in Thread, at'[u] \in {"send", "check", "insert"} PROVE holds'[u] \in clicked
    <2>1. CASE m[1] = "add"
      <3>1. m[2] \in clicked
        BY <1>1, <1>2, <2>1, Messages DEF IInv, Asked
      <3>2. at' = [at EXCEPT ![t] = "check"] /\ holds' = [holds EXCEPT ![t] = m[2]]
        BY <2>1 DEF Receive
      <3> QED BY <1>5, <3>1, <3>2 DEF IInv, TypeOK, Asked
    <2>2. CASE m[1] # "add"
      <3>1. Finish(t)
        BY <2>2 DEF Receive, Finish
      <3> QED BY <1>3, <1>5, <3>1, FinishAsked
    <2> QED BY <2>1, <2>2
  <1> QED BY <1>3, <1>4, <1>5 DEF IInv, NothingUnasked, Asked

LEMMA CallbackAsked == ASSUME IInv, NEW t \in Thread, ReceiveFails(t) \/ CheckRow(t) \/ InsertRow(t)
                       PROVE  NothingUnasked' /\ Asked'
  <1>1. CASE ReceiveFails(t)
    BY <1>1 DEF IInv, TypeOK, NothingUnasked, Asked, ReceiveFails
  <1>2. CASE CheckRow(t)
    <2>1. CASE rows[holds[t]] = 0
      BY <1>2, <2>1 DEF IInv, TypeOK, NothingUnasked, Asked, CheckRow
    <2>2. CASE rows[holds[t]] # 0
      BY <1>2, <2>2, FinishAsked DEF IInv, TypeOK, NothingUnasked, Asked, CheckRow
    <2> QED BY <2>1, <2>2
  <1>3. CASE InsertRow(t)
    <2>1. holds[t] \in clicked
      BY <1>3 DEF IInv, Asked, InsertRow
    <2>2. rows' = [rows EXCEPT ![holds[t]] = @ + 1] /\ Finish(t)
          /\ UNCHANGED <<kernel, queue, waiting, commands, clicked>>
      BY <1>3 DEF InsertRow
    <2> QED BY <2>1, <2>2, FinishAsked DEF IInv, TypeOK, NothingUnasked, Asked
  <1> QED BY <1>1, <1>2, <1>3

LEMMA CreateAsked == ASSUME IInv, Connect \/ Resend PROVE NothingUnasked' /\ Asked'
  <1>1. CASE Connect
    BY <1>1 DEF IInv, NothingUnasked, Asked, Connect
  <1>2. CASE Resend
    <2>1. PICK t \in Receiver : at' = [at EXCEPT ![t] = "receive"]
      BY <1>2 DEF Resend
    <2>2. waiting' = [r \in Rule |-> waiting[r] + rows[r]]
          /\ UNCHANGED <<kernel, queue, commands, holds, rows, clicked>>
      BY <1>2 DEF Resend
    <2>3. \A r \in Rule : waiting'[r] > 0 => waiting[r] > 0 \/ rows[r] > 0
      BY <2>2 DEF IInv, TypeOK
    <2> QED BY <2>1, <2>2, <2>3 DEF IInv, TypeOK, NothingUnasked, Asked
  <1> QED BY <1>1, <1>2

LEMMA EndsAsked == ASSUME IInv, ProcessEnds, kernel' \subseteq kernel,
                          \A r \in Rule : Holding(commands', <<"rule", r>>) => Holding(commands, <<"rule", r>>)
                   PROVE  NothingUnasked' /\ Asked'
  <1>1. \A s \in Socket : \A r \in Rule : ~Holding(queue'[s], Add(r))
    BY DEF ProcessEnds, Holding
  <1> QED BY <1>1 DEF IInv, NothingUnasked, Asked, ProcessEnds

LEMMA CommandAsked == ASSUME IInv, OnStartCommand PROVE NothingUnasked' /\ Asked'
  <1>1. /\ commands \in Seq(Command) /\ commands # <<>> /\ commands' = Tail(commands)
        /\ Head(commands) \in Command /\ Holding(commands, Head(commands))
    BY HeadHolds DEF IInv, TypeOK, OnStartCommand
  <1>2. \A r \in Rule : Holding(commands', <<"rule", r>>) => Holding(commands, <<"rule", r>>)
    BY <1>1, TailOnly
  <1>3. CASE Head(commands) = NullIntent
    BY <1>2, <1>3, EndsAsked DEF OnStartCommand
  <1>4. CASE Head(commands) # NullIntent
    <2>1. PICK r \in Rule : Head(commands) = <<"rule", r>>
      BY <1>1, <1>4 DEF Command
    <2>2. r \in clicked
      BY <1>1, <2>1 DEF IInv, Asked
    <2>3. /\ waiting' = [waiting EXCEPT ![r] = @ + 1]
          /\ UNCHANGED <<queue, at, holds, rows, clicked, kernel>>
      BY <1>4, <2>1 DEF OnStartCommand
    <2> QED BY <1>2, <2>2, <2>3 DEF IInv, TypeOK, NothingUnasked, Asked
  <1> QED BY <1>3, <1>4

LEMMA RunAsked == ASSUME IInv, NEW t \in Thread, NEW r \in Rule, RunSender(t, r)
                  PROVE  NothingUnasked' /\ Asked'
  <1>1. /\ waiting[r] > 0 /\ waiting' = [waiting EXCEPT ![r] = @ - 1]
        /\ at' = [at EXCEPT ![t] = "send"] /\ holds' = [holds EXCEPT ![t] = r]
        /\ UNCHANGED <<queue, commands, rows, clicked, kernel>>
    BY DEF RunSender
  <1>2. r \in clicked
    BY <1>1 DEF IInv, Asked
  <1> QED BY <1>1, <1>2 DEF IInv, TypeOK, NothingUnasked, Asked

LEMMA UserAsked == ASSUME IInv, UserStep PROVE NothingUnasked' /\ Asked'
  <1>1. CASE Launch
    BY <1>1 DEF IInv, NothingUnasked, Asked, Launch
  <1>2. ASSUME NEW r \in Rule, Click(r) PROVE NothingUnasked' /\ Asked'
    <2>1. /\ commands' = Append(commands, <<"rule", r>>) /\ clicked' = clicked \cup {r}
          /\ UNCHANGED <<kernel, queue, waiting, at, holds, rows>>
      BY <1>2 DEF Click
    <2>2. \A p \in Rule : Holding(commands', <<"rule", p>>)
                           => Holding(commands, <<"rule", p>>) \/ p = r
      <3>1. ASSUME NEW p \in Rule, NEW i \in 1 .. Len(commands'), commands'[i] = <<"rule", p>>
            PROVE  Holding(commands, <<"rule", p>>) \/ p = r
        <4>1. commands \in Seq(Command) /\ <<"rule", r>> \in Command
          BY DEF IInv, TypeOK, Command
        <4>2. CASE i = Len(commands) + 1
          <5>1. <<"rule", r>> = <<"rule", p>>
            BY <2>1, <3>1, <4>1, <4>2
          <5> QED BY <5>1
        <4>3. CASE i # Len(commands) + 1
          <5>1. i \in 1 .. Len(commands) /\ commands[i] = <<"rule", p>>
            BY <2>1, <3>1, <4>1, <4>3
          <5> QED BY <5>1 DEF Holding
        <4> QED BY <4>2, <4>3
      <3> QED BY <3>1 DEF Holding
    <2> QED BY <2>1, <2>2 DEF IInv, NothingUnasked, Asked
  <1>3. ASSUME NEW r \in Rule, DeleteRow(r) PROVE NothingUnasked' /\ Asked'
    BY <1>3 DEF IInv, TypeOK, NothingUnasked, Asked, DeleteRow
  <1>4. CASE ClearPackets
    BY <1>4 DEF IInv, NothingUnasked, Asked, ClearPackets
  <1> QED BY <1>1, <1>2, <1>3, <1>4 DEF UserStep

LEMMA SystemAsked == ASSUME IInv, SystemStep PROVE NothingUnasked' /\ Asked'
  <1>1. \A r \in Rule : ~Holding(<<>>, <<"rule", r>>) /\ ~Holding(<<NullIntent>>, <<"rule", r>>)
    <2>1. ASSUME NEW r \in Rule PROVE NullIntent # <<"rule", r>>
      <3>1. NullIntent[1] = "null intent" /\ <<"rule", r>>[1] = "rule"
        BY DEF NullIntent
      <3> QED BY <3>1
    <2>2. Len(<<NullIntent>>) = 1 /\ <<NullIntent>>[1] = NullIntent /\ Len(<<>>) = 0
      OBVIOUS
    <2> QED BY <2>1, <2>2 DEF Holding
  <1>2. CASE Destroy
    BY <1>1, <1>2 DEF IInv, NothingUnasked, Asked, Destroy
  <1>3. CASE Kill
    BY <1>3, EndsAsked DEF Kill
  <1>4. CASE StickyRestart
    BY <1>1, <1>4 DEF IInv, NothingUnasked, Asked, StickyRestart
  <1>5. CASE Reboot
    BY <1>1, <1>5, EndsAsked DEF Reboot
  <1> QED BY <1>2, <1>3, <1>4, <1>5 DEF SystemStep

LEMMA AskedStep == ASSUME IInv, [Next]_vars PROVE NothingUnasked' /\ Asked'
  <1>1. ASSUME NEW r \in Rule, Traffic(r) PROVE NothingUnasked' /\ Asked'
    <2>1. queue' = Multicast(Seen(r)) /\ UNCHANGED <<kernel, rows, clicked, waiting, commands, at, holds>>
      BY <1>1 DEF Traffic
    <2>2. \A s \in Socket : \A p \in Rule : Holding(queue'[s], Add(p)) => Holding(queue[s], Add(p))
      BY <2>1, Messages, MulticastOnly DEF IInv, TypeOK
    <2> QED BY <2>1, <2>2 DEF IInv, NothingUnasked, Asked
  <1>2. ASSUME NEW t \in Thread, ThreadStep(t) \/ RunStep(t) PROVE NothingUnasked' /\ Asked'
    BY <1>2, SendAsked, ReceiveAsked, CallbackAsked, RunAsked DEF ThreadStep, RunStep
  <1>3. CASE UNCHANGED vars
    BY <1>3 DEF IInv, NothingUnasked, Asked, vars
  <1> QED BY <1>1, <1>2, <1>3, CreateAsked, CommandAsked, UserAsked, SystemAsked DEF Next, CreateStep
-----------------------------------------------------------------------------
(* No announcement is lost.                                                *)

\* A rule has its row, or it is on its way there, or there is an excuse.
Recorded(r) == \/ rows[r] > 0 \/ r \in excused
               \/ \E s \in Socket : Holding(queue[s], Add(r))
               \/ \E t \in Thread : at[t] \in {"check", "insert"} /\ holds[t] = r

LEMMA KeepRecords == ASSUME IInv, TypeOK',
                            \A r \in Rule : Recorded(r) => Recorded(r)',
                            \A r \in kernel' \ kernel : Recorded(r)'
                     PROVE  AddsAreRecorded'
  <1>1. \A r \in kernel : r \in Rule /\ Recorded(r)
    BY DEF IInv, TypeOK, AddsAreRecorded, Recorded, InFlight, Holding
  <1>2. \A r \in kernel' : r \in Rule /\ Recorded(r)'
    BY <1>1 DEF TypeOK
  <1> QED BY <1>2 DEF AddsAreRecorded, Recorded, InFlight, Holding

LEMMA SendRecords == ASSUME IInv, TypeOK', NEW t \in Thread, SendRule(t) PROVE AddsAreRecorded'
  <1>1. CASE sk \in Connected
    <2>1. sk \in Socket /\ holds[t] \in Rule
      BY <1>1 DEF IInv, TypeOK, Asked, SendRule, Connected
    <2>2. queue \in [Socket -> Seq(Message)] /\ KernelTakes(sk, holds[t])
      BY <1>1 DEF IInv, TypeOK, SendRule
    <2>3. /\ at[t] = "send" /\ at' = [at EXCEPT ![t] = "receive"]
          /\ UNCHANGED <<rows, holds>>
      BY <1>1 DEF SendRule
    <2>4. ASSUME NEW r \in Rule, Recorded(r) PROVE Recorded(r)'
      BY <2>1, <2>2, <2>3, <2>4, KernelStep DEF IInv, TypeOK, Recorded
    <2>5. \A r \in kernel' \ kernel : Recorded(r)'
      BY <2>1, <2>2, KernelStep DEF Recorded
    <2> QED BY <2>4, <2>5, KeepRecords
  <1>2. CASE sk \notin Connected
    <2>1. /\ at[t] = "send" /\ at' = [at EXCEPT ![t] = "off"]
          /\ UNCHANGED <<kernel, rows, holds, queue, excused>>
      BY <1>2 DEF SendRule
    <2> QED BY <2>1, KeepRecords DEF IInv, TypeOK, Recorded
  <1> QED BY <1>1, <1>2

\* Who finishes with a rule that is recorded leaves every other record alone.
LEMMA FinishRecords ==
    ASSUME IInv, TypeOK', NEW t \in Thread, Finish(t), UNCHANGED <<kernel, excused, queue>>,
           \A r \in Rule : rows'[r] >= rows[r],
           at[t] \in {"check", "insert"} => rows'[holds[t]] > 0
    PROVE  AddsAreRecorded'
  <1>1. ASSUME NEW r \in Rule, Recorded(r) PROVE Recorded(r)'
    <2>1. CASE rows[r] > 0 \/ r \in excused \/ \E s \in Socket : Holding(queue[s], Add(r))
      BY <2>1 DEF IInv, TypeOK, Recorded
    <2>2. ASSUME NEW u \in Thread, at[u] \in {"check", "insert"}, holds[u] = r
          PROVE  Recorded(r)'
      BY <2>2 DEF IInv, TypeOK, Recorded, Finish
    <2> QED BY <1>1, <2>1, <2>2 DEF Recorded
  <1> QED BY <1>1, KeepRecords

LEMMA ReceiveRecords == ASSUME IInv, TypeOK', NEW t \in Thread, Receive(t) PROVE AddsAreRecorded'
  <1> DEFINE m == Head(queue[on[t]])
  <1>1. /\ on[t] \in Socket /\ queue[on[t]] \in Seq(Message) /\ queue[on[t]] # <<>>
        /\ at[t] = "receive"
    BY DEF IInv, TypeOK, Receive, Connected
  <1>2. m \in Message
    BY <1>1, HeadHolds
  <1>3. /\ queue' = [queue EXCEPT ![on[t]] = Tail(@)]
        /\ UNCHANGED <<kernel, rows, excused>>
    BY DEF Receive
  <1>4. ASSUME NEW s \in Socket, NEW r \in Rule, Holding(queue[s], Add(r))
        PROVE  Holding(queue'[s], Add(r)) \/ m = Add(r)
    BY <1>1, <1>3, <1>4, TailKeeps DEF IInv, TypeOK
  <1>5. ASSUME NEW u \in Thread, at[u] \in {"check", "insert"}
        PROVE  at'[u] = at[u] /\ holds'[u] = holds[u]
    <2>1. u # t
      BY <1>1, <1>5
    <2> QED BY <2>1 DEF Receive, IInv, TypeOK
  <1>6. ASSUME NEW r \in Rule, m = Add(r) PROVE at'[t] = "check" /\ holds'[t] = r
    <2>1. m[1] = "add" /\ m[2] = r
      BY <1>6 DEF Add
    <2>2. at' = [at EXCEPT ![t] = "check"] /\ holds' = [holds EXCEPT ![t] = m[2]]
      BY <2>1 DEF Receive
    <2> QED BY <2>1, <2>2 DEF IInv, TypeOK
  <1> HIDE DEF m
  <1>7. ASSUME NEW r \in Rule, Recorded(r) PROVE Recorded(r)'
    <2>1. CASE rows[r] > 0 \/ r \in excused
      BY <1>3, <2>1 DEF Recorded
    <2>2. ASSUME NEW s \in Socket, Holding(queue[s], Add(r)) PROVE Recorded(r)'
      BY <1>4, <1>6, <2>2 DEF Recorded
    <2>3. ASSUME NEW u \in Thread, at[u] \in {"check", "insert"}, holds[u] = r PROVE Recorded(r)'
      BY <1>5, <2>3 DEF Recorded
    <2> QED BY <1>7, <2>1, <2>2, <2>3 DEF Recorded
  <1> QED BY <1>3, <1>7, KeepRecords

LEMMA CallbackRecords == ASSUME IInv, TypeOK', NEW t \in Thread,
                                ReceiveFails(t) \/ CheckRow(t) \/ InsertRow(t)
                         PROVE  AddsAreRecorded'
  <1>1. CASE ReceiveFails(t)
    BY <1>1, KeepRecords DEF ReceiveFails, Recorded
  <1>2. CASE CheckRow(t)
    <2>1. CASE rows[holds[t]] = 0
      <3>1. /\ at' = [at EXCEPT ![t] = "insert"]
            /\ UNCHANGED <<kernel, rows, holds, queue, excused>>
        BY <1>2, <2>1 DEF CheckRow
      <3> QED BY <3>1, KeepRecords DEF IInv, TypeOK, Recorded
    <2>2. CASE rows[holds[t]] # 0
      <3>1. Finish(t) /\ UNCHANGED <<kernel, rows, queue, excused>> /\ at[t] = "check"
        BY <1>2, <2>2 DEF CheckRow
      <3>2. holds[t] \in Rule /\ \A r \in Rule : rows[r] \in Nat
        BY <3>1 DEF IInv, TypeOK, Asked
      <3> QED BY <2>2, <3>1, <3>2, FinishRecords
    <2> QED BY <2>1, <2>2
  <1>3. CASE InsertRow(t)
    <2>1. /\ Finish(t) /\ UNCHANGED <<kernel, queue, excused>> /\ at[t] = "insert"
          /\ rows' = [rows EXCEPT ![holds[t]] = @ + 1]
      BY <1>3 DEF InsertRow
    <2>2. holds[t] \in Rule /\ rows \in [Rule -> Nat]
      BY <2>1 DEF IInv, TypeOK, Asked
    <2>3. (\A r \in Rule : rows'[r] >= rows[r]) /\ rows'[holds[t]] > 0
      BY <2>1, <2>2
    <2> QED BY <2>1, <2>3, FinishRecords
  <1> QED BY <1>1, <1>2, <1>3

\* What is under way when the process ends is excused.
LEMMA EndsRecords == ASSUME IInv, TypeOK', ProcessEnds, kernel' \subseteq kernel PROVE AddsAreRecorded'
  <1>1. ASSUME NEW r \in Rule, Recorded(r) PROVE Recorded(r)'
    <2>1. rows[r] > 0 \/ r \in excused \/ r \in InFlight
      BY <1>1 DEF Recorded, InFlight, Holding
    <2> QED BY <2>1 DEF ProcessEnds, Recorded
  <1> QED BY <1>1, KeepRecords

LEMMA CommandRecords == ASSUME IInv, TypeOK', OnStartCommand PROVE AddsAreRecorded'
  <1>1. CASE Head(commands) = NullIntent
    BY <1>1, EndsRecords DEF OnStartCommand
  <1>2. CASE Head(commands) # NullIntent
    BY <1>2, KeepRecords DEF OnStartCommand, Recorded
  <1> QED BY <1>1, <1>2

LEMMA UserRecords == ASSUME IInv, TypeOK', UserStep PROVE AddsAreRecorded'
  <1>1. CASE Launch
    BY <1>1, KeepRecords DEF Launch, Recorded
  <1>2. ASSUME NEW r \in Rule, Click(r) PROVE AddsAreRecorded'
    BY <1>2, KeepRecords DEF Click, Recorded
  <1>3. ASSUME NEW r \in Rule, DeleteRow(r) PROVE AddsAreRecorded'
    <2>1. /\ rows' = [rows EXCEPT ![r] = @ - 1] /\ excused' = excused \cup {r}
          /\ UNCHANGED <<kernel, queue, at, holds>>
      BY <1>3 DEF DeleteRow
    <2> QED BY <2>1, KeepRecords DEF IInv, TypeOK, Recorded
  <1>4. CASE ClearPackets
    BY <1>4, KeepRecords DEF ClearPackets, Recorded
  <1> QED BY <1>1, <1>2, <1>3, <1>4 DEF UserStep

LEMMA RecordedStep == ASSUME IInv, TypeOK', [Next]_vars PROVE AddsAreRecorded'
  <1>1. ASSUME NEW r \in Rule, Traffic(r) PROVE AddsAreRecorded'
    <2>1. queue' = Multicast(Seen(r)) /\ UNCHANGED <<kernel, rows, excused, at, holds>>
      BY <1>1 DEF Traffic
    <2>2. \A s \in Socket : \A p \in Rule : Holding(queue[s], Add(p)) => Holding(queue'[s], Add(p))
      BY <2>1, Messages, MulticastKeeps DEF IInv, TypeOK
    <2> QED BY <2>1, <2>2, KeepRecords DEF Recorded
  <1>2. ASSUME NEW t \in Thread, NEW r \in Rule, RunSender(t, r) PROVE AddsAreRecorded'
    <2>1. /\ at[t] = "off" /\ at' = [at EXCEPT ![t] = "send"] /\ holds' = [holds EXCEPT ![t] = r]
          /\ UNCHANGED <<kernel, rows, excused, queue>>
      BY <1>2 DEF RunSender, Idle
    <2> QED BY <2>1, KeepRecords DEF IInv, TypeOK, Recorded
  <1>3. ASSUME NEW t \in Thread, ThreadStep(t) \/ RunStep(t) PROVE AddsAreRecorded'
    BY <1>2, <1>3, SendRecords, ReceiveRecords, CallbackRecords DEF ThreadStep, RunStep
  <1>4. CASE Connect
    BY <1>4, KeepRecords DEF Connect, Recorded
  <1>5. CASE Resend
    <2>1. PICK t \in Receiver : at[t] = "off" /\ at' = [at EXCEPT ![t] = "receive"]
      BY <1>5 DEF Resend
    <2>2. UNCHANGED <<kernel, rows, excused, queue, holds>>
      BY <1>5 DEF Resend
    <2> QED BY <2>1, <2>2, KeepRecords DEF IInv, TypeOK, Recorded
  <1>6. CASE SystemStep
    BY <1>6, EndsRecords, KeepRecords DEF SystemStep, Destroy, Kill, StickyRestart, Reboot, Recorded
  <1>7. CASE UNCHANGED vars
    BY <1>7, KeepRecords DEF vars, Recorded
  <1> QED BY <1>1, <1>3, <1>4, <1>5, <1>6, <1>7, CommandRecords, UserRecords DEF Next, CreateStep
-----------------------------------------------------------------------------
\* The invariant holds in every state of every behaviour (nmjfilter.cpp, MyService.java).
THEOREM ServiceInvariant == Spec => []IInv
  <1>1. Init => IInv
    BY InitType DEF Init, IInv, NothingUnasked, Asked, AddsAreRecorded, Holding
  <1>2. IInv /\ [Next]_vars => IInv'
    BY TypeStep, AskedStep, RecordedStep DEF IInv
  <1> QED BY <1>1, <1>2, PTL DEF Spec

\* Through clicks, lost messages, restarts, reboots and rules sent again, the kernel
\* allows and the database names only what the user has asked for.
THEOREM OnlyAskedFor == Spec => []NothingUnasked
  <1>1. IInv => NothingUnasked
    BY DEF IInv
  <1> QED BY <1>1, ServiceInvariant, PTL

\* A rule the kernel took in this boot is in the database or on its way there, unless no
\* socket had room for its announcement, the process ended first, or the row was deleted,
\* whichever threads read each other's messages (nmjfilter.cpp:229, MyService.java:58).
THEOREM AddsNotLost == Spec => []AddsAreRecorded
  <1>1. IInv => AddsAreRecorded
    BY DEF IInv
  <1> QED BY <1>1, ServiceInvariant, PTL
-----------------------------------------------------------------------------
(* How many rows a rule can have.                                          *)

Inserting(r) == {t \in Thread : at[t] = "insert" /\ holds[t] = r}
Bounded(r) == rows[r] + Cardinality(Inserting(r)) <= Cardinality(Thread)

LEMMA ThreadsFinite == IsFiniteSet(Thread) /\ Cardinality(Thread) \in Nat
  BY ServiceAssumption, FS_Union, FS_CardinalityType DEF Thread

LEMMA InsertingFinite == ASSUME NEW T \in SUBSET Thread
                         PROVE  /\ IsFiniteSet(T) /\ Cardinality(T) \in Nat
                                /\ Cardinality(T) <= Cardinality(Thread)
  BY ThreadsFinite, FS_Subset, FS_CardinalityType

\* Neither more rows nor more threads about to insert one
LEMMA FewerRows == ASSUME IInv, TypeOK', NEW r \in Rule, Bounded(r),
                          rows'[r] <= rows[r], Inserting(r)' \subseteq Inserting(r)
                   PROVE  Bounded(r)'
  <1>1. IsFiniteSet(Inserting(r)) /\ Inserting(r) \subseteq Thread
    BY InsertingFinite DEF Inserting
  <1>2. /\ Cardinality(Inserting(r)') <= Cardinality(Inserting(r))
        /\ Cardinality(Inserting(r)') \in Nat /\ Cardinality(Inserting(r)) \in Nat
    BY <1>1, FS_Subset, FS_CardinalityType
  <1>3. rows[r] \in Nat /\ rows'[r] \in Nat
    BY DEF IInv, TypeOK
  <1> QED BY <1>2, <1>3, ThreadsFinite DEF Bounded

LEMMA CheckBounded == ASSUME IInv, TypeOK', NEW r \in Rule, Bounded(r), NEW t \in Thread, CheckRow(t)
                      PROVE  Bounded(r)'
  <1>1. CASE rows[holds[t]] = 0 /\ holds[t] = r
    <2>1. Inserting(r)' \subseteq Thread
      BY DEF Inserting
    <2>2. rows'[r] = 0
      BY <1>1 DEF CheckRow
    <2>3. Cardinality(Inserting(r)') \in Nat /\ Cardinality(Inserting(r)') <= Cardinality(Thread)
      BY <2>1, InsertingFinite
    <2> QED BY <2>2, <2>3, ThreadsFinite DEF Bounded
  <1>2. CASE rows[holds[t]] = 0 /\ holds[t] # r
    <2>1. at' = [at EXCEPT ![t] = "insert"] /\ UNCHANGED <<holds, rows>>
      BY <1>2 DEF CheckRow
    <2>2. Inserting(r)' \subseteq Inserting(r) /\ rows'[r] <= rows[r]
      BY <1>2, <2>1 DEF Inserting, IInv, TypeOK
    <2> QED BY <2>2, FewerRows
  <1>3. CASE rows[holds[t]] # 0
    <2>1. Finish(t) /\ UNCHANGED rows
      BY <1>3 DEF CheckRow
    <2>2. Inserting(r)' \subseteq Inserting(r) /\ rows'[r] <= rows[r]
      BY <2>1 DEF Inserting, Finish, Resting, IInv, TypeOK
    <2> QED BY <2>2, FewerRows
  <1> QED BY <1>1, <1>2, <1>3

LEMMA InsertBounded == ASSUME IInv, TypeOK', NEW r \in Rule, Bounded(r), NEW t \in Thread, InsertRow(t)
                       PROVE  Bounded(r)'
  <1>1. /\ Finish(t) /\ at[t] = "insert" /\ rows' = [rows EXCEPT ![holds[t]] = @ + 1]
        /\ rows \in [Rule -> Nat]
    BY DEF InsertRow, IInv, TypeOK
  <1>2. Inserting(r)' = Inserting(r) \ {t}
    BY <1>1 DEF Inserting, Finish, Resting, IInv, TypeOK
  <1>3. CASE holds[t] = r
    <2>1. t \in Inserting(r)
      BY <1>1, <1>3 DEF Inserting
    <2>2. IsFiniteSet(Inserting(r)) /\ Cardinality(Inserting(r)) \in Nat
      BY InsertingFinite DEF Inserting
    <2>3. Cardinality(Inserting(r)') = Cardinality(Inserting(r)) - 1
      BY <1>2, <2>1, <2>2, FS_RemoveElement
    <2>4. rows[r] \in Nat /\ rows'[r] = rows[r] + 1
      BY <1>1, <1>3
    <2> QED BY <2>2, <2>3, <2>4, ThreadsFinite DEF Bounded
  <1>4. CASE holds[t] # r
    BY <1>1, <1>2, <1>4, FewerRows
  <1> QED BY <1>3, <1>4

LEMMA BoundedStep == ASSUME IInv, TypeOK', [Next]_vars, NEW r \in Rule, Bounded(r) PROVE Bounded(r)'
  <1>1. ASSUME UNCHANGED <<rows, at, holds>> PROVE Bounded(r)'
    BY <1>1 DEF Bounded, Inserting
  <1>2. ASSUME NEW t \in Thread, SendRule(t) \/ Receive(t) \/ RunStep(t) PROVE Bounded(r)'
    <2>1. UNCHANGED rows /\ Inserting(r)' \subseteq Inserting(r)
      BY <1>2 DEF SendRule, Receive, RunStep, RunSender, Resting, Inserting, IInv, TypeOK
    <2> QED BY <2>1, FewerRows DEF IInv, TypeOK
  <1>3. ASSUME NEW t \in Thread, ThreadStep(t) \/ RunStep(t) PROVE Bounded(r)'
    BY <1>1, <1>2, <1>3, CheckBounded, InsertBounded DEF ThreadStep, ReceiveFails
  <1>4. ASSUME ProcessEnds PROVE Bounded(r)'
    <2>1. UNCHANGED rows /\ Inserting(r)' \subseteq Inserting(r)
      BY <1>4 DEF ProcessEnds, Inserting
    <2>2. rows'[r] <= rows[r]
      BY <2>1 DEF IInv, TypeOK
    <2> QED BY <2>2, <2>1, FewerRows
  <1>5. CASE Resend
    <2>1. PICK t \in Receiver : at' = [at EXCEPT ![t] = "receive"]
      BY <1>5 DEF Resend
    <2>2. UNCHANGED rows /\ Inserting(r)' \subseteq Inserting(r)
      BY <1>5, <2>1 DEF Resend, Inserting, IInv, TypeOK
    <2> QED BY <2>2, FewerRows DEF IInv, TypeOK
  <1>6. ASSUME NEW p \in Rule, DeleteRow(p) PROVE Bounded(r)'
    <2>1. rows'[r] <= rows[r] /\ Inserting(r)' \subseteq Inserting(r)
      BY <1>6 DEF DeleteRow, Inserting, IInv, TypeOK
    <2> QED BY <2>1, FewerRows
  <1>7. CASE OnStartCommand
    BY <1>1, <1>4, <1>7 DEF OnStartCommand
  <1>8. CASE UserStep
    BY <1>1, <1>6, <1>8 DEF UserStep, Launch, Click, ClearPackets
  <1>9. CASE SystemStep
    BY <1>1, <1>4, <1>9 DEF SystemStep, Destroy, Kill, StickyRestart, Reboot
  <1> QED BY <1>1, <1>3, <1>5, <1>7, <1>8, <1>9 DEF Next, Traffic, CreateStep, Connect, vars

\* However many threads run the callback's test-then-insert at the same time, a rule never
\* gets more rows than there are threads to run it (MyService.java:58).
THEOREM RowsBounded == Spec => []RowsBoundedByThreads
  <1> DEFINE AllBounded == \A r \in Rule : Bounded(r)
  <1>1. Init => AllBounded
    <2> SUFFICES ASSUME Init, NEW r \in Rule PROVE Bounded(r)
      OBVIOUS
    <2>1. Inserting(r) = {} /\ rows[r] = 0
      BY DEF Init, Inserting
    <2> QED BY <2>1, FS_EmptySet, ThreadsFinite DEF Bounded
  <1>2. IInv /\ AllBounded /\ [Next]_vars => AllBounded'
    BY TypeStep, BoundedStep
  <1>3. IInv /\ AllBounded => RowsBoundedByThreads
    BY DEF IInv, RowsBoundedByThreads, Bounded, Inserting
  <1> QED BY <1>1, <1>2, <1>3, ServiceInvariant, PTL DEF Spec
=============================================================================
