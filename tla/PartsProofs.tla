---------------------------- MODULE PartsProofs ----------------------------
(***************************************************************************)
(* Theorems about the parts that PartsSpec brings together, one section    *)
(* each: an inductive invariant of the part, that its initial states have  *)
(* it and that its steps keep it.  The last section lifts them: a step of  *)
(* PartsNext is a step of one part and leaves the state of the others.     *)
(*                                                                         *)
(*   sockets   StatesAgree with LockHasPort, WaitersKnow and UpOK          *)
(*   stack     StackIInv: the frames alternate between entry and driver,   *)
(*             and the owned locks are those of the frames in a driver     *)
(*   flags     FlagsIInv: until a counter is at its roof it counts its     *)
(*             holders modulo the width, with the flag of gflags           *)
(*   features  BitsIInv: a linked pair that disagrees about LRO is owed a  *)
(*             visit by a call that is under way                           *)
(*   stamps    StampsIInv: what the work has taken, it still owes the key  *)
(*   merge     MergeIInv: the held packets are apart in flow and age, and  *)
(*             behind what has been delivered of their flow                *)
(*   queues    QueuesIInv: what is behind the last queue is left only      *)
(*             while a task still waits for the senders                    *)
(*   receive   ReceiveIInv: the packet type that is pending is linked or   *)
(*             waited for, and the only one met that was offered nothing   *)
(*   flows     FlowsIInv: the tail an entry recorded is ahead of its CPU's *)
(*             head by at least the place of the flow's last packet        *)
(***************************************************************************)
EXTENDS Parts, SeqOps, Integers, FiniteSetTheorems, SequenceTheorems, WellFoundedInduction,
        TLAPS
-----------------------------------------------------------------------------
(* IPv4 sockets                                                            *)

\* A locked port is a port.
LockHasPort == bindLock => num # NoPort

\* Nobody begins to wait on a listening socket; only stream sockets are waited on, and
\* only those of datagrams are connected in two steps.
WaitersKnow == \A t \in Thread : /\ pc[t] = "wait" => Stream /\ (sk = "listen" => relisten)
                                 /\ pc[t] \in {"autobind", "connect"} => ~Stream

\* TCP is past the SYNs of a connection that was up, or of one whose sending side was
\* shut down while SYNs crossed.
UpOK == Stream => /\ sk = "established" => up
                  /\ sk = "closing" => up \/ "snd" \in shut

SocketIInv == TypeOK /\ StatesAgree /\ LockHasPort /\ WaitersKnow /\ UpOK

LEMMA InitOK == ASSUME Init PROVE SocketIInv
  BY SocketAssumption DEF Init, SocketIInv, TypeOK, StatesAgree, LockHasPort, WaitersKnow,
                          UpOK, SkStates, SynStates, Stream

LEMMA BindOK == ASSUME SocketIInv, NEW t \in Thread, NEW p \in Port \cup {NoPort}, Bind(t, p)
                PROVE  SocketIInv'
  <1>1. TypeOK'
    BY DEF SocketIInv, TypeOK, Bind, GetPort
  <1>2. StatesAgree' /\ WaitersKnow' /\ UpOK'
    BY DEF SocketIInv, Bind, StatesAgree, WaitersKnow, UpOK, Stream
  <1>3. LockHasPort'
    BY DEF SocketIInv, LockHasPort, Bind
  <1> QED BY <1>1, <1>2, <1>3 DEF SocketIInv

LEMMA AutobindOK == ASSUME SocketIInv, NEW t \in Thread, NeedsPort(t) \/ Autobind(t)
                    PROVE  SocketIInv'
  <1>1. TypeOK'
    BY DEF SocketIInv, TypeOK, NeedsPort, Autobind, GetPort
  <1>2. StatesAgree' /\ WaitersKnow' /\ UpOK'
    BY DEF SocketIInv, TypeOK, NeedsPort, Autobind, StatesAgree, WaitersKnow, UpOK,
           Stream
  <1>3. LockHasPort'
    BY DEF SocketIInv, LockHasPort, NeedsPort, Autobind
  <1> QED BY <1>1, <1>2, <1>3 DEF SocketIInv

LEMMA DgramConnectOK == ASSUME SocketIInv, NEW t \in Thread, DgramConnect(t) \/ DgramUnspec(t)
                        PROVE  SocketIInv'
  <1>1. TypeOK'
    BY DEF SocketIInv, TypeOK, SkStates, SynStates, DgramConnect, DgramUnspec, PutPort
  <1>2. ~Stream /\ type' = type
    BY DEF SocketIInv, WaitersKnow, DgramConnect, DgramUnspec
  <1>3. StatesAgree' /\ UpOK'
    BY <1>2 DEF StatesAgree, UpOK, Stream
  <1>4. LockHasPort'
    BY DEF SocketIInv, LockHasPort, DgramConnect, DgramUnspec, PutPort
  <1>5. WaitersKnow'
    BY <1>2 DEF SocketIInv, TypeOK, WaitersKnow, DgramConnect, DgramUnspec, Stream
  <1> QED BY <1>1, <1>3, <1>4, <1>5 DEF SocketIInv

LEMMA ListenOK == ASSUME SocketIInv, NEW t \in Thread, Listen(t) PROVE SocketIInv'
  <1>1. TypeOK'
    BY DEF SocketIInv, TypeOK, SkStates, SynStates, Listen, MayListen
  <1>2. StatesAgree' /\ LockHasPort' /\ UpOK'
    BY SocketAssumption DEF SocketIInv, TypeOK, StatesAgree, LockHasPort, UpOK, Listen,
                            MayListen, Stream
  <1>3. WaitersKnow'
    BY DEF SocketIInv, WaitersKnow, Listen, MayListen, Waiting, Stream
  <1> QED BY <1>1, <1>2, <1>3 DEF SocketIInv

\* What the end of connect needs of the socket it finds, and keeps
LEMMA FinishOK ==
    ASSUME SocketIInv, Stream, NEW t \in Thread, Finish(t), UNCHANGED <<type, bindLock>>,
           sk \notin SynStates, sk = "listen" => relisten,
           pc' = pc \/ pc' = [pc EXCEPT ![t] = "idle"]
    PROVE  SocketIInv'
  <1>1. TypeOK'
    BY DEF SocketIInv, TypeOK, SkStates, SynStates, Finish, Disconnect, PutPort, Answer
  <1>2. StatesAgree' /\ UpOK'
    BY DEF SocketIInv, TypeOK, SkStates, SynStates, StatesAgree, UpOK, Finish, Disconnect, Stream
  <1>3. LockHasPort'
    BY DEF SocketIInv, LockHasPort, Finish, Disconnect, PutPort
  <1>4. WaitersKnow'
    BY DEF SocketIInv, TypeOK, WaitersKnow, Finish, Disconnect, Stream
  <1> QED BY <1>1, <1>2, <1>3, <1>4 DEF SocketIInv

LEMMA ConnectOK == ASSUME SocketIInv, NEW t \in Thread, Connect(t) PROVE SocketIInv'
  <1>1. TypeOK'
    BY DEF SocketIInv, TypeOK, SkStates, SynStates, Connect, Answer
  <1>2. StatesAgree' /\ LockHasPort' /\ UpOK'
    BY SocketAssumption DEF SocketIInv, TypeOK, StatesAgree, LockHasPort, UpOK, Connect, Stream
  <1>3. WaitersKnow'
    BY DEF SocketIInv, TypeOK, WaitersKnow, Connect, Stream
  <1> QED BY <1>1, <1>2, <1>3 DEF SocketIInv

LEMMA ConnectAgainOK == ASSUME SocketIInv, NEW t \in Thread, ConnectAgain(t) PROVE SocketIInv'
  <1>1. CASE sk \in SynStates
    BY <1>1 DEF SocketIInv, TypeOK, SynStates, StatesAgree, LockHasPort, WaitersKnow, UpOK,
                ConnectAgain, Answer, Stream
  <1>2. CASE sk \notin SynStates
    <2>1. Stream /\ Finish(t) /\ UNCHANGED <<type, bindLock>> /\ pc' = pc
      BY <1>2 DEF ConnectAgain
    <2>2. sk = "listen" => relisten
      BY DEF SocketIInv, StatesAgree, ConnectAgain
    <2> QED BY <1>2, <2>1, <2>2, FinishOK
  <1> QED BY <1>1, <1>2

LEMMA WakeOK == ASSUME SocketIInv, NEW t \in Thread, Wake(t) PROVE SocketIInv'
  <1>1. CASE Answer(t, "interrupted") /\ UNCHANGED <<state, sk, num, shut, relisten, up>>
    BY <1>1 DEF SocketIInv, TypeOK, StatesAgree, LockHasPort, WaitersKnow, UpOK, Wake, Answer,
                Stream
  <1>2. CASE sk \notin SynStates /\ Finish(t)
    <2>1. Stream /\ (sk = "listen" => relisten)
      BY DEF SocketIInv, WaitersKnow, Wake
    <2>2. UNCHANGED <<type, bindLock>> /\ pc' = [pc EXCEPT ![t] = "idle"]
      BY DEF Wake
    <2> QED BY <1>2, <2>1, <2>2, FinishOK
  <1> QED BY <1>1, <1>2 DEF Wake

LEMMA ConnectUnspecOK == ASSUME SocketIInv, NEW t \in Thread, ConnectUnspec(t) PROVE SocketIInv'
  BY DEF SocketIInv, TypeOK, StatesAgree, LockHasPort, WaitersKnow, UpOK, SkStates, ConnectUnspec,
         Disconnect, PutPort, Stream

LEMMA ShutdownOK == ASSUME SocketIInv, NEW t \in Thread, NEW how \in SUBSET {"rcv", "snd"},
                           Shutdown(t, how)
                    PROVE  SocketIInv'
  <1>1. TypeOK'
    BY DEF SocketIInv, TypeOK, SkStates, SynStates, Shutdown, ShutState, Disconnect, PutPort
  <1>2. StatesAgree' /\ UpOK'
    BY DEF SocketIInv, TypeOK, SkStates, SynStates, StatesAgree, UpOK, Shutdown, ShutState,
           Disconnect, Stream
  <1>3. LockHasPort'
    BY DEF SocketIInv, LockHasPort, Shutdown, Disconnect, PutPort
  <1>4. WaitersKnow'
    BY DEF SocketIInv, TypeOK, WaitersKnow, Shutdown, Disconnect, Stream
  <1> QED BY <1>1, <1>2, <1>3, <1>4 DEF SocketIInv

LEMMA TcpOK == ASSUME SocketIInv, SynsCross \/ Established \/ PeerCloses \/ Reset PROVE SocketIInv'
  <1>1. TypeOK'
    BY DEF SocketIInv, TypeOK, SkStates, SynStates, SynsCross, Established, PeerCloses, Reset, Tcp,
           PutPort
  <1>2. StatesAgree' /\ LockHasPort' /\ UpOK'
    BY DEF SocketIInv, TypeOK, SynStates, StatesAgree, LockHasPort, UpOK, SynsCross, Established,
           PeerCloses, Reset, Tcp, PutPort,
           Stream
  <1>3. WaitersKnow'
    BY DEF SocketIInv, SynStates, WaitersKnow, SynsCross, Established, PeerCloses, Reset, Tcp,
           Stream
  <1> QED BY <1>1, <1>2, <1>3 DEF SocketIInv

LEMMA StepOK == ASSUME SocketIInv, [Next]_vars PROVE SocketIInv'
  <1>1. ASSUME NEW t \in Thread, Call(t) PROVE SocketIInv'
    BY <1>1, BindOK, AutobindOK, DgramConnectOK, ListenOK, ConnectOK, ConnectAgainOK, WakeOK,
       ConnectUnspecOK, ShutdownOK DEF Call
  <1>2. CASE UNCHANGED vars
    BY <1>2 DEF vars, SocketIInv, TypeOK, StatesAgree, LockHasPort, WaitersKnow, UpOK, Stream
  <1> QED BY <1>1, <1>2, TcpOK DEF Next

\* The invariant holds in every state of every behaviour (src/af_inet.c).
THEOREM SocketInvariant == Spec => []SocketIInv
  <1>1. Init => SocketIInv
    BY InitOK
  <1>2. SocketIInv /\ [Next]_vars => SocketIInv'
    BY StepOK
  <1> QED BY <1>1, <1>2, PTL DEF Spec
\* sock->state and sk->sk_state go together whenever the socket's lock is free, whatever
\* several threads and TCP do to it, SYNs that cross included (src/af_inet.c:220, 569, 606,
\* 651, 819, 842).
THEOREM StatesGoTogether == Spec => []StatesAgree
  <1>1. SocketIInv => StatesAgree
    BY DEF SocketIInv
  <1> QED BY <1>1, SocketInvariant, PTL

\* A socket's port stays until the protocol gives it up, one the program chose until the
\* end (src/af_inet.c:197, 510).
THEOREM PortsStay == Spec => PortStays
  <1> DEFINE Stays == /\ num # NoPort => num' \in {num, NoPort}
                      /\ bindLock => num' = num
  <1>1. ASSUME SocketIInv, [Next]_vars PROVE Stays
    <2>1. ASSUME NEW t \in Thread, Call(t) PROVE Stays
      BY <1>1, <2>1 DEF SocketIInv, LockHasPort, Call, Bind, NeedsPort, Autobind, DgramConnect,
         DgramUnspec, Listen, Connect, ConnectAgain, Finish, Wake, ConnectUnspec, Shutdown,
         Disconnect, PutPort, GetPort
    <2>2. ASSUME SynsCross \/ Established \/ PeerCloses \/ Reset PROVE Stays
      BY <2>2 DEF SynsCross, Established, PeerCloses, Reset, PutPort
    <2>3. CASE UNCHANGED vars
      BY <2>3 DEF vars
    <2> QED BY <1>1, <2>1, <2>2, <2>3 DEF Next
  <1>2. SocketIInv /\ [Next]_vars => [Stays]_vars
    BY <1>1
  <1> QED BY <1>2, SocketInvariant, PTL DEF Spec, PortStays

\* connect answers 0 for a connection that was made, and for none else but the listener
\* another thread has made of the socket meanwhile, and the connection whose sending side
\* another thread has shut down while SYNs crossed (src/af_inet.c:569, 651, 832).
THEOREM ConnectIsTrue == Spec => ConnectTellsTruth
  <1> DEFINE Tells == \A t \in Thread : answer[t] # "ok" /\ answer'[t] = "ok" /\ ~relisten
                        => /\ sk \in {"established", "closing"} /\ state' = "connected"
                           /\ up \/ "snd" \in shut
  <1>1. ASSUME SocketIInv, [Next]_vars PROVE Tells
    <2>1. ASSUME NEW t \in Thread, Stream, Finish(t), sk \notin SynStates,
                 sk = "listen" => relisten
          PROVE  Tells
      BY <1>1, <2>1 DEF SocketIInv, TypeOK, SkStates, UpOK, Finish, Answer
    <2>2. ASSUME NEW t \in Thread, NEW a \in {"none", "error", "in_progress", "already",
                                              "interrupted"}, Answer(t, a)
          PROVE  Tells
      BY <1>1, <2>2 DEF SocketIInv, TypeOK, Answer
    <2>3. ASSUME UNCHANGED answer PROVE Tells
      BY <2>3
    <2>4. ASSUME NEW t \in Thread, Connect(t) PROVE Tells
      BY <2>2, <2>4 DEF Connect
    <2>5. ASSUME NEW t \in Thread, ConnectAgain(t) PROVE Tells
      BY <1>1, <2>1, <2>2, <2>5 DEF SocketIInv, StatesAgree, ConnectAgain
    <2>6. ASSUME NEW t \in Thread, Wake(t) PROVE Tells
      BY <1>1, <2>1, <2>2, <2>6 DEF SocketIInv, WaitersKnow, Wake
    <2>7. ASSUME NEW t \in Thread, Call(t) PROVE Tells
      BY <2>3, <2>4, <2>5, <2>6, <2>7 DEF Call, Bind, NeedsPort, Autobind, DgramConnect,
         DgramUnspec, Listen, ConnectUnspec, Shutdown
    <2> QED BY <1>1, <2>3, <2>7 DEF Next, SynsCross, Established, PeerCloses, Reset, Tcp, vars
  <1>2. SocketIInv /\ [Next]_vars => [Tells]_vars
    BY <1>1
  <1> QED BY <1>2, SocketInvariant, PTL DEF Spec, ConnectTellsTruth
-----------------------------------------------------------------------------
(* The stack of drivers                                                    *)

LEMMA FrontAndLast == ASSUME NEW S, NEW s \in Seq(S), s # <<>>
                      PROVE  /\ Stack!Front(s) \in Seq(S) /\ Len(Stack!Front(s)) = Len(s) - 1
                             /\ \A i \in 1 .. Len(s) - 1 : Stack!Front(s)[i] = s[i]
                             /\ Stack!Last(s) = s[Len(s)] /\ Stack!Last(s) \in S
                             /\ Len(s) \in Nat \ {0}
<1>1. Len(s) \in Nat \ {0} /\ Stack!Last(s) = s[Len(s)] /\ Stack!Last(s) \in S
  BY DEF Stack!Last
<1>2. Stack!Front(s) = SubSeq(s, 1, Len(s) - 1)
  BY DEF Stack!Front
<1>3. \A k \in 1 .. Len(s) - 1 : s[k] \in S
  BY <1>1
<1>4. /\ SubSeq(s, 1, Len(s) - 1) \in Seq(S)
      /\ Len(SubSeq(s, 1, Len(s) - 1)) = IF 1 <= Len(s) - 1 THEN Len(s) - 1 - 1 + 1 ELSE 0
      /\ \A i \in 1 .. Len(s) - 1 - 1 + 1 : SubSeq(s, 1, Len(s) - 1)[i] = s[1 + i - 1]
  BY <1>1, <1>3, SubSeqProperties
<1>5. \A i \in 1 .. Len(s) - 1 : SubSeq(s, 1, Len(s) - 1)[i] = s[i]
  <2>1. \A i \in 1 .. Len(s) - 1 : i \in 1 .. Len(s) - 1 - 1 + 1 /\ 1 + i - 1 = i
    BY <1>1
  <2> QED
    BY <1>4, <2>1
<1>6. Len(SubSeq(s, 1, Len(s) - 1)) = Len(s) - 1
  <2>1. ASSUME NEW n \in Nat \ {0} PROVE (IF 1 <= n - 1 THEN n - 1 - 1 + 1 ELSE 0) = n - 1
    OBVIOUS
  <2> QED
    BY <1>1, <1>4, <2>1
<1> QED
  BY <1>1, <1>2, <1>4, <1>5, <1>6

Frame == [dev : StackDev, list : Seq(Stack!Packet), in : {"entry", "driver"}]

StackTypeOK == /\ frames \in Seq(Frame) /\ recursion \in Nat
               /\ owned \subseteq StackDev /\ stopped \subseteq StackDev

\* The drivers on the stack are below one call that has not got to its driver, if any;
\* that call has one packet.
StackShape == /\ recursion <= RecursionLimit + 1
              /\ Len(frames) = recursion \/ Len(frames) = recursion + 1
              /\ \A i \in 1 .. Len(frames) : /\ frames[i].in = "driver" <=> i <= recursion
                                             /\ frames[i].in = "entry" => Len(frames[i].list) = 1

\* A CPU is inside the driver of a device once, unless the driver takes no lock.
OwnedOK == /\ \A i, j \in 1 .. recursion : frames[i].dev = frames[j].dev /\ i # j
                                               => frames[i].dev \in Lltx
           /\ owned = {frames[i].dev : i \in 1 .. recursion} \ Lltx

ListsOK == \A i \in 1 .. recursion : \A k \in 1 .. Len(frames[i].list) :
               frames[i].list[k] \subseteq StackHas[frames[i].dev]

StackIInv == StackTypeOK /\ StackShape /\ OwnedOK /\ ListsOK

LEMMA StackInit == ASSUME Stack!XmitStackAssumption, Stack!Init PROVE StackIInv
  BY DEF Stack!Init, StackIInv, StackTypeOK, StackShape, OwnedOK, ListsOK, Stack!XmitStackAssumption

\* What validate_xmit_skb returns the device can send.
LEMMA ValidatedFits ==
  ASSUME Stack!XmitStackAssumption, NEW d \in StackDev, NEW packet \in Stack!Packet, NEW unfit,
         NEW segments \in Stack!Validated(packet, d, unfit)
  PROVE  segments \in Seq(Stack!Packet)
         /\ \A k \in 1 .. Len(segments) : segments[k] \subseteq StackHas[d]
<1> DEFINE fs == Stack!Features(packet, d, unfit)
           untagged == Stack!Untagged(packet, fs)
<1>1. fs \subseteq StackHas[d]
  BY DEF Stack!Features
<1>2. untagged \subseteq packet /\ ("vlan" \in untagged => "vlan" \in fs)
  BY DEF Stack!Untagged
<1>3. packet \subseteq {"gso", "partial", "frags", "vlan"}
  BY DEF Stack!Packet, Stack!Feature
<1>4. untagged \in Stack!Packet
  BY <1>2 DEF Stack!Packet
<1>5. "gso" \in untagged <=> "gso" \in packet
  BY DEF Stack!Untagged
<1>6. "partial" \in untagged <=> "partial" \in packet
  BY DEF Stack!Untagged
<1> HIDE DEF fs, untagged
<1>7. CASE segments = <<>>
  BY <1>7
<1>8. CASE segments = Stack!Segmented(untagged, fs)
  <2>1. segments \in Seq(Stack!Packet)
    BY <1>8, <1>4 DEF Stack!Segmented, Stack!Packet, Stack!XmitStackAssumption
  <2>2. Len(segments) = Segments
    BY <1>8 DEF Stack!Segmented, Stack!XmitStackAssumption
  <2>3. ASSUME NEW k \in 1 .. Len(segments) PROVE segments[k] \subseteq fs
    <3>1. segments[k] = (untagged \ {"gso"}) \ ({"partial", "frags"} \ fs)
      BY <2>2, <1>8 DEF Stack!Segmented
    <3> QED
      BY <3>1, <1>2, <1>3
  <2> QED
    BY <2>1, <2>3, <1>1
<1>9. CASE segments = Stack!Fitted(untagged, fs)
           /\ ("gso" \in packet => "gso" \in fs /\ "partial" \in packet)
  <2> DEFINE linear == IF "frags" \in fs THEN untagged ELSE untagged \ {"frags"}
  <2>1. linear \in Stack!Packet /\ ("frags" \in linear => "frags" \in fs)
           /\ linear \subseteq untagged
    BY <1>4 DEF Stack!Packet
  <2> HIDE DEF linear
  <2>2. CASE "partial" \notin untagged \ fs
    <3>1. segments = <<linear>>
      BY <2>2, <1>9 DEF Stack!Fitted, linear
    <3>2. linear \subseteq fs
      BY <2>1, <2>2, <1>2, <1>3, <1>5, <1>9
    <3> QED
      BY <3>1, <3>2, <2>1, <1>1
  <2>3. CASE "partial" \in untagged \ fs
    <3>1. CASE "gso" \in untagged
      BY <3>1, <2>3, <1>9 DEF Stack!Fitted
    <3>2. CASE "gso" \notin untagged
      <4>1. segments = <<linear \ {"partial"}>>
        BY <3>2, <2>3, <1>9 DEF Stack!Fitted, linear
      <4>2. linear \ {"partial"} \subseteq fs
        BY <2>1, <1>2, <1>3, <3>2
      <4> QED
        BY <4>1, <4>2, <2>1, <1>1 DEF Stack!Packet
    <3> QED
      BY <3>1, <3>2
  <2> QED
    BY <2>2, <2>3
<1> QED
  BY <1>7, <1>8, <1>9 DEF Stack!Validated, fs, untagged

LEMMA ListIsSeq ==
  ASSUME NEW S, NEW x \in S
  PROVE  <<x>> \in Seq(S) /\ Len(<<x>>) = 1 /\ <<x>>[1] = x
  OBVIOUS

LEMMA SendOK == ASSUME Stack!XmitStackAssumption, StackIInv, NEW d \in StackDev,
                       NEW packet \in Stack!Packet, Stack!Send(d, packet)
                PROVE  StackIInv'
<1>1. Stack!Call(d, packet) \in Frame /\ Stack!Call(d, packet).in = "entry"
      /\ Len(Stack!Call(d, packet).list) = 1
  BY DEF Stack!Call, Frame
<1>2. /\ frames' \in Seq(Frame) /\ Len(frames') = 1
      /\ frames'[1].in = "entry" /\ Len(frames'[1].list) = 1
  BY <1>1, ListIsSeq DEF Stack!Send
<1>3. recursion = 0 /\ owned = {}
  BY DEF Stack!Send, StackIInv, StackShape, OwnedOK, StackTypeOK
<1>4. StackTypeOK' /\ recursion' = 0 /\ owned' = {}
  BY <1>2, <1>3 DEF Stack!Send, StackIInv, StackTypeOK
<1> QED
  BY <1>2, <1>3, <1>4 DEF Stack!XmitStackAssumption, StackIInv, StackShape, OwnedOK, ListsOK

\* What the last frame and the others are.
LEMMA TopIs == ASSUME StackIInv, frames # <<>>
               PROVE  /\ Len(frames) \in Nat \ {0} /\ Stack!Top = frames[Len(frames)]
                      /\ Stack!Top \in Frame
                      /\ Stack!Below \in Seq(Frame) /\ Len(Stack!Below) = Len(frames) - 1
                      /\ \A i \in 1 .. Len(frames) - 1 : Stack!Below[i] = frames[i]
                      /\ Stack!Top.in = "entry" => Len(frames) = recursion + 1
                            /\ Len(Stack!Top.list) = 1
                      /\ Stack!Top.in = "driver" => Len(frames) = recursion
<1>1. frames \in Seq(Frame) /\ recursion \in Nat
  BY DEF StackIInv, StackTypeOK
<1>2. /\ Stack!Below \in Seq(Frame) /\ Len(Stack!Below) = Len(frames) - 1
      /\ \A i \in 1 .. Len(frames) - 1 : Stack!Below[i] = frames[i]
      /\ Stack!Top = frames[Len(frames)] /\ Stack!Top \in Frame /\ Len(frames) \in Nat \ {0}
  BY <1>1, FrontAndLast DEF Stack!Top, Stack!Below
<1>3. Stack!Top.in = "entry" => Len(frames) = recursion + 1 /\ Len(Stack!Top.list) = 1
  BY <1>1, <1>2 DEF StackIInv, StackShape
<1>4. Stack!Top.in = "driver" => Len(frames) = recursion
  BY <1>1, <1>2 DEF StackIInv, StackShape
<1> QED
  BY <1>2, <1>3, <1>4

LEMMA RefuseOK == ASSUME StackIInv, Stack!Refuse PROVE StackIInv'
<1>1. /\ frames' = Stack!Below /\ UNCHANGED <<recursion, owned, stopped>>
      /\ Len(frames) = recursion + 1
  BY TopIs DEF Stack!Refuse
<1>2. frames' \in Seq(Frame) /\ Len(frames') = recursion
  BY <1>1, TopIs DEF Stack!Refuse, StackIInv, StackTypeOK
<1>3. \A i \in 1 .. recursion : frames'[i] = frames[i]
  <2>1. frames # <<>> /\ recursion \in Nat
    BY DEF Stack!Refuse, StackIInv, StackTypeOK
  <2>2. \A i \in 1 .. Len(frames) - 1 : Stack!Below[i] = frames[i]
    BY <2>1, TopIs
  <2> QED
    BY <2>1, <2>2, <1>1
<1>4. StackTypeOK'
  BY <1>1, <1>2 DEF StackIInv, StackTypeOK
<1>5. StackShape'
  BY <1>1, <1>2, <1>3 DEF StackIInv, StackShape, StackTypeOK
<1>6. OwnedOK'
  BY <1>1, <1>2, <1>3 DEF StackIInv, OwnedOK
<1>7. ListsOK'
  BY <1>1, <1>2, <1>3 DEF StackIInv, ListsOK
<1> QED
  BY <1>4, <1>5, <1>6, <1>7 DEF StackIInv

LEMMA EnterOK == ASSUME Stack!XmitStackAssumption, StackIInv, Stack!Enter PROVE StackIInv'
<1> DEFINE n == Len(frames)
<1>1. /\ frames # <<>> /\ Stack!Top.in = "entry" /\ stopped' = stopped
      /\ Stack!Top.dev \notin stopped \cup owned /\ recursion <= RecursionLimit
  BY DEF Stack!Enter, Stack!MayRecurse
<1>2. /\ n = recursion + 1 /\ n \in Nat /\ Stack!Top \in Frame /\ Len(Stack!Top.list) = 1
      /\ Stack!Top = frames[n] /\ Stack!Below \in Seq(Frame) /\ Len(Stack!Below) = recursion
      /\ \A i \in 1 .. recursion : Stack!Below[i] = frames[i]
  BY <1>1, TopIs DEF StackIInv, StackTypeOK
<1>3. Head(Stack!Top.list) \in Stack!Packet /\ Stack!Top.dev \in StackDev
  BY <1>2 DEF Frame
<1> HIDE DEF n
<1>4. PICK unfit \in {{}, {"gso"}, {"partial"}, {"frags"}} :
        \E segments \in Stack!Validated(Head(Stack!Top.list), Stack!Top.dev, unfit) :
                IF segments = <<>>
                THEN frames' = Stack!Below /\ UNCHANGED <<recursion, owned>>
                ELSE /\ frames' = Append(Stack!Below, [Stack!Top EXCEPT !.list = segments, !.in = "driver"])
                     /\ recursion' = recursion + 1
                     /\ owned' = IF Stack!Top.dev \in Lltx THEN owned
                           ELSE owned \cup {Stack!Top.dev}
  BY DEF Stack!Enter
<1>5. PICK segments \in Stack!Validated(Head(Stack!Top.list), Stack!Top.dev, unfit) :
                IF segments = <<>>
                THEN frames' = Stack!Below /\ UNCHANGED <<recursion, owned>>
                ELSE /\ frames' = Append(Stack!Below, [Stack!Top EXCEPT !.list = segments, !.in = "driver"])
                     /\ recursion' = recursion + 1
                     /\ owned' = IF Stack!Top.dev \in Lltx THEN owned
                           ELSE owned \cup {Stack!Top.dev}
  BY <1>4
<1>6. segments \in Seq(Stack!Packet)
      /\ \A k \in 1 .. Len(segments) : segments[k] \subseteq StackHas[Stack!Top.dev]
  BY <1>3, ValidatedFits
<1>7. CASE segments = <<>>
  <2>1. /\ frames' \in Seq(Frame) /\ Len(frames') = recursion
        /\ UNCHANGED <<recursion, owned, stopped>>
        /\ \A i \in 1 .. recursion : frames'[i] = frames[i]
    BY <1>1, <1>2, <1>5, <1>7
  <2>2. StackTypeOK' /\ StackShape'
    BY <2>1, <1>2 DEF StackIInv, StackTypeOK, StackShape, n
  <2>3. OwnedOK' /\ ListsOK'
    BY <2>1 DEF StackIInv, OwnedOK, ListsOK
  <2> QED
    BY <2>2, <2>3 DEF StackIInv
<1>8. CASE segments # <<>>
  <2> DEFINE top == [Stack!Top EXCEPT !.list = segments, !.in = "driver"]
  <2>1. top \in Frame /\ top.dev = Stack!Top.dev /\ top.list = segments /\ top.in = "driver"
    BY <1>2, <1>6 DEF Frame
  <2>2. frames' = Append(Stack!Below, top) /\ recursion' = n
    BY <1>5, <1>8, <1>2
  <2> HIDE DEF top
  <2>3. frames' \in Seq(Frame) /\ Len(frames') = n /\ frames'[n] = top
    BY <2>1, <2>2, <1>2
  <2>4. \A i \in 1 .. recursion : frames'[i] = frames[i]
    BY <2>1, <2>2, <1>2
  <2>5. owned' = IF Stack!Top.dev \in Lltx THEN owned ELSE owned \cup {Stack!Top.dev}
    BY <1>5, <1>8
  <2>6. StackTypeOK'
    BY <2>3, <2>2, <2>5, <1>1, <1>2, <1>3 DEF StackIInv, StackTypeOK
  <2>7. recursion \in Nat /\ RecursionLimit \in Nat /\ n = recursion + 1 /\ recursion' = n
    BY <1>2, <2>2 DEF StackIInv, StackTypeOK, Stack!XmitStackAssumption
  <2>8. \A i \in 1 .. n : frames'[i].in = "driver"
    BY <2>3, <2>4, <2>7, <2>1, <1>2 DEF StackIInv, StackShape, n
  <2>9. StackShape'
    BY <2>3, <2>7, <2>8, <1>1 DEF StackShape
  <2>10. \A i \in 1 .. recursion : frames'[i].dev = Stack!Top.dev => Stack!Top.dev \in Lltx
    BY <2>4, <1>1 DEF StackIInv, OwnedOK
  <2>11. \A i, j \in 1 .. n : frames'[i].dev = frames'[j].dev /\ i # j => frames'[i].dev \in Lltx
    BY <2>3, <2>4, <2>1, <2>7, <2>10 DEF StackIInv, OwnedOK
  <2>12. {frames'[i].dev : i \in 1 .. n} = {frames[i].dev : i \in 1 .. recursion} \cup {Stack!Top.dev}
    BY <2>3, <2>4, <2>1, <2>7
  <2>13. OwnedOK'
    BY <2>7, <2>11, <2>12, <2>5 DEF StackIInv, OwnedOK
  <2>14. ListsOK'
    <3>1. ASSUME NEW i \in 1 .. n, NEW k \in 1 .. Len(frames'[i].list)
          PROVE  frames'[i].list[k] \subseteq StackHas[frames'[i].dev]
      <4>1. CASE i = n
        BY <4>1, <2>1, <2>3, <1>6
      <4>2. CASE i \in 1 .. recursion
        BY <4>2, <2>4 DEF StackIInv, ListsOK
      <4> QED
        BY <4>1, <4>2, <2>7
    <3> QED
      BY <3>1, <2>7 DEF ListsOK
  <2> QED
    BY <2>6, <2>9, <2>13, <2>14 DEF StackIInv
<1> QED
  BY <1>7, <1>8

\* A driver has taken the first packet of its list.
LEMMA TakenOK ==
  ASSUME StackIInv, Stack!InDriver, UNCHANGED <<recursion, owned>>, stopped' \subseteq StackDev,
         frames' \in Seq(Frame), \/ Len(frames') = recursion
                                \/ /\ Len(frames') = recursion + 1
                                   /\ frames'[recursion + 1].in = "entry"
                                   /\ Len(frames'[recursion + 1].list) = 1,
         \A i \in 1 .. recursion - 1 : frames'[i] = frames[i],
         frames'[recursion] = [Stack!Top EXCEPT !.list = Tail(@)]
  PROVE  StackIInv'
<1>1. /\ recursion \in Nat \ {0} /\ Len(frames) = recursion /\ Stack!Top \in Frame
      /\ Stack!Top = frames[recursion] /\ Stack!Top.in = "driver" /\ Stack!Top.list # <<>>
  BY TopIs DEF Stack!InDriver, StackIInv, StackTypeOK
<1>2. /\ frames'[recursion].dev = frames[recursion].dev /\ frames'[recursion].in = "driver"
      /\ frames'[recursion].list = Tail(frames[recursion].list)
  BY <1>1 DEF Frame
<1>3. \A i \in 1 .. recursion : frames'[i].dev = frames[i].dev /\ frames'[i].in = frames[i].in
  <2>1. \A i \in 1 .. recursion : i = recursion \/ i \in 1 .. recursion - 1
    BY <1>1
  <2> QED
    BY <1>1, <1>2, <2>1
<1>4. StackTypeOK'
  BY DEF StackIInv, StackTypeOK
<1>5. StackShape'
  <2>1. \A i \in 1 .. recursion : frames'[i].in = "driver"
    BY <1>1, <1>3 DEF StackIInv, StackShape
  <2>2. CASE Len(frames') = recursion
    BY <2>1, <2>2, <1>1 DEF StackIInv, StackShape
  <2>3. CASE Len(frames') = recursion + 1
    <3>1. \A i \in 1 .. recursion + 1 : i \in 1 .. recursion
             \/ (i = recursion + 1 /\ ~(i <= recursion))
      BY <1>1
    <3>2. \A i \in 1 .. recursion : i <= recursion
      BY <1>1
    <3>3. \A i \in 1 .. Len(frames') : /\ frames'[i].in = "driver" <=> i <= recursion
                                       /\ frames'[i].in = "entry" => Len(frames'[i].list) = 1
      BY <2>3, <3>1, <3>2, <2>1, <1>1
    <3>4. recursion' = recursion /\ recursion <= RecursionLimit + 1
      BY DEF StackIInv, StackShape
    <3> QED
      BY <3>3, <3>4, <2>3 DEF StackShape
  <2> QED
    BY <2>2, <2>3
<1>6. OwnedOK'
  <2>1. {frames'[i].dev : i \in 1 .. recursion} = {frames[i].dev : i \in 1 .. recursion}
    BY <1>3
  <2> QED
    BY <2>1, <1>3 DEF StackIInv, OwnedOK
<1>7. ASSUME NEW k \in 1 .. Len(Tail(Stack!Top.list))
      PROVE  Tail(Stack!Top.list)[k] \subseteq StackHas[Stack!Top.dev]
  <2>1. Stack!Top.list \in Seq(Stack!Packet)
    BY <1>1 DEF Frame
  <2>2. k + 1 \in 1 .. Len(Stack!Top.list) /\ Tail(Stack!Top.list)[k] = Stack!Top.list[k + 1]
    BY <1>1, <2>1
  <2> QED
    BY <2>2, <1>1 DEF StackIInv, ListsOK
<1>8. ListsOK'
  <2>1. ASSUME NEW i \in 1 .. recursion, NEW k \in 1 .. Len(frames'[i].list)
        PROVE  frames'[i].list[k] \subseteq StackHas[frames'[i].dev]
    <3>1. CASE i = recursion
      BY <3>1, <1>1, <1>2, <1>7
    <3>2. CASE i \in 1 .. recursion - 1
      BY <3>2, <1>1 DEF StackIInv, ListsOK
    <3> QED
      BY <3>1, <3>2, <1>1
  <2> QED
    BY <2>1 DEF ListsOK
<1> QED
  BY <1>4, <1>5, <1>6, <1>8 DEF StackIInv

LEMMA ForwardOK ==
  ASSUME Stack!XmitStackAssumption, StackIInv, NEW d \in StackDev, Stack!Forward(d)
  PROVE  StackIInv'
<1> DEFINE top == [Stack!Top EXCEPT !.list = Tail(@)]
           call == Stack!Call(d, Head(Stack!Top.list))
<1>1. /\ recursion \in Nat \ {0} /\ Len(frames) = recursion /\ Stack!Top \in Frame
      /\ Stack!Top.list # <<>>
      /\ Stack!Below \in Seq(Frame) /\ Len(Stack!Below) = recursion - 1
      /\ \A i \in 1 .. recursion - 1 : Stack!Below[i] = frames[i]
  BY TopIs DEF Stack!Forward, Stack!InDriver, StackIInv, StackTypeOK
<1>2. top \in Frame
  <2>1. Stack!Top.list \in Seq(Stack!Packet) /\ Tail(Stack!Top.list) \in Seq(Stack!Packet)
    BY <1>1 DEF Frame
  <2> QED
    BY <1>1, <2>1 DEF Frame
<1>3. call \in Frame /\ call.in = "entry" /\ Len(call.list) = 1
  BY <1>1 DEF Stack!Call, Frame
<1>4. frames' = Append(Append(Stack!Below, top), call) /\ UNCHANGED <<recursion, owned, stopped>>
  BY DEF Stack!Forward
<1> HIDE DEF call, top
<1>5. /\ Append(Stack!Below, top) \in Seq(Frame) /\ Len(Append(Stack!Below, top)) = recursion
      /\ \A i \in 1 .. recursion - 1 : Append(Stack!Below, top)[i] = frames[i]
      /\ Append(Stack!Below, top)[recursion] = top
  BY <1>1, <1>2
<1>6. frames' \in Seq(Frame) /\ Len(frames') = recursion + 1 /\ frames'[recursion + 1] = call
  BY <1>3, <1>4, <1>5
<1>7. \A i \in 1 .. recursion - 1 : frames'[i] = frames[i]
  BY <1>1, <1>3, <1>4, <1>5
<1>8. frames'[recursion] = top
  BY <1>1, <1>3, <1>4, <1>5
<1>9. stopped' \subseteq StackDev
  BY <1>4 DEF StackIInv, StackTypeOK
<1>10. Stack!InDriver
  BY DEF Stack!Forward
<1> QED
  BY <1>3, <1>4, <1>6, <1>7, <1>8, <1>9, <1>10, TakenOK DEF top

LEMMA TakeOK == ASSUME StackIInv, NEW stops \in BOOLEAN, Stack!Take(stops) PROVE StackIInv'
<1> DEFINE top == [Stack!Top EXCEPT !.list = Tail(@)]
<1>1. /\ recursion \in Nat \ {0} /\ Len(frames) = recursion /\ Stack!Top \in Frame
      /\ Stack!Top.list # <<>>
      /\ Stack!Below \in Seq(Frame) /\ Len(Stack!Below) = recursion - 1
      /\ \A i \in 1 .. recursion - 1 : Stack!Below[i] = frames[i]
  BY TopIs DEF Stack!Take, Stack!InDriver, StackIInv, StackTypeOK
<1>2. top \in Frame
  <2>1. Stack!Top.list \in Seq(Stack!Packet) /\ Tail(Stack!Top.list) \in Seq(Stack!Packet)
    BY <1>1 DEF Frame
  <2> QED
    BY <1>1, <2>1 DEF Frame
<1>4. frames' = Append(Stack!Below, top) /\ UNCHANGED <<recursion, owned>>
  BY DEF Stack!Take
<1>5. stopped' \subseteq StackDev
  BY <1>1 DEF Stack!Take, StackIInv, StackTypeOK, Frame
<1> HIDE DEF top
<1>6. frames' \in Seq(Frame) /\ Len(frames') = recursion /\ frames'[recursion] = top
  BY <1>1, <1>2, <1>4
<1>7. \A i \in 1 .. recursion - 1 : frames'[i] = frames[i]
  BY <1>1, <1>2, <1>4
<1>8. Stack!InDriver
  BY DEF Stack!Take
<1> QED
  BY <1>4, <1>5, <1>6, <1>7, <1>8, TakenOK DEF top

LEMMA LeaveOK == ASSUME Stack!XmitStackAssumption, StackIInv, Stack!Leave PROVE StackIInv'
<1>1. /\ recursion \in Nat \ {0} /\ Len(frames) = recursion /\ Stack!Top \in Frame
      /\ Stack!Top = frames[recursion] /\ Stack!Below \in Seq(Frame)
      /\ Len(Stack!Below) = recursion - 1
      /\ \A i \in 1 .. recursion - 1 : Stack!Below[i] = frames[i]
  BY TopIs DEF Stack!Leave, StackIInv, StackTypeOK
<1>2. /\ frames' = Stack!Below /\ recursion' = recursion - 1 /\ owned' = owned \ {Stack!Top.dev}
      /\ stopped' = stopped
  BY DEF Stack!Leave
<1>3. StackTypeOK'
  BY <1>1, <1>2 DEF StackIInv, StackTypeOK
<1>4. StackShape'
  BY <1>1, <1>2 DEF StackIInv, StackShape, Stack!XmitStackAssumption
<1>5. \A i \in 1 .. recursion - 1 : frames[i].dev = Stack!Top.dev => Stack!Top.dev \in Lltx
  BY <1>1 DEF StackIInv, OwnedOK
<1>6. {frames[i].dev : i \in 1 .. recursion} = {frames[i].dev : i \in 1 .. recursion - 1} \cup {Stack!Top.dev}
  BY <1>1
<1>7. {frames'[i].dev : i \in 1 .. recursion - 1} = {frames[i].dev : i \in 1 .. recursion - 1}
  BY <1>1, <1>2
<1>8. owned' = {frames'[i].dev : i \in 1 .. recursion - 1} \ Lltx
  <2> DEFINE D == {frames[i].dev : i \in 1 .. recursion - 1}
  <2>1. owned = (D \cup {Stack!Top.dev}) \ Lltx
    BY <1>6 DEF StackIInv, OwnedOK
  <2>2. Stack!Top.dev \in D => Stack!Top.dev \in Lltx
    BY <1>5
  <2> HIDE DEF D
  <2>3. owned' = D \ Lltx
    BY <2>1, <2>2, <1>2
  <2> QED
    BY <2>3, <1>7 DEF D
<1>9. OwnedOK'
  BY <1>1, <1>2, <1>8 DEF StackIInv, OwnedOK
<1>10. ListsOK'
  BY <1>1, <1>2 DEF StackIInv, ListsOK
<1> QED
  BY <1>3, <1>4, <1>9, <1>10 DEF StackIInv

LEMMA StackStays == ASSUME StackIInv, UNCHANGED <<frames, recursion, owned>>,
                           stopped' \subseteq StackDev
                    PROVE  StackIInv'
  BY DEF StackIInv, StackTypeOK, StackShape, OwnedOK, ListsOK

LEMMA StackStep == ASSUME Stack!XmitStackAssumption, StackIInv, Stack!Next PROVE StackIInv'
<1>1. ASSUME NEW d \in StackDev, Stack!Start(d) PROVE StackIInv'
  BY <1>1, StackStays DEF Stack!Start, StackIInv, StackTypeOK
<1> QED
  BY <1>1, SendOK, ForwardOK, TakeOK, RefuseOK, EnterOK, LeaveOK DEF Stack!Next

LEMMA StackSound == ASSUME Stack!XmitStackAssumption, StackIInv PROVE Stack!XmitIsSound
<1>1. Stack!Driven = 1 .. recursion /\ recursion \in Nat /\ Len(frames) <= recursion + 1
  BY DEF StackIInv, StackTypeOK, StackShape, Stack!Driven
<1>2. Stack!Cardinality(Stack!Driven) = recursion
  <2>1. \A S : Stack!Cardinality(S) = Cardinality(S)
    BY DEF Stack!Cardinality, Cardinality
  <2> QED
    BY <1>1, <2>1, FS_Interval
<1>3. recursion <= RecursionLimit + 1 /\ Len(frames) <= RecursionLimit + 2
  BY <1>1 DEF StackIInv, StackShape, StackTypeOK, Stack!XmitStackAssumption
<1>4. Stack!StackIsBounded
  BY <1>1, <1>2, <1>3 DEF StackIInv, OwnedOK, Stack!StackIsBounded
<1>5. Stack!DriverCanSend
  BY <1>1 DEF StackIInv, ListsOK, Stack!DriverCanSend
<1> QED
  BY <1>4, <1>5 DEF Stack!XmitIsSound
-----------------------------------------------------------------------------
(* Flags                                                                   *)

\* The counters as their users see them: while none has touched the roof, they count up
\* and down without wrapping.
Count == 0 .. CountWidth - 1

LEMMA AddedUp == ASSUME Flags!RxModeAssumption, NEW n \in Count
                 PROVE  Flags!Added(n, Flags!Up) = IF n = CountWidth - 1 THEN 0 ELSE n + 1
  BY DEF Flags!RxModeAssumption, Count, Flags!Added, Flags!Up

LEMMA AddedDown == ASSUME Flags!RxModeAssumption, NEW n \in Count
                   PROVE  Flags!Added(n, Flags!Down) = IF n = 0 THEN CountWidth - 1 ELSE n - 1
  BY DEF Flags!RxModeAssumption, Count, Flags!Added, Flags!Down

LEMMA SmallMod == ASSUME Flags!RxModeAssumption, NEW n \in Count PROVE n % CountWidth = n
  BY DEF Flags!RxModeAssumption, Count

FlagsDevice == [up : BOOLEAN, start : BOOLEAN, present : BOOLEAN,
                promisc : BOOLEAN, promiscuity : Count, multi : BOOLEAN, allmulti : Count,
                gflags : SUBSET {"promisc", "multi"}, uc : BOOLEAN, ucPromisc : BOOLEAN]

\* d and e have the same flags, but for what the counters are about.
SameButCounts(d, e) == /\ e.up = d.up /\ e.start = d.start /\ e.present = d.present
                       /\ e.uc = d.uc /\ e.gflags = d.gflags

\* The counters of d count n and m holders, and whoever d counts itself.
PromiscRight(d, n) ==
    /\ d.promiscuity = n + Flags!Bit("promisc" \in d.gflags) + Flags!Bit(d.ucPromisc)
    /\ d.promisc <=> d.promiscuity > 0
MultiRight(d, m) == /\ d.allmulti = m + Flags!Bit("multi" \in d.gflags)
                    /\ d.multi <=> d.allmulti > 0

\* The addresses of a device that is up have been seen to.
Synced(d) == d.up /\ d.present /\ ~UnicastFlt => d.ucPromisc = d.uc

\* Nothing of __dev_set_rx_mode overflows, and a device that filters itself needs it not.
FltOK(d) == UnicastFlt => ~d.ucPromisc

PromiscOn(d, n) == [d EXCEPT !.promisc = TRUE, !.promiscuity = n]
PromiscOff(d) == [d EXCEPT !.promisc = FALSE, !.promiscuity = 0]
MultiOn(d, n) == [d EXCEPT !.multi = TRUE, !.allmulti = n]
MultiOff(d) == [d EXCEPT !.multi = FALSE, !.allmulti = 0]

\* What __dev_set_promiscuity and the counting half of __dev_set_allmulti do.
LEMMA SetPromiscuityIs ==
  ASSUME Flags!RxModeAssumption, NEW d \in FlagsDevice
  PROVE  /\ d.promiscuity = CountWidth - 1
            => Flags!SetPromiscuity(d, Flags!Up) = PromiscOn(d, d.promiscuity)
         /\ d.promiscuity # CountWidth - 1
            => Flags!SetPromiscuity(d, Flags!Up) = PromiscOn(d, d.promiscuity + 1)
         /\ d.promiscuity = 0 => Flags!SetPromiscuity(d, Flags!Down) = PromiscOn(d, CountWidth - 1)
         /\ d.promiscuity = 1 => Flags!SetPromiscuity(d, Flags!Down) = PromiscOff(d)
         /\ d.promiscuity > 1 => Flags!SetPromiscuity(d, Flags!Down) = PromiscOn(d, d.promiscuity - 1)
<1>1. d.promiscuity \in Count /\ CountWidth \in Nat /\ CountWidth > 2 /\ Flags!Up # Flags!Down
  BY DEF FlagsDevice, Flags!RxModeAssumption, Flags!Up, Flags!Down
<1>2. /\ Flags!Added(d.promiscuity, Flags!Up) = IF d.promiscuity = CountWidth - 1 THEN 0
            ELSE d.promiscuity + 1
      /\ Flags!Added(d.promiscuity, Flags!Down) = IF d.promiscuity = 0 THEN CountWidth - 1
            ELSE d.promiscuity - 1
  BY <1>1, AddedUp, AddedDown
<1>3. d.promiscuity \in Nat /\ d.promiscuity < CountWidth
  BY <1>1 DEF Count
<1>4. [d EXCEPT !.promisc = TRUE] = [d EXCEPT !.promisc = TRUE, !.promiscuity = d.promiscuity]
  BY DEF FlagsDevice
<1>5. ASSUME NEW inc
      PROVE  Flags!SetPromiscuity(d, inc)
             = IF Flags!Added(d.promiscuity, inc) # 0 THEN PromiscOn(d, Flags!Added(d.promiscuity, inc))
                                   ELSE IF inc = Flags!Down THEN PromiscOff(d)
                                   ELSE PromiscOn(d, d.promiscuity)
  BY <1>4 DEF Flags!SetPromiscuity, PromiscOn, PromiscOff
<1>6. CASE d.promiscuity = CountWidth - 1
  <2>1. Flags!Added(d.promiscuity, Flags!Up) = 0
        /\ Flags!Added(d.promiscuity, Flags!Down) = d.promiscuity - 1 /\ d.promiscuity > 1
    BY <1>1, <1>2, <1>3, <1>6
  <2>2. Flags!SetPromiscuity(d, Flags!Up) = PromiscOn(d, d.promiscuity)
    BY <1>1, <1>5, <2>1
  <2>3. Flags!SetPromiscuity(d, Flags!Down) = PromiscOn(d, d.promiscuity - 1)
    BY <1>3, <1>5, <2>1
  <2> QED
    BY <1>3, <1>6, <2>1, <2>2, <2>3
<1>7. CASE d.promiscuity # CountWidth - 1
  <2>1. Flags!Added(d.promiscuity, Flags!Up) = d.promiscuity + 1
    BY <1>1, <1>2, <1>3, <1>7
  <2>2. Flags!SetPromiscuity(d, Flags!Up) = PromiscOn(d, d.promiscuity + 1)
    BY <1>3, <1>5, <2>1
  <2>3. d.promiscuity = 0 => Flags!SetPromiscuity(d, Flags!Down) = PromiscOn(d, CountWidth - 1)
    BY <1>1, <1>2, <1>5
  <2>4. d.promiscuity = 1 => Flags!SetPromiscuity(d, Flags!Down) = PromiscOff(d)
    BY <1>1, <1>2, <1>5
  <2>5. d.promiscuity > 1 => Flags!SetPromiscuity(d, Flags!Down) = PromiscOn(d, d.promiscuity - 1)
    BY <1>1, <1>2, <1>3, <1>5
  <2> QED
    BY <1>7, <2>2, <2>3, <2>4, <2>5
<1> QED
  BY <1>6, <1>7

LEMMA SetAllmultiCountIs ==
  ASSUME Flags!RxModeAssumption, NEW d \in FlagsDevice
  PROVE  /\ d.allmulti = CountWidth - 1
            => Flags!SetAllmultiCount(d, Flags!Up) = MultiOn(d, d.allmulti)
         /\ d.allmulti # CountWidth - 1
            => Flags!SetAllmultiCount(d, Flags!Up) = MultiOn(d, d.allmulti + 1)
         /\ d.allmulti = 0 => Flags!SetAllmultiCount(d, Flags!Down) = MultiOn(d, CountWidth - 1)
         /\ d.allmulti = 1 => Flags!SetAllmultiCount(d, Flags!Down) = MultiOff(d)
         /\ d.allmulti > 1 => Flags!SetAllmultiCount(d, Flags!Down) = MultiOn(d, d.allmulti - 1)
<1>1. d.allmulti \in Count /\ CountWidth \in Nat /\ CountWidth > 2 /\ Flags!Up # Flags!Down
  BY DEF FlagsDevice, Flags!RxModeAssumption, Flags!Up, Flags!Down
<1>2. /\ Flags!Added(d.allmulti, Flags!Up) = IF d.allmulti = CountWidth - 1 THEN 0
            ELSE d.allmulti + 1
      /\ Flags!Added(d.allmulti, Flags!Down) = IF d.allmulti = 0 THEN CountWidth - 1
            ELSE d.allmulti - 1
  BY <1>1, AddedUp, AddedDown
<1>3. d.allmulti \in Nat /\ d.allmulti < CountWidth
  BY <1>1 DEF Count
<1>4. [d EXCEPT !.multi = TRUE] = [d EXCEPT !.multi = TRUE, !.allmulti = d.allmulti]
  BY DEF FlagsDevice
<1>5. ASSUME NEW inc
      PROVE  Flags!SetAllmultiCount(d, inc)
             = IF Flags!Added(d.allmulti, inc) # 0 THEN MultiOn(d, Flags!Added(d.allmulti, inc))
                                   ELSE IF inc = Flags!Down THEN MultiOff(d)
                                   ELSE MultiOn(d, d.allmulti)
  BY <1>4 DEF Flags!SetAllmultiCount, MultiOn, MultiOff
<1>6. CASE d.allmulti = CountWidth - 1
  <2>1. Flags!Added(d.allmulti, Flags!Up) = 0
        /\ Flags!Added(d.allmulti, Flags!Down) = d.allmulti - 1 /\ d.allmulti > 1
    BY <1>1, <1>2, <1>3, <1>6
  <2>2. Flags!SetAllmultiCount(d, Flags!Up) = MultiOn(d, d.allmulti)
    BY <1>1, <1>5, <2>1
  <2>3. Flags!SetAllmultiCount(d, Flags!Down) = MultiOn(d, d.allmulti - 1)
    BY <1>3, <1>5, <2>1
  <2> QED
    BY <1>3, <1>6, <2>1, <2>2, <2>3
<1>7. CASE d.allmulti # CountWidth - 1
  <2>1. Flags!Added(d.allmulti, Flags!Up) = d.allmulti + 1
    BY <1>1, <1>2, <1>3, <1>7
  <2>2. Flags!SetAllmultiCount(d, Flags!Up) = MultiOn(d, d.allmulti + 1)
    BY <1>3, <1>5, <2>1
  <2>3. d.allmulti = 0 => Flags!SetAllmultiCount(d, Flags!Down) = MultiOn(d, CountWidth - 1)
    BY <1>1, <1>2, <1>5
  <2>4. d.allmulti = 1 => Flags!SetAllmultiCount(d, Flags!Down) = MultiOff(d)
    BY <1>1, <1>2, <1>5
  <2>5. d.allmulti > 1 => Flags!SetAllmultiCount(d, Flags!Down) = MultiOn(d, d.allmulti - 1)
    BY <1>1, <1>2, <1>3, <1>5
  <2> QED
    BY <1>7, <2>2, <2>3, <2>4, <2>5
<1> QED
  BY <1>6, <1>7

\* Nothing but a flag and its counter changes.
LEMMA SetsKeep ==
  ASSUME Flags!RxModeAssumption, NEW d \in FlagsDevice, NEW n \in Count,
         NEW e \in {PromiscOn(d, n), PromiscOff(d)},
         NEW f \in {MultiOn(d, n), MultiOff(d)}
  PROVE  /\ e \in FlagsDevice /\ SameButCounts(d, e) /\ e.ucPromisc = d.ucPromisc
         /\ e.allmulti = d.allmulti /\ e.multi = d.multi
         /\ f \in FlagsDevice /\ SameButCounts(d, f) /\ f.ucPromisc = d.ucPromisc
         /\ f.promiscuity = d.promiscuity /\ f.promisc = d.promisc
<1>1. 0 \in Count
  BY DEF Flags!RxModeAssumption, Count
<1> QED
  BY <1>1, ZenonT(40) DEF FlagsDevice, SameButCounts, PromiscOn, PromiscOff, MultiOn, MultiOff

LEMMA OverflowsIs == ASSUME Flags!RxModeAssumption, NEW n \in Count
                     PROVE  Flags!Overflows(n, Flags!Up) <=> n = CountWidth - 1
  BY AddedUp DEF Flags!Overflows, Flags!RxModeAssumption, Count

\* Both change nothing else, and keep the types.
LEMMA CountsKeepTypes ==
  ASSUME Flags!RxModeAssumption, NEW d \in FlagsDevice, NEW inc \in {Flags!Up, Flags!Down}
  PROVE  /\ Flags!SetPromiscuity(d, inc) \in FlagsDevice
         /\ SameButCounts(d, Flags!SetPromiscuity(d, inc))
         /\ Flags!SetPromiscuity(d, inc).ucPromisc = d.ucPromisc
         /\ Flags!SetPromiscuity(d, inc).allmulti = d.allmulti
         /\ Flags!SetPromiscuity(d, inc).multi = d.multi
         /\ Flags!SetAllmultiCount(d, inc) \in FlagsDevice
         /\ SameButCounts(d, Flags!SetAllmultiCount(d, inc))
         /\ Flags!SetAllmultiCount(d, inc).ucPromisc = d.ucPromisc
         /\ Flags!SetAllmultiCount(d, inc).promiscuity = d.promiscuity
         /\ Flags!SetAllmultiCount(d, inc).promisc = d.promisc
<1>1. /\ CountWidth \in Nat /\ CountWidth > 2 /\ d.promiscuity \in Nat /\ d.promiscuity < CountWidth
      /\ d.allmulti \in Nat /\ d.allmulti < CountWidth
  BY DEF Flags!RxModeAssumption, FlagsDevice, Count
<1>2. (\E n \in Count : Flags!SetPromiscuity(d, inc) = PromiscOn(d, n))
         \/ Flags!SetPromiscuity(d, inc) = PromiscOff(d)
  <2>1. CASE inc = Flags!Up /\ d.promiscuity = CountWidth - 1
    <3>1. d.promiscuity \in Count
      BY <1>1, <2>1 DEF Count
    <3> QED
      BY <3>1, <2>1, SetPromiscuityIs
  <2>2. CASE inc = Flags!Up /\ d.promiscuity # CountWidth - 1
    <3>1. d.promiscuity + 1 \in Count
      BY <1>1, <2>2 DEF Count
    <3> QED
      BY <3>1, <2>2, SetPromiscuityIs
  <2>3. CASE inc = Flags!Down /\ d.promiscuity \in {0, 1}
    <3>1. 0 \in Count /\ CountWidth - 1 \in Count
      BY <1>1 DEF Count
    <3> QED
      BY <3>1, <2>3, SetPromiscuityIs
  <2>4. CASE inc = Flags!Down /\ d.promiscuity > 1
    <3>1. d.promiscuity - 1 \in Count
      BY <1>1, <2>4 DEF Count
    <3> QED
      BY <3>1, <2>4, SetPromiscuityIs
  <2> QED
    BY <1>1, <2>1, <2>2, <2>3, <2>4
<1>3. (\E n \in Count : Flags!SetAllmultiCount(d, inc) = MultiOn(d, n))
         \/ Flags!SetAllmultiCount(d, inc) = MultiOff(d)
  <2>1. CASE inc = Flags!Up /\ d.allmulti = CountWidth - 1
    <3>1. d.allmulti \in Count
      BY <1>1, <2>1 DEF Count
    <3> QED
      BY <3>1, <2>1, SetAllmultiCountIs
  <2>2. CASE inc = Flags!Up /\ d.allmulti # CountWidth - 1
    <3>1. d.allmulti + 1 \in Count
      BY <1>1, <2>2 DEF Count
    <3> QED
      BY <3>1, <2>2, SetAllmultiCountIs
  <2>3. CASE inc = Flags!Down /\ d.allmulti \in {0, 1}
    <3>1. 0 \in Count /\ CountWidth - 1 \in Count
      BY <1>1 DEF Count
    <3> QED
      BY <3>1, <2>3, SetAllmultiCountIs
  <2>4. CASE inc = Flags!Down /\ d.allmulti > 1
    <3>1. d.allmulti - 1 \in Count
      BY <1>1, <2>4 DEF Count
    <3> QED
      BY <3>1, <2>4, SetAllmultiCountIs
  <2> QED
    BY <1>1, <2>1, <2>2, <2>3, <2>4
<1>4. PICK n \in Count : Flags!SetPromiscuity(d, inc) \in {PromiscOn(d, n), PromiscOff(d)}
  <2>1. 0 \in Count
    BY <1>1 DEF Count
  <2> QED
    BY <2>1, <1>2
<1>5. PICK m \in Count : Flags!SetAllmultiCount(d, inc) \in {MultiOn(d, m), MultiOff(d)}
  <2>1. 0 \in Count
    BY <1>1 DEF Count
  <2> QED
    BY <2>1, <1>3
<1>6. MultiOff(d) \in {MultiOn(d, n), MultiOff(d)}
      /\ PromiscOff(d) \in {PromiscOn(d, m), PromiscOff(d)}
  OBVIOUS
<1> QED
  BY <1>4, <1>5, <1>6, SetsKeep

\* What __dev_set_rx_mode is for.
LEMMA RxModeSyncs ==
  ASSUME Flags!RxModeAssumption, NEW d \in FlagsDevice
  PROVE  LET e == Flags!SetRxMode(d) IN
         /\ e \in FlagsDevice /\ SameButCounts(d, e)
         /\ e.ucPromisc = (IF d.up /\ d.present /\ ~UnicastFlt THEN d.uc ELSE d.ucPromisc)
         /\ e.allmulti = d.allmulti /\ e.multi = d.multi
<1> DEFINE p == Flags!SetPromiscuity(d, Flags!Up)
           q == Flags!SetPromiscuity(d, Flags!Down)
<1>1. /\ p \in FlagsDevice /\ SameButCounts(d, p)
      /\ p.ucPromisc = d.ucPromisc /\ p.allmulti = d.allmulti /\ p.multi = d.multi
  BY CountsKeepTypes
<1>2. /\ q \in FlagsDevice /\ SameButCounts(d, q)
      /\ q.ucPromisc = d.ucPromisc /\ q.allmulti = d.allmulti /\ q.multi = d.multi
  BY CountsKeepTypes
<1>3. Flags!SetRxMode(d) = IF ~d.up \/ ~d.present \/ UnicastFlt THEN d
                     ELSE IF d.uc /\ ~d.ucPromisc THEN [p EXCEPT !.ucPromisc = TRUE]
                     ELSE IF ~d.uc /\ d.ucPromisc THEN [q EXCEPT !.ucPromisc = FALSE]
                     ELSE d
  BY DEF Flags!SetRxMode
<1> HIDE DEF p, q
<1>4. [p EXCEPT !.ucPromisc = TRUE] \in FlagsDevice
      /\ [q EXCEPT !.ucPromisc = FALSE] \in FlagsDevice
  BY <1>1, <1>2 DEF FlagsDevice
<1>5. d.uc \in BOOLEAN /\ d.ucPromisc \in BOOLEAN
  BY DEF FlagsDevice
<1>6. CASE ~d.up \/ ~d.present \/ UnicastFlt
  BY <1>3, <1>6 DEF SameButCounts
<1>7. CASE ~(~d.up \/ ~d.present \/ UnicastFlt) /\ d.uc /\ ~d.ucPromisc
  <2>1. Flags!SetRxMode(d) = [p EXCEPT !.ucPromisc = TRUE]
    BY <1>3, <1>7
  <2> QED
    BY <1>1, <1>4, <1>5, <1>7, <2>1 DEF SameButCounts, FlagsDevice
<1>8. CASE ~(~d.up \/ ~d.present \/ UnicastFlt) /\ ~d.uc /\ d.ucPromisc
  <2>1. Flags!SetRxMode(d) = [q EXCEPT !.ucPromisc = FALSE]
    BY <1>3, <1>8
  <2> QED
    BY <1>2, <1>4, <1>5, <1>8, <2>1, ZenonT(40) DEF SameButCounts, FlagsDevice
<1>9. CASE ~(~d.up \/ ~d.present \/ UnicastFlt) /\ d.uc = d.ucPromisc
  <2>1. Flags!SetRxMode(d) = d
    BY <1>3, <1>9
  <2> QED
    BY <1>9, <2>1 DEF SameButCounts
<1> QED
  BY <1>5, <1>6, <1>7, <1>8, <1>9

LEMMA RxModeCounts ==
  ASSUME Flags!RxModeAssumption, NEW d \in FlagsDevice, NEW n \in Nat, PromiscRight(d, n),
         ~Flags!RxModeOverflows(d)
  PROVE  PromiscRight(Flags!SetRxMode(d), n)
<1> DEFINE p == Flags!SetPromiscuity(d, Flags!Up)
           q == Flags!SetPromiscuity(d, Flags!Down)
<1>1. /\ d.promiscuity \in Nat /\ d.promiscuity < CountWidth /\ CountWidth \in Nat
      /\ Flags!Bit("promisc" \in d.gflags) \in Nat /\ d.ucPromisc \in BOOLEAN
  BY DEF FlagsDevice, Count, Flags!RxModeAssumption, Flags!Bit
<1>2. CASE d.up /\ d.present /\ ~UnicastFlt /\ d.uc /\ ~d.ucPromisc
  <2>1. d.promiscuity # CountWidth - 1
    BY <1>1, <1>2, OverflowsIs DEF Flags!RxModeOverflows, Count
  <2>2. Flags!SetRxMode(d) = [p EXCEPT !.ucPromisc = TRUE] /\ p = PromiscOn(d, d.promiscuity + 1)
    BY <1>2, <2>1, SetPromiscuityIs DEF Flags!SetRxMode
  <2> HIDE DEF p
  <2> QED
    BY <1>1, <1>2, <2>2 DEF PromiscRight, FlagsDevice, Flags!Bit, PromiscOn, PromiscOff
<1>3. CASE d.up /\ d.present /\ ~UnicastFlt /\ ~d.uc /\ d.ucPromisc
  <2>1. d.promiscuity > 0
    BY <1>1, <1>3 DEF PromiscRight, Flags!Bit
  <2>2. Flags!SetRxMode(d) = [q EXCEPT !.ucPromisc = FALSE]
    BY <1>3 DEF Flags!SetRxMode
  <2>3. q \in FlagsDevice /\ q.ucPromisc = d.ucPromisc /\ SameButCounts(d, q)
    BY CountsKeepTypes
  <2>4. /\ q.promiscuity = d.promiscuity - 1
        /\ q.promisc <=> q.promiscuity > 0
    <3>1. CASE d.promiscuity = 1
      <4>1. q = PromiscOff(d)
        BY <3>1, SetPromiscuityIs
      <4> QED
        BY <3>1, <4>1 DEF PromiscOn, PromiscOff, FlagsDevice
    <3>2. CASE d.promiscuity > 1
      <4>1. q = PromiscOn(d, d.promiscuity - 1)
        BY <3>2, SetPromiscuityIs
      <4> QED
        BY <1>1, <3>2, <4>1 DEF PromiscOn, PromiscOff, FlagsDevice
    <3> QED
      BY <1>1, <2>1, <3>1, <3>2
  <2> HIDE DEF q
  <2> QED
    BY <1>1, <1>3, <2>1, <2>2, <2>3, <2>4 DEF PromiscRight, FlagsDevice, Flags!Bit, SameButCounts
<1>4. CASE ~(d.up /\ d.present /\ ~UnicastFlt /\ d.uc /\ ~d.ucPromisc)
           /\ ~(d.up /\ d.present /\ ~UnicastFlt /\ ~d.uc /\ d.ucPromisc)
  BY <1>4 DEF Flags!SetRxMode
<1> QED
  BY <1>2, <1>3, <1>4

\* A device that is in step stays so: dev_set_promiscuity's own increment and decrement,
\* and those of dev_change_flags.
LEMMA PromiscUp ==
  ASSUME Flags!RxModeAssumption, NEW d \in FlagsDevice, NEW n \in Int, PromiscRight(d, n),
         ~Flags!Overflows(d.promiscuity, Flags!Up)
  PROVE  PromiscRight(Flags!SetPromiscuity(d, Flags!Up), n + 1)
         /\ Flags!SetPromiscuity(d, Flags!Up).promisc
<1>1. d.promiscuity \in Count /\ d.promiscuity \in Nat
  BY DEF FlagsDevice, Count
<1>2. Flags!SetPromiscuity(d, Flags!Up) = PromiscOn(d, d.promiscuity + 1)
  BY <1>1, OverflowsIs, SetPromiscuityIs
<1>3. Flags!Bit("promisc" \in d.gflags) \in Nat /\ Flags!Bit(d.ucPromisc) \in Nat
  BY DEF Flags!Bit
<1> QED
  BY <1>1, <1>2, <1>3 DEF PromiscOn, PromiscRight, FlagsDevice

LEMMA PromiscDown ==
  ASSUME Flags!RxModeAssumption, NEW d \in FlagsDevice, NEW n \in Int, PromiscRight(d, n + 1),
         d.promiscuity > 0
  PROVE  PromiscRight(Flags!SetPromiscuity(d, Flags!Down), n)
<1>1. d.promiscuity \in Nat
  BY DEF FlagsDevice, Count
<1>2. Flags!Bit("promisc" \in d.gflags) \in Nat /\ Flags!Bit(d.ucPromisc) \in Nat
  BY DEF Flags!Bit
<1>3. d.promiscuity = n + 1 + Flags!Bit("promisc" \in d.gflags) + Flags!Bit(d.ucPromisc)
  BY DEF PromiscRight
<1>4. CASE d.promiscuity = 1
  <2>1. Flags!SetPromiscuity(d, Flags!Down) = PromiscOff(d)
    BY <1>4, SetPromiscuityIs
  <2> QED
    BY <1>1, <1>2, <1>3, <1>4, <2>1 DEF PromiscOff, PromiscRight, FlagsDevice
<1>5. CASE d.promiscuity > 1
  <2>1. Flags!SetPromiscuity(d, Flags!Down) = PromiscOn(d, d.promiscuity - 1)
    BY <1>5, SetPromiscuityIs
  <2> QED
    BY <1>1, <1>2, <1>3, <1>5, <2>1 DEF PromiscOn, PromiscRight, FlagsDevice
<1> QED
  BY <1>1, <1>2, <1>3, <1>4, <1>5

LEMMA MultiUp ==
  ASSUME Flags!RxModeAssumption, NEW d \in FlagsDevice, NEW n \in Int, MultiRight(d, n),
         ~Flags!Overflows(d.allmulti, Flags!Up)
  PROVE  MultiRight(Flags!SetAllmultiCount(d, Flags!Up), n + 1)
<1>1. d.allmulti \in Count /\ d.allmulti \in Nat
  BY DEF FlagsDevice, Count
<1>2. Flags!SetAllmultiCount(d, Flags!Up) = MultiOn(d, d.allmulti + 1)
  BY <1>1, OverflowsIs, SetAllmultiCountIs
<1>3. Flags!Bit("multi" \in d.gflags) \in Nat
  BY DEF Flags!Bit
<1> QED
  BY <1>1, <1>2, <1>3 DEF MultiOn, MultiRight, FlagsDevice

LEMMA MultiDown ==
  ASSUME Flags!RxModeAssumption, NEW d \in FlagsDevice, NEW n \in Int, MultiRight(d, n + 1),
         d.allmulti > 0
  PROVE  MultiRight(Flags!SetAllmultiCount(d, Flags!Down), n)
<1>1. d.allmulti \in Nat
  BY DEF FlagsDevice, Count
<1>2. Flags!Bit("multi" \in d.gflags) \in Nat
  BY DEF Flags!Bit
<1>3. d.allmulti = n + 1 + Flags!Bit("multi" \in d.gflags)
  BY DEF MultiRight
<1>4. CASE d.allmulti = 1
  <2>1. Flags!SetAllmultiCount(d, Flags!Down) = MultiOff(d)
    BY <1>4, SetAllmultiCountIs
  <2> QED
    BY <1>1, <1>2, <1>3, <1>4, <2>1 DEF MultiOff, MultiRight, FlagsDevice
<1>5. CASE d.allmulti > 1
  <2>1. Flags!SetAllmultiCount(d, Flags!Down) = MultiOn(d, d.allmulti - 1)
    BY <1>5, SetAllmultiCountIs
  <2> QED
    BY <1>1, <1>2, <1>3, <1>5, <2>1 DEF MultiOn, MultiRight, FlagsDevice
<1> QED
  BY <1>1, <1>2, <1>3, <1>4, <1>5

LEMMA SyncedStays ==
  ASSUME NEW d \in FlagsDevice, Synced(d)
  PROVE  Flags!SetRxMode(d) = d /\ ~Flags!RxModeOverflows(d)
  BY DEF Synced, Flags!SetRxMode, Flags!RxModeOverflows

\* What the user's bits count for.
LEMMA ToggledCounts ==
  ASSUME NEW d \in FlagsDevice, NEW n \in Int
  PROVE  LET t == Flags!Toggled(d, "promisc")
             u == Flags!Toggled(d, "multi")
         IN /\ t \in FlagsDevice /\ t.promiscuity = d.promiscuity /\ t.allmulti = d.allmulti
            /\ t.up = d.up /\ t.start = d.start /\ t.present = d.present /\ t.uc = d.uc
            /\ t.ucPromisc = d.ucPromisc /\ t.promisc = d.promisc /\ t.multi = d.multi
            /\ ("promisc" \in t.gflags) = ("promisc" \notin d.gflags)
            /\ ("multi" \in t.gflags) = ("multi" \in d.gflags)
            /\ u \in FlagsDevice /\ u.promiscuity = d.promiscuity /\ u.allmulti = d.allmulti
            /\ u.up = d.up /\ u.start = d.start /\ u.present = d.present /\ u.uc = d.uc
            /\ u.ucPromisc = d.ucPromisc /\ u.promisc = d.promisc /\ u.multi = d.multi
            /\ ("multi" \in u.gflags) = ("multi" \notin d.gflags)
            /\ ("promisc" \in u.gflags) = ("promisc" \in d.gflags)
  BY DEF Flags!Toggled, FlagsDevice

SameState(d, e) == /\ e.up = d.up /\ e.start = d.start /\ e.present = d.present
                   /\ e.uc = d.uc /\ e.ucPromisc = d.ucPromisc

\* The half of __dev_change_flags for IFF_PROMISC, on a device in step.
LEMMA ChangePromiscRight ==
  ASSUME Flags!RxModeAssumption, NEW d \in FlagsDevice, NEW flags, Synced(d), NEW n \in Nat,
         NEW m \in Nat
  PROVE  /\ Flags!ChangePromisc(d, flags) \in FlagsDevice
         /\ SameState(d, Flags!ChangePromisc(d, flags))
         /\ ("multi" \in Flags!ChangePromisc(d, flags).gflags) = ("multi" \in d.gflags)
         /\ /\ PromiscRight(d, n) /\ MultiRight(d, m)
            /\ "promisc" \in flags /\ "promisc" \notin d.gflags
               => ~Flags!Overflows(d.promiscuity, Flags!Up)
            => PromiscRight(Flags!ChangePromisc(d, flags), n)
               /\ MultiRight(Flags!ChangePromisc(d, flags), m)
<1> DEFINE inc == IF "promisc" \in flags THEN Flags!Up ELSE Flags!Down
           t == Flags!Toggled(d, "promisc")
           p == Flags!SetPromiscuity(t, inc)
<1>1. /\ t \in FlagsDevice /\ t.promiscuity = d.promiscuity /\ t.allmulti = d.allmulti
      /\ SameState(d, t) /\ t.promisc = d.promisc /\ t.multi = d.multi
      /\ ("promisc" \in t.gflags) = ("promisc" \notin d.gflags)
      /\ ("multi" \in t.gflags) = ("multi" \in d.gflags)
  BY ToggledCounts DEF SameState
<1>2. inc \in {Flags!Up, Flags!Down}
  OBVIOUS
<1> HIDE DEF t
<1>3. /\ p \in FlagsDevice /\ SameButCounts(t, p) /\ p.ucPromisc = t.ucPromisc
      /\ p.allmulti = t.allmulti /\ p.multi = t.multi
  BY <1>1, <1>2, CountsKeepTypes
<1>4. SameState(d, p) /\ p.gflags = t.gflags
  BY <1>1, <1>3 DEF SameState, SameButCounts
<1>5. Synced(p)
  BY <1>4 DEF SameState, Synced
<1>6. Flags!SetRxMode(p) = p
  BY <1>3, <1>5, SyncedStays
<1>7. CASE ("promisc" \in flags) = ("promisc" \in d.gflags)
  BY <1>7 DEF Flags!ChangePromisc, SameState
<1>8. CASE ("promisc" \in flags) # ("promisc" \in d.gflags)
  <2>1. Flags!ChangePromisc(d, flags) = p
    BY <1>6, <1>8 DEF Flags!ChangePromisc, t
  <2> HIDE DEF p
  <2>2. ("multi" \in p.gflags) = ("multi" \in d.gflags)
    BY <1>1, <1>4
  <2>3. MultiRight(d, m) => MultiRight(p, m)
    BY <1>1, <1>3, <2>2 DEF MultiRight, Flags!Bit
  <2>4. ASSUME "promisc" \in flags, PromiscRight(d, n), ~Flags!Overflows(d.promiscuity, Flags!Up)
        PROVE  PromiscRight(p, n)
    <3>1. "promisc" \notin d.gflags /\ "promisc" \in t.gflags
      BY <1>1, <1>8, <2>4
    <3>2. d.promiscuity \in Nat /\ Flags!Bit(d.ucPromisc) \in Nat
      BY DEF FlagsDevice, Count, Flags!Bit
    <3>3. d.promiscuity = n + 0 + Flags!Bit(d.ucPromisc)
      BY <2>4, <3>1 DEF PromiscRight, Flags!Bit
    <3>4. t.promiscuity = (n - 1) + 1 + Flags!Bit(t.ucPromisc)
      BY <1>1, <3>2, <3>3 DEF SameState
    <3>5. PromiscRight(t, n - 1)
      BY <1>1, <2>4, <3>1, <3>4 DEF PromiscRight, Flags!Bit
    <3>6. PromiscRight(Flags!SetPromiscuity(t, Flags!Up), (n - 1) + 1)
      BY <1>1, <2>4, <3>5, PromiscUp
    <3> QED
      BY <2>4, <3>6 DEF p
  <2>5. ASSUME "promisc" \notin flags, PromiscRight(d, n) PROVE PromiscRight(p, n)
    <3>1. "promisc" \in d.gflags /\ ~("promisc" \in t.gflags)
      BY <1>1, <1>8, <2>5
    <3>2. d.promiscuity \in Nat /\ Flags!Bit(d.ucPromisc) \in Nat
      BY DEF FlagsDevice, Count, Flags!Bit
    <3>3. d.promiscuity = n + 1 + Flags!Bit(d.ucPromisc)
      BY <2>5, <3>1 DEF PromiscRight, Flags!Bit
    <3>4. t.promiscuity = (n + 1) + 0 + Flags!Bit(t.ucPromisc) /\ t.promiscuity > 0
      BY <1>1, <3>2, <3>3 DEF SameState
    <3>5. PromiscRight(t, n + 1)
      BY <1>1, <2>5, <3>1, <3>4 DEF PromiscRight, Flags!Bit
    <3>6. PromiscRight(Flags!SetPromiscuity(t, Flags!Down), n)
      BY <1>1, <3>4, <3>5, PromiscDown
    <3> QED
      BY <2>5, <3>6 DEF p
  <2>6. "promisc" \in flags => "promisc" \notin d.gflags
    BY <1>8
  <2> QED
    BY <2>1, <1>3, <1>4, <2>2, <2>3, <2>4, <2>5, <2>6
<1> QED
  BY <1>7, <1>8

\* ... and for IFF_ALLMULTI.
LEMMA ChangeAllmultiRight ==
  ASSUME Flags!RxModeAssumption, NEW d \in FlagsDevice, NEW flags, Synced(d), NEW n \in Nat,
         NEW m \in Nat
  PROVE  /\ Flags!ChangeAllmulti(d, flags) \in FlagsDevice
         /\ SameState(d, Flags!ChangeAllmulti(d, flags))
         /\ /\ PromiscRight(d, n) /\ MultiRight(d, m)
            /\ "multi" \in flags /\ "multi" \notin d.gflags
               => ~Flags!Overflows(d.allmulti, Flags!Up)
            => PromiscRight(Flags!ChangeAllmulti(d, flags), n)
               /\ MultiRight(Flags!ChangeAllmulti(d, flags), m)
<1> DEFINE inc == IF "multi" \in flags THEN Flags!Up ELSE Flags!Down
           t == Flags!Toggled(d, "multi")
           p == Flags!SetAllmultiCount(t, inc)
<1>1. /\ t \in FlagsDevice /\ t.promiscuity = d.promiscuity /\ t.allmulti = d.allmulti
      /\ SameState(d, t) /\ t.promisc = d.promisc /\ t.multi = d.multi
      /\ ("multi" \in t.gflags) = ("multi" \notin d.gflags)
      /\ ("promisc" \in t.gflags) = ("promisc" \in d.gflags)
  BY ToggledCounts DEF SameState
<1>2. inc \in {Flags!Up, Flags!Down}
  OBVIOUS
<1> HIDE DEF t
<1>3. /\ p \in FlagsDevice /\ SameButCounts(t, p) /\ p.ucPromisc = t.ucPromisc
      /\ p.promiscuity = t.promiscuity /\ p.promisc = t.promisc
  BY <1>1, <1>2, CountsKeepTypes
<1>4. SameState(d, p) /\ p.gflags = t.gflags
  BY <1>1, <1>3 DEF SameState, SameButCounts
<1>5. Synced(p)
  BY <1>4 DEF SameState, Synced
<1>6. Flags!SetRxMode(p) = p
  BY <1>3, <1>5, SyncedStays
<1>7. CASE ("multi" \in flags) = ("multi" \in d.gflags)
  BY <1>7 DEF Flags!ChangeAllmulti, SameState
<1>8. CASE ("multi" \in flags) # ("multi" \in d.gflags)
  <2>1. Flags!ChangeAllmulti(d, flags) = p
    BY <1>6, <1>8 DEF Flags!ChangeAllmulti, Flags!SetAllmulti, t
  <2> HIDE DEF p
  <2>2. ("promisc" \in p.gflags) = ("promisc" \in d.gflags)
    BY <1>1, <1>4
  <2>3. PromiscRight(d, n) => PromiscRight(p, n)
    BY <1>1, <1>3, <2>2 DEF PromiscRight, SameState, Flags!Bit
  <2>4. ASSUME "multi" \in flags, MultiRight(d, m), ~Flags!Overflows(d.allmulti, Flags!Up)
        PROVE  MultiRight(p, m)
    <3>1. "multi" \notin d.gflags /\ "multi" \in t.gflags
      BY <1>1, <1>8, <2>4
    <3>2. d.allmulti \in Nat
      BY DEF FlagsDevice, Count
    <3>3. d.allmulti = m + 0
      BY <2>4, <3>1 DEF MultiRight, Flags!Bit
    <3>4. t.allmulti = (m - 1) + 1
      BY <1>1, <3>2, <3>3
    <3>5. MultiRight(t, m - 1)
      BY <1>1, <2>4, <3>1, <3>4 DEF MultiRight, Flags!Bit
    <3>6. MultiRight(Flags!SetAllmultiCount(t, Flags!Up), (m - 1) + 1)
      BY <1>1, <2>4, <3>5, MultiUp
    <3> QED
      BY <2>4, <3>6 DEF p
  <2>5. ASSUME "multi" \notin flags, MultiRight(d, m) PROVE MultiRight(p, m)
    <3>1. "multi" \in d.gflags /\ ~("multi" \in t.gflags)
      BY <1>1, <1>8, <2>5
    <3>2. d.allmulti \in Nat
      BY DEF FlagsDevice, Count
    <3>3. d.allmulti = m + 1
      BY <2>5, <3>1 DEF MultiRight, Flags!Bit
    <3>4. t.allmulti = (m + 1) + 0 /\ t.allmulti > 0
      BY <1>1, <3>2, <3>3
    <3>5. MultiRight(t, m + 1)
      BY <1>1, <2>5, <3>1, <3>4 DEF MultiRight, Flags!Bit
    <3>6. MultiRight(Flags!SetAllmultiCount(t, Flags!Down), m)
      BY <1>1, <3>4, <3>5, MultiDown
    <3> QED
      BY <2>5, <3>6 DEF p
  <2>6. "multi" \in flags => "multi" \notin d.gflags
    BY <1>8
  <2> QED
    BY <2>1, <1>3, <1>4, <2>2, <2>3, <2>4, <2>5, <2>6
<1> QED
  BY <1>7, <1>8

FlagsTypeOK == /\ nd \in FlagsDevice /\ promHeld \in Nat /\ multiHeld \in Nat
               /\ toldUp \in BOOLEAN /\ roof \in BOOLEAN /\ missed \in BOOLEAN

CountsRight == ~roof => PromiscRight(nd, promHeld) /\ MultiRight(nd, multiHeld)

FlagsIInv == FlagsTypeOK /\ CountsRight /\ Flags!StateIsKnown /\ FltOK(nd)

LEMMA FlagsInit == ASSUME Flags!RxModeAssumption, Flags!Init PROVE FlagsIInv
<1>1. 0 \in Count
  BY DEF Flags!RxModeAssumption, Count
<1>2. nd \in FlagsDevice
  BY <1>1 DEF Flags!Init, FlagsDevice
<1>3. FlagsTypeOK
  BY <1>2 DEF Flags!Init, FlagsTypeOK
<1>4. /\ nd.promiscuity = 0 /\ nd.allmulti = 0 /\ nd.gflags = {} /\ nd.up = FALSE
      /\ nd.promisc = FALSE /\ nd.multi = FALSE /\ nd.ucPromisc = FALSE
      /\ nd.start = FALSE /\ toldUp = FALSE /\ promHeld = 0 /\ multiHeld = 0
  BY DEF Flags!Init
<1>5. CountsRight
  BY <1>4 DEF CountsRight, PromiscRight, MultiRight, Flags!Bit
<1>6. Flags!StateIsKnown /\ FltOK(nd)
  BY <1>4 DEF Flags!StateIsKnown, FltOK
<1> QED
  BY <1>3, <1>5, <1>6 DEF FlagsIInv

\* An operation leaves the device e, and n and m holders.
LEMMA FlagsKept ==
  ASSUME nd' \in FlagsDevice, promHeld' \in Nat, multiHeld' \in Nat, toldUp' \in BOOLEAN,
         roof' \in BOOLEAN, missed' \in BOOLEAN,
         ~roof' => PromiscRight(nd', promHeld') /\ MultiRight(nd', multiHeld'),
         nd'.up /\ ~missed' => nd'.ucPromisc = (nd'.uc /\ ~UnicastFlt),
         nd'.up = toldUp', nd'.up = nd'.start, UnicastFlt => ~nd'.ucPromisc
  PROVE  FlagsIInv'
  BY DEF FlagsIInv, FlagsTypeOK, CountsRight, Flags!StateIsKnown, FltOK

\* __dev_set_rx_mode does not touch what the multicast counter counts.
LEMMA RxModeMulti ==
  ASSUME Flags!RxModeAssumption, NEW d \in FlagsDevice, NEW m \in Nat, MultiRight(d, m)
  PROVE  MultiRight(Flags!SetRxMode(d), m)
  BY RxModeSyncs DEF MultiRight, SameButCounts

LEMMA RxModeSynced ==
  ASSUME Flags!RxModeAssumption, NEW d \in FlagsDevice
  PROVE  Synced(Flags!SetRxMode(d))
  BY RxModeSyncs DEF Synced, SameButCounts

\* A step that may call __dev_set_rx_mode on d at its end, d being right but for its
\* addresses.
LEMMA RxModeEnds ==
  ASSUME Flags!RxModeAssumption, NEW d \in FlagsDevice, FltOK(d), NEW n \in Nat, NEW m \in Nat,
         NEW r,
         ~r => PromiscRight(d, n) /\ MultiRight(d, m) /\ ~Flags!RxModeOverflows(d)
  PROVE  /\ Flags!SetRxMode(d) \in FlagsDevice /\ FltOK(Flags!SetRxMode(d))
         /\ SameButCounts(d, Flags!SetRxMode(d))
         /\ Synced(Flags!SetRxMode(d))
         /\ ~(d.up /\ d.present) => Flags!SetRxMode(d) = d
         /\ ~r => PromiscRight(Flags!SetRxMode(d), n) /\ MultiRight(Flags!SetRxMode(d), m)
<1>1. /\ Flags!SetRxMode(d) \in FlagsDevice /\ SameButCounts(d, Flags!SetRxMode(d))
      /\ Synced(Flags!SetRxMode(d))
  BY RxModeSyncs, RxModeSynced
<1>2. Flags!SetRxMode(d).ucPromisc = (IF d.up /\ d.present /\ ~UnicastFlt THEN d.uc ELSE d.ucPromisc)
  BY RxModeSyncs
<1>3. FltOK(Flags!SetRxMode(d))
  BY <1>2 DEF FltOK
<1>4. ~(d.up /\ d.present) => Flags!SetRxMode(d) = d
  BY DEF Flags!SetRxMode
<1>5. ~r => PromiscRight(Flags!SetRxMode(d), n) /\ MultiRight(Flags!SetRxMode(d), m)
  BY RxModeCounts, RxModeMulti
<1> QED
  BY <1>1, <1>3, <1>4, <1>5

\* A device that is up and there, and whose addresses have been seen to.
LEMMA SyncedIsKnown ==
  ASSUME NEW d \in FlagsDevice, FltOK(d), Synced(d), d.up, d.present
  PROVE  d.ucPromisc = (d.uc /\ ~UnicastFlt)
  BY DEF FltOK, Synced, FlagsDevice

LEMMA DevOpenOK == ASSUME Flags!RxModeAssumption, FlagsIInv, NEW vetoed \in BOOLEAN,
                          Flags!DevOpen(vetoed)
                   PROVE  FlagsIInv'
<1>1. CASE vetoed
  BY <1>1 DEF Flags!DevOpen, Flags!Opened, FlagsIInv, FlagsTypeOK, CountsRight, Flags!StateIsKnown,
              FltOK
<1>2. CASE ~vetoed
  <2> DEFINE d == [nd EXCEPT !.start = TRUE, !.up = TRUE]
  <2>1. /\ nd \in FlagsDevice /\ promHeld \in Nat /\ multiHeld \in Nat /\ roof \in BOOLEAN
        /\ FltOK(nd)
        /\ ~roof => PromiscRight(nd, promHeld) /\ MultiRight(nd, multiHeld)
    BY DEF FlagsIInv, FlagsTypeOK, CountsRight
  <2>2. /\ d \in FlagsDevice /\ d.up /\ d.start /\ d.present
        /\ PromiscRight(d, promHeld) <=> PromiscRight(nd, promHeld)
        /\ MultiRight(d, multiHeld) <=> MultiRight(nd, multiHeld)
        /\ FltOK(d) <=> FltOK(nd)
        /\ Flags!RxModeOverflows([nd EXCEPT !.up = TRUE]) <=> Flags!RxModeOverflows(d)
    BY <2>1 DEF Flags!DevOpen, FlagsDevice, PromiscRight, MultiRight, FltOK, Flags!RxModeOverflows
  <2>3. /\ nd' = Flags!SetRxMode(d) /\ toldUp' = TRUE /\ missed' = FALSE
        /\ roof' = (roof \/ Flags!RxModeOverflows([nd EXCEPT !.up = TRUE]))
        /\ UNCHANGED <<promHeld, multiHeld>>
    BY <1>2 DEF Flags!DevOpen, Flags!Opened
  <2> HIDE DEF d
  <2>4. ~roof' => PromiscRight(d, promHeld) /\ MultiRight(d, multiHeld) /\ ~Flags!RxModeOverflows(d)
    BY <2>1, <2>2, <2>3
  <2>5. /\ nd' \in FlagsDevice /\ FltOK(nd') /\ SameButCounts(d, nd') /\ Synced(nd')
        /\ ~roof' => PromiscRight(nd', promHeld') /\ MultiRight(nd', multiHeld')
    BY <2>1, <2>2, <2>3, <2>4, RxModeEnds
  <2>6. nd'.up /\ nd'.start /\ nd'.present
    BY <2>2, <2>5 DEF SameButCounts
  <2>7. nd'.ucPromisc = (nd'.uc /\ ~UnicastFlt)
    BY <2>5, <2>6, SyncedIsKnown
  <2>8. roof' \in BOOLEAN
    BY <2>3, <2>1 DEF Flags!RxModeOverflows, Flags!Overflows
  <2>9. nd'.up = TRUE /\ nd'.start = TRUE
    BY <2>5, <2>6 DEF FlagsDevice
  <2> QED
    BY <2>1, <2>3, <2>5, <2>7, <2>8, <2>9, FlagsKept DEF FltOK
<1> QED
  BY <1>1, <1>2

LEMMA DevCloseOK == ASSUME FlagsIInv, Flags!DevClose PROVE FlagsIInv'
<1>1. nd' \in FlagsDevice /\ nd'.up = FALSE /\ nd'.start = FALSE /\ toldUp' = FALSE
  BY DEF Flags!DevClose, Flags!Closed, FlagsIInv, FlagsTypeOK, FlagsDevice
<1>2. /\ nd'.promiscuity = nd.promiscuity /\ nd'.allmulti = nd.allmulti /\ nd'.promisc = nd.promisc
      /\ nd'.multi = nd.multi /\ nd'.gflags = nd.gflags /\ nd'.ucPromisc = nd.ucPromisc
      /\ UNCHANGED <<promHeld, multiHeld, roof, missed>>
  BY DEF Flags!DevClose, Flags!Closed, FlagsIInv, FlagsTypeOK, FlagsDevice
<1> QED
  BY <1>1, <1>2 DEF FlagsIInv, FlagsTypeOK, CountsRight, PromiscRight, MultiRight,
                    Flags!StateIsKnown, FltOK

\* What the invariant says of the device before a step.
LEMMA FlagsBefore ==
  ASSUME FlagsIInv
  PROVE  /\ nd \in FlagsDevice /\ promHeld \in Nat /\ multiHeld \in Nat /\ FltOK(nd)
         /\ roof \in BOOLEAN /\ missed \in BOOLEAN /\ toldUp \in BOOLEAN
         /\ ~roof => PromiscRight(nd, promHeld) /\ MultiRight(nd, multiHeld)
         /\ nd.up /\ ~missed => nd.ucPromisc = (nd.uc /\ ~UnicastFlt)
         /\ nd.up = toldUp /\ nd.up = nd.start
  BY DEF FlagsIInv, FlagsTypeOK, CountsRight, Flags!StateIsKnown

LEMMA OverflowsBool == ASSUME NEW d PROVE Flags!RxModeOverflows(d) \in BOOLEAN
  BY DEF Flags!RxModeOverflows, Flags!Overflows

\* A holder comes or goes: the counters of c are right for n and m holders, and then
\* __dev_set_rx_mode is called, or not.
LEMMA HolderOK ==
  ASSUME Flags!RxModeAssumption, FlagsIInv, NEW c \in FlagsDevice, SameState(nd, c),
         nd' \in {c, Flags!SetRxMode(c)}, promHeld' \in Nat, multiHeld' \in Nat,
         UNCHANGED <<toldUp, missed>>, roof' \in BOOLEAN,
         ~roof' => PromiscRight(c, promHeld') /\ MultiRight(c, multiHeld')
                     /\ (nd' = c \/ ~Flags!RxModeOverflows(c))
  PROVE  FlagsIInv'
<1>1. FltOK(c) /\ c.up = nd.up /\ c.start = nd.start /\ c.uc = nd.uc /\ c.ucPromisc = nd.ucPromisc
  BY FlagsBefore DEF SameState, FltOK
<1>2. CASE nd' = c
  BY <1>1, <1>2, FlagsBefore, FlagsKept DEF FltOK
<1>3. CASE nd' # c
  <2>1. nd' = Flags!SetRxMode(c)
        /\ (~roof' => PromiscRight(c, promHeld') /\ MultiRight(c, multiHeld') /\ ~Flags!RxModeOverflows(c))
    BY <1>3
  <2>2. /\ nd' \in FlagsDevice /\ FltOK(nd') /\ SameButCounts(c, nd') /\ Synced(nd')
        /\ ~roof' => PromiscRight(nd', promHeld') /\ MultiRight(nd', multiHeld')
        /\ ~(c.up /\ c.present) => nd' = c
    BY <1>1, <2>1, RxModeEnds
  <2>3. nd'.up = nd.up /\ nd'.start = nd.start /\ nd'.uc = nd.uc /\ nd'.present = c.present
    BY <1>1, <2>2 DEF SameButCounts
  <2>4. nd'.up /\ ~missed' => nd'.ucPromisc = (nd'.uc /\ ~UnicastFlt)
    <3>1. CASE c.up /\ c.present
      BY <3>1, <1>1, <2>2, <2>3, SyncedIsKnown
    <3>2. CASE ~(c.up /\ c.present)
      BY <3>2, <2>2, <1>1, FlagsBefore
    <3> QED
      BY <3>1, <3>2
  <2> QED
    BY <2>2, <2>3, <2>4, FlagsBefore, FlagsKept DEF FltOK
<1> QED
  BY <1>2, <1>3

LEMMA HoldPromiscOK == ASSUME Flags!RxModeAssumption, FlagsIInv, Flags!HoldPromisc PROVE FlagsIInv'
<1> DEFINE p == Flags!SetPromiscuity(nd, Flags!Up)
<1>1. /\ p \in FlagsDevice /\ SameButCounts(nd, p) /\ p.ucPromisc = nd.ucPromisc
      /\ p.allmulti = nd.allmulti /\ p.multi = nd.multi
  BY FlagsBefore, CountsKeepTypes
<1>2. SameState(nd, p)
  BY <1>1 DEF SameState, SameButCounts
<1>3. MultiRight(nd, multiHeld) => MultiRight(p, multiHeld)
  BY <1>1 DEF MultiRight, SameButCounts
<1>4. /\ UNCHANGED <<multiHeld, toldUp, missed>>
      /\ IF Flags!Overflows(nd.promiscuity, Flags!Up)
         THEN nd' = p /\ UNCHANGED <<promHeld, roof>>
         ELSE /\ nd' = IF p.promisc # nd.promisc THEN Flags!SetRxMode(p) ELSE p
              /\ promHeld' = promHeld + 1
              /\ roof' = (roof \/ (p.promisc # nd.promisc /\ Flags!RxModeOverflows(p)))
  BY DEF Flags!HoldPromisc
<1>5. CASE Flags!Overflows(nd.promiscuity, Flags!Up)
  <2>1. nd.promiscuity = CountWidth - 1 /\ nd.promiscuity \in Count
    BY <1>5, FlagsBefore, OverflowsIs DEF FlagsDevice
  <2>2. p = PromiscOn(nd, nd.promiscuity)
    BY <2>1, FlagsBefore, SetPromiscuityIs
  <2>3. PromiscRight(nd, promHeld) => PromiscRight(p, promHeld)
    BY <2>1, <2>2, FlagsBefore DEF PromiscRight, PromiscOn, FlagsDevice, Flags!RxModeAssumption
  <2> HIDE DEF p
  <2> QED
    BY <1>1, <1>2, <1>3, <1>4, <1>5, <2>3, FlagsBefore, HolderOK
<1>6. CASE ~Flags!Overflows(nd.promiscuity, Flags!Up)
  <2>1. PromiscRight(nd, promHeld) => PromiscRight(p, promHeld + 1)
    BY <1>6, FlagsBefore, PromiscUp
  <2> HIDE DEF p
  <2>2. roof' \in BOOLEAN /\ promHeld' \in Nat
    BY <1>4, <1>6, FlagsBefore, OverflowsBool
  <2>3. nd' \in {p, Flags!SetRxMode(p)} /\ (~roof' => nd' = p \/ ~Flags!RxModeOverflows(p))
    BY <1>4, <1>6
  <2>4. ~roof' => PromiscRight(p, promHeld') /\ MultiRight(p, multiHeld')
    BY <1>3, <1>4, <1>6, <2>1, FlagsBefore
  <2> QED
    BY <1>1, <1>2, <1>4, <2>2, <2>3, <2>4, FlagsBefore, HolderOK
<1> QED
  BY <1>5, <1>6

LEMMA DropPromiscOK == ASSUME Flags!RxModeAssumption, FlagsIInv, Flags!DropPromisc PROVE FlagsIInv'
<1> DEFINE p == Flags!SetPromiscuity(nd, Flags!Down)
<1>1. /\ p \in FlagsDevice /\ SameButCounts(nd, p) /\ p.ucPromisc = nd.ucPromisc
      /\ p.allmulti = nd.allmulti /\ p.multi = nd.multi
  BY FlagsBefore, CountsKeepTypes
<1>2. SameState(nd, p)
  BY <1>1 DEF SameState, SameButCounts
<1>3. MultiRight(nd, multiHeld) => MultiRight(p, multiHeld)
  BY <1>1 DEF MultiRight, SameButCounts
<1>4. /\ UNCHANGED <<multiHeld, toldUp, roof, missed>>
      /\ promHeld > 0 /\ promHeld' = promHeld - 1
      /\ nd' = IF p.promisc # nd.promisc THEN Flags!SetRxMode(p) ELSE p
  BY DEF Flags!DropPromisc
<1>5. promHeld' \in Nat /\ promHeld = promHeld' + 1
  BY <1>4, FlagsBefore
<1>6. ASSUME PromiscRight(nd, promHeld)
      PROVE  PromiscRight(p, promHeld') /\ (nd' = p \/ ~Flags!RxModeOverflows(p))
  <2>1. nd.promiscuity > 0
    BY <1>4, <1>6, FlagsBefore DEF PromiscRight, Flags!Bit
  <2>2. PromiscRight(p, promHeld')
    BY <1>5, <1>6, <2>1, FlagsBefore, PromiscDown
  <2> HIDE DEF p
  <2>3. nd.promisc = TRUE
    BY <1>6, <2>1, FlagsBefore DEF PromiscRight, FlagsDevice
  <2>4. CASE p.promisc = TRUE
    BY <1>4, <2>2, <2>3, <2>4
  <2>5. CASE p.promisc = FALSE
    <3>1. p.promiscuity \in Count /\ ~(p.promiscuity > 0)
      BY <1>1, <2>2, <2>5 DEF PromiscRight, FlagsDevice
    <3>2. p.promiscuity # CountWidth - 1
      BY <3>1 DEF Count, Flags!RxModeAssumption
    <3>3. ~Flags!Overflows(p.promiscuity, Flags!Up)
      BY <3>1, <3>2, OverflowsIs
    <3> QED
      BY <2>2, <3>3 DEF Flags!RxModeOverflows
  <2> QED
    BY <1>1, <2>4, <2>5 DEF FlagsDevice
<1>7. nd' \in {p, Flags!SetRxMode(p)}
  BY <1>4
<1> HIDE DEF p
<1> QED
  BY <1>1, <1>2, <1>3, <1>4, <1>5, <1>6, <1>7, FlagsBefore, HolderOK

LEMMA AllmultiOK ==
  ASSUME Flags!RxModeAssumption, FlagsIInv, Flags!HoldAllmulti \/ Flags!DropAllmulti
  PROVE  FlagsIInv'
<1>1. ASSUME NEW inc \in {Flags!Up, Flags!Down}
      PROVE  LET c == Flags!SetAllmultiCount(nd, inc) IN
             /\ c \in FlagsDevice /\ SameState(nd, c)
             /\ PromiscRight(nd, promHeld) => PromiscRight(c, promHeld)
             /\ Flags!RxModeOverflows(c) <=> Flags!RxModeOverflows(nd)
             /\ Flags!SetAllmulti(nd, inc) \in {c, Flags!SetRxMode(c)}
  <2> DEFINE c == Flags!SetAllmultiCount(nd, inc)
  <2>1. /\ c \in FlagsDevice /\ SameButCounts(nd, c) /\ c.ucPromisc = nd.ucPromisc
        /\ c.promiscuity = nd.promiscuity /\ c.promisc = nd.promisc
    BY FlagsBefore, CountsKeepTypes
  <2>2. Flags!SetAllmulti(nd, inc) \in {c, Flags!SetRxMode(c)}
    BY DEF Flags!SetAllmulti
  <2> HIDE DEF c
  <2>3. /\ SameState(nd, c)
        /\ PromiscRight(nd, promHeld) => PromiscRight(c, promHeld)
        /\ Flags!RxModeOverflows(c) <=> Flags!RxModeOverflows(nd)
    BY <2>1 DEF SameState, SameButCounts, PromiscRight, Flags!RxModeOverflows
  <2> QED
    BY <2>1, <2>2, <2>3 DEF c
<1>2. /\ roof' = (roof \/ Flags!RxModeOverflows(nd)) /\ UNCHANGED <<promHeld, toldUp, missed>>
      /\ roof' \in BOOLEAN
  BY FlagsBefore, OverflowsBool DEF Flags!HoldAllmulti, Flags!DropAllmulti
<1>3. CASE Flags!HoldAllmulti
  <2> DEFINE c == Flags!SetAllmultiCount(nd, Flags!Up)
  <2>1. /\ c \in FlagsDevice /\ SameState(nd, c)
        /\ Flags!SetAllmulti(nd, Flags!Up) \in {c, Flags!SetRxMode(c)}
        /\ PromiscRight(nd, promHeld) => PromiscRight(c, promHeld)
        /\ Flags!RxModeOverflows(c) <=> Flags!RxModeOverflows(nd)
    BY <1>1
  <2>2. CASE Flags!Overflows(nd.allmulti, Flags!Up)
    <3>1. nd' = c /\ multiHeld' = multiHeld
      BY <1>3, <2>2 DEF Flags!HoldAllmulti
    <3>2. nd.allmulti = CountWidth - 1 /\ nd.allmulti \in Count
      BY <2>2, FlagsBefore, OverflowsIs DEF FlagsDevice
    <3>3. c = MultiOn(nd, nd.allmulti)
      BY <3>2, FlagsBefore, SetAllmultiCountIs
    <3>4. MultiRight(nd, multiHeld) => MultiRight(c, multiHeld)
      BY <3>2, <3>3, FlagsBefore DEF MultiRight, MultiOn, FlagsDevice, Flags!RxModeAssumption
    <3> HIDE DEF c
    <3> QED
      BY <1>2, <2>1, <3>1, <3>4, FlagsBefore, HolderOK
  <2>3. CASE ~Flags!Overflows(nd.allmulti, Flags!Up)
    <3>1. nd' = Flags!SetAllmulti(nd, Flags!Up) /\ multiHeld' = multiHeld + 1
      BY <1>3, <2>3 DEF Flags!HoldAllmulti
    <3>2. MultiRight(nd, multiHeld) => MultiRight(c, multiHeld + 1)
      BY <2>3, FlagsBefore, MultiUp
    <3>3. multiHeld' \in Nat
      BY <3>1, FlagsBefore
    <3> HIDE DEF c
    <3> QED
      BY <1>2, <2>1, <3>1, <3>2, <3>3, FlagsBefore, HolderOK
  <2> QED
    BY <2>2, <2>3
<1>4. CASE Flags!DropAllmulti
  <2> DEFINE c == Flags!SetAllmultiCount(nd, Flags!Down)
  <2>1. /\ c \in FlagsDevice /\ SameState(nd, c)
        /\ Flags!SetAllmulti(nd, Flags!Down) \in {c, Flags!SetRxMode(c)}
        /\ PromiscRight(nd, promHeld) => PromiscRight(c, promHeld)
        /\ Flags!RxModeOverflows(c) <=> Flags!RxModeOverflows(nd)
    BY <1>1
  <2>2. nd' = Flags!SetAllmulti(nd, Flags!Down) /\ multiHeld > 0 /\ multiHeld' = multiHeld - 1
    BY <1>4 DEF Flags!DropAllmulti
  <2>3. multiHeld' \in Nat /\ multiHeld = multiHeld' + 1
    BY <2>2, FlagsBefore
  <2>4. MultiRight(nd, multiHeld) => nd.allmulti > 0
    BY <2>2, FlagsBefore DEF MultiRight, Flags!Bit
  <2>5. MultiRight(nd, multiHeld) => MultiRight(c, multiHeld')
    BY <2>3, <2>4, FlagsBefore, MultiDown
  <2> HIDE DEF c
  <2> QED
    BY <1>2, <2>1, <2>2, <2>3, <2>5, FlagsBefore, HolderOK
<1> QED
  BY <1>3, <1>4

LEMMA ChangeAddressesOK ==
  ASSUME Flags!RxModeAssumption, FlagsIInv, Flags!ChangeAddresses
  PROVE  FlagsIInv'
<1> DEFINE d == [nd EXCEPT !.uc = ~nd.uc]
<1>1. /\ d \in FlagsDevice /\ d.up = nd.up /\ d.start = nd.start /\ d.present = nd.present
      /\ d.ucPromisc = nd.ucPromisc
      /\ PromiscRight(nd, promHeld) => PromiscRight(d, promHeld)
      /\ MultiRight(nd, multiHeld) => MultiRight(d, multiHeld)
  BY FlagsBefore DEF FlagsDevice, PromiscRight, MultiRight
<1>2. /\ nd' = Flags!SetRxMode(d) /\ roof' = (roof \/ Flags!RxModeOverflows(d))
      /\ missed' = (missed \/ (d.up /\ ~d.present))
      /\ UNCHANGED <<promHeld, multiHeld, toldUp>>
  BY DEF Flags!ChangeAddresses
<1> HIDE DEF d
<1>3. FltOK(d)
      /\ (~roof' => PromiscRight(d, promHeld) /\ MultiRight(d, multiHeld) /\ ~Flags!RxModeOverflows(d))
  BY <1>1, <1>2, FlagsBefore DEF FltOK
<1>4. /\ nd' \in FlagsDevice /\ FltOK(nd') /\ SameButCounts(d, nd') /\ Synced(nd')
      /\ ~roof' => PromiscRight(nd', promHeld') /\ MultiRight(nd', multiHeld')
  BY <1>1, <1>2, <1>3, FlagsBefore, RxModeEnds
<1>5. nd'.up = nd.up /\ nd'.start = nd.start /\ nd'.present = nd.present
  BY <1>1, <1>4 DEF SameButCounts
<1>6. nd'.up /\ ~missed' => nd'.ucPromisc = (nd'.uc /\ ~UnicastFlt)
  BY <1>1, <1>2, <1>4, <1>5, SyncedIsKnown
<1>7. roof' \in BOOLEAN /\ missed' \in BOOLEAN
  BY <1>1, <1>2, FlagsBefore, OverflowsBool DEF FlagsDevice
<1> QED
  BY <1>2, <1>4, <1>5, <1>6, <1>7, FlagsBefore, FlagsKept DEF FltOK

LEMMA DetachAttachOK == ASSUME FlagsIInv, Flags!DetachAttach PROVE FlagsIInv'
<1>1. /\ nd' \in FlagsDevice /\ nd'.up = nd.up /\ nd'.start = nd.start /\ nd'.uc = nd.uc
      /\ nd'.ucPromisc = nd.ucPromisc /\ UNCHANGED <<promHeld, multiHeld, toldUp, roof, missed>>
      /\ PromiscRight(nd, promHeld) => PromiscRight(nd', promHeld)
      /\ MultiRight(nd, multiHeld) => MultiRight(nd', multiHeld)
  BY FlagsBefore DEF Flags!DetachAttach, FlagsDevice, PromiscRight, MultiRight
<1> QED
  BY <1>1, FlagsBefore, FlagsKept DEF FltOK

LEMMA ChangeFlagsOK ==
  ASSUME Flags!RxModeAssumption, FlagsIInv, NEW flags, NEW vetoed \in BOOLEAN,
         Flags!ChangeFlags(flags, vetoed)
  PROVE  FlagsIInv'
<1> DEFINE toggles == nd.up # ("up" \in flags)
           opens == toggles /\ ~nd.up
           failed == opens /\ (vetoed \/ ~nd.present)
           first == Flags!SetRxMode(nd)
           moved == IF ~toggles \/ failed THEN first
                    ELSE IF opens THEN Flags!Opened(first, FALSE) ELSE Flags!Closed(first)
           prom == Flags!ChangePromisc(moved, flags)
           fits == /\ "promisc" \in flags \ nd.gflags => ~Flags!Overflows(moved.promiscuity, Flags!Up)
                   /\ "multi" \in flags \ nd.gflags => ~Flags!Overflows(prom.allmulti, Flags!Up)
<1>1. /\ nd' = Flags!ChangeAllmulti(prom, flags)
      /\ toldUp' = IF failed THEN toldUp ELSE nd'.up
      /\ missed' = IF nd'.up /\ nd'.present THEN FALSE ELSE missed
      /\ UNCHANGED <<promHeld, multiHeld>>
  BY DEF Flags!ChangeFlags
<1>2. /\ roof' \in BOOLEAN
      /\ ~roof' => /\ ~roof /\ ~Flags!RxModeOverflows(nd) /\ fits
                   /\ ~failed => ~Flags!RxModeOverflows([first EXCEPT !.up = "up" \in flags])
  BY FlagsBefore DEF Flags!ChangeFlags, Flags!RxModeOverflows, Flags!Overflows
<1> HIDE DEF fits
<1>3. /\ first \in FlagsDevice /\ FltOK(first) /\ SameButCounts(nd, first) /\ Synced(first)
      /\ ~(nd.up /\ nd.present) => first = nd
      /\ ~roof' => PromiscRight(first, promHeld) /\ MultiRight(first, multiHeld)
  BY <1>2, FlagsBefore, RxModeEnds
<1>4. /\ first.up = nd.up /\ first.start = nd.start /\ first.present = nd.present
      /\ first.uc = nd.uc
      /\ first.gflags = nd.gflags
  BY <1>3 DEF SameButCounts
<1> HIDE DEF first
<1>5. /\ moved \in FlagsDevice /\ FltOK(moved) /\ Synced(moved) /\ moved.gflags = nd.gflags
      /\ moved.present = nd.present /\ moved.up = moved.start
      /\ moved.up = (IF failed THEN nd.up ELSE "up" \in flags)
      /\ moved.up /\ ~moved.present => moved = nd
      /\ ~roof' => PromiscRight(moved, promHeld) /\ MultiRight(moved, multiHeld)
  <2>1. CASE ~toggles \/ failed
    <3>1. moved = first
      BY <2>1
    <3> QED
      BY <2>1, <3>1, <1>3, <1>4, FlagsBefore
  <2>2. CASE toggles /\ opens /\ ~failed
    <3> DEFINE d == [first EXCEPT !.start = TRUE, !.up = TRUE]
    <3>1. moved = Flags!SetRxMode(d) /\ ~nd.up /\ nd.present /\ "up" \in flags
      BY <2>2, FlagsBefore DEF Flags!Opened, FlagsDevice
    <3>2. /\ d \in FlagsDevice /\ FltOK(d) /\ d.up = TRUE /\ d.start = TRUE
          /\ d.present = nd.present
          /\ d.gflags = nd.gflags
          /\ PromiscRight(first, promHeld) => PromiscRight(d, promHeld)
          /\ MultiRight(first, multiHeld) => MultiRight(d, multiHeld)
          /\ Flags!RxModeOverflows(d) <=> Flags!RxModeOverflows([first EXCEPT !.up = "up" \in flags])
      BY <1>3, <1>4, <3>1 DEF FlagsDevice, FltOK, PromiscRight, MultiRight, Flags!RxModeOverflows
    <3> HIDE DEF d
    <3>3. ~roof' => PromiscRight(d, promHeld) /\ MultiRight(d, multiHeld)
             /\ ~Flags!RxModeOverflows(d)
      BY <1>2, <1>3, <2>2, <3>2
    <3>4. /\ moved \in FlagsDevice /\ FltOK(moved) /\ SameButCounts(d, moved) /\ Synced(moved)
          /\ ~roof' => PromiscRight(moved, promHeld) /\ MultiRight(moved, multiHeld)
      BY <3>1, <3>2, <3>3, FlagsBefore, RxModeEnds
    <3> HIDE DEF moved
    <3>5. moved.up = TRUE /\ moved.start = TRUE /\ moved.present = nd.present
          /\ moved.gflags = nd.gflags
      BY <3>2, <3>4 DEF SameButCounts
    <3> QED
      BY <2>2, <3>1, <3>4, <3>5
  <2>3. CASE toggles /\ ~opens
    <3>1. moved = Flags!Closed(first) /\ nd.up /\ ~("up" \in flags)
      BY <2>3, FlagsBefore DEF FlagsDevice
    <3>2. /\ moved \in FlagsDevice /\ moved.up = FALSE /\ moved.start = FALSE
          /\ moved.present = nd.present /\ moved.gflags = nd.gflags
          /\ moved.ucPromisc = first.ucPromisc
          /\ PromiscRight(first, promHeld) => PromiscRight(moved, promHeld)
          /\ MultiRight(first, multiHeld) => MultiRight(moved, multiHeld)
      BY <1>3, <1>4, <3>1 DEF Flags!Closed, FlagsDevice, PromiscRight, MultiRight
    <3> HIDE DEF moved
    <3>3. FltOK(moved)
      BY <1>3, <3>2 DEF FltOK
    <3>4. Synced(moved)
      BY <3>2 DEF Synced
    <3>5. moved.up = (IF failed THEN nd.up ELSE "up" \in flags)
      <4>1. ~failed
        BY <2>3
      <4>2. ("up" \in flags) = FALSE
        BY <3>1
      <4> HIDE DEF failed
      <4> QED
        BY <4>1, <4>2, <3>2
    <3>6. moved.up /\ ~moved.present => moved = nd
      BY <3>2
    <3>7. ~roof' => PromiscRight(moved, promHeld) /\ MultiRight(moved, multiHeld)
      BY <1>2, <1>3, <3>2
    <3> QED
      BY <3>2, <3>3, <3>4, <3>5, <3>6, <3>7
  <2> QED
    BY <2>1, <2>2, <2>3
<1> HIDE DEF moved
<1>6. /\ prom \in FlagsDevice /\ SameState(moved, prom)
      /\ ("multi" \in prom.gflags) = ("multi" \in moved.gflags)
      /\ /\ PromiscRight(moved, promHeld) /\ MultiRight(moved, multiHeld)
         /\ "promisc" \in flags /\ "promisc" \notin moved.gflags
            => ~Flags!Overflows(moved.promiscuity, Flags!Up)
         => PromiscRight(prom, promHeld) /\ MultiRight(prom, multiHeld)
  BY <1>5, FlagsBefore, ChangePromiscRight
<1>7. /\ Synced(prom) /\ FltOK(prom)
      /\ ~roof' => PromiscRight(prom, promHeld) /\ MultiRight(prom, multiHeld)
  BY <1>2, <1>5, <1>6 DEF SameState, Synced, FltOK, fits
<1> HIDE DEF prom
<1>8. /\ nd' \in FlagsDevice /\ SameState(prom, nd')
      /\ /\ PromiscRight(prom, promHeld) /\ MultiRight(prom, multiHeld)
         /\ "multi" \in flags /\ "multi" \notin prom.gflags
            => ~Flags!Overflows(prom.allmulti, Flags!Up)
         => PromiscRight(nd', promHeld) /\ MultiRight(nd', multiHeld)
  BY <1>1, <1>6, <1>7, FlagsBefore, ChangeAllmultiRight
<1>9. ~roof' => PromiscRight(nd', promHeld') /\ MultiRight(nd', multiHeld')
  BY <1>1, <1>2, <1>5, <1>6, <1>7, <1>8 DEF fits
<1>10. SameState(moved, nd') /\ FltOK(nd') /\ Synced(nd')
  BY <1>5, <1>6, <1>8 DEF SameState, FltOK, Synced
<1>11. nd'.up /\ ~missed' => nd'.ucPromisc = (nd'.uc /\ ~UnicastFlt)
  <2>1. CASE nd'.up /\ nd'.present
    BY <2>1, <1>8, <1>10, SyncedIsKnown
  <2>2. CASE nd'.up /\ ~nd'.present
    <3>1. moved = nd /\ missed' = missed
      BY <2>2, <1>1, <1>5, <1>10 DEF SameState
    <3> QED
      BY <2>2, <3>1, <1>10, FlagsBefore DEF SameState
  <2> QED
    BY <2>1, <2>2
<1>12. nd'.up = toldUp' /\ nd'.up = nd'.start
  <2>1. nd'.up = moved.up /\ nd'.start = moved.start
    BY <1>10 DEF SameState
  <2> QED
    BY <2>1, <1>1, <1>5, FlagsBefore
<1>13. toldUp' \in BOOLEAN /\ missed' \in BOOLEAN
  BY <1>1, <1>8, FlagsBefore DEF FlagsDevice
<1> QED
  BY <1>1, <1>2, <1>8, <1>9, <1>10, <1>11, <1>12, <1>13, FlagsBefore, FlagsKept DEF FltOK

LEMMA FlagsStep == ASSUME Flags!RxModeAssumption, FlagsIInv, Flags!Next PROVE FlagsIInv'
  BY DevOpenOK, ChangeFlagsOK, DevCloseOK, HoldPromiscOK, DropPromiscOK, AllmultiOK,
     ChangeAddressesOK, DetachAttachOK DEF Flags!Next

LEMMA FlagsStay == ASSUME FlagsIInv, UNCHANGED Flags!rxVars PROVE FlagsIInv'
  BY DEF FlagsIInv, FlagsTypeOK, CountsRight, Flags!StateIsKnown, Flags!rxVars

LEMMA FlagsSound == ASSUME Flags!RxModeAssumption, FlagsIInv PROVE Flags!RxModeIsRight
<1>1. ASSUME ~roof
      PROVE  /\ nd.promiscuity = (promHeld + Flags!Bit("promisc" \in nd.gflags)
                                     + Flags!Bit(nd.ucPromisc)) % CountWidth
                         /\ nd.allmulti = (multiHeld + Flags!Bit("multi" \in nd.gflags)) % CountWidth
  <2>1. nd.promiscuity \in Count /\ nd.allmulti \in Count
    BY FlagsBefore DEF FlagsDevice
  <2>2. nd.promiscuity % CountWidth = nd.promiscuity /\ nd.allmulti % CountWidth = nd.allmulti
    BY <2>1, SmallMod
  <2> QED
    BY <1>1, <2>2, FlagsBefore DEF PromiscRight, MultiRight
<1> QED
  BY <1>1, FlagsBefore DEF Flags!RxModeIsRight, Flags!CountsAreHolders, Flags!StateIsKnown,
                           PromiscRight, MultiRight
-----------------------------------------------------------------------------
(* Features                                                                *)

Level == CHOOSE level \in Bits!Levels : TRUE

BitsCall == [pc : {"update", "sync", "disable", "below"}, dev : BitsDev, to : SUBSET Bits!Bits,
             todo : SUBSET BitsDev]

Calls(stack) == {stack[i] : i \in 1 .. Len(stack)}

FitsIn(f) ==
    /\ "hw" \in f => f \cap {"ip", "ip6"} = {}
    /\ f \cap {"tso", "tso6", "ecn", "gso", "ufo"} # {} => "sg" \in f
    /\ "tso" \in f => f \cap {"hw", "ip"} # {}
    /\ "tso6" \in f => f \cap {"hw", "ip6"} # {}
    /\ "ecn" \in f => f \cap {"tso", "tso6"} # {}
    /\ "ufo" \in f => "hw" \in f \/ {"ip", "ip6"} \subseteq f

BitsTypeOK == /\ linkedTo \subseteq BelowPairs
              /\ features \in [BitsDev -> SUBSET Bits!Bits]
              /\ wanted \in [BitsDev -> SUBSET Bits!Bits]
              /\ \A d \in BitsDev : wanted[d] \subseteq Hw[d] \cup {"gso"}
              /\ calls \in Seq(BitsCall) /\ refused \subseteq BitsDev /\ changed \in Nat

Falling(stack) == \A i, j \in 1 .. Len(stack) : i < j => Level[stack[i].dev] <= Level[stack[j].dev]

CallOK(c) == /\ \A l \in c.todo : <<l, c.dev>> \in linkedTo
             /\ c.pc = "sync" => FitsIn(c.to)
             /\ c.pc = "sync" /\ "lro" \in c.to => \A u \in Bits!Uppers(c.dev) : "lro" \in wanted[u]

Owes(c, l, u) == \/ c.pc \in {"update", "disable"} /\ c.dev = l
                 \/ c.pc = "sync" /\ "lro" \notin c.to /\ c.dev = l
                 \/ c.pc = "sync" /\ "lro" \notin c.to /\ c.dev = u /\ l \in c.todo
                 \/ c.pc \in {"update", "disable"} /\ c.dev = u /\ "lro" \in Hw[u]

PairOK(l, u) == "lro" \notin wanted[u] /\ l \notin refused
                /\ (u \notin refused \/ "lro" \notin Hw[u])
                  /\ "lro" \in features[l]
                => \E c \in Calls(calls) : Owes(c, l, u)

BitsIInv == /\ BitsTypeOK /\ Falling(calls)
            /\ \A d \in BitsDev : FitsIn(features[d])
            /\ \A c \in Calls(calls) : CallOK(c)
            /\ \A l, u \in BitsDev : <<l, u>> \in linkedTo => PairOK(l, u)

\* netdev_fix_features leaves nothing without what it needs.
LEMMA FixFits == ASSUME NEW f \in SUBSET Bits!Bits
                PROVE  Bits!Fix(f) \in SUBSET Bits!Bits /\ Bits!Fix(f) \subseteq f
                       /\ FitsIn(Bits!Fix(f))
<1> DEFINE csum == Bits!Drop(f, "hw" \notin f, {"ip", "ip6"})
           sg == Bits!Drop(csum, "sg" \in csum, {"tso", "tso6", "ecn"})
           tso == Bits!Drop(sg, "tso" \notin sg \/ sg \cap {"hw", "ip"} # {}, {"tso", "ecn"})
           tso6 == Bits!Drop(tso, tso \cap {"hw", "ip6"} # {}, {"tso6"})
           ecn == Bits!Drop(tso6, tso6 \cap {"tso", "tso6"} # {}, {"ecn"})
           gso == Bits!Drop(ecn, "sg" \in ecn, {"gso"})
           ufo == Bits!Drop(gso, "sg" \in gso /\ ("hw" \in gso \/ {"ip", "ip6"} \subseteq gso), {"ufo"})
<1>1. csum \in SUBSET Bits!Bits /\ csum \subseteq f
      /\ ("hw" \in csum => "ip" \notin csum /\ "ip6" \notin csum)
  BY DEF Bits!Drop
<1> HIDE DEF csum
<1>2. /\ sg \in SUBSET Bits!Bits /\ sg \subseteq csum
      /\ \A b \in {"hw", "ip", "ip6", "sg"} : b \in sg <=> b \in csum
      /\ "tso" \in sg \/ "tso6" \in sg \/ "ecn" \in sg => "sg" \in sg
  BY <1>1 DEF Bits!Drop
<1> HIDE DEF sg
<1>3. /\ tso \in SUBSET Bits!Bits /\ tso \subseteq sg
      /\ \A b \in {"hw", "ip", "ip6", "sg", "tso6"} : b \in tso <=> b \in sg
      /\ "tso" \in tso => "hw" \in tso \/ "ip" \in tso
      /\ "tso" \in tso \/ "ecn" \in tso => "sg" \in tso
  BY <1>2 DEF Bits!Drop
<1> HIDE DEF tso
<1>4. /\ tso6 \in SUBSET Bits!Bits /\ tso6 \subseteq tso
      /\ \A b \in {"hw", "ip", "ip6", "sg", "tso", "ecn"} : b \in tso6 <=> b \in tso
      /\ "tso6" \in tso6 => "hw" \in tso6 \/ "ip6" \in tso6
      /\ "tso6" \in tso6 => "tso6" \in tso
  BY <1>3 DEF Bits!Drop
<1> HIDE DEF tso6
<1>5. /\ ecn \in SUBSET Bits!Bits /\ ecn \subseteq tso6
      /\ \A b \in {"hw", "ip", "ip6", "sg", "tso", "tso6"} : b \in ecn <=> b \in tso6
      /\ "ecn" \in ecn => "tso" \in ecn \/ "tso6" \in ecn
      /\ "ecn" \in ecn => "ecn" \in tso6
  BY <1>4 DEF Bits!Drop
<1> HIDE DEF ecn
<1>6. /\ gso \in SUBSET Bits!Bits /\ gso \subseteq ecn
      /\ \A b \in {"hw", "ip", "ip6", "sg", "tso", "tso6", "ecn"} : b \in gso <=> b \in ecn
      /\ "gso" \in gso => "sg" \in gso
  BY <1>5 DEF Bits!Drop
<1> HIDE DEF gso
<1>7. /\ ufo \in SUBSET Bits!Bits /\ ufo \subseteq gso
      /\ \A b \in {"hw", "ip", "ip6", "sg", "tso", "tso6", "ecn", "gso"} : b \in ufo <=> b \in gso
      /\ "ufo" \in ufo => "sg" \in ufo /\ ("hw" \in ufo \/ ("ip" \in ufo /\ "ip6" \in ufo))
  BY <1>6, SMTT(30) DEF Bits!Drop
<1>8. Bits!Fix(f) = ufo
  BY DEF Bits!Fix, csum, sg, tso, tso6, ecn, gso
<1> HIDE DEF ufo
<1>9. FitsIn(ufo)
  <2>1. "hw" \in ufo => ufo \cap {"ip", "ip6"} = {}
    BY <1>1, <1>2, <1>3, <1>4, <1>5, <1>6, <1>7
  <2>2. ufo \cap {"tso", "tso6", "ecn", "gso", "ufo"} # {} => "sg" \in ufo
    BY <1>2, <1>3, <1>4, <1>5, <1>6, <1>7
  <2>3. "tso" \in ufo => ufo \cap {"hw", "ip"} # {}
    BY <1>3, <1>4, <1>5, <1>6, <1>7
  <2>4. "tso6" \in ufo => ufo \cap {"hw", "ip6"} # {}
    BY <1>4, <1>5, <1>6, <1>7
  <2>5. "ecn" \in ufo => ufo \cap {"tso", "tso6"} # {}
    BY <1>5, <1>6, <1>7
  <2> QED
    BY <1>7, <2>1, <2>2, <2>3, <2>4, <2>5 DEF FitsIn
<1>10. ufo \subseteq f
  BY <1>1, <1>2, <1>3, <1>4, <1>5, <1>6, <1>7
<1> QED
  BY <1>7, <1>8, <1>9, <1>10

\* What a device may be given: it fits, and has no LRO that the device or one above it
\* does not want.
LEMMA TargetsFit ==
  ASSUME Bits!FeaturesAssumption, BitsTypeOK, NEW d \in BitsDev, NEW f \in Bits!Targets(d)
  PROVE  /\ f \in SUBSET Bits!Bits /\ FitsIn(f)
         /\ "lro" \in f => \A u \in Bits!Uppers(d) : "lro" \in wanted[u]
         /\ "lro" \in f /\ "lro" \in Hw[d] => "lro" \in wanted[d]
<1>1. PICK dropped \in SUBSET {"lro"} :
        f = IF \E u \in Bits!Uppers(d) : "lro" \notin wanted[u]
            THEN Bits!Fix(((features[d] \ Hw[d]) \cup wanted[d]) \ dropped) \ {"lro"}
            ELSE Bits!Fix(((features[d] \ Hw[d]) \cup wanted[d]) \ dropped)
  BY DEF Bits!Targets
<1> DEFINE g == ((features[d] \ Hw[d]) \cup wanted[d]) \ dropped
<1>2. g \in SUBSET Bits!Bits /\ ("lro" \in g /\ "lro" \in Hw[d] => "lro" \in wanted[d])
  BY DEF BitsTypeOK
<1> HIDE DEF g
<1>3. Bits!Fix(g) \in SUBSET Bits!Bits /\ FitsIn(Bits!Fix(g))
      /\ ("lro" \in Bits!Fix(g) => "lro" \in g)
  BY <1>2, FixFits
<1>4. f = Bits!Fix(g) \/ f = Bits!Fix(g) \ {"lro"}
  BY <1>1 DEF g
<1>5. FitsIn(Bits!Fix(g) \ {"lro"})
  BY <1>3 DEF FitsIn
<1>6. "lro" \in f => \A u \in Bits!Uppers(d) : "lro" \in wanted[u]
  BY <1>1
<1> QED
  BY <1>2, <1>3, <1>4, <1>5, <1>6

\* Calls on the stack
LEMMA Pushed ==
  ASSUME NEW stack \in Seq(BitsCall), Falling(stack), NEW c \in BitsCall,
         \A x \in Calls(stack) : Level[c.dev] <= Level[x.dev]
  PROVE  /\ <<c>> \o stack \in Seq(BitsCall) /\ Falling(<<c>> \o stack)
         /\ Calls(<<c>> \o stack) = {c} \cup Calls(stack)
<1> DEFINE s == <<c>> \o stack
<1>1. /\ s \in Seq(BitsCall) /\ Len(s) = Len(stack) + 1 /\ Len(stack) \in Nat
      /\ s[1] = c /\ \A i \in 2 .. Len(s) : i - 1 \in 1 .. Len(stack) /\ s[i] = stack[i - 1]
  OBVIOUS
<1>2. \A i \in 1 .. Len(stack) : i + 1 \in 2 .. Len(s) /\ s[i + 1] = stack[i]
  BY <1>1
<1> HIDE DEF s
<1>3. Calls(s) = {c} \cup Calls(stack)
  <2>1. ASSUME NEW x \in Calls(s) PROVE x \in {c} \cup Calls(stack)
    BY <1>1 DEF Calls
  <2>2. c \in Calls(s)
    <3>1. 1 \in 1 .. Len(s)
      BY <1>1
    <3> QED
      BY <1>1, <3>1 DEF Calls
  <2>3. ASSUME NEW x \in Calls(stack) PROVE x \in Calls(s)
    <3>1. PICK i \in 1 .. Len(stack) : x = stack[i]
      BY DEF Calls
    <3>2. i + 1 \in 1 .. Len(s)
      BY <1>1
    <3> QED
      BY <1>2, <3>1, <3>2 DEF Calls
  <2> QED
    BY <2>1, <2>2, <2>3
<1>4. Falling(s)
  <2> SUFFICES ASSUME NEW i \in 1 .. Len(s), NEW j \in 1 .. Len(s), i < j
               PROVE  Level[s[i].dev] <= Level[s[j].dev]
    BY DEF Falling
  <2>1. j - 1 \in 1 .. Len(stack) /\ s[j] = stack[j - 1]
    BY <1>1
  <2>2. CASE i = 1
    BY <1>1, <2>1, <2>2 DEF Calls
  <2>3. CASE i # 1
    <3>1. i - 1 \in 1 .. Len(stack) /\ s[i] = stack[i - 1] /\ i - 1 < j - 1
      BY <1>1, <2>3
    <3> QED
      BY <2>1, <3>1 DEF Falling
  <2> QED
    BY <2>2, <2>3
<1> QED
  BY <1>1, <1>3, <1>4 DEF s

LEMMA Popped ==
  ASSUME NEW stack \in Seq(BitsCall), Falling(stack), stack # <<>>
  PROVE  /\ Tail(stack) \in Seq(BitsCall) /\ Falling(Tail(stack)) /\ stack[1] \in BitsCall
         /\ Calls(stack) = {stack[1]} \cup Calls(Tail(stack))
         /\ \A x \in Calls(Tail(stack)) : Level[stack[1].dev] <= Level[x.dev]
<1> DEFINE s == Tail(stack)
<1>1. /\ s \in Seq(BitsCall) /\ Len(s) = Len(stack) - 1 /\ Len(stack) \in Nat \ {0}
      /\ stack[1] \in BitsCall
      /\ \A i \in 1 .. Len(s) : i + 1 \in 2 .. Len(stack) /\ s[i] = stack[i + 1]
  OBVIOUS
<1>2. \A i \in 2 .. Len(stack) : i - 1 \in 1 .. Len(s) /\ stack[i] = s[i - 1]
  BY <1>1
<1> HIDE DEF s
<1>3. Calls(stack) = {stack[1]} \cup Calls(s)
  <2>1. ASSUME NEW x \in Calls(stack) PROVE x \in {stack[1]} \cup Calls(s)
    <3>1. PICK i \in 1 .. Len(stack) : x = stack[i]
      BY DEF Calls
    <3>2. CASE i = 1
      BY <3>1, <3>2
    <3>3. CASE i # 1
      <4>1. i \in 2 .. Len(stack)
        BY <1>1, <3>3
      <4> QED
        BY <1>2, <3>1, <4>1 DEF Calls
    <3> QED
      BY <3>2, <3>3
  <2>2. ASSUME NEW x \in {stack[1]} \cup Calls(s) PROVE x \in Calls(stack)
    BY <1>1 DEF Calls
  <2> QED
    BY <2>1, <2>2
<1>4. Falling(s)
  BY <1>1 DEF Falling
<1>5. ASSUME NEW x \in Calls(s) PROVE Level[stack[1].dev] <= Level[x.dev]
  <2>1. PICK i \in 1 .. Len(s) : x = s[i]
    BY DEF Calls
  <2>2. i + 1 \in 1 .. Len(stack) /\ 1 < i + 1 /\ 1 \in 1 .. Len(stack) /\ x = stack[i + 1]
    BY <1>1, <2>1
  <2> QED
    BY <2>2 DEF Falling
<1> QED
  BY <1>1, <1>3, <1>4, <1>5 DEF s

LEMMA NothingUnder == Calls(<<>>) = {} /\ Falling(<<>>) /\ <<>> \in Seq(BitsCall)
  BY DEF Calls, Falling

LEMMA OneCall == ASSUME NEW c \in BitsCall
                 PROVE  <<c>> \in Seq(BitsCall) /\ Falling(<<c>>) /\ Calls(<<c>>) = {c}
<1>1. <<c>> \o <<>> = <<c>>
  OBVIOUS
<1>2. \A x \in Calls(<<>>) : Level[c.dev] <= Level[x.dev]
  BY NothingUnder
<1> QED
  BY <1>1, <1>2, NothingUnder, Pushed

LEMMA LevelIs == ASSUME Bits!FeaturesAssumption
                 PROVE  /\ Level \in [BitsDev -> Int]
                        /\ \A l, u \in BitsDev : <<l, u>> \in BelowPairs => Level[l] < Level[u]
<1>1. Level \in Bits!Levels
  BY DEF Level, Bits!FeaturesAssumption
<1> QED
  BY <1>1 DEF Bits!Levels

\* The innermost call and those it is made from
LEMMA TopCall ==
  ASSUME BitsIInv, calls # <<>>
  PROVE  /\ calls[1] \in BitsCall /\ CallOK(calls[1]) /\ Tail(calls) \in Seq(BitsCall)
         /\ Falling(Tail(calls)) /\ Calls(calls) = {calls[1]} \cup Calls(Tail(calls))
         /\ \A x \in Calls(Tail(calls)) : /\ x \in BitsCall /\ CallOK(x)
                                           /\ Level[calls[1].dev] <= Level[x.dev]
<1>1. /\ calls[1] \in BitsCall /\ Tail(calls) \in Seq(BitsCall) /\ Falling(Tail(calls))
      /\ Calls(calls) = {calls[1]} \cup Calls(Tail(calls))
      /\ \A x \in Calls(Tail(calls)) : Level[calls[1].dev] <= Level[x.dev]
  BY Popped DEF BitsIInv, BitsTypeOK
<1>2. \A c \in Calls(calls) : CallOK(c)
  BY DEF BitsIInv
<1>3. \A x \in Calls(Tail(calls)) : x \in BitsCall
  BY <1>1 DEF Calls
<1> QED
  BY <1>1, <1>2, <1>3

LEMMA SameCallOK == ASSUME UNCHANGED <<linkedTo, wanted>>, NEW c PROVE CallOK(c)' <=> CallOK(c)
  BY DEF CallOK, Bits!Uppers

\* Taking LRO from a device that no call below looks down from
LEMMA CallOKKept ==
  ASSUME Bits!FeaturesAssumption, BitsTypeOK, UNCHANGED linkedTo, NEW x \in BitsDev,
         wanted' = [wanted EXCEPT ![x] = @ \ {"lro"}],
         NEW c \in BitsCall, CallOK(c), Level[x] <= Level[c.dev]
  PROVE  CallOK(c)'
<1>1. ASSUME NEW u \in Bits!Uppers(c.dev) PROVE u \in BitsDev /\ u # x
  <2>1. u \in BitsDev /\ <<c.dev, u>> \in BelowPairs /\ c.dev \in BitsDev
    BY DEF Bits!Uppers, BitsTypeOK, BitsCall
  <2>2. Level[c.dev] < Level[u] /\ Level[c.dev] \in Int /\ Level[u] \in Int
    BY <2>1, LevelIs
  <2>3. Level[x] \in Int
    BY LevelIs
  <2> QED
    BY <2>1, <2>2, <2>3
<1>2. \A u \in Bits!Uppers(c.dev) : wanted'[u] = wanted[u]
  BY <1>1 DEF BitsTypeOK
<1>3. Bits!Uppers(c.dev)' = Bits!Uppers(c.dev)
  BY DEF Bits!Uppers
<1> QED
  BY <1>2, <1>3 DEF CallOK

LEMMA WantedLess ==
  ASSUME BitsTypeOK, NEW x \in BitsDev, wanted' = [wanted EXCEPT ![x] = @ \ {"lro"}]
  PROVE  /\ wanted' \in [BitsDev -> SUBSET Bits!Bits]
         /\ \A d \in BitsDev : wanted'[d] \subseteq Hw[d] \cup {"gso"}
         /\ \A d \in BitsDev \ {x} : wanted'[d] = wanted[d]
         /\ "lro" \in wanted[x] => "lro" \in Hw[x]
  BY DEF BitsTypeOK

\* __netdev_update_features settles on f and turns to the devices below.
LEMMA SettlesOK ==
  ASSUME Bits!FeaturesAssumption, BitsIInv, Bits!At("update"), NEW f \in Bits!Targets(calls[1].dev),
         calls' = <<[pc |-> "sync", dev |-> calls[1].dev, to |-> f,
                    todo |-> Bits!Lowers(calls[1].dev)]>>
                   \o Tail(calls),
         refused' = refused \ {calls[1].dev}, UNCHANGED <<linkedTo, features, wanted, changed>>
  PROVE  BitsIInv'
<1> DEFINE d == calls[1].dev
           c == [pc |-> "sync", dev |-> d, to |-> f, todo |-> Bits!Lowers(d)]
           rest == Tail(calls)
<1>1. calls # <<>> /\ calls[1].pc = "update"
  BY DEF Bits!At
<1>2. /\ calls[1] \in BitsCall /\ rest \in Seq(BitsCall) /\ Falling(rest)
      /\ Calls(calls) = {calls[1]} \cup Calls(rest)
      /\ \A x \in Calls(rest) : x \in BitsCall /\ CallOK(x) /\ Level[d] <= Level[x.dev]
  BY <1>1, TopCall
<1>3. d \in BitsDev
  BY <1>2 DEF BitsCall
<1>4. /\ f \in SUBSET Bits!Bits /\ FitsIn(f)
      /\ "lro" \in f => \A u \in Bits!Uppers(d) : "lro" \in wanted[u]
      /\ "lro" \in f /\ "lro" \in Hw[d] => "lro" \in wanted[d]
  BY <1>3, TargetsFit DEF BitsIInv
<1>5. c \in BitsCall /\ c.dev = d /\ c.pc = "sync" /\ c.to = f /\ c.todo = Bits!Lowers(d)
  BY <1>3, <1>4 DEF BitsCall, Bits!Lowers
<1>6. CallOK(c)
  BY <1>4, <1>5 DEF CallOK, Bits!Lowers
<1>7. calls' = <<c>> \o rest
  OBVIOUS
<1> HIDE DEF c, rest
<1>8. calls' \in Seq(BitsCall) /\ Falling(calls') /\ Calls(calls') = {c} \cup Calls(rest)
  BY <1>2, <1>5, <1>7, Pushed
<1>9. BitsTypeOK' /\ \A x \in BitsDev : FitsIn(features'[x])
  BY <1>8 DEF BitsIInv, BitsTypeOK
<1>10. \A x \in Calls(calls') : CallOK(x)'
  BY <1>2, <1>6, <1>8, SameCallOK
<1>11. ASSUME NEW l \in BitsDev, NEW u \in BitsDev, <<l, u>> \in linkedTo',
              "lro" \notin wanted'[u], l \notin refused',
              u \notin refused' \/ "lro" \notin Hw[u], "lro" \in features'[l]
       PROVE  \E x \in Calls(calls') : Owes(x, l, u)
  <2>1. CASE l = d
    <3>1. u \in Bits!Uppers(d)
      BY <2>1, <1>11 DEF Bits!Uppers
    <3>2. Owes(c, l, u)
      BY <2>1, <3>1, <1>4, <1>5, <1>11 DEF Owes
    <3> QED
      BY <3>2, <1>8
  <2>2. CASE l # d /\ u = d /\ "lro" \in Hw[u]
    <3>1. l \in Bits!Lowers(d)
      BY <2>2, <1>11 DEF Bits!Lowers
    <3>2. Owes(c, l, u)
      BY <2>2, <3>1, <1>4, <1>5, <1>11 DEF Owes
    <3> QED
      BY <3>2, <1>8
  <2>3. CASE l # d /\ ~(u = d /\ "lro" \in Hw[u])
    <3>1. PICK x \in Calls(calls) : Owes(x, l, u)
      BY <2>3, <1>11 DEF BitsIInv, PairOK
    <3>2. x # calls[1]
      BY <1>1, <2>3, <3>1 DEF Owes
    <3> QED
      BY <1>2, <1>8, <3>1, <3>2
  <2> QED
    BY <2>1, <2>2, <2>3
<1> QED
  BY <1>8, <1>9, <1>10, <1>11 DEF BitsIInv, PairOK

LEMMA SetFeaturesFailsOK ==
  ASSUME Bits!FeaturesAssumption, BitsIInv, Bits!SetFeaturesFails
  PROVE  BitsIInv'
<1> DEFINE d == calls[1].dev
           rest == Tail(calls)
<1>1. /\ calls # <<>> /\ calls[1].pc = "update" /\ calls' = rest /\ refused' = refused \cup {d}
      /\ UNCHANGED <<linkedTo, features, wanted, changed>>
  BY DEF Bits!SetFeaturesFails, Bits!At
<1>2. /\ calls[1] \in BitsCall /\ rest \in Seq(BitsCall) /\ Falling(rest)
      /\ Calls(calls) = {calls[1]} \cup Calls(rest)
      /\ \A x \in Calls(rest) : CallOK(x)
  BY <1>1, TopCall
<1>3. d \in BitsDev
  BY <1>2 DEF BitsCall
<1> HIDE DEF rest
<1>4. BitsTypeOK' /\ \A x \in BitsDev : FitsIn(features'[x])
  BY <1>1, <1>2, <1>3 DEF BitsIInv, BitsTypeOK
<1>5. \A x \in Calls(calls') : CallOK(x)'
  BY <1>1, <1>2, SameCallOK
<1>6. ASSUME NEW l \in BitsDev, NEW u \in BitsDev, <<l, u>> \in linkedTo', "lro" \notin wanted'[u],
             l \notin refused',
             u \notin refused' \/ "lro" \notin Hw[u], "lro" \in features'[l]
      PROVE  \E x \in Calls(calls') : Owes(x, l, u)
  <2>1. PICK x \in Calls(calls) : Owes(x, l, u)
    BY <1>1, <1>6 DEF BitsIInv, PairOK
  <2>2. x # calls[1]
    BY <1>1, <1>6, <2>1 DEF Owes
  <2> QED
    BY <1>1, <1>2, <2>1, <2>2
<1> QED
  BY <1>1, <1>2, <1>4, <1>5, <1>6 DEF BitsIInv, PairOK

LEMMA UpdatedOK == ASSUME Bits!FeaturesAssumption, BitsIInv, Bits!Updated PROVE BitsIInv'
<1> DEFINE d == calls[1].dev
           rest == Tail(calls)
<1>1. /\ calls # <<>> /\ calls[1].pc = "sync" /\ calls[1].todo = {} /\ calls' = rest
      /\ features' = [features EXCEPT ![d] = calls[1].to]
      /\ UNCHANGED <<linkedTo, wanted, refused, changed>>
  BY DEF Bits!Updated, Bits!At
<1>2. /\ calls[1] \in BitsCall /\ CallOK(calls[1]) /\ rest \in Seq(BitsCall) /\ Falling(rest)
      /\ Calls(calls) = {calls[1]} \cup Calls(rest)
      /\ \A x \in Calls(rest) : CallOK(x)
  BY <1>1, TopCall
<1>3. d \in BitsDev /\ calls[1].to \in SUBSET Bits!Bits /\ FitsIn(calls[1].to)
  BY <1>1, <1>2 DEF BitsCall, CallOK
<1> HIDE DEF rest
<1>4. BitsTypeOK' /\ \A x \in BitsDev : FitsIn(features'[x])
  BY <1>1, <1>2, <1>3 DEF BitsIInv, BitsTypeOK
<1>5. \A x \in Calls(calls') : CallOK(x)'
  BY <1>1, <1>2, SameCallOK
<1>6. ASSUME NEW l \in BitsDev, NEW u \in BitsDev, <<l, u>> \in linkedTo', "lro" \notin wanted'[u],
             l \notin refused',
             u \notin refused' \/ "lro" \notin Hw[u], "lro" \in features'[l]
      PROVE  \E x \in Calls(calls') : Owes(x, l, u)
  <2>1. l # d
    <3> SUFFICES ASSUME l = d PROVE FALSE
      OBVIOUS
    <3>1. "lro" \in calls[1].to /\ u \in Bits!Uppers(d)
      BY <1>1, <1>3, <1>6 DEF BitsIInv, BitsTypeOK, Bits!Uppers
    <3> QED
      BY <1>1, <1>2, <1>6, <3>1 DEF CallOK
  <2>2. features'[l] = features[l]
    BY <1>1, <2>1 DEF BitsIInv, BitsTypeOK
  <2>3. PICK x \in Calls(calls) : Owes(x, l, u)
    BY <1>1, <1>6, <2>2 DEF BitsIInv, PairOK
  <2>4. x # calls[1]
    BY <1>1, <2>1, <2>3 DEF Owes
  <2> QED
    BY <1>1, <1>2, <2>3, <2>4
<1> QED
  BY <1>1, <1>2, <1>4, <1>5, <1>6 DEF BitsIInv, PairOK

LEMMA StartedIs ==
  ASSUME NEW d \in BitsDev
  PROVE  /\ Bits!Update(d) \in BitsCall /\ Bits!Update(d).pc = "update"
         /\ Bits!Update(d).dev = d /\ CallOK(Bits!Update(d))'
         /\ Bits!Disable(d) \in BitsCall /\ Bits!Disable(d).pc = "disable"
         /\ Bits!Disable(d).dev = d /\ CallOK(Bits!Disable(d))'
  BY DEF Bits!Update, Bits!Disable, BitsCall, CallOK

LEMMA SyncLowerOK == ASSUME Bits!FeaturesAssumption, BitsIInv, Bits!SyncLower PROVE BitsIInv'
<1> DEFINE rest == Tail(calls)
           d == calls[1].dev
<1>1. calls # <<>> /\ calls[1].pc = "sync" /\ UNCHANGED <<linkedTo, features, refused, changed>>
  BY DEF Bits!SyncLower, Bits!At
<1>2. PICK l \in calls[1].todo :
        LET under == <<[calls[1] EXCEPT !.todo = @ \ {l}]>> \o rest
        IN IF "lro" \notin calls[1].to /\ "lro" \in features[l]
           THEN /\ wanted' = [wanted EXCEPT ![l] = @ \ {"lro"}]
                /\ calls' = <<Bits!Update(l)>> \o under
           ELSE calls' = under /\ UNCHANGED wanted
  BY DEF Bits!SyncLower
<1> DEFINE c == [calls[1] EXCEPT !.todo = @ \ {l}]
           under == <<c>> \o rest
<1>3. /\ calls[1] \in BitsCall /\ CallOK(calls[1]) /\ rest \in Seq(BitsCall) /\ Falling(rest)
      /\ Calls(calls) = {calls[1]} \cup Calls(rest)
      /\ \A x \in Calls(rest) : x \in BitsCall /\ CallOK(x) /\ Level[d] <= Level[x.dev]
  BY <1>1, TopCall
<1>4. d \in BitsDev /\ l \in BitsDev /\ <<l, d>> \in linkedTo /\ <<l, d>> \in BelowPairs
  BY <1>3 DEF BitsCall, CallOK, BitsIInv, BitsTypeOK
<1>5. /\ c \in BitsCall /\ c.dev = d /\ c.pc = "sync" /\ c.to = calls[1].to
      /\ c.todo = calls[1].todo \ {l}
  BY <1>1, <1>3 DEF BitsCall
<1> HIDE DEF c
<1>6. CallOK(c)
  BY <1>1, <1>3, <1>5 DEF CallOK
<1>7. under \in Seq(BitsCall) /\ Falling(under) /\ Calls(under) = {c} \cup Calls(rest)
  BY <1>3, <1>5, Pushed
<1>8. /\ "lro" \notin calls[1].to /\ "lro" \in features[l]
         => wanted' = [wanted EXCEPT ![l] = @ \ {"lro"}] /\ calls' = <<Bits!Update(l)>> \o under
      /\ ~("lro" \notin calls[1].to /\ "lro" \in features[l]) => calls' = under /\ UNCHANGED wanted
  BY <1>2 DEF c
<1> HIDE DEF under, rest
<1>9. CASE "lro" \notin calls[1].to /\ "lro" \in features[l]
  <2>1. wanted' = [wanted EXCEPT ![l] = @ \ {"lro"}] /\ calls' = <<Bits!Update(l)>> \o under
    BY <1>8, <1>9
  <2>2. /\ Bits!Update(l) \in BitsCall /\ Bits!Update(l).pc = "update" /\ Bits!Update(l).dev = l
        /\ CallOK(Bits!Update(l))'
    BY <1>4, StartedIs
  <2>3. \A x \in Calls(under) : x \in BitsCall /\ CallOK(x) /\ Level[l] <= Level[x.dev]
    <3>1. Level[l] < Level[d] /\ Level \in [BitsDev -> Int]
      BY <1>4, LevelIs
    <3>2. ASSUME NEW x \in Calls(rest) PROVE Level[l] <= Level[x.dev]
      <4>1. x.dev \in BitsDev /\ Level[d] <= Level[x.dev]
        BY <1>3 DEF BitsCall
      <4>2. Level[l] \in Int /\ Level[d] \in Int /\ Level[x.dev] \in Int
        BY <1>4, <3>1, <4>1
      <4> QED
        BY <3>1, <4>1, <4>2
    <3>3. Level[l] <= Level[c.dev]
      <4>1. Level[l] \in Int /\ Level[d] \in Int
        BY <1>4, <3>1
      <4> QED
        BY <1>5, <3>1, <4>1
    <3> QED
      BY <1>3, <1>5, <1>6, <1>7, <3>2, <3>3
  <2>4. calls' \in Seq(BitsCall) /\ Falling(calls')
        /\ Calls(calls') = {Bits!Update(l)} \cup {c} \cup Calls(rest)
    BY <1>7, <2>1, <2>2, <2>3, Pushed
  <2>5. /\ wanted' \in [BitsDev -> SUBSET Bits!Bits]
        /\ \A x \in BitsDev : wanted'[x] \subseteq Hw[x] \cup {"gso"}
        /\ \A x \in BitsDev \ {l} : wanted'[x] = wanted[x]
        /\ "lro" \in wanted[l] => "lro" \in Hw[l]
    BY <1>4, <2>1, WantedLess DEF BitsIInv
  <2>6. BitsTypeOK' /\ \A x \in BitsDev : FitsIn(features'[x])
    BY <1>1, <2>4, <2>5 DEF BitsIInv, BitsTypeOK
  <2>7. \A x \in Calls(calls') : CallOK(x)'
    <3>1. \A x \in Calls(under) : CallOK(x)'
      BY <1>1, <1>4, <2>1, <2>3, CallOKKept DEF BitsIInv
    <3> QED
      BY <1>7, <2>2, <2>4, <3>1
  <2>8. ASSUME NEW m \in BitsDev, NEW u \in BitsDev, <<m, u>> \in linkedTo',
               "lro" \notin wanted'[u], m \notin refused',
               u \notin refused' \/ "lro" \notin Hw[u], "lro" \in features'[m]
        PROVE  \E x \in Calls(calls') : Owes(x, m, u)
    <3>1. CASE m = l
      <4>1. Owes(Bits!Update(l), m, u)
        BY <2>2, <3>1 DEF Owes
      <4> QED
        BY <2>4, <4>1
    <3>2. CASE m # l /\ u = l /\ "lro" \in wanted[l]
      <4>1. Owes(Bits!Update(l), m, u)
        BY <2>2, <2>5, <3>2 DEF Owes
      <4> QED
        BY <2>4, <4>1
    <3>3. CASE m # l /\ ~(u = l /\ "lro" \in wanted[l])
      <4>1. "lro" \notin wanted[u]
        BY <2>5, <2>8, <3>3
      <4>2. PICK x \in Calls(calls) : Owes(x, m, u)
        BY <1>1, <2>8, <4>1 DEF BitsIInv, PairOK
      <4>3. x = calls[1] => Owes(c, m, u)
        BY <1>1, <1>5, <3>3, <4>2 DEF Owes
      <4> QED
        BY <1>3, <2>4, <4>2, <4>3
    <3> QED
      BY <3>1, <3>2, <3>3
  <2> QED
    BY <2>4, <2>6, <2>7, <2>8 DEF BitsIInv, PairOK
<1>10. CASE ~("lro" \notin calls[1].to /\ "lro" \in features[l])
  <2>1. calls' = under /\ UNCHANGED wanted
    BY <1>8, <1>10
  <2>2. BitsTypeOK' /\ \A x \in BitsDev : FitsIn(features'[x])
    BY <1>1, <1>7, <2>1 DEF BitsIInv, BitsTypeOK
  <2>3. \A x \in Calls(calls') : CallOK(x)'
    BY <1>1, <1>3, <1>6, <1>7, <2>1, SameCallOK
  <2>4. ASSUME NEW m \in BitsDev, NEW u \in BitsDev, <<m, u>> \in linkedTo',
               "lro" \notin wanted'[u], m \notin refused',
               u \notin refused' \/ "lro" \notin Hw[u], "lro" \in features'[m]
        PROVE  \E x \in Calls(calls') : Owes(x, m, u)
    <3>1. PICK x \in Calls(calls) : Owes(x, m, u)
      BY <1>1, <2>1, <2>4 DEF BitsIInv, PairOK
    <3>2. x = calls[1] => Owes(c, m, u)
      BY <1>1, <1>5, <1>10, <2>4, <3>1 DEF Owes
    <3> QED
      BY <1>3, <1>7, <2>1, <3>1, <3>2
  <2> QED
    BY <1>7, <2>1, <2>2, <2>3, <2>4 DEF BitsIInv, PairOK
<1> QED
  BY <1>9, <1>10

LEMMA DisableLroOK == ASSUME Bits!FeaturesAssumption, BitsIInv, Bits!DisableLro PROVE BitsIInv'
<1> DEFINE rest == Tail(calls)
           d == calls[1].dev
           c == [calls[1] EXCEPT !.pc = "below", !.todo = Bits!Lowers(d)]
           under == <<c>> \o rest
<1>1. /\ calls # <<>> /\ calls[1].pc = "disable"
      /\ wanted' = [wanted EXCEPT ![d] = @ \ {"lro"}]
      /\ calls' = <<Bits!Update(d), c>> \o rest
      /\ UNCHANGED <<linkedTo, features, refused, changed>>
  BY DEF Bits!DisableLro, Bits!At
<1>2. /\ calls[1] \in BitsCall /\ rest \in Seq(BitsCall) /\ Falling(rest)
      /\ Calls(calls) = {calls[1]} \cup Calls(rest)
      /\ \A x \in Calls(rest) : x \in BitsCall /\ CallOK(x) /\ Level[d] <= Level[x.dev]
  BY <1>1, TopCall
<1>3. d \in BitsDev
  BY <1>2 DEF BitsCall
<1>4. c \in BitsCall /\ c.dev = d /\ c.pc = "below" /\ c.todo = Bits!Lowers(d)
  BY <1>2, <1>3 DEF BitsCall, Bits!Lowers
<1>5. CallOK(c)
  BY <1>4 DEF CallOK, Bits!Lowers
<1> HIDE DEF c
<1>6. under \in Seq(BitsCall) /\ Falling(under) /\ Calls(under) = {c} \cup Calls(rest)
  BY <1>2, <1>4, Pushed
<1>7. /\ Bits!Update(d) \in BitsCall /\ Bits!Update(d).pc = "update" /\ Bits!Update(d).dev = d
      /\ \A x : x = Bits!Update(d) => CallOK(x)'
  <2>1. \A e \in BitsDev : \A x : x = Bits!Update(e) => CallOK(x)'
    BY StartedIs
  <2> QED
    BY <1>3, <2>1, StartedIs
<1>8. calls' = <<Bits!Update(d)>> \o under
  BY <1>1, <1>2, <1>4, <1>7
<1> HIDE DEF under, rest
<1>9. Level[d] <= Level[d]
  BY <1>3, LevelIs
<1>10. \A x \in Calls(under) : x \in BitsCall /\ CallOK(x) /\ Level[d] <= Level[x.dev]
  BY <1>2, <1>4, <1>5, <1>6, <1>9
<1>11. calls' \in Seq(BitsCall) /\ Falling(calls')
       /\ Calls(calls') = {Bits!Update(d)} \cup {c} \cup Calls(rest)
  BY <1>6, <1>7, <1>8, <1>10, Pushed
<1>12. /\ wanted' \in [BitsDev -> SUBSET Bits!Bits]
       /\ \A x \in BitsDev : wanted'[x] \subseteq Hw[x] \cup {"gso"}
       /\ \A x \in BitsDev \ {d} : wanted'[x] = wanted[x]
       /\ "lro" \in wanted[d] => "lro" \in Hw[d]
  BY <1>1, <1>3, WantedLess DEF BitsIInv
<1>13. BitsTypeOK' /\ \A x \in BitsDev : FitsIn(features'[x])
  BY <1>1, <1>11, <1>12 DEF BitsIInv, BitsTypeOK
<1>14. \A x \in Calls(calls') : CallOK(x)'
  <2>1. \A x \in Calls(under) : CallOK(x)'
    BY <1>1, <1>3, <1>10, CallOKKept DEF BitsIInv
  <2> QED
    BY <1>6, <1>7, <1>11, <2>1
<1>15. ASSUME NEW m \in BitsDev, NEW u \in BitsDev, <<m, u>> \in linkedTo',
              "lro" \notin wanted'[u], m \notin refused',
              u \notin refused' \/ "lro" \notin Hw[u], "lro" \in features'[m]
       PROVE  \E x \in Calls(calls') : Owes(x, m, u)
  <2>1. CASE m = d \/ (u = d /\ "lro" \in Hw[d])
    <3>1. Owes(Bits!Update(d), m, u)
      BY <1>7, <2>1 DEF Owes
    <3> QED
      BY <1>11, <3>1
  <2>2. CASE m # d /\ ~(u = d /\ "lro" \in Hw[d])
    <3>1. "lro" \notin wanted[u]
      BY <1>12, <1>15, <2>2
    <3>2. PICK x \in Calls(calls) : Owes(x, m, u)
      BY <1>1, <1>15, <3>1 DEF BitsIInv, PairOK
    <3>3. x # calls[1]
      BY <1>1, <2>2, <3>2 DEF Owes
    <3> QED
      BY <1>2, <1>11, <3>2, <3>3
  <2> QED
    BY <2>1, <2>2
<1> QED
  BY <1>11, <1>13, <1>14, <1>15 DEF BitsIInv, PairOK

LEMMA DisableBelowOK == ASSUME Bits!FeaturesAssumption, BitsIInv, Bits!DisableBelow PROVE BitsIInv'
<1> DEFINE rest == Tail(calls)
           d == calls[1].dev
<1>1. calls # <<>> /\ calls[1].pc = "below"
      /\ UNCHANGED <<linkedTo, features, wanted, refused, changed>>
  BY DEF Bits!DisableBelow, Bits!At
<1>2. /\ calls[1] \in BitsCall /\ CallOK(calls[1]) /\ rest \in Seq(BitsCall) /\ Falling(rest)
      /\ Calls(calls) = {calls[1]} \cup Calls(rest)
      /\ \A x \in Calls(rest) : x \in BitsCall /\ CallOK(x) /\ Level[d] <= Level[x.dev]
  BY <1>1, TopCall
<1>3. /\ calls' \in Seq(BitsCall) /\ Falling(calls') /\ Calls(rest) \subseteq Calls(calls')
      /\ \A x \in Calls(calls') : CallOK(x)'
  <2>1. CASE calls' = rest
    BY <1>1, <1>2, <2>1, SameCallOK
  <2>2. ASSUME NEW l \in calls[1].todo,
               calls' = <<Bits!Disable(l), [calls[1] EXCEPT !.todo = @ \ {l}]>> \o rest
        PROVE  /\ calls' \in Seq(BitsCall) /\ Falling(calls') /\ Calls(rest) \subseteq Calls(calls')
               /\ \A x \in Calls(calls') : CallOK(x)'
    <3> DEFINE c == [calls[1] EXCEPT !.todo = @ \ {l}]
               under == <<c>> \o rest
    <3>1. d \in BitsDev /\ l \in BitsDev /\ <<l, d>> \in BelowPairs
      BY <1>2 DEF BitsCall, CallOK, BitsIInv, BitsTypeOK
    <3>2. c \in BitsCall /\ c.dev = d /\ c.pc = "below" /\ c.todo = calls[1].todo \ {l}
      BY <1>1, <1>2 DEF BitsCall
    <3>3. CallOK(c)
      BY <1>2, <3>2 DEF CallOK
    <3>4. calls' = <<Bits!Disable(l), c>> \o rest
      BY <2>2
    <3> HIDE DEF c
    <3>5. under \in Seq(BitsCall) /\ Falling(under) /\ Calls(under) = {c} \cup Calls(rest)
      BY <1>2, <3>2, Pushed
    <3>6. Bits!Disable(l) \in BitsCall /\ Bits!Disable(l).dev = l /\ CallOK(Bits!Disable(l))'
      BY <3>1, StartedIs
    <3>7. calls' = <<Bits!Disable(l)>> \o under
      BY <1>2, <3>2, <3>4, <3>6
    <3> HIDE DEF under, rest
    <3>8. ASSUME NEW x \in Calls(under) PROVE Level[l] <= Level[x.dev]
      <4>1. x.dev \in BitsDev /\ (x = c \/ Level[d] <= Level[x.dev])
        BY <1>2, <3>2, <3>5 DEF BitsCall
      <4>2. Level[l] \in Int /\ Level[d] \in Int /\ Level[x.dev] \in Int /\ Level[l] < Level[d]
        BY <3>1, <4>1, LevelIs
      <4> QED
        BY <3>2, <4>1, <4>2
    <3>9. calls' \in Seq(BitsCall) /\ Falling(calls')
          /\ Calls(calls') = {Bits!Disable(l)} \cup {c} \cup Calls(rest)
      BY <3>5, <3>6, <3>7, <3>8, Pushed
    <3> QED
      BY <1>1, <1>2, <3>3, <3>6, <3>9, SameCallOK
  <2> QED
    BY <2>1, <2>2 DEF Bits!DisableBelow
<1> HIDE DEF rest
<1>4. BitsTypeOK' /\ \A x \in BitsDev : FitsIn(features'[x])
  BY <1>1, <1>3 DEF BitsIInv, BitsTypeOK
<1>5. ASSUME NEW l \in BitsDev, NEW u \in BitsDev, <<l, u>> \in linkedTo', "lro" \notin wanted'[u],
             l \notin refused',
             u \notin refused' \/ "lro" \notin Hw[u], "lro" \in features'[l]
      PROVE  \E x \in Calls(calls') : Owes(x, l, u)
  <2>1. PICK x \in Calls(calls) : Owes(x, l, u)
    BY <1>1, <1>5 DEF BitsIInv, PairOK
  <2>2. x # calls[1]
    BY <1>1, <2>1 DEF Owes
  <2> QED
    BY <1>2, <1>3, <2>1, <2>2
<1> QED
  BY <1>3, <1>4, <1>5 DEF BitsIInv, PairOK

\* Between operations every debt is paid.
LEMMA NothingOwed ==
  ASSUME BitsIInv, calls = <<>>, NEW l \in BitsDev, NEW u \in BitsDev, <<l, u>> \in linkedTo,
         "lro" \notin wanted[u], l \notin refused, u \notin refused \/ "lro" \notin Hw[u]
  PROVE  "lro" \notin features[l]
  BY NothingUnder DEF BitsIInv, PairOK

\* An operation begins with one call.
LEMMA BegunOK ==
  ASSUME BitsIInv, calls = <<>>, NEW c \in BitsCall, calls' = <<c>>, \A x : x = c => CallOK(x)',
         linkedTo' \subseteq BelowPairs, wanted' \in [BitsDev -> SUBSET Bits!Bits],
         \A d \in BitsDev : wanted'[d] \subseteq Hw[d] \cup {"gso"},
         UNCHANGED <<features, refused>>, changed' \in Nat,
         \A l, u \in BitsDev : <<l, u>> \in linkedTo' /\ "lro" \notin wanted'[u]
                             => \/ <<l, u>> \in linkedTo /\ "lro" \notin wanted[u]
                                \/ Owes(c, l, u)
  PROVE  BitsIInv'
<1>1. calls' \in Seq(BitsCall) /\ Falling(calls') /\ Calls(calls') = {c}
  BY OneCall
<1>2. BitsTypeOK' /\ \A x \in BitsDev : FitsIn(features'[x])
  BY <1>1 DEF BitsIInv, BitsTypeOK
<1>3. ASSUME NEW l \in BitsDev, NEW u \in BitsDev, <<l, u>> \in linkedTo', "lro" \notin wanted'[u],
             l \notin refused',
             u \notin refused' \/ "lro" \notin Hw[u], "lro" \in features'[l]
      PROVE  \E x \in Calls(calls') : Owes(x, l, u)
  BY <1>1, <1>3, NothingOwed
<1> QED
  BY <1>1, <1>2, <1>3 DEF BitsIInv, PairOK

LEMMA WantOK == ASSUME Bits!FeaturesAssumption, BitsIInv, NEW d \in BitsDev, NEW bit \in BitsToggled,
                       Bits!Want(d, bit)
                PROVE  BitsIInv'
<1>1. /\ calls = <<>> /\ calls' = <<Bits!Update(d)>> /\ bit \in Hw[d] /\ changed' = changed + 1
      /\ wanted' = [wanted EXCEPT ![d] = IF bit \in @ THEN @ \ {bit} ELSE @ \cup {bit}]
      /\ UNCHANGED <<linkedTo, features, refused>>
  BY DEF Bits!Want, Bits!Begin
<1>2. /\ wanted' \in [BitsDev -> SUBSET Bits!Bits] /\ changed' \in Nat
      /\ \A x \in BitsDev : wanted'[x] \subseteq Hw[x] \cup {"gso"}
      /\ \A x \in BitsDev \ {d} : wanted'[x] = wanted[x]
  BY <1>1 DEF BitsIInv, BitsTypeOK, Bits!FeaturesAssumption
<1>3. /\ Bits!Update(d) \in BitsCall /\ Bits!Update(d).pc = "update" /\ Bits!Update(d).dev = d
      /\ CallOK(Bits!Update(d))'
  BY StartedIs
<1>4. "lro" \in wanted[d] /\ "lro" \notin wanted'[d] => "lro" \in Hw[d]
  BY DEF BitsIInv, BitsTypeOK
<1>5. ASSUME NEW l \in BitsDev, NEW u \in BitsDev, <<l, u>> \in linkedTo', "lro" \notin wanted'[u]
      PROVE  \/ <<l, u>> \in linkedTo /\ "lro" \notin wanted[u]
             \/ Owes(Bits!Update(d), l, u)
  BY <1>1, <1>2, <1>3, <1>4, <1>5 DEF Owes
<1>6. linkedTo' \subseteq BelowPairs
  BY <1>1 DEF BitsIInv, BitsTypeOK
<1> QED
  BY <1>1, <1>2, <1>3, <1>5, <1>6, BegunOK

LEMMA RecalculateOK ==
  ASSUME Bits!FeaturesAssumption, BitsIInv, NEW d \in BitsDev, Bits!Recalculate(d)
  PROVE  BitsIInv'
<1>1. /\ calls = <<>> /\ calls' = <<Bits!Update(d)>> /\ changed' = changed + 1
      /\ UNCHANGED <<linkedTo, features, wanted, refused>>
  BY DEF Bits!Recalculate, Bits!Begin
<1>2. /\ Bits!Update(d) \in BitsCall /\ CallOK(Bits!Update(d))'
  BY StartedIs
<1>3. /\ wanted' \in [BitsDev -> SUBSET Bits!Bits]
      /\ \A x \in BitsDev : wanted'[x] \subseteq Hw[x] \cup {"gso"}
      /\ linkedTo' \subseteq BelowPairs /\ changed' \in Nat
  BY <1>1 DEF BitsIInv, BitsTypeOK
<1> QED
  BY <1>1, <1>2, <1>3, BegunOK

LEMMA LinkOK == ASSUME Bits!FeaturesAssumption, BitsIInv, NEW l \in BitsDev, NEW u \in BitsDev,
                       Bits!Link(l, u)
                PROVE  BitsIInv'
<1>1. /\ calls = <<>> /\ calls' = <<Bits!Disable(l)>> /\ changed' = changed + 1
      /\ <<l, u>> \in BelowPairs /\ linkedTo' = linkedTo \cup {<<l, u>>}
      /\ UNCHANGED <<features, wanted, refused>>
  BY DEF Bits!Link, Bits!Begin
<1>2. /\ Bits!Disable(l) \in BitsCall /\ Bits!Disable(l).pc = "disable"
      /\ Bits!Disable(l).dev = l /\ CallOK(Bits!Disable(l))'
  BY StartedIs
<1>3. /\ wanted' \in [BitsDev -> SUBSET Bits!Bits]
      /\ \A x \in BitsDev : wanted'[x] \subseteq Hw[x] \cup {"gso"}
      /\ linkedTo' \subseteq BelowPairs /\ changed' \in Nat
  BY <1>1 DEF BitsIInv, BitsTypeOK
<1>4. ASSUME NEW m \in BitsDev, NEW v \in BitsDev, <<m, v>> \in linkedTo', "lro" \notin wanted'[v]
      PROVE  \/ <<m, v>> \in linkedTo /\ "lro" \notin wanted[v]
             \/ Owes(Bits!Disable(l), m, v)
  BY <1>1, <1>2, <1>4 DEF Owes
<1> QED
  BY <1>1, <1>2, <1>3, <1>4, BegunOK

LEMMA UnlinkOK == ASSUME Bits!FeaturesAssumption, BitsIInv, NEW l \in BitsDev, NEW u \in BitsDev,
                         Bits!Unlink(l, u)
                  PROVE  BitsIInv'
<1>1. /\ calls = <<>> /\ calls' = <<>> /\ changed' = changed + 1
      /\ linkedTo' = linkedTo \ {<<l, u>>} /\ UNCHANGED <<features, wanted, refused>>
  BY DEF Bits!Unlink, Bits!Begin
<1>2. BitsTypeOK' /\ \A x \in BitsDev : FitsIn(features'[x])
  BY <1>1 DEF BitsIInv, BitsTypeOK
<1>3. Calls(calls') = {} /\ Falling(calls')
  BY <1>1, NothingUnder
<1>4. ASSUME NEW m \in BitsDev, NEW v \in BitsDev, <<m, v>> \in linkedTo', "lro" \notin wanted'[v],
             m \notin refused',
             v \notin refused' \/ "lro" \notin Hw[v], "lro" \in features'[m]
      PROVE  FALSE
  BY <1>1, <1>4, NothingOwed
<1> QED
  BY <1>2, <1>3, <1>4 DEF BitsIInv, PairOK

LEMMA BitsInit == ASSUME Bits!FeaturesAssumption, Bits!Init PROVE BitsIInv
<1>1. BitsTypeOK /\ \A d \in BitsDev : FitsIn(features[d])
  <2>1. \A d \in BitsDev : BitsHas[d] \cup {"gso"} \in SUBSET Bits!Bits
    BY DEF Bits!FeaturesAssumption, Bits!Bits
  <2>2. \A d \in BitsDev : Bits!Fix(BitsHas[d] \cup {"gso"}) \in SUBSET Bits!Bits
           /\ FitsIn(Bits!Fix(BitsHas[d] \cup {"gso"}))
    BY <2>1, FixFits
  <2>3. features \in [BitsDev -> SUBSET Bits!Bits] /\ \A d \in BitsDev : FitsIn(features[d])
    BY <2>2 DEF Bits!Init
  <2>4. \A d \in BitsDev : Hw[d] \cup {"gso"} \in SUBSET Bits!Bits
    BY DEF Bits!FeaturesAssumption, Bits!Bits
  <2>5. wanted \in [BitsDev -> SUBSET Bits!Bits]
        /\ \A d \in BitsDev : wanted[d] \subseteq Hw[d] \cup {"gso"}
    BY <2>4 DEF Bits!Init
  <2> QED
    BY <2>3, <2>5, NothingUnder DEF Bits!Init, BitsTypeOK
<1>2. Falling(calls) /\ Calls(calls) = {} /\ linkedTo = {}
  BY NothingUnder DEF Bits!Init
<1> QED
  BY <1>1, <1>2 DEF BitsIInv

LEMMA BitsStep == ASSUME Bits!FeaturesAssumption, BitsIInv, Bits!Next PROVE BitsIInv'
<1>1. CASE Bits!Unchanged
  <2>1. features[calls[1].dev] \in Bits!Targets(calls[1].dev)
    BY <1>1 DEF Bits!Unchanged
  <2> QED
    BY <1>1, <2>1, SettlesOK DEF Bits!Unchanged
<1>2. CASE Bits!SetFeatures
  <2>1. PICK f \in Bits!Targets(calls[1].dev) \ {features[calls[1].dev]} :
          calls' = <<[pc |-> "sync", dev |-> calls[1].dev, to |-> f,
                     todo |-> Bits!Lowers(calls[1].dev)]>>
                    \o Tail(calls)
    BY <1>2 DEF Bits!SetFeatures
  <2> QED
    BY <1>2, <2>1, SettlesOK DEF Bits!SetFeatures
<1>3. CASE Bits!SetFeaturesFails
  BY <1>3, SetFeaturesFailsOK
<1>4. CASE Bits!SyncLower
  BY <1>4, SyncLowerOK
<1>5. CASE Bits!Updated
  BY <1>5, UpdatedOK
<1>6. CASE Bits!DisableLro
  BY <1>6, DisableLroOK
<1>7. CASE Bits!DisableBelow
  BY <1>7, DisableBelowOK
<1>8. ASSUME NEW d \in BitsDev, Bits!Recalculate(d) PROVE BitsIInv'
  BY <1>8, RecalculateOK
<1>9. ASSUME NEW d \in BitsDev, NEW bit \in BitsToggled, Bits!Want(d, bit) PROVE BitsIInv'
  BY <1>9, WantOK
<1>10. ASSUME NEW l \in BitsDev, NEW u \in BitsDev, Bits!Link(l, u) PROVE BitsIInv'
  BY <1>10, LinkOK
<1>11. ASSUME NEW l \in BitsDev, NEW u \in BitsDev, Bits!Unlink(l, u) PROVE BitsIInv'
  BY <1>11, UnlinkOK
<1> QED
  BY <1>1, <1>2, <1>3, <1>4, <1>5, <1>6, <1>7, <1>8, <1>9, <1>10, <1>11 DEF Bits!Next

LEMMA BitsStay == ASSUME BitsIInv, UNCHANGED Bits!featureVars PROVE BitsIInv'
<1> USE DEF Bits!featureVars
<1>1. BitsTypeOK'
  BY DEF BitsIInv, BitsTypeOK
<1>2. Falling(calls)' /\ Calls(calls)' = Calls(calls)
  BY DEF BitsIInv
<1>3. \A c \in Calls(calls)' : CallOK(c)'
  BY <1>2, SameCallOK DEF BitsIInv
<1>4. \A l, u \in BitsDev : PairOK(l, u)' <=> PairOK(l, u)
  BY <1>2 DEF PairOK
<1> QED
  BY <1>1, <1>2, <1>3, <1>4 DEF BitsIInv

LEMMA BitsSound == ASSUME Bits!FeaturesAssumption, BitsIInv PROVE Bits!FeaturesAreSound
<1>1. Bits!LroIsOffBelow
  <2> SUFFICES ASSUME calls = <<>>, NEW p \in linkedTo, "lro" \notin wanted[p[2]],
                      p[1] \notin refused,
                      p[2] \notin refused
               PROVE  "lro" \notin features[p[1]]
    BY DEF Bits!LroIsOffBelow
  <2>1. p[1] \in BitsDev /\ p[2] \in BitsDev /\ <<p[1], p[2]>> \in linkedTo
    BY DEF BitsIInv, BitsTypeOK, Bits!FeaturesAssumption
  <2> QED
    BY <2>1, NothingOwed
<1>2. Bits!FeaturesFit
  BY DEF BitsIInv, Bits!FeaturesFit, FitsIn
<1> QED
  BY <1>1, <1>2 DEF Bits!FeaturesAreSound
-----------------------------------------------------------------------------
(* Time stamps                                                             *)

\* What netstamp_clear holds, and why it will not be forgotten.
StampsOwed == /\ work # "add" => taken = 0
              /\ work = "key" => (sum > 0) = (wantedBy > 0)
              /\ deferred # 0 => pending \/ work = "take" \/ Stamps!Scheduling # {}

StampsIInv == Stamps!TypeOK /\ Stamps!CountsWanting /\ Stamps!KeyFollowsCount /\ StampsOwed

LEMMA StampsCardinality == /\ \A S : Stamps!Cardinality(S) = Cardinality(S)
                           /\ \A S : Stamps!IsFiniteSet(S) <=> IsFiniteSet(S)
<1>1. \A S : Stamps!Cardinality(S) = Cardinality(S)
  BY DEF Stamps!Cardinality, Cardinality
<1>2. \A S : Stamps!IsFiniteSet(S) <=> IsFiniteSet(S)
  BY DEF Stamps!IsFiniteSet, IsFiniteSet
<1> QED
  BY <1>1, <1>2

LEMMA StampsInit == ASSUME Stamps!Init PROVE StampsIInv
<1>1. Stamps!Wanting = {}
  BY DEF Stamps!Init, Stamps!Wanting
<1>2. Cardinality(Stamps!Wanting) = 0
  BY <1>1, FS_EmptySet
<1>3. /\ wantedBy = 0 /\ deferred = 0 /\ taken = 0 /\ sum = 0
      /\ key = FALSE /\ pending = FALSE /\ work = "idle" /\ user = [u \in User |-> "off"]
  BY DEF Stamps!Init
<1>4. user \in [User -> {"off", "enabling", "enabled", "on", "disabling", "disabled"}]
  BY <1>3
<1>5. Stamps!TypeOK
  <2>1. {wantedBy, deferred, taken, sum} \subseteq Int
    BY <1>3
  <2>2. {key, pending} \subseteq BOOLEAN
    BY <1>3, Zenon
  <2> QED
    BY <1>3, <1>4, <2>1, <2>2 DEF Stamps!TypeOK
<1>6. Stamps!CountsWanting
  BY <1>2, <1>3, StampsCardinality DEF Stamps!CountsWanting
<1>7. Stamps!KeyFollowsCount /\ StampsOwed
  <2>1. (wantedBy > 0) = FALSE
    BY <1>3
  <2> QED
    BY <1>3, <2>1, Zenon DEF Stamps!KeyFollowsCount, StampsOwed
<1> QED
  BY <1>5, <1>6, <1>7 DEF StampsIInv

LEMMA WantingFinite ==
  ASSUME Stamps!StampsAssumption
  PROVE  IsFiniteSet(Stamps!Wanting) /\ Cardinality(Stamps!Wanting) \in Nat
  BY FS_Subset, FS_CardinalityType, StampsCardinality DEF Stamps!StampsAssumption, Stamps!Wanting

\* A caller begins to want stamps, or stops, or does not change its mind.
LEMMA OneMore == ASSUME Stamps!StampsAssumption, NEW u \in User, u \notin Stamps!Wanting,
                        Stamps!Wanting' = Stamps!Wanting \cup {u}
                 PROVE Cardinality(Stamps!Wanting') = Cardinality(Stamps!Wanting) + 1
  BY WantingFinite, FS_AddElement

LEMMA OneLess == ASSUME Stamps!StampsAssumption, NEW u \in User, u \in Stamps!Wanting,
                        Stamps!Wanting' = Stamps!Wanting \ {u}
                 PROVE Cardinality(Stamps!Wanting') = Cardinality(Stamps!Wanting) - 1
  BY WantingFinite, FS_RemoveElement

LEMMA StampsStep == ASSUME Stamps!StampsAssumption, StampsIInv, Stamps!Next PROVE StampsIInv'
<1> USE DEF StampsIInv, Stamps!TypeOK, Stamps!Goes, Stamps!WorkStays
<1>1. ASSUME NEW u \in User, Stamps!EnableFast(u) PROVE StampsIInv'
  <2>1. u \notin Stamps!Wanting /\ Stamps!Wanting' = Stamps!Wanting \cup {u}
        /\ Stamps!Scheduling' = Stamps!Scheduling
    BY <1>1 DEF Stamps!EnableFast, Stamps!Wanting, Stamps!Scheduling
  <2>2. Cardinality(Stamps!Wanting') = Cardinality(Stamps!Wanting) + 1
    BY <2>1, OneMore
  <2> QED
    BY <1>1, <2>1, <2>2, WantingFinite, StampsCardinality
    DEF Stamps!EnableFast, Stamps!EnableIsSlow, Stamps!CountsWanting,
        Stamps!KeyFollowsCount, StampsOwed
<1>2. ASSUME NEW u \in User, Stamps!EnableReads(u) PROVE StampsIInv'
  <2>1. Stamps!Wanting' = Stamps!Wanting /\ Stamps!Scheduling' = Stamps!Scheduling
    BY <1>2 DEF Stamps!EnableReads, Stamps!Wanting, Stamps!Scheduling
  <2> QED
    BY <1>2, <2>1, StampsCardinality DEF Stamps!EnableReads, Stamps!CountsWanting,
                                         Stamps!KeyFollowsCount, StampsOwed
<1>3. ASSUME NEW u \in User, Stamps!Enable(u) PROVE StampsIInv'
  <2>1. u \notin Stamps!Wanting /\ Stamps!Wanting' = Stamps!Wanting \cup {u}
        /\ Stamps!Scheduling' # {}
    BY <1>3 DEF Stamps!Enable, Stamps!Wanting, Stamps!Scheduling
  <2>2. Cardinality(Stamps!Wanting') = Cardinality(Stamps!Wanting) + 1
    BY <2>1, OneMore
  <2> QED
    BY <1>3, <2>1, <2>2, WantingFinite, StampsCardinality DEF Stamps!Enable, Stamps!CountsWanting,
                                                              Stamps!KeyFollowsCount, StampsOwed
<1>4. ASSUME NEW u \in User, Stamps!EnableSchedules(u) PROVE StampsIInv'
  <2>1. Stamps!Wanting' = Stamps!Wanting
    BY <1>4 DEF Stamps!EnableSchedules, Stamps!Wanting
  <2> QED
    BY <1>4, <2>1, StampsCardinality DEF Stamps!EnableSchedules, Stamps!CountsWanting,
                                         Stamps!KeyFollowsCount, StampsOwed
<1>5. ASSUME NEW u \in User, Stamps!DisableFast(u) PROVE StampsIInv'
  <2>1. u \in Stamps!Wanting /\ Stamps!Wanting' = Stamps!Wanting \ {u}
        /\ Stamps!Scheduling' = Stamps!Scheduling
    BY <1>5 DEF Stamps!DisableFast, Stamps!Wanting, Stamps!Scheduling
  <2>2. Cardinality(Stamps!Wanting') = Cardinality(Stamps!Wanting) - 1
    BY <2>1, OneLess
  <2> QED
    BY <1>5, <2>1, <2>2, WantingFinite, StampsCardinality
    DEF Stamps!DisableFast, Stamps!DisableIsSlow, Stamps!CountsWanting,
        Stamps!KeyFollowsCount, StampsOwed
<1>6. ASSUME NEW u \in User, Stamps!DisableReads(u) PROVE StampsIInv'
  <2>1. Stamps!Wanting' = Stamps!Wanting /\ Stamps!Scheduling' = Stamps!Scheduling
    BY <1>6 DEF Stamps!DisableReads, Stamps!Wanting, Stamps!Scheduling
  <2> QED
    BY <1>6, <2>1, StampsCardinality DEF Stamps!DisableReads, Stamps!CountsWanting,
                                         Stamps!KeyFollowsCount, StampsOwed
<1>7. ASSUME NEW u \in User, Stamps!Disable(u) PROVE StampsIInv'
  <2>1. u \in Stamps!Wanting /\ Stamps!Wanting' = Stamps!Wanting \ {u} /\ Stamps!Scheduling' # {}
    BY <1>7 DEF Stamps!Disable, Stamps!Wanting, Stamps!Scheduling
  <2>2. Cardinality(Stamps!Wanting') = Cardinality(Stamps!Wanting) - 1
    BY <2>1, OneLess
  <2> QED
    BY <1>7, <2>1, <2>2, WantingFinite, StampsCardinality DEF Stamps!Disable, Stamps!CountsWanting,
                                                              Stamps!KeyFollowsCount, StampsOwed
<1>8. ASSUME NEW u \in User, Stamps!DisableSchedules(u) PROVE StampsIInv'
  <2>1. Stamps!Wanting' = Stamps!Wanting
    BY <1>8 DEF Stamps!DisableSchedules, Stamps!Wanting
  <2> QED
    BY <1>8, <2>1, StampsCardinality DEF Stamps!DisableSchedules, Stamps!CountsWanting,
                                         Stamps!KeyFollowsCount, StampsOwed
<1>9. ASSUME Stamps!WorkBegins \/ Stamps!Take \/ Stamps!AddTaken \/ Stamps!SetKey PROVE StampsIInv'
  <2>1. Stamps!Wanting' = Stamps!Wanting /\ Stamps!Scheduling' = Stamps!Scheduling
    BY <1>9 DEF Stamps!WorkBegins, Stamps!Take, Stamps!AddTaken, Stamps!SetKey, Stamps!Wanting,
                Stamps!Scheduling
  <2>2. CASE Stamps!WorkBegins
    BY <2>1, <2>2, StampsCardinality DEF Stamps!WorkBegins, Stamps!CountsWanting,
                                         Stamps!KeyFollowsCount, StampsOwed
  <2>3. CASE Stamps!Take
    BY <2>1, <2>3, StampsCardinality DEF Stamps!Take, Stamps!CountsWanting, Stamps!KeyFollowsCount,
                                         StampsOwed
  <2>4. CASE Stamps!AddTaken
    BY <2>1, <2>4, StampsCardinality DEF Stamps!AddTaken, Stamps!CountsWanting,
                                         Stamps!KeyFollowsCount, StampsOwed
  <2>5. CASE Stamps!SetKey
    BY <2>1, <2>5, StampsCardinality DEF Stamps!SetKey, Stamps!CountsWanting,
                                         Stamps!KeyFollowsCount, StampsOwed
  <2> QED
    BY <1>9, <2>2, <2>3, <2>4, <2>5
<1> QED
  BY <1>1, <1>2, <1>3, <1>4, <1>5, <1>6, <1>7, <1>8, <1>9 DEF Stamps!Next

LEMMA StampsStay == ASSUME StampsIInv, UNCHANGED Stamps!stampVars PROVE StampsIInv'
  BY DEF StampsIInv, Stamps!stampVars, Stamps!TypeOK, Stamps!CountsWanting, Stamps!KeyFollowsCount,
         StampsOwed, Stamps!Wanting, Stamps!Scheduling

LEMMA StampsSound == ASSUME Stamps!StampsAssumption, StampsIInv PROVE Stamps!StampsAreRight
<1>1. ASSUME ~pending, work = "idle", Stamps!Scheduling = {}
      PROVE  deferred = 0 /\ key = (Stamps!Wanting # {})
  <2>1. deferred = 0 /\ taken = 0 /\ wantedBy = Cardinality(Stamps!Wanting)
    BY <1>1, StampsCardinality DEF StampsIInv, StampsOwed, Stamps!CountsWanting, Stamps!TypeOK
  <2>2. key = (wantedBy > 0)
    BY <1>1 DEF StampsIInv, Stamps!KeyFollowsCount
  <2>3. Cardinality(Stamps!Wanting) = 0 <=> Stamps!Wanting = {}
    BY WantingFinite, FS_EmptySet
  <2> QED
    BY <2>1, <2>2, <2>3, WantingFinite
<1> QED
  BY <1>1 DEF Stamps!StampsAreRight, StampsIInv, Stamps!SettledIsRight
-----------------------------------------------------------------------------
(* Generic receive offload.                                               *)

LEMMA PartOfSeq ==
  ASSUME NEW S, NEW s \in Seq(S), NEW m \in 1 .. Len(s) + 1, NEW n \in 0 .. Len(s), m <= n + 1
  PROVE  /\ SubSeq(s, m, n) \in Seq(S) /\ Len(SubSeq(s, m, n)) = n - m + 1
         /\ \A k \in 1 .. n - m + 1 : SubSeq(s, m, n)[k] = s[m + k - 1]
<1>1. Len(s) \in Nat /\ \A k \in m .. n : s[k] \in S
  OBVIOUS
<1>2. /\ SubSeq(s, m, n) \in Seq(S)
      /\ Len(SubSeq(s, m, n)) = IF m <= n THEN n - m + 1 ELSE 0
      /\ \A i \in 1 .. n - m + 1 : SubSeq(s, m, n)[i] = s[m + i - 1]
  BY <1>1, SubSeqProperties
<1> QED
  BY <1>1, <1>2

LEMMA InFront ==
  ASSUME NEW S, NEW s \in Seq(S), NEW x \in S
  PROVE  /\ <<x>> \o s \in Seq(S) /\ Len(<<x>> \o s) = Len(s) + 1 /\ (<<x>> \o s)[1] = x
         /\ \A k \in 2 .. Len(s) + 1 : (<<x>> \o s)[k] = s[k - 1]
  OBVIOUS

LEMMA AtEnd ==
  ASSUME NEW S, NEW s \in Seq(S), NEW t \in Seq(S)
  PROVE  /\ s \o t \in Seq(S) /\ Len(s \o t) = Len(s) + Len(t)
         /\ \A k \in 1 .. Len(s) : (s \o t)[k] = s[k]
         /\ \A k \in Len(s) + 1 .. Len(s) + Len(t) : (s \o t)[k] = t[k - Len(s)]
  OBVIOUS

LEMMA OneMoreAtEnd ==
  ASSUME NEW S, NEW s \in Seq(S), NEW x \in S
  PROVE  /\ Append(s, x) \in Seq(S) /\ Len(Append(s, x)) = Len(s) + 1
         /\ Append(s, x)[Len(s) + 1] = x
         /\ Len(s) \in Nat /\ \A k \in 1 .. Len(s) : Append(s, x)[k] = s[k] /\ s[k] \in S
  OBVIOUS

LEMMA MergeRemoves == \A s, i : Merge!RemoveAt(s, i) = RemoveAt(s, i)
  BY DEF Merge!RemoveAt, RemoveAt

LEMMA Removed ==
  ASSUME NEW S, NEW s \in Seq(S), NEW i \in 1 .. Len(s)
  PROVE  /\ RemoveAt(s, i) \in Seq(S) /\ Len(RemoveAt(s, i)) = Len(s) - 1
         /\ \A k \in 1 .. i - 1 : RemoveAt(s, i)[k] = s[k]
         /\ \A k \in i .. Len(s) - 1 : RemoveAt(s, i)[k] = s[k + 1]
<1> DEFINE a == SubSeq(s, 1, i - 1)
           b == SubSeq(s, i + 1, Len(s))
<1>1. Len(s) \in Nat /\ 1 \in 1 .. Len(s) + 1 /\ i - 1 \in 0 .. Len(s) /\ 1 <= i - 1 + 1
      /\ i + 1 \in 1 .. Len(s) + 1 /\ Len(s) \in 0 .. Len(s) /\ i + 1 <= Len(s) + 1
  OBVIOUS
<1>2. a \in Seq(S) /\ Len(a) = i - 1 /\ \A k \in 1 .. i - 1 : a[k] = s[k]
  <2>1. a \in Seq(S) /\ Len(a) = i - 1 - 1 + 1 /\ \A k \in 1 .. i - 1 - 1 + 1 : a[k] = s[1 + k - 1]
    BY <1>1, PartOfSeq
  <2> QED
    BY <2>1
<1>3. b \in Seq(S) /\ Len(b) = Len(s) - i /\ \A k \in 1 .. Len(s) - i : b[k] = s[i + k]
  <2>1. b \in Seq(S) /\ Len(b) = Len(s) - (i + 1) + 1
        /\ \A k \in 1 .. Len(s) - (i + 1) + 1 : b[k] = s[i + 1 + k - 1]
    BY <1>1, PartOfSeq
  <2> QED
    BY <2>1
<1>4. RemoveAt(s, i) = a \o b
  BY DEF RemoveAt
<1> HIDE DEF a, b
<1>5. /\ a \o b \in Seq(S) /\ Len(a \o b) = Len(a) + Len(b)
      /\ \A k \in 1 .. Len(a) : (a \o b)[k] = a[k]
      /\ \A k \in Len(a) + 1 .. Len(a) + Len(b) : (a \o b)[k] = b[k - Len(a)]
  BY <1>2, <1>3, AtEnd
<1>6. ASSUME NEW k \in i .. Len(s) - 1 PROVE (a \o b)[k] = s[k + 1]
  <2>1. k - Len(a) \in 1 .. Len(s) - i /\ k \in Len(a) + 1 .. Len(a) + Len(b)
        /\ i + (k - Len(a)) = k + 1
    BY <1>1, <1>2, <1>3
  <2>2. (a \o b)[k] = b[k - Len(a)]
    BY <1>5, <2>1
  <2>3. b[k - Len(a)] = s[i + (k - Len(a))]
    BY <1>3, <2>1
  <2> QED
    BY <2>1, <2>2, <2>3
<1>7. Len(a \o b) = Len(s) - 1 /\ \A k \in 1 .. i - 1 : (a \o b)[k] = s[k]
  BY <1>1, <1>2, <1>3, <1>5
<1> QED
  BY <1>4, <1>5, <1>6, <1>7


HeldPacket == [flow : MergeFlow, df : BOOLEAN, id : 0 .. Ids - 1, age : Nat,
               ids : Seq(0 .. Ids - 1), from : Seq(Nat)]

Ascends(s) == \A i, j \in 1 .. Len(s) : i < j => s[i] < s[j]

\* What has been delivered is in order, and from the first n that came.
DeliveredOK(del, n) ==
    /\ del \in [MergeFlow -> Seq(Nat)]
    /\ \A f \in MergeFlow : Ascends(del[f]) /\ \A j \in 1 .. Len(del[f]) : del[f][j] <= n

\* A held packet is of the first n, behind what is delivered of its flow.
HeldOK(p, del, n, t) ==
    /\ p.age <= t /\ Len(p.from) >= 1 /\ Len(p.ids) = Len(p.from) /\ Ascends(p.from)
    /\ \A k \in 1 .. Len(p.from) : 1 <= p.from[k] /\ p.from[k] <= n
    /\ \A k \in 1 .. Len(p.from) : \A j \in 1 .. Len(del[p.flow]) : del[p.flow][j] < p.from[k]
    /\ ~p.df => \A k \in 1 .. Len(p.ids) : p.ids[k] = (p.id + k - 1) % Ids

Apart(flows) == \A i, j \in 1 .. Len(flows) : i < j => /\ flows[i].age >= flows[j].age
                                                    /\ flows[i].flow # flows[j].flow

Orderly(flows, del, n, t) ==
    /\ flows \in Seq(HeldPacket) /\ Apart(flows)
    /\ DeliveredOK(del, n) /\ \A i \in 1 .. Len(flows) : HeldOK(flows[i], del, n, t)

MergeIInv == /\ jiffy \in Nat /\ arrivals \in Nat /\ Orderly(groList, delivered, arrivals, jiffy)
             /\ groCount = Len(groList) /\ groCount <= MaxSkbs

\* One step of Complete
After(d, p) == IF offload \/ Len(p.from) = 1 THEN [d EXCEPT ![p.flow] = @ \o p.from] ELSE d

\* A held packet is completed.
LEMMA CompletedOne ==
  ASSUME NEW n \in Nat, NEW t \in Nat, NEW flows, NEW del, Orderly(flows, del, n, t),
         NEW i \in 1 .. Len(flows)
  PROVE  /\ Orderly(RemoveAt(flows, i), After(del, flows[i]), n, t)
         /\ Len(RemoveAt(flows, i)) = Len(flows) - 1
         /\ \A k \in 1 .. Len(flows) - 1 : RemoveAt(flows, i)[k].flow # flows[i].flow
<1> DEFINE p == flows[i]
           r == RemoveAt(flows, i)
           after == After(del, p)
<1>1. /\ p \in HeldPacket /\ flows \in Seq(HeldPacket) /\ HeldOK(p, del, n, t)
      /\ DeliveredOK(del, n)
      /\ Apart(flows) /\ \A k \in 1 .. Len(flows) : HeldOK(flows[k], del, n, t)
  BY DEF Orderly
<1>2. /\ r \in Seq(HeldPacket) /\ Len(r) = Len(flows) - 1 /\ Len(flows) \in Nat
      /\ \A k \in 1 .. i - 1 : r[k] = flows[k]
      /\ \A k \in i .. Len(flows) - 1 : r[k] = flows[k + 1]
  BY <1>1, Removed
<1> HIDE DEF r
<1>3. ASSUME NEW k \in 1 .. Len(r)
      PROVE  \E m \in 1 .. Len(flows) : /\ r[k] = flows[m] /\ m # i /\ (k < i => m = k) /\ (k >= i => m = k + 1)
  <2>1. CASE k < i
    <3>1. k \in 1 .. i - 1 /\ k \in 1 .. Len(flows)
      BY <1>2, <2>1
    <3> QED
      BY <1>2, <2>1, <3>1
  <2>2. CASE k >= i
    <3>1. k \in i .. Len(flows) - 1 /\ k + 1 \in 1 .. Len(flows) /\ k + 1 # i
      BY <1>2, <2>2
    <3> QED
      BY <1>2, <2>2, <3>1
  <2>3. k < i \/ k >= i
    BY <1>2
  <2> QED
    BY <2>1, <2>2, <2>3
<1>4. ASSUME NEW m \in 1 .. Len(flows), m # i PROVE flows[m].flow # p.flow
  BY <1>1, <1>2, <1>4 DEF Apart
<1>5. Apart(r)
  <2> SUFFICES ASSUME NEW k \in 1 .. Len(r), NEW l \in 1 .. Len(r), k < l
               PROVE  r[k].age >= r[l].age /\ r[k].flow # r[l].flow
    BY DEF Apart
  <2>1. PICK m \in 1 .. Len(flows) : r[k] = flows[m] /\ (k < i => m = k) /\ (k >= i => m = k + 1)
    BY <1>3
  <2>2. PICK o \in 1 .. Len(flows) : r[l] = flows[o] /\ (l < i => o = l) /\ (l >= i => o = l + 1)
    BY <1>3
  <2>3. m < o
    BY <1>2, <2>1, <2>2
  <2> QED
    BY <1>1, <2>1, <2>2, <2>3 DEF Apart
<1>6. /\ p.flow \in MergeFlow /\ del[p.flow] \in Seq(Nat) /\ p.from \in Seq(Nat)
      /\ del[p.flow] \o p.from \in Seq(Nat)
      /\ Len(del[p.flow] \o p.from) = Len(del[p.flow]) + Len(p.from)
      /\ \A k \in 1 .. Len(del[p.flow]) : (del[p.flow] \o p.from)[k] = del[p.flow][k]
      /\ \A k \in Len(del[p.flow]) + 1 .. Len(del[p.flow]) + Len(p.from) :
             (del[p.flow] \o p.from)[k] = p.from[k - Len(del[p.flow])]
  <2> DEFINE sent == del[p.flow]
             more == p.from
  <2>1. p.flow \in MergeFlow /\ sent \in Seq(Nat) /\ more \in Seq(Nat)
    BY <1>1 DEF HeldPacket, DeliveredOK
  <2> HIDE DEF sent, more
  <2>2. /\ sent \o more \in Seq(Nat) /\ Len(sent \o more) = Len(sent) + Len(more)
        /\ \A k \in 1 .. Len(sent) : (sent \o more)[k] = sent[k]
        /\ \A k \in Len(sent) + 1 .. Len(sent) + Len(more) :
               (sent \o more)[k] = more[k - Len(sent)]
    BY <2>1, AtEnd
  <2> QED
    BY <2>1, <2>2 DEF sent, more
<1>7. /\ after \in [MergeFlow -> Seq(Nat)] /\ \A f \in MergeFlow \ {p.flow} : after[f] = del[f]
      /\ after[p.flow] = del[p.flow] \/ after[p.flow] = del[p.flow] \o p.from
  BY <1>1, <1>6 DEF After, DeliveredOK
<1> HIDE DEF after
<1>8. /\ Ascends(del[p.flow] \o p.from)
      /\ \A k \in 1 .. Len(del[p.flow] \o p.from) : (del[p.flow] \o p.from)[k] <= n
  <2> DEFINE a == del[p.flow]
             b == p.from
             c == a \o b
  <2>1. /\ Len(a) \in Nat /\ Len(b) \in Nat /\ Ascends(a) /\ Ascends(b)
        /\ \A k \in 1 .. Len(a) : a[k] \in Nat /\ a[k] <= n
        /\ \A k \in 1 .. Len(b) : b[k] \in Nat /\ b[k] <= n
        /\ \A k \in 1 .. Len(b) : \A j \in 1 .. Len(a) : a[j] < b[k]
    <3>1. a \in Seq(Nat) /\ b \in Seq(Nat) /\ p.flow \in MergeFlow
      BY <1>6
    <3>2. Ascends(a) /\ \A k \in 1 .. Len(a) : a[k] <= n
      BY <1>1, <3>1 DEF DeliveredOK
    <3>3. /\ Ascends(b) /\ \A k \in 1 .. Len(b) : b[k] <= n
          /\ \A k \in 1 .. Len(b) : \A j \in 1 .. Len(a) : a[j] < b[k]
      BY <1>1 DEF HeldOK
    <3> HIDE DEF a, b
    <3> QED
      BY <3>1, <3>2, <3>3
  <2>2. /\ Len(c) = Len(a) + Len(b) /\ \A k \in 1 .. Len(a) : c[k] = a[k]
        /\ \A k \in Len(a) + 1 .. Len(a) + Len(b) : c[k] = b[k - Len(a)]
    BY <1>6
  <2> HIDE DEF a, b, c
  <2>3. \A k \in Len(a) + 1 .. Len(a) + Len(b) : k - Len(a) \in 1 .. Len(b)
    BY <2>1
  <2>4. ASSUME NEW k \in 1 .. Len(c) PROVE k \in 1 .. Len(a) \/ k \in Len(a) + 1 .. Len(a) + Len(b)
    BY <2>1, <2>2
  <2>5. \A k \in 1 .. Len(c) : c[k] <= n
    BY <2>1, <2>2, <2>3, <2>4
  <2>6. ASSUME NEW k \in 1 .. Len(c), NEW l \in 1 .. Len(c), k < l PROVE c[k] < c[l]
    <3>1. CASE l \in 1 .. Len(a)
      <4>1. k \in 1 .. Len(a)
        BY <2>6, <3>1, <2>1
      <4> QED
        BY <2>1, <2>2, <2>6, <3>1, <4>1 DEF Ascends
    <3>2. CASE k \in 1 .. Len(a) /\ l \in Len(a) + 1 .. Len(a) + Len(b)
      BY <2>1, <2>2, <2>3, <3>2
    <3>3. CASE k \in Len(a) + 1 .. Len(a) + Len(b) /\ l \in Len(a) + 1 .. Len(a) + Len(b)
      <4>1. k - Len(a) \in 1 .. Len(b) /\ l - Len(a) \in 1 .. Len(b) /\ k - Len(a) < l - Len(a)
        BY <2>1, <2>3, <2>6, <3>3
      <4>2. b[k - Len(a)] < b[l - Len(a)]
        BY <2>1, <4>1 DEF Ascends
      <4> QED
        BY <2>2, <3>3, <4>2
    <3> QED
      BY <2>4, <3>1, <3>2, <3>3
  <2> QED
    BY <2>5, <2>6 DEF Ascends, a, b, c
<1>9. DeliveredOK(after, n)
  <2> SUFFICES ASSUME NEW f \in MergeFlow
               PROVE  Ascends(after[f]) /\ \A j \in 1 .. Len(after[f]) : after[f][j] <= n
    BY <1>7 DEF DeliveredOK
  <2>1. Ascends(del[f]) /\ \A j \in 1 .. Len(del[f]) : del[f][j] <= n
    BY <1>1 DEF DeliveredOK
  <2>2. CASE after[f] = del[f]
    BY <2>1, <2>2
  <2>3. CASE after[f] # del[f]
    <3>1. f = p.flow /\ after[f] = del[p.flow] \o p.from
      BY <1>7, <2>3
    <3> QED
      BY <1>8, <3>1
  <2> QED
    BY <2>2, <2>3
<1>10. ASSUME NEW k \in 1 .. Len(r) PROVE HeldOK(r[k], after, n, t) /\ r[k].flow # p.flow
  <2>1. PICK m \in 1 .. Len(flows) : r[k] = flows[m] /\ m # i
    BY <1>3
  <2>2. flows[m].flow # p.flow /\ flows[m].flow \in MergeFlow /\ HeldOK(flows[m], del, n, t)
    <3>1. flows[m] \in HeldPacket
      BY <1>1, <2>1
    <3> QED
      BY <1>1, <1>4, <2>1, <3>1 DEF HeldPacket
  <2>3. after[flows[m].flow] = del[flows[m].flow]
    BY <1>7, <2>2
  <2> QED
    BY <2>1, <2>2, <2>3 DEF HeldOK
<1> QED
  BY <1>2, <1>5, <1>9, <1>10 DEF Orderly, r, after

LEMMA IdMod == ASSUME Merge!GroAssumption, NEW n \in 0 .. Ids - 1 PROVE n % Ids = n
  BY DEF Merge!GroAssumption

\* More has come, and nothing else has changed.
LEMMA LaterOK == ASSUME NEW n \in Nat, NEW t \in Nat, NEW p \in HeldPacket, NEW del, HeldOK(p,
                        del, n, t)
                 PROVE  HeldOK(p, del, n + 1, t)
  BY DEF HeldOK, HeldPacket

LEMMA LaterDelivered ==
  ASSUME NEW n \in Nat, NEW del, DeliveredOK(del, n)
  PROVE  DeliveredOK(del, n + 1)
  BY DEF DeliveredOK

LEMMA LaterOrderly ==
  ASSUME NEW n \in Nat, NEW t \in Nat, NEW flows, NEW del, Orderly(flows, del, n, t)
  PROVE  Orderly(flows, del, n + 1, t)
<1>1. \A i \in 1 .. Len(flows) : flows[i] \in HeldPacket
  BY DEF Orderly
<1> QED
  BY <1>1, LaterOK, LaterDelivered DEF Orderly

\* The packet is held.
LEMMA HeldNew ==
  ASSUME Merge!GroAssumption, NEW n \in Nat, NEW t \in Nat, NEW flows, NEW del,
         Orderly(flows, del, n, t),
         NEW pkt \in Merge!Packet, \A k \in 1 .. Len(flows) : flows[k].flow # pkt.flow,
         NEW new, new = [flow |-> pkt.flow, df |-> pkt.df, id |-> pkt.id, age |-> t,
                         ids |-> <<pkt.id>>, from |-> <<n + 1>>]
  PROVE  Orderly(<<new>> \o flows, del, n + 1, t) /\ Len(<<new>> \o flows) = Len(flows) + 1
<1>1. /\ flows \in Seq(HeldPacket) /\ Apart(flows) /\ DeliveredOK(del, n)
      /\ \A k \in 1 .. Len(flows) : flows[k] \in HeldPacket /\ HeldOK(flows[k], del, n, t)
  BY DEF Orderly
<1>2. /\ pkt.id \in 0 .. Ids - 1 /\ pkt.flow \in MergeFlow /\ pkt.df \in BOOLEAN
      /\ <<pkt.id>> \in Seq(0 .. Ids - 1) /\ <<n + 1>> \in Seq(Nat)
  BY DEF Merge!Packet
<1>3. new \in HeldPacket
  BY <1>2 DEF HeldPacket
<1>4. HeldOK(new, del, n + 1, t)
  <2>1. /\ new.age = t /\ new.from = <<n + 1>> /\ new.ids = <<pkt.id>> /\ new.id = pkt.id
        /\ Len(new.from) = 1 /\ Len(new.ids) = 1 /\ new.from[1] = n + 1 /\ new.ids[1] = pkt.id
        /\ new.flow = pkt.flow
    OBVIOUS
  <2>2. pkt.id % Ids = pkt.id /\ pkt.id + 1 - 1 = pkt.id
    BY <1>2, IdMod DEF Merge!GroAssumption
  <2>3. \A j \in 1 .. Len(del[pkt.flow]) : del[pkt.flow][j] \in Nat /\ del[pkt.flow][j] <= n
    BY <1>1, <1>2 DEF DeliveredOK
  <2> QED
    BY <2>1, <2>2, <2>3 DEF HeldOK, Ascends
<1> DEFINE longer == <<new>> \o flows
<1>5. /\ longer \in Seq(HeldPacket) /\ Len(longer) = Len(flows) + 1 /\ longer[1] = new
      /\ \A k \in 2 .. Len(flows) + 1 : longer[k] = flows[k - 1]
  BY <1>1, <1>3, InFront
<1>6. Len(flows) \in Nat /\ \A k \in 2 .. Len(flows) + 1 : k - 1 \in 1 .. Len(flows)
  BY <1>1
<1> HIDE DEF longer
<1>7. ASSUME NEW k \in 1 .. Len(longer) PROVE HeldOK(longer[k], del, n + 1, t)
  <2>1. CASE k = 1
    BY <1>4, <1>5, <2>1
  <2>2. CASE k # 1
    <3>1. k \in 2 .. Len(flows) + 1
      BY <1>5, <1>6, <2>2
    <3> QED
      BY <1>1, <1>5, <1>6, <3>1, LaterOK
  <2> QED
    BY <2>1, <2>2
<1>8. ASSUME NEW k \in 1 .. Len(longer), NEW l \in 1 .. Len(longer), k < l
      PROVE  longer[k].age >= longer[l].age /\ longer[k].flow # longer[l].flow
  <2>1. l \in 2 .. Len(flows) + 1 /\ longer[l] = flows[l - 1] /\ l - 1 \in 1 .. Len(flows)
    BY <1>5, <1>6, <1>8
  <2>2. CASE k = 1
    <3>1. flows[l - 1].age <= t /\ new.age = t /\ new.flow = pkt.flow /\ flows[l - 1].age \in Nat
      BY <1>1, <2>1 DEF HeldOK, HeldPacket
    <3> QED
      BY <1>5, <2>1, <2>2, <3>1
  <2>3. CASE k # 1
    <3>1. k \in 2 .. Len(flows) + 1 /\ longer[k] = flows[k - 1] /\ k - 1 \in 1 .. Len(flows)
          /\ k - 1 < l - 1
      BY <1>5, <1>6, <1>8, <2>3
    <3> QED
      BY <1>1, <2>1, <3>1 DEF Apart
  <2> QED
    BY <2>2, <2>3
<1> QED
  BY <1>1, <1>5, <1>7, <1>8, LaterDelivered DEF Orderly, Apart, longer

\* The packet goes on.
LEMMA GoesOn ==
  ASSUME NEW n \in Nat, NEW t \in Nat, NEW flows, NEW del, Orderly(flows, del, n, t),
         NEW f \in MergeFlow,
         \A k \in 1 .. Len(flows) : flows[k].flow # f
  PROVE  Orderly(flows, [del EXCEPT ![f] = Append(@, n + 1)], n + 1, t)
<1> DEFINE after == [del EXCEPT ![f] = Append(@, n + 1)]
<1>1. /\ flows \in Seq(HeldPacket) /\ Apart(flows) /\ DeliveredOK(del, n)
      /\ \A k \in 1 .. Len(flows) : flows[k] \in HeldPacket /\ HeldOK(flows[k], del, n, t)
  BY DEF Orderly
<1>2. /\ del[f] \in Seq(Nat) /\ after \in [MergeFlow -> Seq(Nat)] /\ after[f] = Append(del[f], n + 1)
      /\ \A g \in MergeFlow \ {f} : after[g] = del[g]
  BY <1>1 DEF DeliveredOK
<1> HIDE DEF after
<1>3. Ascends(after[f]) /\ \A j \in 1 .. Len(after[f]) : after[f][j] <= n + 1
  <2>1. /\ Len(after[f]) = Len(del[f]) + 1 /\ after[f][Len(del[f]) + 1] = n + 1
        /\ Len(del[f]) \in Nat
        /\ \A j \in 1 .. Len(del[f]) : after[f][j] = del[f][j] /\ del[f][j] \in Nat
              /\ del[f][j] <= n
    BY <1>1, <1>2 DEF DeliveredOK
  <2>2. Ascends(del[f])
    BY <1>1 DEF DeliveredOK
  <2>3. ASSUME NEW j \in 1 .. Len(after[f]), NEW k \in 1 .. Len(after[f]), j < k
        PROVE  after[f][j] < after[f][k]
    <3>1. j \in 1 .. Len(del[f])
      BY <2>1, <2>3
    <3>2. CASE k \in 1 .. Len(del[f])
      BY <2>1, <2>2, <2>3, <3>1, <3>2 DEF Ascends
    <3>3. CASE k = Len(del[f]) + 1
      BY <2>1, <3>1, <3>3
    <3> QED
      BY <2>1, <3>2, <3>3
  <2>4. ASSUME NEW j \in 1 .. Len(after[f]) PROVE after[f][j] <= n + 1
    <3>1. j \in 1 .. Len(del[f]) \/ j = Len(del[f]) + 1
      BY <2>1
    <3> QED
      BY <2>1, <3>1, SMTT(30)
  <2> QED
    BY <2>3, <2>4 DEF Ascends
<1>4. DeliveredOK(after, n + 1)
  BY <1>1, <1>2, <1>3, LaterDelivered DEF DeliveredOK
<1>5. ASSUME NEW k \in 1 .. Len(flows) PROVE HeldOK(flows[k], after, n + 1, t)
  <2>1. HeldOK(flows[k], del, n + 1, t)
    BY <1>1, LaterOK
  <2>2. flows[k].flow \in MergeFlow \ {f}
    BY <1>1 DEF HeldPacket
  <2>3. after[flows[k].flow] = del[flows[k].flow]
    BY <1>2, <2>2
  <2> QED
    BY <2>1, <2>3 DEF HeldOK
<1> QED
  BY <1>1, <1>4, <1>5 DEF Orderly, after

\* The ids follow each other: flush_id was the number of packets merged so far.
LEMMA NextId ==
  ASSUME Merge!GroAssumption, NEW first \in 0 .. Ids - 1, NEW id \in 0 .. Ids - 1,
         NEW count \in Nat,
         (id + Ids - first) % Ids = count
  PROVE  id = (first + count) % Ids
<1>1. Ids \in Nat \ {0}
  BY DEF Merge!GroAssumption
<1>2. CASE id >= first
  <2>1. (id + Ids - first) % Ids = id - first
    BY <1>1, <1>2
  <2>2. first + count = id
    BY <1>1, <1>2, <2>1
  <2> QED
    BY <2>2, IdMod
<1>3. CASE id < first
  <2>1. (id + Ids - first) % Ids = id + Ids - first
    BY <1>1, <1>3
  <2>2. first + count = id + Ids
    BY <1>1, <1>3, <2>1
  <2>3. (id + Ids) % Ids = id
    BY <1>1
  <2> QED
    BY <2>2, <2>3
<1> QED
  BY <1>1, <1>2, <1>3

\* What p is with the packet that arrives as number n
Joined(p, pkt, n) == [p EXCEPT !.ids = Append(@, pkt.id), !.from = Append(@, n)]

Replaced(flows, i, p) == [flows EXCEPT ![i] = p]

\* The packet is merged with a held one.
LEMMA MergedOK ==
  ASSUME Merge!GroAssumption, NEW n \in Nat, NEW t \in Nat, NEW flows, NEW del,
         Orderly(flows, del, n, t),
         NEW i \in 1 .. Len(flows), NEW pkt \in Merge!Packet, Merge!MayMerge(flows[i], pkt),
         NEW merged, merged = Joined(flows[i], pkt, n + 1)
  PROVE  /\ Orderly(Replaced(flows, i, merged), del, n + 1, t)
         /\ RemoveAt(Replaced(flows, i, merged), i) = RemoveAt(flows, i)
         /\ Len(Replaced(flows, i, merged)) = Len(flows)
         /\ Replaced(flows, i, merged)[i] = merged
<1> DEFINE p == flows[i]
           next == Replaced(flows, i, merged)
<1>1. /\ flows \in Seq(HeldPacket) /\ Apart(flows) /\ DeliveredOK(del, n)
      /\ \A k \in 1 .. Len(flows) : flows[k] \in HeldPacket /\ HeldOK(flows[k], del, n, t)
  BY DEF Orderly
<1>2. /\ p \in HeldPacket /\ HeldOK(p, del, n, t)
      /\ p.ids \in Seq(0 .. Ids - 1) /\ p.from \in Seq(Nat) /\ p.flow \in MergeFlow
      /\ p.id \in 0 .. Ids - 1
  BY <1>1 DEF HeldPacket
<1>3. pkt.id \in 0 .. Ids - 1
  BY DEF Merge!Packet
<1>4. /\ merged.flow = p.flow /\ merged.df = p.df /\ merged.id = p.id /\ merged.age = p.age
      /\ merged.ids = Append(p.ids, pkt.id) /\ merged.from = Append(p.from, n + 1)
      /\ merged \in HeldPacket
  <2> DEFINE ids == Append(p.ids, pkt.id)
             from == Append(p.from, n + 1)
  <2>1. ids \in Seq(0 .. Ids - 1) /\ from \in Seq(Nat)
    BY <1>2, <1>3
  <2>2. p \in [flow : MergeFlow, df : BOOLEAN, id : 0 .. Ids - 1, age : Nat,
               ids : Seq(0 .. Ids - 1), from : Seq(Nat)]
    BY <1>2 DEF HeldPacket
  <2>3. merged = [p EXCEPT !.ids = ids, !.from = from]
    BY DEF Joined
  <2> HIDE DEF p, ids, from
  <2>4. merged = [flow |-> p.flow, df |-> p.df, id |-> p.id, age |-> p.age, ids |-> ids, from |-> from]
    BY <2>2, <2>3
  <2>5. p.flow \in MergeFlow /\ p.df \in BOOLEAN /\ p.id \in 0 .. Ids - 1 /\ p.age \in Nat
    BY <2>2
  <2>6. merged \in HeldPacket
    BY <2>1, <2>4, <2>5 DEF HeldPacket
  <2>7. /\ merged.flow = p.flow /\ merged.df = p.df /\ merged.id = p.id /\ merged.age = p.age
        /\ merged.ids = ids /\ merged.from = from
    BY ONLY <2>4
  <2>8. ids = Append(p.ids, pkt.id) /\ from = Append(p.from, n + 1)
    BY DEF ids, from
  <2> QED
    BY <2>6, <2>7, <2>8
<1>5. /\ Len(merged.ids) = Len(p.ids) + 1 /\ Len(p.ids) \in Nat
      /\ merged.ids[Len(p.ids) + 1] = pkt.id
      /\ \A k \in 1 .. Len(p.ids) : merged.ids[k] = p.ids[k]
      /\ Len(merged.from) = Len(p.from) + 1 /\ Len(p.from) \in Nat
      /\ merged.from[Len(p.from) + 1] = n + 1
      /\ \A k \in 1 .. Len(p.from) : merged.from[k] = p.from[k] /\ p.from[k] \in Nat
  <2>1. n + 1 \in Nat
    OBVIOUS
  <2> DEFINE ids == p.ids
             from == p.from
             nextIds == merged.ids
             nextFrom == merged.from
  <2>2. ids \in Seq(0 .. Ids - 1) /\ from \in Seq(Nat) /\ nextIds = Append(ids, pkt.id)
        /\ nextFrom = Append(from, n + 1)
    BY <1>2, <1>4
  <2> HIDE DEF ids, from, nextIds, nextFrom
  <2>3. /\ Len(nextIds) = Len(ids) + 1 /\ Len(ids) \in Nat /\ nextIds[Len(ids) + 1] = pkt.id
        /\ \A k \in 1 .. Len(ids) : nextIds[k] = ids[k]
    BY <1>3, <2>2, OneMoreAtEnd
  <2>4. /\ Len(nextFrom) = Len(from) + 1 /\ Len(from) \in Nat /\ nextFrom[Len(from) + 1] = n + 1
        /\ \A k \in 1 .. Len(from) : nextFrom[k] = from[k] /\ from[k] \in Nat
    BY <2>1, <2>2, OneMoreAtEnd
  <2> QED
    BY <2>3, <2>4 DEF ids, from, nextIds, nextFrom
<1>6. /\ Len(p.from) = Len(p.ids) /\ Len(p.from) >= 1 /\ p.age <= t /\ Ascends(p.from)
      /\ \A k \in 1 .. Len(p.from) : 1 <= p.from[k] /\ p.from[k] <= n
      /\ \A k \in 1 .. Len(p.from) : \A j \in 1 .. Len(del[p.flow]) : del[p.flow][j] < p.from[k]
      /\ ~p.df => \A k \in 1 .. Len(p.ids) : p.ids[k] = (p.id + k - 1) % Ids
  BY <1>2 DEF HeldOK
<1>7. HeldOK(merged, del, n + 1, t)
  <2>1. ASSUME NEW k \in 1 .. Len(merged.from)
        PROVE  k \in 1 .. Len(p.from) \/ (k = Len(p.from) + 1 /\ merged.from[k] = n + 1)
    BY <1>5
  <2>2. ASSUME NEW j \in 1 .. Len(del[p.flow]) PROVE del[p.flow][j] \in Nat /\ del[p.flow][j] <= n
    BY <1>1, <1>2, SMTT(30) DEF DeliveredOK
  <2> DEFINE from == p.from
             longer == merged.from
             sent == del[p.flow]
  <2>3. /\ Len(longer) = Len(from) + 1 /\ Len(from) \in Nat /\ longer[Len(from) + 1] = n + 1
        /\ \A k \in 1 .. Len(from) : /\ longer[k] = from[k] /\ from[k] \in Nat
                                     /\ 1 <= from[k] /\ from[k] <= n
                                     /\ \A j \in 1 .. Len(sent) : sent[j] < from[k]
        /\ Ascends(from) /\ \A j \in 1 .. Len(sent) : sent[j] \in Nat /\ sent[j] <= n
    BY <1>5, <1>6, <2>2
  <2> HIDE DEF from, longer, sent
  <2>4. /\ Ascends(longer)
        /\ \A k \in 1 .. Len(longer) : /\ 1 <= longer[k] /\ longer[k] <= n + 1
                                       /\ \A j \in 1 .. Len(sent) : sent[j] < longer[k]
    <3>1. ASSUME NEW k \in 1 .. Len(longer) PROVE k \in 1 .. Len(from) \/ k = Len(from) + 1
      BY <2>3
    <3>2. ASSUME NEW j \in 1 .. Len(longer), NEW k \in 1 .. Len(longer), j < k
          PROVE  longer[j] < longer[k]
      <4>1. j \in 1 .. Len(from)
        BY <2>3, <3>2
      <4>2. CASE k \in 1 .. Len(from)
        BY <2>3, <3>2, <4>1, <4>2 DEF Ascends
      <4>3. CASE k = Len(from) + 1
        BY <2>3, <4>1, <4>3
      <4> QED
        BY <3>1, <4>2, <4>3
    <3>3. ASSUME NEW k \in 1 .. Len(longer)
          PROVE  /\ 1 <= longer[k] /\ longer[k] <= n + 1
                 /\ \A j \in 1 .. Len(sent) : sent[j] < longer[k]
      <4>1. CASE k \in 1 .. Len(from)
        BY <2>3, <4>1
      <4>2. CASE k = Len(from) + 1
        BY <2>3, <4>2
      <4> QED
        BY <3>1, <4>1, <4>2
    <3> QED
      BY <3>2, <3>3 DEF Ascends
  <2>5. ASSUME ~p.df, NEW k \in 1 .. Len(merged.ids) PROVE merged.ids[k] = (p.id + k - 1) % Ids
    <3>1. CASE k \in 1 .. Len(p.ids)
      BY <1>5, <1>6, <2>5, <3>1
    <3>2. CASE k = Len(p.ids) + 1
      <4>1. (pkt.id + Ids - p.id) % Ids = Len(p.ids)
        BY <1>6, <2>5 DEF Merge!MayMerge, Merge!IdFits
      <4>2. pkt.id = (p.id + Len(p.ids)) % Ids
        BY <1>2, <1>3, <1>5, <4>1, NextId
      <4>3. p.id + k - 1 = p.id + Len(p.ids)
        BY <1>2, <1>5, <3>2
      <4> QED
        BY <1>5, <3>2, <4>2, <4>3
    <3> QED
      BY <1>5, <3>1, <3>2, SMTT(30)
  <2>6. merged.age <= t /\ Len(merged.from) >= 1 /\ Len(merged.ids) = Len(merged.from)
    BY <1>4, <1>5, <1>6
  <2> QED
    BY <1>4, <2>4, <2>5, <2>6 DEF HeldOK, from, longer, sent
<1>8. /\ next \in Seq(HeldPacket) /\ Len(next) = Len(flows) /\ Len(flows) \in Nat
      /\ next[i] = merged
      /\ \A k \in 1 .. Len(flows) : k # i => next[k] = flows[k]
  <2>1. merged \in HeldPacket /\ flows \in Seq(HeldPacket)
    BY <1>1, <1>4
  <2> QED
    BY ONLY <2>1, i \in 1 .. Len(flows) DEF Replaced
<1> HIDE DEF next
<1>9. Apart(next)
  <2>1. \A k \in 1 .. Len(flows) : next[k].age = flows[k].age /\ next[k].flow = flows[k].flow
    BY <1>4, <1>8
  <2> QED
    BY <1>1, <1>8, <2>1 DEF Apart
<1>10. \A k \in 1 .. Len(next) : HeldOK(next[k], del, n + 1, t)
  BY <1>1, <1>7, <1>8, LaterOK
<1>11. RemoveAt(next, i) = RemoveAt(flows, i)
  <2>1. /\ RemoveAt(flows, i) \in Seq(HeldPacket) /\ Len(RemoveAt(flows, i)) = Len(flows) - 1
        /\ \A k \in 1 .. i - 1 : RemoveAt(flows, i)[k] = flows[k]
        /\ \A k \in i .. Len(flows) - 1 : RemoveAt(flows, i)[k] = flows[k + 1]
    BY <1>1, Removed
  <2>2. /\ RemoveAt(next, i) \in Seq(HeldPacket) /\ Len(RemoveAt(next, i)) = Len(next) - 1
        /\ \A k \in 1 .. i - 1 : RemoveAt(next, i)[k] = next[k]
        /\ \A k \in i .. Len(next) - 1 : RemoveAt(next, i)[k] = next[k + 1]
    <3>1. next \in Seq(HeldPacket) /\ i \in 1 .. Len(next)
      BY <1>8
    <3> QED
      BY <3>1, Removed
  <2>3. ASSUME NEW k \in 1 .. Len(flows) - 1 PROVE RemoveAt(next, i)[k] = RemoveAt(flows, i)[k]
    <3>1. CASE k < i
      <4>1. k \in 1 .. i - 1 /\ k \in 1 .. Len(flows) /\ k # i
        BY <1>8, <3>1
      <4> QED
        BY <1>8, <2>1, <2>2, <4>1
    <3>2. CASE k >= i
      <4>1. k \in i .. Len(flows) - 1 /\ k + 1 \in 1 .. Len(flows) /\ k + 1 # i
        BY <1>8, <3>2
      <4> QED
        BY <1>8, <2>1, <2>2, <4>1
    <3>3. k < i \/ k >= i
      BY <1>8
    <3> QED
      BY <3>1, <3>2, <3>3
  <2> QED
    BY <1>8, <2>1, <2>2, <2>3, SeqEqual
<1> QED
  BY <1>1, <1>8, <1>9, <1>10, <1>11, LaterDelivered DEF Orderly, next

\* A set of numbers that is not empty has a smallest one.
LEMMA Smallest == ASSUME NEW M \in SUBSET Nat, M # {}
                  PROVE  \E m \in M : \A k \in M : m <= k
<1> DEFINE R == OpToRel(<, Nat)
<1>1. PICK m \in M : \A k \in M : ~ (<<k, m>> \in R)
  BY NatLessThanWellFounded, WFMin, Zenon
<1>2. \A k, l \in Nat : k < l => <<k, l>> \in R
  BY DEF OpToRel
<1> HIDE DEF R
<1>3. \A k \in M : ~ (k < m)
  BY <1>1, <1>2
<1> QED
  BY <1>3

\* What the fold of Complete computes over the first k packets
CompletesTo(g, del, skbs, k) ==
    g = [m \in 0 .. k |-> IF m = 0 THEN del ELSE After(g[m - 1], skbs[m])]

LEMMA CompletesSome ==
  ASSUME NEW del, NEW skbs, NEW k \in Nat
  PROVE  \E g : CompletesTo(g, del, skbs, k)
<1> DEFINE Without == {m \in Nat : ~ \E g : CompletesTo(g, del, skbs, m)}
<1>1. SUFFICES ASSUME Without # {} PROVE FALSE
  OBVIOUS
<1>2. PICK m \in Without : \A l \in Without : m <= l
  BY <1>1, Smallest
<1>3. m \in Nat /\ ~ \E g : CompletesTo(g, del, skbs, m)
  OBVIOUS
<1>4. CASE m = 0
  <2> DEFINE g == [l \in 0 .. 0 |-> del]
  <2>1. g = [l \in 0 .. 0 |-> IF l = 0 THEN del ELSE After(g[l - 1], skbs[l])]
    OBVIOUS
  <2> QED
    BY <1>3, <1>4, <2>1 DEF CompletesTo
<1>5. CASE m # 0
  <2>1. m - 1 \in Nat /\ m - 1 \notin Without
    BY <1>2, <1>3, <1>5
  <2>2. PICK h : CompletesTo(h, del, skbs, m - 1)
    BY <2>1
  <2> DEFINE g == [l \in 0 .. m |-> IF l = m THEN After(h[m - 1], skbs[m]) ELSE h[l]]
  <2>3. ASSUME NEW l \in 0 .. m PROVE g[l] = IF l = 0 THEN del ELSE After(g[l - 1], skbs[l])
    <3>1. CASE l = m
      <4>1. m - 1 \in 0 .. m /\ m - 1 # m
        BY <1>3, <1>5
      <4>2. g[m - 1] = h[m - 1]
        BY <4>1
      <4> QED
        BY <1>5, <3>1, <4>2
    <3>2. CASE l # m /\ l # 0
      <4>1. l \in 0 .. m - 1 /\ l - 1 \in 0 .. m /\ l - 1 # m
        BY <1>3, <3>2
      <4>2. g[l - 1] = h[l - 1] /\ g[l] = h[l]
        BY <3>2, <4>1
      <4>3. h[l] = After(h[l - 1], skbs[l])
        BY <2>2, <3>2, <4>1 DEF CompletesTo
      <4> QED
        BY <3>2, <4>2, <4>3
    <3>3. CASE l = 0
      <4>1. l \in 0 .. m - 1 /\ l # m
        BY <1>3, <1>5, <3>3
      <4>2. h[l] = del
        BY <2>2, <3>3, <4>1 DEF CompletesTo
      <4> QED
        BY <3>3, <4>1, <4>2
    <3> QED
      BY <3>1, <3>2, <3>3
  <2>4. g = [l \in 0 .. m |-> IF l = 0 THEN del ELSE After(g[l - 1], skbs[l])]
    BY <2>3
  <2> QED
    BY <1>3, <2>4 DEF CompletesTo
<1> QED
  BY <1>4, <1>5

LEMMA CompleteIs ==
  ASSUME NEW del, NEW skbs, Len(skbs) \in Nat
  PROVE  \E g : /\ g[0] = del /\ \A m \in 1 .. Len(skbs) : g[m] = After(g[m - 1], skbs[m])
                /\ Merge!Complete(del, skbs) = g[Len(skbs)]
<1>1. Merge!Complete(del, skbs) = (CHOOSE g : CompletesTo(g, del, skbs, Len(skbs)))[Len(skbs)]
  BY DEF Merge!Complete, Merge!FoldLeft, CompletesTo, After
<1>2. PICK g : g = CHOOSE h : CompletesTo(h, del, skbs, Len(skbs))
  OBVIOUS
<1>3. CompletesTo(g, del, skbs, Len(skbs))
  BY <1>2, CompletesSome
<1>4. g[0] = del /\ \A m \in 1 .. Len(skbs) : g[m] = After(g[m - 1], skbs[m])
  BY <1>3 DEF CompletesTo
<1> QED
  BY <1>1, <1>2, <1>4

LEMMA CompleteOne == ASSUME NEW del, NEW p PROVE Merge!Complete(del, <<p>>) = After(del, p)
<1>1. Len(<<p>>) = 1 /\ <<p>>[1] = p
  OBVIOUS
<1>2. PICK g : g[0] = del /\ (\A m \in 1 .. 1 : g[m] = After(g[m - 1], <<p>>[m]))
              /\ Merge!Complete(del, <<p>>) = g[1]
  BY <1>1, CompleteIs
<1>3. 1 \in 1 .. 1 /\ 1 - 1 = 0
  OBVIOUS
<1> QED
  BY <1>1, <1>2, <1>3

\* The oldest flow is completed.
LEMMA LastCompleted ==
  ASSUME NEW n \in Nat, NEW t \in Nat, NEW flows \in Seq(HeldPacket), NEW del,
         NEW m \in Nat \ {0}, m <= Len(flows), Orderly(SubSeq(flows, 1, m), del, n, t)
  PROVE  Orderly(SubSeq(flows, 1, m - 1), After(del, flows[m]), n, t)
<1>1. flows \in Seq(HeldPacket) /\ Len(flows) \in Nat
  OBVIOUS
<1> DEFINE a == SubSeq(flows, 1, m)
           b == SubSeq(flows, 1, m - 1)
<1>2. a \in Seq(HeldPacket) /\ Len(a) = m /\ \A k \in 1 .. m : a[k] = flows[k]
  <2>1. 1 \in 1 .. Len(flows) + 1 /\ m \in 0 .. Len(flows) /\ 1 <= m + 1
    BY <1>1
  <2>2. a \in Seq(HeldPacket) /\ Len(a) = m - 1 + 1
        /\ \A k \in 1 .. m - 1 + 1 : a[k] = flows[1 + k - 1]
    BY <1>1, <2>1, PartOfSeq
  <2> QED
    BY <2>2
<1>3. b \in Seq(HeldPacket) /\ Len(b) = m - 1 /\ \A k \in 1 .. m - 1 : b[k] = flows[k]
  <2>1. 1 \in 1 .. Len(flows) + 1 /\ m - 1 \in 0 .. Len(flows) /\ 1 <= m - 1 + 1
    BY <1>1
  <2>2. b \in Seq(HeldPacket) /\ Len(b) = m - 1 - 1 + 1
        /\ \A k \in 1 .. m - 1 - 1 + 1 : b[k] = flows[1 + k - 1]
    BY <1>1, <2>1, PartOfSeq
  <2> QED
    BY <2>2
<1> HIDE DEF a, b
<1>4. /\ RemoveAt(a, m) \in Seq(HeldPacket) /\ Len(RemoveAt(a, m)) = m - 1
      /\ \A k \in 1 .. m - 1 : RemoveAt(a, m)[k] = a[k]
  <2>1. m \in 1 .. Len(a)
    BY <1>2
  <2> QED
    BY <1>2, <2>1, Removed
<1>5. RemoveAt(a, m) = b
  <2>1. \A k \in 1 .. m - 1 : RemoveAt(a, m)[k] = b[k]
    BY <1>2, <1>3, <1>4, SMTT(30)
  <2> QED
    BY <1>3, <1>4, <2>1, SeqEqual
<1>6. Orderly(a, del, n, t) /\ m \in 1 .. Len(a) /\ a[m] = flows[m]
  BY <1>2 DEF a
<1>7. Orderly(RemoveAt(a, m), After(del, a[m]), n, t)
  BY <1>6, CompletedOne
<1> QED
  BY <1>5, <1>6, <1>7 DEF b

\* The packet is held; the oldest flow made room for it if it had to.
LEMMA HoldOK ==
  ASSUME Merge!GroAssumption, arrivals \in Nat, jiffy \in Nat, NEW flows, NEW del, NEW count,
         Orderly(flows, del, arrivals, jiffy), count = Len(flows), count <= MaxSkbs,
         NEW pkt \in Merge!Packet, \A k \in 1 .. Len(flows) : flows[k].flow # pkt.flow,
         Merge!Hold(flows, count, del, pkt)
  PROVE  /\ Orderly(groList', delivered', arrivals + 1, jiffy)
         /\ groCount' = Len(groList') /\ groCount' <= MaxSkbs
<1> DEFINE new == [flow |-> pkt.flow, df |-> pkt.df, id |-> pkt.id, age |-> jiffy,
                   ids |-> <<pkt.id>>, from |-> <<arrivals + 1>>]
<1>1. flows \in Seq(HeldPacket) /\ Len(flows) \in Nat /\ MaxSkbs \in Nat \ {0, 1}
  BY DEF Orderly, Merge!GroAssumption
<1>2. CASE count >= MaxSkbs
  <2>1. groList' = <<new>> \o Merge!Front(flows) /\ groCount' = count
        /\ delivered' = Merge!Complete(del, <<Merge!Last(flows)>>)
    BY <1>2 DEF Merge!Hold
  <2> DEFINE m == Len(flows)
             shorter == SubSeq(flows, 1, m - 1)
             after == After(del, flows[m])
  <2>2. shorter = Merge!Front(flows) /\ Merge!Last(flows) = flows[m] /\ delivered' = after
    BY <2>1, CompleteOne DEF Merge!Front, Merge!Last
  <2>3. m \in Nat \ {0} /\ m <= Len(flows) /\ count = MaxSkbs
    BY <1>1, <1>2
  <2>4. SubSeq(flows, 1, m) = flows
    BY <1>1
  <2>5. Orderly(shorter, after, arrivals, jiffy)
    <3>1. Orderly(SubSeq(flows, 1, m), del, arrivals, jiffy)
      BY <2>4
    <3> HIDE DEF m
    <3> QED
      BY <1>1, <2>3, <3>1, LastCompleted
  <2>6. Len(shorter) = Len(flows) - 1 /\ \A k \in 1 .. Len(shorter) : shorter[k] = flows[k]
    <3>1. 1 \in 1 .. Len(flows) + 1 /\ m - 1 \in 0 .. Len(flows) /\ 1 <= m - 1 + 1
      BY <1>1, <2>3
    <3>2. Len(shorter) = m - 1 - 1 + 1
          /\ \A k \in 1 .. m - 1 - 1 + 1 : shorter[k] = flows[1 + k - 1]
      BY <1>1, <3>1, PartOfSeq
    <3> QED
      BY <1>1, <3>2
  <2>7. \A k \in 1 .. Len(shorter) : shorter[k].flow # pkt.flow
    BY <1>1, <2>6
  <2> HIDE DEF shorter, after, m, new
  <2>8. Orderly(<<new>> \o shorter, after, arrivals + 1, jiffy)
        /\ Len(<<new>> \o shorter) = Len(shorter) + 1
    BY <2>5, <2>7, HeldNew DEF new
  <2> QED
    BY <1>1, <2>1, <2>2, <2>3, <2>6, <2>8
<1>3. CASE ~ (count >= MaxSkbs)
  <2>1. groList' = <<new>> \o flows /\ groCount' = count + 1 /\ delivered' = del
    BY <1>3 DEF Merge!Hold
  <2> HIDE DEF new
  <2>2. Orderly(<<new>> \o flows, del, arrivals + 1, jiffy)
        /\ Len(<<new>> \o flows) = Len(flows) + 1
    BY HeldNew DEF new
  <2> QED
    BY <1>1, <1>3, <2>1, <2>2
<1> QED
  BY <1>2, <1>3

\* The packet goes on.
LEMMA NormalOK ==
  ASSUME arrivals \in Nat, jiffy \in Nat, NEW flows, NEW del, NEW count,
         Orderly(flows, del, arrivals, jiffy), count = Len(flows), count <= MaxSkbs,
         NEW pkt \in Merge!Packet, \A k \in 1 .. Len(flows) : flows[k].flow # pkt.flow,
         Merge!Normal(flows, count, del, pkt)
  PROVE  /\ Orderly(groList', delivered', arrivals + 1, jiffy)
         /\ groCount' = Len(groList') /\ groCount' <= MaxSkbs
<1>1. pkt.flow \in MergeFlow
  BY DEF Merge!Packet
<1>2. Orderly(flows, [del EXCEPT ![pkt.flow] = Append(@, arrivals + 1)], arrivals + 1, jiffy)
  BY <1>1, GoesOn
<1>3. /\ groList' = flows /\ groCount' = count
      /\ delivered' = [del EXCEPT ![pkt.flow] = Append(@, arrivals + 1)]
  BY DEF Merge!Normal
<1> QED
  BY <1>2, <1>3

LEMMA ReceiveFirstOK ==
  ASSUME Merge!GroAssumption, MergeIInv, NEW pkt \in Merge!Packet, Merge!ReceiveFirst(pkt)
  PROVE  MergeIInv'
<1>1. /\ jiffy \in Nat /\ arrivals \in Nat /\ Orderly(groList, delivered, arrivals, jiffy)
      /\ groCount = Len(groList) /\ groCount <= MaxSkbs
  BY DEF MergeIInv
<1>2. \A k \in 1 .. Len(groList) : groList[k].flow # pkt.flow
  BY DEF Merge!ReceiveFirst, Merge!At
<1>3. arrivals' = arrivals + 1 /\ jiffy' = jiffy
  BY DEF Merge!ReceiveFirst, Merge!Arrives
<1>4. Merge!Normal(groList, groCount, delivered, pkt)
      \/ Merge!Hold(groList, groCount, delivered, pkt)
  BY DEF Merge!ReceiveFirst
<1>5. /\ Orderly(groList', delivered', arrivals + 1, jiffy)
      /\ groCount' = Len(groList') /\ groCount' <= MaxSkbs
  BY <1>1, <1>2, <1>4, NormalOK, HoldOK
<1> QED
  BY <1>1, <1>3, <1>5 DEF MergeIInv

LEMMA ReceiveFlushingOK ==
  ASSUME Merge!GroAssumption, MergeIInv, NEW pkt \in Merge!Packet, Merge!ReceiveFlushing(pkt)
  PROVE  MergeIInv'
<1>1. /\ jiffy \in Nat /\ arrivals \in Nat /\ Orderly(groList, delivered, arrivals, jiffy)
      /\ groCount = Len(groList) /\ groCount <= MaxSkbs /\ MaxSkbs \in Nat
  BY DEF MergeIInv, Merge!GroAssumption
<1>2. PICK i \in Merge!At(pkt.flow) :
        \/ Merge!Normal(Merge!RemoveAt(groList, i), groCount - 1, Merge!Complete(delivered, <<groList[i]>>), pkt)
        \/ Merge!Hold(Merge!RemoveAt(groList, i), groCount - 1, Merge!Complete(delivered, <<groList[i]>>), pkt)
  BY DEF Merge!ReceiveFlushing
<1>3. arrivals' = arrivals + 1 /\ jiffy' = jiffy
  BY DEF Merge!ReceiveFlushing, Merge!Arrives
<1>4. i \in 1 .. Len(groList) /\ groList[i].flow = pkt.flow /\ Len(groList) \in Nat
  BY <1>1 DEF Merge!At, Orderly
<1> DEFINE rest == RemoveAt(groList, i)
           del == Merge!Complete(delivered, <<groList[i]>>)
<1>5. del = After(delivered, groList[i])
  BY CompleteOne
<1>6. /\ Orderly(rest, del, arrivals, jiffy) /\ Len(rest) = Len(groList) - 1
      /\ \A k \in 1 .. Len(groList) - 1 : rest[k].flow # groList[i].flow
  <2>1. /\ Orderly(rest, After(delivered, groList[i]), arrivals, jiffy)
        /\ Len(rest) = Len(groList) - 1
        /\ \A k \in 1 .. Len(groList) - 1 : rest[k].flow # groList[i].flow
    BY <1>1, <1>4, CompletedOne
  <2> QED
    BY <1>5, <2>1
<1>7. Merge!Normal(rest, groCount - 1, del, pkt) \/ Merge!Hold(rest, groCount - 1, del, pkt)
  BY <1>2, MergeRemoves
<1> HIDE DEF rest, del
<1>8. groCount - 1 = Len(rest) /\ groCount - 1 <= MaxSkbs
      /\ \A k \in 1 .. Len(rest) : rest[k].flow # pkt.flow
  BY <1>1, <1>4, <1>6
<1>9. /\ Orderly(groList', delivered', arrivals + 1, jiffy)
      /\ groCount' = Len(groList') /\ groCount' <= MaxSkbs
  <2> DEFINE count == groCount - 1
  <2>1. /\ Merge!Normal(rest, count, del, pkt) \/ Merge!Hold(rest, count, del, pkt)
        /\ count = Len(rest) /\ count <= MaxSkbs
    BY <1>7, <1>8
  <2> HIDE DEF count
  <2> QED
    BY <1>1, <1>6, <1>8, <2>1, NormalOK, HoldOK
<1> QED
  BY <1>1, <1>3, <1>9 DEF MergeIInv

LEMMA ReceiveMergedOK ==
  ASSUME Merge!GroAssumption, MergeIInv, NEW pkt \in Merge!Packet, NEW ends \in BOOLEAN,
         Merge!ReceiveMerged(pkt, ends)
  PROVE  MergeIInv'
<1>1. /\ jiffy \in Nat /\ arrivals \in Nat /\ Orderly(groList, delivered, arrivals, jiffy)
      /\ groCount = Len(groList) /\ groCount <= MaxSkbs /\ MaxSkbs \in Nat
  BY DEF MergeIInv, Merge!GroAssumption
<1>2. arrivals' = arrivals + 1 /\ jiffy' = jiffy
  BY DEF Merge!ReceiveMerged, Merge!Arrives
<1>3. PICK i \in Merge!At(pkt.flow) :
        /\ Merge!MayMerge(groList[i], pkt)
        /\ \/ /\ groList' = Merge!RemoveAt(groList, i) /\ groCount' = groCount - 1
              /\ delivered' = Merge!Complete(delivered, <<Joined(groList[i], pkt, arrivals + 1)>>)
           \/ /\ groList' = Replaced(groList, i, Joined(groList[i], pkt, arrivals + 1))
              /\ UNCHANGED <<groCount, delivered>>
  <2>1. ends = TRUE \/ ends = FALSE
    OBVIOUS
  <2> QED
    BY <2>1, Zenon DEF Merge!ReceiveMerged, Joined, Replaced
<1>4. i \in 1 .. Len(groList) /\ Len(groList) \in Nat
  BY <1>1 DEF Merge!At, Orderly
<1>5. PICK merged : merged = Joined(groList[i], pkt, arrivals + 1)
  OBVIOUS
<1>6. /\ \/ /\ groList' = RemoveAt(groList, i) /\ groCount' = groCount - 1
            /\ delivered' = Merge!Complete(delivered, <<merged>>)
         \/ /\ groList' = Replaced(groList, i, merged)
            /\ UNCHANGED <<groCount, delivered>>
  BY <1>3, <1>5, MergeRemoves
<1> DEFINE next == Replaced(groList, i, merged)
<1>7. /\ Orderly(next, delivered, arrivals + 1, jiffy) /\ RemoveAt(next, i) = RemoveAt(groList, i)
      /\ Len(next) = Len(groList) /\ next[i] = merged
  BY <1>1, <1>3, <1>4, <1>5, MergedOK
<1> HIDE DEF next
<1>8. CASE groList' = next /\ UNCHANGED <<groCount, delivered>>
  BY <1>1, <1>2, <1>7, <1>8 DEF MergeIInv
<1>9. CASE /\ groList' = RemoveAt(groList, i) /\ groCount' = groCount - 1
           /\ delivered' = Merge!Complete(delivered, <<merged>>)
  <2>1. i \in 1 .. Len(next) /\ arrivals + 1 \in Nat
    BY <1>1, <1>4, <1>7
  <2>2. /\ Orderly(RemoveAt(next, i), After(delivered, next[i]), arrivals + 1, jiffy)
        /\ Len(RemoveAt(next, i)) = Len(next) - 1
    BY <1>1, <1>7, <2>1, CompletedOne
  <2>3. delivered' = After(delivered, next[i]) /\ groList' = RemoveAt(next, i)
    BY <1>7, <1>9, CompleteOne
  <2>4. groCount' = Len(groList') /\ groCount' <= MaxSkbs
    BY <1>1, <1>4, <1>7, <1>9, <2>2, <2>3
  <2> QED
    BY <1>1, <1>2, <2>2, <2>3, <2>4 DEF MergeIInv
<1> QED
  BY <1>6, <1>8, <1>9 DEF next

\* The oldest flows are completed, one after the other.
LEMMA CompletedFrom ==
  ASSUME NEW n \in Nat, NEW t \in Nat, NEW flows, NEW del, Orderly(flows, del, n, t),
         NEW skbs, NEW count \in 0 .. Len(flows), Len(skbs) = count,
         \A m \in 1 .. count : skbs[m] = flows[Len(flows) + 1 - m]
  PROVE  Orderly(SubSeq(flows, 1, Len(flows) - count), Merge!Complete(del, skbs), n, t)
<1>1. flows \in Seq(HeldPacket) /\ Len(flows) \in Nat /\ count \in Nat
  BY DEF Orderly
<1>2. PICK g : /\ g[0] = del /\ \A m \in 1 .. count : g[m] = After(g[m - 1], skbs[m])
               /\ Merge!Complete(del, skbs) = g[count]
  <2>1. Len(skbs) \in Nat
    BY <1>1
  <2>2. PICK g : /\ g[0] = del /\ \A m \in 1 .. Len(skbs) : g[m] = After(g[m - 1], skbs[m])
                 /\ Merge!Complete(del, skbs) = g[Len(skbs)]
    BY ONLY <2>1, CompleteIs, SMTT(30)
  <2> QED
    BY <2>2
<1> DEFINE Wrong == {m \in 0 .. count : ~ Orderly(SubSeq(flows, 1, Len(flows) - m), g[m], n, t)}
<1>3. Wrong = {}
  <2> SUFFICES ASSUME Wrong # {} PROVE FALSE
    OBVIOUS
  <2>1. PICK m \in Wrong : \A k \in Wrong : m <= k
    <3>1. Wrong \in SUBSET Nat
      BY <1>1
    <3> HIDE DEF Wrong
    <3> QED
      BY <3>1, Smallest
  <2>2. m \in 0 .. count /\ ~ Orderly(SubSeq(flows, 1, Len(flows) - m), g[m], n, t)
    OBVIOUS
  <2>3. CASE m = 0
    <3>1. SubSeq(flows, 1, Len(flows) - m) = flows
      BY <1>1, <2>3
    <3> QED
      BY <1>2, <2>2, <2>3, <3>1
  <2>4. CASE m # 0
    <3>1. m - 1 \in 0 .. count /\ m \in 1 .. count /\ ~ (m <= m - 1)
      BY <1>1, <2>2, <2>4
    <3>2. Orderly(SubSeq(flows, 1, Len(flows) - (m - 1)), g[m - 1], n, t)
      BY <2>1, <3>1
    <3> DEFINE k == Len(flows) + 1 - m
    <3>3. k \in Nat \ {0} /\ k <= Len(flows) /\ Len(flows) - (m - 1) = k /\ k - 1 = Len(flows) - m
      BY <1>1, <3>1
    <3>4. g[m] = After(g[m - 1], flows[k])
      BY <1>2, <3>1
    <3> HIDE DEF k
    <3> DEFINE sent == g[m - 1]
    <3>5. Orderly(SubSeq(flows, 1, k), sent, n, t)
      BY <3>2, <3>3
    <3>6. Orderly(SubSeq(flows, 1, k - 1), After(sent, flows[k]), n, t)
      <4> HIDE DEF sent
      <4> QED
        BY <1>1, <3>3, <3>5, LastCompleted
    <3> QED
      BY <2>2, <3>3, <3>4, <3>6
  <2> QED
    BY <2>3, <2>4
<1>4. count \in 0 .. count
  BY <1>1
<1> QED
  BY <1>2, <1>3, <1>4

LEMMA FlushOK ==
  ASSUME Merge!GroAssumption, MergeIInv, NEW old \in BOOLEAN, Merge!Flush(old)
  PROVE  MergeIInv'
<1>1. /\ jiffy \in Nat /\ arrivals \in Nat /\ Orderly(groList, delivered, arrivals, jiffy)
      /\ groCount = Len(groList) /\ groCount <= MaxSkbs /\ MaxSkbs \in Nat
      /\ groList \in Seq(HeldPacket) /\ Len(groList) \in Nat
  BY DEF MergeIInv, Merge!GroAssumption, Orderly
<1> DEFINE young == {i \in 1 .. Len(groList) : old /\ groList[i].age = jiffy}
           keep == IF young = {} THEN 0 ELSE Merge!Max(young)
           completed == SubSeq(groList, keep + 1, Len(groList))
<1>2. /\ groList' = SubSeq(groList, 1, keep) /\ groCount' = groCount - Len(completed)
      /\ delivered' = Merge!Complete(delivered, Merge!Reverse(completed))
      /\ UNCHANGED <<jiffy, arrivals>>
  BY DEF Merge!Flush
<1>3. keep \in 0 .. Len(groList)
  <2>1. CASE young = {}
    BY <1>1, <2>1
  <2>2. CASE young # {}
    <3> DEFINE M == {Len(groList) - i : i \in young}
    <3>1. M \in SUBSET Nat /\ M # {}
      BY <1>1, <2>2
    <3>2. PICK l \in M : \A k \in M : l <= k
      <4> HIDE DEF M
      <4> QED
        BY <3>1, Smallest
    <3>3. PICK i \in young : l = Len(groList) - i
      OBVIOUS
    <3>4. ASSUME NEW j \in young PROVE j <= i
      <4>1. Len(groList) - j \in M /\ i \in 1 .. Len(groList) /\ j \in 1 .. Len(groList)
        OBVIOUS
      <4>2. Len(groList) - i <= Len(groList) - j
        BY <3>2, <3>3, <4>1
      <4> QED
        BY <1>1, <4>1, <4>2
    <3>5. young \subseteq 1 .. Len(groList)
      OBVIOUS
    <3> HIDE DEF young
    <3>6. Merge!Max(young) \in young
      BY <3>4 DEF Merge!Max
    <3>7. keep = Merge!Max(young)
      BY <2>2
    <3>8. Merge!Max(young) \in 1 .. Len(groList)
      BY <3>5, <3>6
    <3> HIDE DEF keep
    <3> QED
      BY <1>1, <3>7, <3>8
  <2> QED
    BY <2>1, <2>2
<1> HIDE DEF keep
<1>4. keep + 1 \in 1 .. Len(groList) + 1 /\ Len(groList) \in 0 .. Len(groList)
      /\ keep + 1 <= Len(groList) + 1
  BY <1>1, <1>3
<1>5. /\ Len(completed) = Len(groList) - (keep + 1) + 1
      /\ \A k \in 1 .. Len(groList) - (keep + 1) + 1 : completed[k] = groList[keep + 1 + k - 1]
  BY <1>1, <1>4, PartOfSeq
<1> DEFINE count == Len(groList) - keep
<1>6. /\ Len(completed) = count /\ count \in 0 .. Len(groList) /\ Len(groList) - count = keep
      /\ \A k \in 1 .. count : completed[k] = groList[keep + k]
  <2>1. /\ Len(groList) - (keep + 1) + 1 = count /\ count \in 0 .. Len(groList)
        /\ Len(groList) - count = keep
        /\ \A k \in 1 .. count : keep + 1 + k - 1 = keep + k
    BY <1>1, <1>3
  <2> HIDE DEF count, completed
  <2> QED
    BY <1>5, <2>1
<1>7. count \in Nat
  BY <1>1, <1>3
<1> HIDE DEF completed
<1>8. Len(Merge!Reverse(completed)) = count
      /\ \A m \in 1 .. count : Merge!Reverse(completed)[m] = groList[Len(groList) + 1 - m]
  <2> HIDE DEF count
  <2>1. Merge!Reverse(completed) = [m \in 1 .. count |-> completed[count + 1 - m]]
    BY <1>6 DEF Merge!Reverse
  <2>2. Len(Merge!Reverse(completed)) = count
    BY <1>7, <2>1
  <2>3. ASSUME NEW m \in 1 .. count
        PROVE  Merge!Reverse(completed)[m] = groList[Len(groList) + 1 - m]
    <3>1. count + 1 - m \in 1 .. count /\ keep + (count + 1 - m) = Len(groList) + 1 - m
      BY <1>1, <1>3, <1>6, <1>7
    <3>2. completed[count + 1 - m] = groList[keep + (count + 1 - m)]
      BY <1>6, <3>1
    <3> QED
      BY <2>1, <3>1, <3>2
  <2> QED
    BY <2>2, <2>3
<1>9. Orderly(groList', delivered', arrivals, jiffy)
  <2> DEFINE skbs == Merge!Reverse(completed)
  <2>1. Len(skbs) = count /\ \A m \in 1 .. count : skbs[m] = groList[Len(groList) + 1 - m]
    BY <1>8
  <2> HIDE DEF skbs, count
  <2>2. Orderly(SubSeq(groList, 1, Len(groList) - count), Merge!Complete(delivered, skbs), arrivals, jiffy)
    BY <1>1, <1>6, <2>1, CompletedFrom
  <2> QED
    BY <1>2, <1>6, <2>2 DEF skbs
<1>10. groCount' = Len(groList') /\ groCount' <= MaxSkbs
  <2>1. 1 \in 1 .. Len(groList) + 1 /\ keep \in 0 .. Len(groList) /\ 1 <= keep + 1
    BY <1>1, <1>3
  <2>2. Len(SubSeq(groList, 1, keep)) = keep - 1 + 1
    BY <1>1, <2>1, PartOfSeq
  <2> QED
    BY <1>1, <1>2, <1>3, <1>6, <2>2
<1> QED
  BY <1>1, <1>2, <1>9, <1>10 DEF MergeIInv

LEMMA TickOK == ASSUME MergeIInv, Merge!Tick PROVE MergeIInv'
<1>1. /\ jiffy \in Nat /\ arrivals \in Nat /\ Orderly(groList, delivered, arrivals, jiffy)
      /\ groCount = Len(groList) /\ groCount <= MaxSkbs
      /\ jiffy' = jiffy + 1 /\ UNCHANGED <<groList, groCount, arrivals, delivered>>
  BY DEF MergeIInv, Merge!Tick
<1>2. ASSUME NEW i \in 1 .. Len(groList) PROVE HeldOK(groList[i], delivered, arrivals, jiffy + 1)
  <2>1. groList[i] \in HeldPacket /\ HeldOK(groList[i], delivered, arrivals, jiffy)
    BY <1>1 DEF Orderly
  <2>2. groList[i].age \in Nat
    BY <2>1 DEF HeldPacket
  <2> QED
    BY <1>1, <2>1, <2>2 DEF HeldOK
<1>3. Orderly(groList, delivered, arrivals, jiffy + 1)
  BY <1>1, <1>2 DEF Orderly
<1> QED
  BY <1>1, <1>3 DEF MergeIInv

LEMMA ArrivesOK ==
  ASSUME MergeIInv, Merge!Arrives, UNCHANGED <<groList, groCount, delivered>>
  PROVE  MergeIInv'
<1>1. /\ jiffy \in Nat /\ arrivals \in Nat /\ Orderly(groList, delivered, arrivals, jiffy)
      /\ groCount = Len(groList) /\ groCount <= MaxSkbs
      /\ arrivals' = arrivals + 1 /\ UNCHANGED <<groList, groCount, delivered, jiffy>>
  BY DEF MergeIInv, Merge!Arrives
<1>2. Orderly(groList, delivered, arrivals + 1, jiffy)
  BY <1>1, LaterOrderly
<1> QED
  BY <1>1, <1>2 DEF MergeIInv

LEMMA MergeInit == ASSUME Merge!GroAssumption, Merge!Init PROVE MergeIInv
<1>1. /\ groList = <<>> /\ groCount = 0 /\ jiffy = 0 /\ arrivals = 0
      /\ delivered = [f \in MergeFlow |-> <<>>]
      /\ MaxSkbs \in Nat
  BY DEF Merge!Init, Merge!GroAssumption
<1>2. Len(groList) = 0 /\ groList \in Seq(HeldPacket) /\ Apart(groList)
  BY <1>1 DEF Apart
<1>3. DeliveredOK(delivered, 0)
  BY <1>1 DEF DeliveredOK, Ascends
<1>4. \A i \in 1 .. Len(groList) : HeldOK(groList[i], delivered, 0, 0)
  BY <1>2
<1> QED
  BY <1>1, <1>2, <1>3, <1>4 DEF MergeIInv, Orderly

LEMMA MergeStay == ASSUME MergeIInv, UNCHANGED Merge!groVars PROVE MergeIInv'
<1>1. UNCHANGED <<groList, groCount, jiffy, arrivals, delivered>>
  BY DEF Merge!groVars
<1> QED
  BY <1>1 DEF MergeIInv

LEMMA MergeStep == ASSUME Merge!GroAssumption, MergeIInv, Merge!Next PROVE MergeIInv'
<1>1. ASSUME NEW pkt \in Merge!Packet, Merge!ReceiveFirst(pkt) PROVE MergeIInv'
  BY <1>1, ReceiveFirstOK
<1>2. ASSUME NEW pkt \in Merge!Packet, Merge!ReceiveFlushing(pkt) PROVE MergeIInv'
  BY <1>2, ReceiveFlushingOK
<1>3. ASSUME NEW pkt \in Merge!Packet, Merge!ReceiveWithout(pkt) PROVE MergeIInv'
  BY <1>3, ArrivesOK DEF Merge!ReceiveWithout
<1>4. ASSUME NEW pkt \in Merge!Packet, NEW ends \in BOOLEAN, Merge!ReceiveMerged(pkt, ends)
      PROVE  MergeIInv'
  BY <1>4, ReceiveMergedOK
<1>5. ASSUME NEW old \in BOOLEAN, Merge!Flush(old) PROVE MergeIInv'
  BY <1>5, FlushOK
<1>6. CASE Merge!Bypass
  BY <1>6, ArrivesOK DEF Merge!Bypass
<1>7. CASE Merge!Tick
  BY <1>7, TickOK
<1>8. CASE Merge!ChangeOffload
  BY <1>8 DEF Merge!ChangeOffload, MergeIInv
<1> QED
  BY <1>1, <1>2, <1>3, <1>4, <1>5, <1>6, <1>7, <1>8 DEF Merge!Next

LEMMA MergeSound == ASSUME MergeIInv PROVE Merge!GroIsSound
<1>1. /\ jiffy \in Nat /\ arrivals \in Nat /\ groList \in Seq(HeldPacket) /\ Apart(groList)
      /\ DeliveredOK(delivered, arrivals) /\ Len(groList) \in Nat
      /\ \A i \in 1 .. Len(groList) : groList[i] \in HeldPacket
            /\ HeldOK(groList[i], delivered, arrivals, jiffy)
      /\ groCount = Len(groList) /\ groCount <= MaxSkbs
  BY DEF MergeIInv, Orderly
<1>2. Merge!ListIsCounted
  BY <1>1 DEF Merge!ListIsCounted, Apart
<1>3. ASSUME NEW f \in MergeFlow, NEW i \in 2 .. Len(delivered[f])
      PROVE  delivered[f][i - 1] < delivered[f][i]
  <2>1. Ascends(delivered[f]) /\ Len(delivered[f]) \in Nat
    BY <1>1 DEF DeliveredOK
  <2>2. i - 1 \in 1 .. Len(delivered[f]) /\ i \in 1 .. Len(delivered[f]) /\ i - 1 < i
    BY <2>1
  <2> QED
    BY <2>1, <2>2 DEF Ascends
<1>4. ASSUME NEW f \in MergeFlow, NEW n \in Merge!Held(f), NEW m \in Merge!ToSet(delivered[f])
      PROVE  m < n
  <2>1. PICK i \in Merge!At(f) : Merge!Contains(groList[i].from, n)
    BY DEF Merge!Held
  <2>2. i \in 1 .. Len(groList) /\ groList[i].flow = f
    BY DEF Merge!At
  <2>3. PICK k \in 1 .. Len(groList[i].from) : groList[i].from[k] = n
    BY <2>1 DEF Merge!Contains
  <2>4. PICK j \in 1 .. Len(delivered[f]) : m = delivered[f][j]
    BY DEF Merge!ToSet
  <2>5. HeldOK(groList[i], delivered, arrivals, jiffy)
    BY <1>1, <2>2
  <2> QED
    BY <2>2, <2>3, <2>4, <2>5 DEF HeldOK
<1>5. Merge!FlowsInOrder
  BY <1>3, <1>4 DEF Merge!FlowsInOrder
<1>6. ASSUME NEW i \in 1 .. Len(groList), ~ groList[i].df
      PROVE  Merge!SegmentIds(groList[i]) = groList[i].ids
  <2>1. groList[i] \in HeldPacket /\ HeldOK(groList[i], delivered, arrivals, jiffy)
    BY <1>1
  <2> DEFINE p == groList[i]
             ids == p.ids
  <2>2. ids \in Seq(0 .. Ids - 1)
    BY <2>1 DEF HeldPacket
  <2>3. \A k \in 1 .. Len(ids) : ids[k] = (p.id + k - 1) % Ids
    BY <1>6, <2>1 DEF HeldOK
  <2>4. Merge!SegmentIds(p) = [k \in 1 .. Len(ids) |-> (p.id + k - 1) % Ids]
    BY DEF Merge!SegmentIds
  <2> HIDE DEF p, ids
  <2>5. Merge!SegmentIds(p) = [k \in 1 .. Len(ids) |-> ids[k]]
    BY <2>3, <2>4
  <2>6. ids = [k \in 1 .. Len(ids) |-> ids[k]]
    BY <2>2
  <2> QED
    BY <2>5, <2>6 DEF p, ids
<1>7. Merge!SegmentsAreOriginals
  BY <1>6 DEF Merge!SegmentsAreOriginals
<1> QED
  BY <1>2, <1>5, <1>7 DEF Merge!GroIsSound
-----------------------------------------------------------------------------
(* Transmit queues                                                         *)

LEMMA FrontIs ==
  ASSUME NEW S, NEW s \in Seq(S), s # <<>>
  PROVE  /\ Queues!Front(s) \in Seq(S) /\ Len(Queues!Front(s)) = Len(s) - 1 /\ Len(s) \in Nat \ {0}
         /\ \A k \in 1 .. Len(s) - 1 : Queues!Front(s)[k] = s[k]
<1>1. Len(s) \in Nat \ {0} /\ 1 \in 1 .. Len(s) + 1 /\ Len(s) - 1 \in 0 .. Len(s) /\ 1 <= Len(s) - 1 + 1
  OBVIOUS
<1>2. /\ SubSeq(s, 1, Len(s) - 1) \in Seq(S) /\ Len(SubSeq(s, 1, Len(s) - 1)) = Len(s) - 1 - 1 + 1
      /\ \A k \in 1 .. Len(s) - 1 - 1 + 1 : SubSeq(s, 1, Len(s) - 1)[k] = s[1 + k - 1]
  BY <1>1, PartOfSeq
<1> QED
  BY <1>1, <1>2 DEF Queues!Front

Distinct(s) == \A i, j \in 1 .. Len(s) : i # j => s[i] # s[j]

LEMMA WithoutIs ==
  ASSUME NEW map \in Seq(Queues!Queue), Distinct(map), NEW q
  PROVE  /\ Queues!Without(map, q) \in Seq(Queues!Queue) /\ Distinct(Queues!Without(map, q))
         /\ Queues!ToSet(Queues!Without(map, q)) \subseteq Queues!ToSet(map) \ {q}
<1> DEFINE places == {i \in 1 .. Len(map) : map[i] = q}
<1>1. Len(map) \in Nat
  OBVIOUS
<1>2. CASE places = {}
  <2>1. Queues!Without(map, q) = map
    BY <1>2 DEF Queues!Without
  <2>2. q \notin Queues!ToSet(map)
    BY <1>2 DEF Queues!ToSet
  <2> QED
    BY <2>1, <2>2
<1>3. CASE places # {}
  <2>1. PICK i \in 1 .. Len(map) : map[i] = q
    BY <1>3
  <2>2. places = {i}
    BY <2>1 DEF Distinct
  <2>3. Queues!Min(places) = i
    BY <1>1, <2>1, <2>2 DEF Queues!Min
  <2> DEFINE swapped == [map EXCEPT ![i] = map[Len(map)]]
             r == Queues!Front(swapped)
  <2>4. Queues!Without(map, q) = r
    BY <1>3, <2>3 DEF Queues!Without, Queues!Last
  <2>5. swapped \in Seq(Queues!Queue) /\ Len(swapped) = Len(map) /\ swapped # <<>>
    <3>1. Len(map) \in 1 .. Len(map) /\ map[Len(map)] \in Queues!Queue
      BY <1>1, <2>1
    <3> QED
      BY <1>1, <2>1, <3>1
  <2>6. \A k \in 1 .. Len(map) : swapped[k] = IF k = i THEN map[Len(map)] ELSE map[k]
    BY <1>1, <2>1
  <2> HIDE DEF swapped
  <2>7. r \in Seq(Queues!Queue) /\ Len(r) = Len(map) - 1 /\ \A k \in 1 .. Len(map) - 1 : r[k] = swapped[k]
    BY <2>5, FrontIs
  <2> HIDE DEF r
  <2>8. ASSUME NEW k \in 1 .. Len(r)
        PROVE  \E l \in 1 .. Len(map) : /\ r[k] = map[l] /\ l # i
                                        /\ (k = i => l = Len(map)) /\ (k # i => l = k)
    <3>1. k \in 1 .. Len(map) /\ k # Len(map) /\ r[k] = IF k = i THEN map[Len(map)] ELSE map[k]
      BY <1>1, <2>6, <2>7, SMTT(30)
    <3>2. Len(map) \in 1 .. Len(map)
      BY <1>1, <2>1
    <3>3. CASE k = i
      BY <3>1, <3>2, <3>3
    <3>4. CASE k # i
      BY <3>1, <3>4
    <3> QED
      BY <3>3, <3>4
  <2>9. Distinct(r)
    <3> SUFFICES ASSUME NEW k \in 1 .. Len(r), NEW l \in 1 .. Len(r), k # l PROVE r[k] # r[l]
      BY DEF Distinct
    <3>1. PICK m \in 1 .. Len(map) : r[k] = map[m] /\ (k = i => m = Len(map)) /\ (k # i => m = k)
      BY <2>8
    <3>2. PICK n \in 1 .. Len(map) : r[l] = map[n] /\ (l = i => n = Len(map)) /\ (l # i => n = l)
      BY <2>8
    <3>3. m # n
      BY <1>1, <2>7, <3>1, <3>2
    <3> QED
      BY <3>1, <3>2, <3>3 DEF Distinct
  <2>10. ASSUME NEW k \in 1 .. Len(r) PROVE r[k] \in Queues!ToSet(map) \ {q}
    <3>1. PICK m \in 1 .. Len(map) : r[k] = map[m] /\ m # i
      BY <2>8
    <3>2. map[m] # q
      BY <2>1, <3>1 DEF Distinct
    <3> QED
      BY <3>1, <3>2 DEF Queues!ToSet
  <2> QED
    BY <2>4, <2>7, <2>9, <2>10 DEF Queues!ToSet
<1> QED
  BY <1>2, <1>3

LEMMA WithIs ==
  ASSUME NEW map \in Seq(Queues!Queue), Distinct(map), NEW q \in Queues!Queue
  PROVE  /\ Queues!With(map, q) \in Seq(Queues!Queue) /\ Distinct(Queues!With(map, q)) /\ Queues!With(map, q) # <<>>
         /\ Queues!ToSet(Queues!With(map, q)) \subseteq Queues!ToSet(map) \cup {q}
<1>1. CASE Queues!Contains(map, q)
  <2>1. PICK i \in 1 .. Len(map) : map[i] = q
    BY <1>1 DEF Queues!Contains
  <2>2. Queues!With(map, q) = map /\ map # <<>>
    BY <1>1, <2>1 DEF Queues!With
  <2> QED
    BY <2>2
<1>2. CASE ~ Queues!Contains(map, q)
  <2> DEFINE r == Append(map, q)
  <2>1. Queues!With(map, q) = r
    BY <1>2 DEF Queues!With
  <2>2. /\ r \in Seq(Queues!Queue) /\ Len(r) = Len(map) + 1 /\ r[Len(map) + 1] = q
        /\ Len(map) \in Nat /\ \A k \in 1 .. Len(map) : r[k] = map[k] /\ map[k] # q
    BY <1>2, OneMoreAtEnd DEF Queues!Contains
  <2> HIDE DEF r
  <2>3. \A k \in 1 .. Len(r) : k \in 1 .. Len(map) \/ k = Len(map) + 1
    BY <2>2
  <2>4. Distinct(r)
    BY <2>2, <2>3 DEF Distinct
  <2>5. Queues!ToSet(r) \subseteq Queues!ToSet(map) \cup {q}
    BY <2>2, <2>3 DEF Queues!ToSet
  <2>6. r # <<>>
    BY <2>2
  <2> QED
    BY <2>1, <2>2, <2>4, <2>5, <2>6
<1> QED
  BY <1>1, <1>2

\* What the fold of WithoutFrom computes over the first k of the queues
RemovesFrom(g, map, first, queues, k) ==
    g = [m \in 0 .. k |-> IF m = 0 THEN map ELSE Queues!Without(g[m - 1], first + queues[m] - 1)]

LEMMA RemovesSome ==
  ASSUME NEW map, NEW first, NEW queues, NEW k \in Nat
  PROVE  \E g : RemovesFrom(g, map, first, queues, k)
<1> DEFINE Missing == {m \in Nat : ~ \E g : RemovesFrom(g, map, first, queues, m)}
<1>1. SUFFICES ASSUME Missing # {} PROVE FALSE
  OBVIOUS
<1>2. PICK m \in Missing : \A l \in Missing : m <= l
  BY <1>1, Smallest
<1>3. m \in Nat /\ ~ \E g : RemovesFrom(g, map, first, queues, m)
  OBVIOUS
<1>4. CASE m = 0
  <2> DEFINE g == [l \in 0 .. 0 |-> map]
  <2>1. g = [l \in 0 .. 0 |-> IF l = 0 THEN map ELSE Queues!Without(g[l - 1], first + queues[l] - 1)]
    OBVIOUS
  <2> QED
    BY <1>3, <1>4, <2>1 DEF RemovesFrom
<1>5. CASE m # 0
  <2>1. m - 1 \in Nat /\ m - 1 \notin Missing
    BY <1>2, <1>3, <1>5
  <2>2. PICK h : RemovesFrom(h, map, first, queues, m - 1)
    BY <2>1
  <2> DEFINE g == [l \in 0 .. m |-> IF l = m THEN Queues!Without(h[m - 1], first + queues[m] - 1)
                                    ELSE h[l]]
  <2>3. ASSUME NEW l \in 0 .. m
        PROVE  g[l] = IF l = 0 THEN map ELSE Queues!Without(g[l - 1], first + queues[l] - 1)
    <3>1. CASE l = m
      <4>1. m - 1 \in 0 .. m /\ m - 1 # m
        BY <1>3, <1>5
      <4>2. g[m - 1] = h[m - 1]
        BY <4>1
      <4> QED
        BY <1>5, <3>1, <4>2
    <3>2. CASE l # m /\ l # 0
      <4>1. l \in 0 .. m - 1 /\ l - 1 \in 0 .. m /\ l - 1 # m
        BY <1>3, <3>2
      <4>2. g[l - 1] = h[l - 1] /\ g[l] = h[l]
        BY <3>2, <4>1
      <4>3. h[l] = Queues!Without(h[l - 1], first + queues[l] - 1)
        BY <2>2, <3>2, <4>1 DEF RemovesFrom
      <4> QED
        BY <3>2, <4>2, <4>3
    <3>3. CASE l = 0
      <4>1. l \in 0 .. m - 1 /\ l # m
        BY <1>3, <1>5, <3>3
      <4>2. h[l] = map
        BY <2>2, <3>3, <4>1 DEF RemovesFrom
      <4> QED
        BY <3>3, <4>1, <4>2
    <3> QED
      BY <3>1, <3>2, <3>3
  <2>4. g = [l \in 0 .. m |-> IF l = 0 THEN map ELSE Queues!Without(g[l - 1], first + queues[l] - 1)]
    BY <2>3
  <2> QED
    BY <1>3, <2>4 DEF RemovesFrom
<1> QED
  BY <1>4, <1>5

\* A map keeps the queues before first and no others.
LEMMA WithoutFromIs ==
  ASSUME NEW map \in Seq(Queues!Queue), Distinct(map), NEW first \in 1 .. NumQueues, NumQueues \in Nat
  PROVE  /\ Queues!WithoutFrom(map, first) \in Seq(Queues!Queue) /\ Distinct(Queues!WithoutFrom(map, first))
         /\ \A q \in Queues!ToSet(Queues!WithoutFrom(map, first)) : q \in Queues!ToSet(map) /\ q < first
<1> DEFINE queues == [i \in 1 .. NumQueues - first |-> i]
           count == NumQueues - first
<1>1. count \in Nat /\ Len(queues) = count /\ \A i \in 1 .. count : queues[i] = i
  OBVIOUS
<1>2. Queues!WithoutFrom(map, first)
        = (CHOOSE g : RemovesFrom(g, map, first, queues, Len(queues)))[Len(queues)]
  BY DEF Queues!WithoutFrom, Queues!FoldLeft, RemovesFrom
<1> HIDE DEF queues, count
<1>3. PICK g : g = CHOOSE h : RemovesFrom(h, map, first, queues, count)
  OBVIOUS
<1>4. RemovesFrom(g, map, first, queues, count)
  BY <1>1, <1>3, RemovesSome
<1>5. g[0] = map /\ \A m \in 1 .. count : g[m] = Queues!Without(g[m - 1], first + m - 1)
  <2>1. g[0] = map
    BY <1>1, <1>4 DEF RemovesFrom
  <2>2. ASSUME NEW m \in 1 .. count PROVE g[m] = Queues!Without(g[m - 1], first + m - 1)
    <3>1. m \in 0 .. count /\ m # 0 /\ queues[m] = m
      BY <1>1
    <3>2. g[m] = Queues!Without(g[m - 1], first + queues[m] - 1)
      BY <1>4, <3>1 DEF RemovesFrom
    <3> QED
      BY <3>1, <3>2
  <2> QED
    BY <2>1, <2>2
<1> DEFINE Right(m) == /\ g[m] \in Seq(Queues!Queue) /\ Distinct(g[m])
                       /\ \A q \in Queues!ToSet(g[m]) : q \in Queues!ToSet(map) /\ (q < first \/ first + m <= q)
           Wrong == {m \in Nat : m <= count /\ ~Right(m)}
<1>6. Right(0)
  <2>1. \A q \in Queues!ToSet(map) : q \in Nat
    BY DEF Queues!ToSet, Queues!Queue
  <2> QED
    BY <1>5, <2>1
<1>7. ASSUME NEW m \in 1 .. count, Right(m - 1) PROVE Right(m)
  <2> DEFINE before == g[m - 1]
             q == first + m - 1
  <2>1. before \in Seq(Queues!Queue) /\ Distinct(before)
    BY <1>7
  <2> HIDE DEF before
  <2>2. /\ Queues!Without(before, q) \in Seq(Queues!Queue) /\ Distinct(Queues!Without(before, q))
        /\ Queues!ToSet(Queues!Without(before, q)) \subseteq Queues!ToSet(before) \ {q}
    BY <2>1, WithoutIs
  <2>3. g[m] = Queues!Without(before, q)
    BY <1>5 DEF before
  <2>4. ASSUME NEW p \in Queues!ToSet(g[m]) PROVE p \in Queues!ToSet(map) /\ (p < first \/ first + m <= p)
    <3>1. p \in Queues!ToSet(before) /\ p # q
      BY <2>2, <2>3
    <3>2. p \in Queues!ToSet(map) /\ (p < first \/ first + (m - 1) <= p)
      BY <1>7, <3>1 DEF before
    <3>3. p \in Nat
      BY <2>1, <3>1 DEF Queues!ToSet, Queues!Queue
    <3> QED
      BY <3>1, <3>2, <3>3
  <2> QED
    BY <2>2, <2>3, <2>4
<1> HIDE DEF Right
<1>8. Wrong = {}
  <2>1. SUFFICES ASSUME Wrong # {} PROVE FALSE
    OBVIOUS
  <2>2. PICK m \in Wrong : \A k \in Wrong : m <= k
    BY <2>1, Smallest
  <2>3. m \in Nat /\ m # 0 /\ m <= count
    BY <1>6, <2>2
  <2>4. m - 1 \in Nat /\ m - 1 <= count /\ m - 1 \notin Wrong /\ m \in 1 .. count
    BY <1>1, <2>2, <2>3
  <2> QED
    BY <1>7, <2>2, <2>4
<1>9. Right(count)
  BY <1>1, <1>8
<1>10. \A p \in Queues!ToSet(map) : p \in Nat /\ p < NumQueues
  BY DEF Queues!ToSet, Queues!Queue
<1>11. Queues!WithoutFrom(map, first) = g[count]
  BY <1>1, <1>2, <1>3
<1>12. ASSUME NEW p \in Queues!ToSet(Queues!WithoutFrom(map, first)) PROVE p \in Queues!ToSet(map) /\ p < first
  <2>1. p \in Queues!ToSet(map) /\ (p < first \/ first + count <= p)
    BY <1>9, <1>11, <1>12 DEF Right
  <2>2. p \in Nat /\ p < NumQueues /\ first + count = NumQueues
    BY <1>10, <2>1 DEF count
  <2> QED
    BY <2>1, <2>2
<1> QED
  BY <1>9, <1>11, <1>12 DEF Right

\* As many queues in a map as places, when none is there twice.
LEMMA DistinctCounts ==
  ASSUME NEW S, NEW s \in Seq(S), Distinct(s)
  PROVE  Queues!Cardinality(Queues!ToSet(s)) = Len(s)
<1>1. Len(s) \in Nat /\ s \in [1 .. Len(s) -> Queues!ToSet(s)]
  BY DEF Queues!ToSet
<1>2. s \in Bijection(1 .. Len(s), Queues!ToSet(s))
  <2>1. \A a, b \in 1 .. Len(s) : s[a] = s[b] => a = b
    BY DEF Distinct
  <2>2. \A t \in Queues!ToSet(s) : \E a \in 1 .. Len(s) : s[a] = t
    BY DEF Queues!ToSet
  <2> QED
    BY <1>1, <2>1, <2>2 DEF Bijection, Injection, Surjection, IsInjective
<1>3. ExistsBijection(1 .. Len(s), Queues!ToSet(s))
  BY <1>2 DEF ExistsBijection
<1>4. IsFiniteSet(1 .. Len(s)) /\ Cardinality(1 .. Len(s)) = Len(s)
  BY <1>1, FS_Interval
<1>5. Queues!Cardinality(Queues!ToSet(s)) = Cardinality(Queues!ToSet(s))
  BY DEF Queues!Cardinality, Cardinality
<1> QED
  BY <1>3, <1>4, <1>5, FS_Bijection

QueuesTypeOK ==
    /\ real \in 1 .. NumQueues /\ xps \in BOOLEAN /\ tcOn \in BOOLEAN /\ capped \in BOOLEAN
    /\ maps \in [Cpu -> Seq(Queues!Queue)]
    /\ tcRange \in [Tc -> [offset : Nat, count : Nat]] /\ prioTc \in [Prio -> Tc]
    /\ resizing \in {"no", "sync"}
    /\ chosen \in Queues!Queue \cup {NoQueue} /\ sockQueue \in Queues!Queue \cup {NoQueue}
    /\ waiting \subseteq Queues!Queue /\ accel \in BOOLEAN

\* A class is sent to queues of the device, and but for priority 0 to queues in use.
ClassesFit == /\ \A tc \in Tc : Queues!Fits(tc, NumQueues)
              /\ tcOn => \A p \in Prio \ {0} : Queues!Fits(prioTc[p], real)

MapsOK == /\ \A c \in Cpu : Distinct(maps[c])
          /\ xps <=> \E c \in Cpu : maps[c] # <<>>

\* What is behind the last queue is left while the task waits for the senders only.
NoneBehind == /\ resizing = "sync" => real < NumQueues
              /\ capped => Queues!Sending
              /\ resizing = "no" => /\ \A q \in waiting : q < real
                                    /\ capped /\ ~accel => chosen < real
                                    /\ \A c \in Cpu : \A q \in Queues!ToSet(maps[c]) : q < real

QueuesIInv == QueuesTypeOK /\ ClassesFit /\ MapsOK /\ NoneBehind

LEMMA QueuesInit == ASSUME Queues!TxQueuesAssumption, Queues!Init PROVE QueuesIInv
<1>1. NumQueues \in Nat \ {0} /\ NoQueue \notin Nat /\ 0 \in Tc
  BY DEF Queues!TxQueuesAssumption
<1>2. QueuesTypeOK
  <2>1. maps \in [Cpu -> Seq(Queues!Queue)]
    <3>1. <<>> \in Seq(Queues!Queue)
      OBVIOUS
    <3> HIDE DEF Queues!Queue
    <3>2. maps = [c \in Cpu |-> <<>>]
      BY DEF Queues!Init
    <3> QED
      BY <3>1, <3>2, Zenon
  <2>2. /\ real \in 1 .. NumQueues /\ xps \in BOOLEAN /\ tcOn \in BOOLEAN /\ capped \in BOOLEAN
        /\ resizing \in {"no", "sync"} /\ waiting \subseteq Queues!Queue /\ accel \in BOOLEAN
        /\ chosen \in Queues!Queue \cup {NoQueue} /\ sockQueue \in Queues!Queue \cup {NoQueue}
    <3>1. /\ real = NumQueues /\ xps = FALSE /\ tcOn = FALSE /\ capped = FALSE
          /\ resizing = "no" /\ waiting = {} /\ accel = FALSE /\ chosen = NoQueue /\ sockQueue = NoQueue
      BY Zenon DEF Queues!Init
    <3>2. real \in 1 .. NumQueues
      BY <1>1 DEF Queues!Init
    <3> QED
      BY <3>1, <3>2, Zenon
  <2>3. tcRange \in [Tc -> [offset : Nat, count : Nat]] /\ prioTc \in [Prio -> Tc]
    <3>1. [offset |-> 0, count |-> 0] \in [offset : Nat, count : Nat]
      OBVIOUS
    <3>2. /\ tcRange = [tc \in Tc |-> [offset |-> 0, count |-> 0]]
          /\ prioTc = [p \in Prio |-> 0]
      BY DEF Queues!Init
    <3> QED
      BY <1>1, <3>1, <3>2
  <2> QED
    BY <2>1, <2>2, <2>3 DEF QueuesTypeOK
<1>3. ClassesFit
  BY <1>1 DEF Queues!Init, ClassesFit, Queues!Fits
<1>4. \A c \in Cpu : maps[c] = <<>> /\ Len(maps[c]) = 0
  BY DEF Queues!Init
<1>5. MapsOK
  BY <1>4 DEF Queues!Init, MapsOK, Distinct
<1>6. NoneBehind
  BY <1>1, <1>4 DEF Queues!Init, NoneBehind, Queues!ToSet
<1> QED
  BY <1>2, <1>3, <1>5, <1>6 DEF QueuesIInv

LEMMA SetTcOK ==
  ASSUME Queues!TxQueuesAssumption, QueuesIInv, NEW tc \in Tc, NEW off \in Queues!Queue, NEW n \in Queues!Queue,
         NEW prios \in SUBSET Prio, Queues!SetTc(tc, off, n, prios)
  PROVE  QueuesIInv'
<1>1. /\ NumQueues \in Nat \ {0} /\ off \in Nat /\ n \in Nat /\ off + n <= real
      /\ real \in 1 .. NumQueues
  BY DEF Queues!TxQueuesAssumption, QueuesIInv, QueuesTypeOK, Queues!SetTc, Queues!Queue
<1>2. UNCHANGED <<real, xps, maps, resizing, chosen, capped, sockQueue, accel, waiting>> /\ tcOn' = TRUE
  BY DEF Queues!SetTc, Queues!pickVars
<1>3. \A c \in Tc : tcRange'[c] = IF c = tc THEN [offset |-> off, count |-> n]
                                ELSE IF tcOn THEN tcRange[c] ELSE [offset |-> 0, count |-> 1]
  BY DEF Queues!SetTc
<1>4. prioTc' = [p \in Prio |-> IF p \in prios THEN tc ELSE prioTc[p]]
  BY DEF Queues!SetTc
<1>5. tcRange \in [Tc -> [offset : Nat, count : Nat]] /\ prioTc \in [Prio -> Tc]
  BY DEF QueuesIInv, QueuesTypeOK
<1>6. tcRange' \in [Tc -> [offset : Nat, count : Nat]] /\ prioTc' \in [Prio -> Tc]
  <2>1. \A c \in Tc : tcRange'[c] \in [offset : Nat, count : Nat]
    BY <1>1, <1>3, <1>5
  <2>2. \E g : tcRange' = [c \in Tc |-> g[c]]
    BY DEF Queues!SetTc
  <2> QED
    BY <1>4, <1>5, <2>1, <2>2
<1>7. QueuesTypeOK'
  BY <1>2, <1>6 DEF QueuesIInv, QueuesTypeOK
<1>8. ClassesFit'
  <2>1. ASSUME NEW c \in Tc PROVE Queues!Fits(c, NumQueues)'
    <3>1. tcRange[c].offset + tcRange[c].count <= NumQueues
      BY DEF QueuesIInv, ClassesFit, Queues!Fits
    <3>2. tcRange'[c].offset + tcRange'[c].count <= NumQueues
      BY <1>1, <1>3, <3>1
    <3> QED
      BY <3>2 DEF Queues!Fits
  <2>2. ASSUME NEW p \in Prio \ {0} PROVE Queues!Fits(prioTc[p], real)'
    <3>1. prioTc'[p] = (IF p \in prios THEN tc ELSE prioTc[p]) /\ prioTc[p] \in Tc
      BY <1>4, <1>5
    <3>2. tcOn => tcRange[prioTc[p]].offset + tcRange[prioTc[p]].count <= real
      BY DEF QueuesIInv, ClassesFit, Queues!Fits
    <3> DEFINE d == prioTc'[p]
    <3>3. d \in Tc /\ (d = tc \/ d = prioTc[p])
      BY <3>1
    <3> HIDE DEF d
    <3>4. tcRange'[d].offset + tcRange'[d].count <= real
      <4>1. CASE d = tc
        <5>1. tcRange'[d] = [offset |-> off, count |-> n]
          BY <1>3, <3>3, <4>1
        <5> QED
          BY <1>1, <5>1
      <4>2. CASE d # tc /\ ~tcOn
        <5>1. tcRange'[d] = [offset |-> 0, count |-> 1]
          BY <1>3, <3>3, <4>2
        <5> QED
          BY <1>1, <5>1
      <4>3. CASE d # tc /\ tcOn
        <5>1. tcRange'[d] = tcRange[d] /\ d = prioTc[p]
          BY <1>3, <3>3, <4>3
        <5> QED
          BY <3>2, <4>3, <5>1
      <4> QED
        BY <4>1, <4>2, <4>3
    <3>5. tcRange'[prioTc'[p]].offset + tcRange'[prioTc'[p]].count <= real'
      BY <1>2, <3>4 DEF d
    <3> QED
      BY <3>5 DEF Queues!Fits
  <2> QED
    BY <2>1, <2>2 DEF ClassesFit
<1>9. MapsOK' /\ NoneBehind'
  BY <1>2 DEF QueuesIInv, MapsOK, NoneBehind, Queues!Sending
<1> QED
  BY <1>7, <1>8, <1>9 DEF QueuesIInv

LEMMA SetRealNumOK ==
  ASSUME Queues!TxQueuesAssumption, QueuesIInv, NEW n \in 1 .. NumQueues, Queues!SetRealNum(n)
  PROVE  QueuesIInv'
<1>1. /\ NumQueues \in Nat \ {0} /\ real \in 1 .. NumQueues /\ real' = n
      /\ UNCHANGED <<xps, maps, tcRange, chosen, capped, sockQueue, accel, waiting>>
      /\ resizing = "no" /\ resizing' = IF n < real THEN "sync" ELSE "no"
  BY DEF Queues!TxQueuesAssumption, QueuesIInv, QueuesTypeOK, Queues!SetRealNum, Queues!pickVars
<1>2. Queues!SetupTc(n)
  BY DEF Queues!SetRealNum
<1>3. /\ tcRange \in [Tc -> [offset : Nat, count : Nat]] /\ prioTc \in [Prio -> Tc] /\ 0 \in Tc
      /\ Prio \subseteq Nat /\ tcOn \in BOOLEAN
  BY DEF QueuesIInv, QueuesTypeOK, Queues!TxQueuesAssumption
<1>4. tcOn' \in BOOLEAN /\ prioTc' \in [Prio -> Tc]
  BY <1>2, <1>3 DEF Queues!SetupTc
<1>5. QueuesTypeOK'
  BY <1>1, <1>4 DEF QueuesIInv, QueuesTypeOK
<1>6. ASSUME tcOn', NEW p \in Prio \ {0} PROVE Queues!Fits(prioTc'[p], n)
  <2>1. tcOn /\ Queues!Fits(0, n)
        /\ prioTc' = [q \in Prio |-> IF q >= 1 /\ ~Queues!Fits(prioTc[q], n) THEN 0 ELSE prioTc[q]]
    BY <1>2, <1>6 DEF Queues!SetupTc
  <2>2. p >= 1
    BY <1>3
  <2> QED
    BY <2>1, <2>2
<1>7. ClassesFit'
  <2>1. \A c \in Tc : Queues!Fits(c, NumQueues)'
    BY <1>1 DEF QueuesIInv, ClassesFit, Queues!Fits
  <2>2. ASSUME tcOn', NEW p \in Prio \ {0} PROVE Queues!Fits(prioTc[p], real)'
    <3>1. tcRange[prioTc'[p]].offset + tcRange[prioTc'[p]].count <= n
      BY <1>6, <2>2 DEF Queues!Fits
    <3> QED
      BY <1>1, <3>1 DEF Queues!Fits
  <2> QED
    BY <2>1, <2>2 DEF ClassesFit
<1>8. MapsOK'
  BY <1>1 DEF QueuesIInv, MapsOK
<1>9. NoneBehind'
  <2>1. resizing' = "sync" => real' < NumQueues
    BY <1>1
  <2>2. capped' => Queues!Sending'
    BY <1>1 DEF QueuesIInv, NoneBehind, Queues!Sending
  <2>3. ASSUME resizing' = "no"
        PROVE  /\ \A q \in waiting : q < n
               /\ capped /\ ~accel => chosen < n
               /\ \A c \in Cpu : \A q \in Queues!ToSet(maps[c]) : q < n
    <3>1. real <= n
      BY <1>1, <2>3
    <3>2. \A q \in waiting : q < real /\ q \in Nat
      BY <1>1 DEF QueuesIInv, QueuesTypeOK, NoneBehind, Queues!Queue
    <3>3. capped /\ ~accel => chosen < real /\ chosen \in Nat
      BY <1>1 DEF QueuesIInv, QueuesTypeOK, NoneBehind, Queues!Queue, Queues!Sending
    <3>4. ASSUME NEW c \in Cpu, NEW q \in Queues!ToSet(maps[c]) PROVE q < real /\ q \in Nat
      <4>1. maps[c] \in Seq(Queues!Queue)
        BY DEF QueuesIInv, QueuesTypeOK
      <4> QED
        BY <1>1, <4>1 DEF QueuesIInv, NoneBehind, Queues!ToSet, Queues!Queue
    <3>5. \A q \in waiting : q < n
      BY <1>1, <3>1, <3>2
    <3>6. capped /\ ~accel => chosen < n
      BY <1>1, <3>1, <3>3
    <3>7. \A c \in Cpu : \A q \in Queues!ToSet(maps[c]) : q < n
      BY <1>1, <3>1, <3>4
    <3> QED
      BY <3>5, <3>6, <3>7
  <2>4. resizing' = "no" => /\ \A q \in waiting' : q < real'
                            /\ capped' /\ ~accel' => chosen' < real'
                            /\ \A c \in Cpu : \A q \in Queues!ToSet(maps'[c]) : q < real'
    BY <1>1, <2>3
  <2> QED
    BY <2>1, <2>2, <2>4 DEF NoneBehind, Queues!ToSet
<1> QED
  BY <1>5, <1>7, <1>8, <1>9 DEF QueuesIInv

LEMMA SetXpsOK ==
  ASSUME Queues!TxQueuesAssumption, QueuesIInv, NEW mask \in SUBSET Cpu, NEW q \in Queues!Queue, Queues!SetXps(mask, q)
  PROVE  QueuesIInv'
<1> DEFINE grown == mask \cap Online
<1>1. /\ UNCHANGED <<real, tcOn, tcRange, prioTc, resizing, chosen, capped, sockQueue, accel, waiting>>
      /\ q < real /\ maps \in [Cpu -> Seq(Queues!Queue)] /\ Online \subseteq Cpu
  BY DEF Queues!TxQueuesAssumption, QueuesIInv, QueuesTypeOK, Queues!SetXps, Queues!pickVars
<1>2. CASE ~xps /\ grown = {}
  <2>1. UNCHANGED <<maps, xps>>
    BY <1>2 DEF Queues!SetXps
  <2> QED
    BY <1>1, <2>1 DEF QueuesIInv, QueuesTypeOK, ClassesFit, MapsOK, NoneBehind, Queues!Fits, Queues!Sending
<1>3. CASE xps \/ grown # {}
  <2>1. /\ maps' = [c \in Cpu |-> IF c \in grown THEN Queues!With(maps[c], q) ELSE Queues!Without(maps[c], q)]
        /\ xps' = (grown # {} \/ \E c \in Cpu : maps'[c] # <<>>)
    <3>1. maps' = [c \in Cpu |->
                     IF c \in grown
                       THEN [d \in Cpu |-> IF d \in grown THEN Queues!With(maps[d], q) ELSE maps[d]][c]
                       ELSE Queues!Without([d \in Cpu |-> IF d \in grown THEN Queues!With(maps[d], q)
                                                   ELSE maps[d]][c], q)]
      BY <1>3 DEF Queues!SetXps
    <3>2. xps' = (grown # {} \/ \E c \in Cpu : maps'[c] # <<>>)
      BY <1>3 DEF Queues!SetXps
    <3> QED
      BY <3>1, <3>2
  <2>2. ASSUME NEW c \in Cpu
        PROVE  /\ maps'[c] \in Seq(Queues!Queue) /\ Distinct(maps'[c])
               /\ Queues!ToSet(maps'[c]) \subseteq Queues!ToSet(maps[c]) \cup {q}
               /\ c \in grown => maps'[c] # <<>>
    <3>1. maps[c] \in Seq(Queues!Queue) /\ Distinct(maps[c])
      BY <1>1 DEF QueuesIInv, MapsOK
    <3>2. CASE c \in grown
      <4>1. maps'[c] = Queues!With(maps[c], q)
        BY <2>1, <3>2
      <4> QED
        BY <3>1, <4>1, WithIs
    <3>3. CASE c \notin grown
      <4>1. maps'[c] = Queues!Without(maps[c], q)
        BY <2>1, <3>3
      <4>2. /\ Queues!Without(maps[c], q) \in Seq(Queues!Queue) /\ Distinct(Queues!Without(maps[c], q))
            /\ Queues!ToSet(Queues!Without(maps[c], q)) \subseteq Queues!ToSet(maps[c]) \ {q}
        BY <3>1, WithoutIs
      <4> QED
        BY <3>3, <4>1, <4>2
    <3> QED
      BY <3>2, <3>3
  <2> HIDE DEF grown
  <2>3. maps' \in [Cpu -> Seq(Queues!Queue)] /\ xps' \in BOOLEAN
    BY <2>1, <2>2
  <2>4. QueuesTypeOK'
    BY <1>1, <2>3 DEF QueuesIInv, QueuesTypeOK
  <2>5. ClassesFit'
    BY <1>1 DEF QueuesIInv, ClassesFit, Queues!Fits
  <2>6. MapsOK'
    <3>1. xps' <=> \E c \in Cpu : maps'[c] # <<>>
      BY <1>1, <2>1, <2>2 DEF grown
    <3> QED
      BY <2>2, <3>1 DEF MapsOK
  <2>7. NoneBehind'
    <3>1. resizing = "no" => \A c \in Cpu : \A p \in Queues!ToSet(maps[c]) : p < real
      BY DEF QueuesIInv, NoneBehind
    <3>2. resizing = "no" => \A c \in Cpu : \A p \in Queues!ToSet(maps'[c]) : p < real
      BY <1>1, <2>2, <3>1
    <3> QED
      BY <1>1, <3>2 DEF QueuesIInv, NoneBehind, Queues!Sending, Queues!ToSet
  <2> QED
    BY <2>4, <2>5, <2>6, <2>7 DEF QueuesIInv
<1> QED
  BY <1>2, <1>3

LEMMA ResetGtOK ==
  ASSUME Queues!TxQueuesAssumption, QueuesIInv, Queues!ResetGt
  PROVE  QueuesIInv'
<1>1. /\ UNCHANGED <<real, tcOn, tcRange, prioTc, chosen, capped, sockQueue, accel>>
      /\ resizing = "sync" /\ resizing' = "no" /\ real \in 1 .. NumQueues
      /\ NumQueues \in Nat \ {0} /\ real # NumQueues /\ ~Queues!Sending /\ ~capped
      /\ waiting' = {q \in waiting : q < real}
  BY DEF Queues!TxQueuesAssumption, QueuesIInv, QueuesTypeOK, NoneBehind, Queues!ResetGt, Queues!Synchronized
<1>2. \A c \in Cpu : maps[c] \in Seq(Queues!Queue) /\ Distinct(maps[c])
  BY DEF QueuesIInv, QueuesTypeOK, MapsOK
<1>3. /\ maps' \in [Cpu -> Seq(Queues!Queue)] /\ xps' \in BOOLEAN
      /\ \A c \in Cpu : Distinct(maps'[c]) /\ \A q \in Queues!ToSet(maps'[c]) : q < real
      /\ xps' <=> \E c \in Cpu : maps'[c] # <<>>
  <2>1. CASE xps
    <3>1. /\ maps' = [c \in Cpu |-> Queues!WithoutFrom(maps[c], real)]
          /\ xps' = \E c \in Cpu : maps'[c] # <<>>
      BY <1>1, <2>1, Zenon DEF Queues!ResetGt
    <3>2. \A c \in Cpu : /\ maps'[c] \in Seq(Queues!Queue) /\ Distinct(maps'[c])
                         /\ \A q \in Queues!ToSet(maps'[c]) : q < real
      BY <1>1, <1>2, <3>1, WithoutFromIs
    <3> QED
      BY <3>1, <3>2
  <2>2. CASE ~xps
    <3>1. maps' = maps /\ xps' = FALSE
      BY <2>2 DEF Queues!ResetGt
    <3>2. \A c \in Cpu : maps[c] = <<>>
      BY <2>2 DEF QueuesIInv, MapsOK
    <3>3. \A c \in Cpu : Len(maps[c]) = 0
      BY <3>2
    <3>4. \A c \in Cpu : \A q \in Queues!ToSet(maps[c]) : q < real
      BY <3>3 DEF Queues!ToSet
    <3>5. maps \in [Cpu -> Seq(Queues!Queue)]
      BY DEF QueuesIInv, QueuesTypeOK
    <3> QED
      BY <1>2, <3>1, <3>2, <3>4, <3>5
  <2> QED
    BY <2>1, <2>2 DEF QueuesIInv, QueuesTypeOK
<1>4. QueuesTypeOK'
  BY <1>1, <1>3 DEF QueuesIInv, QueuesTypeOK
<1>5. ClassesFit'
  BY <1>1 DEF QueuesIInv, ClassesFit, Queues!Fits
<1>6. MapsOK'
  BY <1>3 DEF MapsOK
<1>7. NoneBehind'
  <2>1. \A q \in waiting' : q < real'
    BY <1>1
  <2>2. \A c \in Cpu : \A q \in Queues!ToSet(maps'[c]) : q < real'
    BY <1>1, <1>3
  <2>3. resizing' = "no" /\ ~capped'
    BY <1>1
  <2> QED
    BY <2>1, <2>2, <2>3 DEF NoneBehind, Queues!ToSet
<1> QED
  BY <1>4, <1>5, <1>6, <1>7 DEF QueuesIInv

\* Whatever the hash gives is a queue of the device.
LEMMA FreshIsQueue ==
  ASSUME Queues!TxQueuesAssumption, QueuesIInv, NEW cpu \in Cpu, NEW prio \in Prio
  PROVE  Queues!Fresh(cpu, prio) \subseteq Queues!Queue
<1>1. NumQueues \in Nat \ {0} /\ real \in 1 .. NumQueues
      /\ tcRange \in [Tc -> [offset : Nat, count : Nat]] /\ prioTc[prio] \in Tc
      /\ maps[cpu] \in Seq(Queues!Queue)
  BY DEF Queues!TxQueuesAssumption, QueuesIInv, QueuesTypeOK
<1>2. Queues!XpsQueues(cpu) \subseteq Queues!Queue
  BY <1>1 DEF Queues!XpsQueues, Queues!ToSet
<1>3. ASSUME NEW q \in Queues!HashQueues(prio) PROVE q \in Queues!Queue
  <2>1. CASE q \in 0 .. real - 1
    BY <1>1, <2>1 DEF Queues!Queue
  <2>2. CASE q \notin 0 .. real - 1
    <3> DEFINE tc == prioTc[prio]
    <3>1. PICK i \in IF tcOn THEN 0 .. tcRange[tc].count - 1 ELSE {} : q = tcRange[tc].offset + i
      BY <1>3, <2>2 DEF Queues!HashQueues
    <3>2. i \in 0 .. tcRange[tc].count - 1
      BY <3>1
    <3>3. tcRange[tc].offset + tcRange[tc].count <= NumQueues
          /\ tcRange[tc].offset \in Nat /\ tcRange[tc].count \in Nat
      BY <1>1 DEF QueuesIInv, ClassesFit, Queues!Fits
    <3> QED
      BY <1>1, <3>1, <3>2, <3>3 DEF Queues!Queue
  <2> QED
    BY <2>1, <2>2
<1> QED
  BY <1>2, <1>3 DEF Queues!Fresh

\* The sender's choice of a queue, with accel_priv or without
Picks(a) == \/ \E cpu \in Cpu, prio \in Prio, ooo \in BOOLEAN : Queues!Pick(cpu, prio, ooo, a)
            \/ \E q \in Queues!Queue : Queues!DriverPicks(q, a)
            \/ Queues!PickOnly(a)

LEMMA SenderOK ==
  ASSUME Queues!TxQueuesAssumption, QueuesIInv,
         \/ Queues!Cap \/ Queues!Enqueue \/ \E q \in Queues!Queue : Queues!Drain(q)
         \/ \E a \in BOOLEAN : Picks(a)
  PROVE  QueuesIInv'
<1>1. /\ UNCHANGED <<real, xps, maps, tcOn, tcRange, prioTc, resizing>>
      /\ real \in 1 .. NumQueues /\ NumQueues \in Nat \ {0} /\ NoQueue \notin Nat
  BY DEF Queues!TxQueuesAssumption, QueuesIInv, QueuesTypeOK, Queues!PickOnly, Queues!Cap, Queues!Enqueue, Queues!DriverPicks,
         Queues!Drain, Queues!Pick, Queues!confVars, Picks
<1>2. ClassesFit'
  BY <1>1 DEF QueuesIInv, ClassesFit, Queues!Fits
<1>3. MapsOK'
  BY <1>1 DEF QueuesIInv, MapsOK
<1>4. /\ chosen \in Queues!Queue \cup {NoQueue} /\ sockQueue \in Queues!Queue \cup {NoQueue}
      /\ waiting \subseteq Queues!Queue /\ capped \in BOOLEAN /\ (capped => Queues!Sending)
      /\ accel \in BOOLEAN
      /\ resizing = "no" => (\A q \in waiting : q < real) /\ (capped /\ ~accel => chosen < real)
  BY DEF QueuesIInv, QueuesTypeOK, NoneBehind
<1>5. 0 \in Queues!Queue /\ Queues!Queue \subseteq Nat
  BY <1>1 DEF Queues!Queue
<1>6. /\ chosen' \in Queues!Queue \cup {NoQueue} /\ sockQueue' \in Queues!Queue \cup {NoQueue}
      /\ waiting' \subseteq Queues!Queue /\ capped' \in BOOLEAN /\ (capped' => chosen' # NoQueue)
      /\ accel' \in BOOLEAN
      /\ resizing = "no" => (\A q \in waiting' : q < real) /\ (capped' /\ ~accel' => chosen' < real)
  <2>1. ASSUME NEW a \in BOOLEAN, Queues!PickOnly(a) PROVE <1>6!:
    <3>1. chosen' = 0 /\ capped' = TRUE /\ accel' = a /\ UNCHANGED <<sockQueue, waiting>>
      BY <2>1 DEF Queues!PickOnly
    <3> QED
      BY <1>1, <1>4, <1>5, <3>1
  <2>2. CASE Queues!Cap
    <3>1. /\ chosen' = (IF ~accel /\ chosen >= real THEN 0 ELSE chosen) /\ chosen # NoQueue
          /\ capped' = TRUE /\ UNCHANGED <<sockQueue, accel, waiting>>
      BY <2>2 DEF Queues!Cap, Queues!Sending
    <3> QED
      BY <1>1, <1>4, <1>5, <3>1
  <2>3. CASE Queues!Enqueue
    <3>1. /\ chosen # NoQueue /\ capped
          /\ waiting' = (IF accel THEN waiting ELSE waiting \cup {chosen})
          /\ chosen' = NoQueue /\ capped' = FALSE /\ accel' = FALSE /\ UNCHANGED sockQueue
      BY <2>3 DEF Queues!Enqueue, Queues!Sending
    <3> QED
      BY <1>4, <3>1
  <2>4. ASSUME NEW q \in Queues!Queue, NEW a \in BOOLEAN, Queues!DriverPicks(q, a) PROVE <1>6!:
    <3>1. /\ chosen = NoQueue /\ chosen' = q /\ UNCHANGED <<capped, sockQueue, waiting>>
          /\ ~capped /\ accel' = a
      BY <1>4, <2>4 DEF Queues!DriverPicks, Queues!Sending
    <3> QED
      BY <1>4, <3>1
  <2>5. ASSUME NEW q \in Queues!Queue, Queues!Drain(q) PROVE <1>6!:
    <3>1. waiting' = waiting \ {q} /\ UNCHANGED <<chosen, capped, sockQueue, accel>>
      BY <2>5 DEF Queues!Drain
    <3> QED
      BY <1>4, <3>1 DEF Queues!Sending
  <2>6. ASSUME NEW cpu \in Cpu, NEW prio \in Prio, NEW ooo \in BOOLEAN, NEW a \in BOOLEAN,
               Queues!Pick(cpu, prio, ooo, a)
        PROVE  <1>6!:
    <3>1. ~capped /\ UNCHANGED <<capped, waiting>> /\ accel' = a
      BY <1>4, <2>6 DEF Queues!Pick
    <3>2. chosen' \in Queues!Queue /\ sockQueue' \in Queues!Queue \cup {NoQueue}
      <4>1. CASE sockQueue # NoQueue /\ chosen' = sockQueue /\ UNCHANGED sockQueue
        BY <1>4, <4>1
      <4>2. CASE \E q \in Queues!Fresh(cpu, prio) : chosen' = q /\ sockQueue' \in {q, sockQueue}
        <5>1. Queues!Fresh(cpu, prio) \subseteq Queues!Queue
          BY FreshIsQueue
        <5> QED
          BY <1>4, <4>2, <5>1
      <4> QED
        BY <2>6, <4>1, <4>2 DEF Queues!Pick
    <3> QED
      BY <1>4, <3>1, <3>2
  <2> QED
    BY <2>1, <2>2, <2>3, <2>4, <2>5, <2>6 DEF Picks
<1>7. QueuesTypeOK'
  BY <1>1, <1>6 DEF QueuesIInv, QueuesTypeOK
<1>8. NoneBehind'
  <2>1. resizing = "sync" => real < NumQueues
    BY DEF QueuesIInv, NoneBehind
  <2>2. resizing = "no" => \A c \in Cpu : \A q \in Queues!ToSet(maps[c]) : q < real
    BY DEF QueuesIInv, NoneBehind
  <2> QED
    BY <1>1, <1>6, <2>1, <2>2 DEF NoneBehind, Queues!Sending, Queues!ToSet
<1> QED
  BY <1>2, <1>3, <1>7, <1>8 DEF QueuesIInv

LEMMA QueuesStep ==
  ASSUME Queues!TxQueuesAssumption, QueuesIInv, Queues!Next \/ UNCHANGED Queues!txqVars
  PROVE  QueuesIInv'
<1>1. CASE UNCHANGED Queues!txqVars
  BY <1>1 DEF Queues!txqVars, Queues!confVars, Queues!pickVars, QueuesIInv, QueuesTypeOK, ClassesFit, MapsOK,
              NoneBehind, Queues!Fits, Queues!Sending
<1>2. ASSUME NEW n \in Queues!Queue, Queues!SetRealNum(n + 1) PROVE QueuesIInv'
  <2>1. n + 1 \in 1 .. NumQueues
    BY <1>2 DEF Queues!SetRealNum
  <2> QED
    BY <1>2, <2>1, SetRealNumOK
<1>3. ASSUME NEW tc \in Tc, NEW off \in Queues!Queue, NEW n \in Queues!Queue, NEW prios \in SUBSET Prio,
             Queues!SetTc(tc, off, n, prios)
      PROVE  QueuesIInv'
  BY <1>3, SetTcOK
<1>4. ASSUME NEW mask \in SUBSET Cpu, NEW q \in Queues!Queue, Queues!SetXps(mask, q) PROVE QueuesIInv'
  BY <1>4, SetXpsOK
<1>5. CASE Queues!ResetGt
  BY <1>5, ResetGtOK
<1>6. CASE \/ Queues!Cap \/ Queues!Enqueue \/ \E q \in Queues!Queue : Queues!Drain(q)
           \/ \E a \in BOOLEAN : Picks(a)
  BY <1>6, SenderOK
<1> QED
  BY <1>1, <1>2, <1>3, <1>4, <1>5, <1>6, Zenon DEF Queues!Next, Picks

LEMMA QueuesSound == ASSUME QueuesIInv PROVE Queues!QueuesAreSound
<1>1. Queues!NothingBehindTheLast
  BY DEF QueuesIInv, ClassesFit, NoneBehind, Queues!NothingBehindTheLast
<1>2. Queues!MapsAreTidy
  <2>1. ASSUME NEW c \in Cpu PROVE Queues!Cardinality(Queues!ToSet(maps[c])) = Len(maps[c])
    <3>1. maps[c] \in Seq(Queues!Queue) /\ Distinct(maps[c])
      BY DEF QueuesIInv, QueuesTypeOK, MapsOK
    <3> QED
      BY <3>1, DistinctCounts
  <2> QED
    BY <2>1 DEF QueuesIInv, MapsOK, Queues!MapsAreTidy
<1> QED
  BY <1>1, <1>2 DEF Queues!QueuesAreSound
-----------------------------------------------------------------------------
(* The receive path                                                        *)

\* What the fold of Only computes over the first k elements
OnlyStep(kept, e, S) == IF e \in S THEN Append(kept, e) ELSE kept

KeepsTo(g, s, S, k) ==
    g = [m \in 0 .. k |-> IF m = 0 THEN <<>> ELSE OnlyStep(g[m - 1], s[m], S)]

LEMMA KeepsSome ==
  ASSUME NEW s, NEW S, NEW k \in Nat
  PROVE  \E g : KeepsTo(g, s, S, k)
<1> DEFINE Missing == {m \in Nat : ~ \E g : KeepsTo(g, s, S, m)}
<1>1. SUFFICES ASSUME Missing # {} PROVE FALSE
  OBVIOUS
<1>2. PICK m \in Missing : \A l \in Missing : m <= l
  BY <1>1, Smallest
<1>3. m \in Nat /\ ~ \E g : KeepsTo(g, s, S, m)
  OBVIOUS
<1>4. CASE m = 0
  <2> DEFINE g == [l \in 0 .. 0 |-> <<>>]
  <2>1. g = [l \in 0 .. 0 |-> IF l = 0 THEN <<>> ELSE OnlyStep(g[l - 1], s[l], S)]
    OBVIOUS
  <2> QED
    BY <1>3, <1>4, <2>1 DEF KeepsTo
<1>5. CASE m # 0
  <2>1. m - 1 \in Nat /\ m - 1 \notin Missing
    BY <1>2, <1>3, <1>5
  <2>2. PICK h : KeepsTo(h, s, S, m - 1)
    BY <2>1
  <2> DEFINE g == [l \in 0 .. m |-> IF l = m THEN OnlyStep(h[m - 1], s[m], S) ELSE h[l]]
  <2>3. ASSUME NEW l \in 0 .. m PROVE g[l] = IF l = 0 THEN <<>> ELSE OnlyStep(g[l - 1], s[l], S)
    <3>1. CASE l = m
      <4>1. m - 1 \in 0 .. m /\ m - 1 # m
        BY <1>3, <1>5
      <4>2. g[m - 1] = h[m - 1]
        BY <4>1
      <4> QED
        BY <1>5, <3>1, <4>2
    <3>2. CASE l # m /\ l # 0
      <4>1. l \in 0 .. m - 1 /\ l - 1 \in 0 .. m /\ l - 1 # m
        BY <1>3, <3>2
      <4>2. g[l - 1] = h[l - 1] /\ g[l] = h[l]
        BY <3>2, <4>1
      <4>3. h[l] = OnlyStep(h[l - 1], s[l], S)
        BY <2>2, <3>2, <4>1 DEF KeepsTo
      <4> QED
        BY <3>2, <4>2, <4>3
    <3>3. CASE l = 0
      <4>1. l \in 0 .. m - 1 /\ l # m
        BY <1>3, <1>5, <3>3
      <4>2. h[l] = <<>>
        BY <2>2, <3>3, <4>1 DEF KeepsTo
      <4> QED
        BY <3>3, <4>1, <4>2
    <3> QED
      BY <3>1, <3>2, <3>3
  <2>4. g = [l \in 0 .. m |-> IF l = 0 THEN <<>> ELSE OnlyStep(g[l - 1], s[l], S)]
    BY <2>3
  <2> QED
    BY <1>3, <2>4 DEF KeepsTo
<1> QED
  BY <1>4, <1>5

\* What Only keeps is in S and in the order it was in.
LEMMA OnlyIs ==
  ASSUME NEW T, NEW s \in Seq(T), NEW S
  PROVE  /\ Only(s, S) \in Seq(T) /\ ToSet(Only(s, S)) = ToSet(s) \cap S
         /\ \A i, j \in 1 .. Len(Only(s, S)) : i < j =>
                \E k, l \in 1 .. Len(s) : k < l /\ Only(s, S)[i] = s[k] /\ Only(s, S)[j] = s[l]
<1> DEFINE n == Len(s)
           Found(r, i, m) == \E k \in 1 .. m : r[i] = s[k]
           Ordered(r, m) == \A i, j \in 1 .. Len(r) : i < j =>
                                \E k, l \in 1 .. m : k < l /\ r[i] = s[k] /\ r[j] = s[l]
           Right(r, m) == /\ r \in Seq(T) /\ Ordered(r, m)
                          /\ \A i \in 1 .. Len(r) : r[i] \in S /\ Found(r, i, m)
                          /\ \A k \in 1 .. m : s[k] \in S => \E i \in 1 .. Len(r) : r[i] = s[k]
<1>1. n \in Nat /\ \A k \in 1 .. n : s[k] \in T
  OBVIOUS
<1>2. Only(s, S) = (CHOOSE g : KeepsTo(g, s, S, n))[n]
  BY DEF Only, FoldLeft, KeepsTo, OnlyStep
<1> HIDE DEF n
<1>3. PICK g : g = CHOOSE h : KeepsTo(h, s, S, n)
  OBVIOUS
<1>4. KeepsTo(g, s, S, n)
  BY <1>1, <1>3, KeepsSome
<1>5. g[0] = <<>> /\ \A m \in 1 .. n : g[m] = OnlyStep(g[m - 1], s[m], S)
  BY <1>1, <1>4 DEF KeepsTo
<1>6. Right(g[0], 0)
  <2>1. g[0] \in Seq(T) /\ Len(g[0]) = 0
    BY <1>5
  <2> QED
    BY <2>1
<1>7. ASSUME NEW m \in 1 .. n, Right(g[m - 1], m - 1) PROVE Right(g[m], m)
  <2> DEFINE r == g[m - 1]
             e == s[m]
  <2>1. r \in Seq(T) /\ e \in T /\ m \in Nat /\ Len(r) \in Nat
    BY <1>1, <1>7
  <2>2. g[m] = OnlyStep(r, e, S)
    BY <1>5
  <2>3. \A k \in 1 .. m : k \in 1 .. m - 1 \/ k = m
    BY <2>1
  <2>4. \A k \in 1 .. m - 1 : k \in 1 .. m
    BY <2>1
  <2>5. /\ Ordered(r, m - 1)
        /\ \A i \in 1 .. Len(r) : r[i] \in S /\ Found(r, i, m - 1)
        /\ \A k \in 1 .. m - 1 : s[k] \in S => \E i \in 1 .. Len(r) : r[i] = s[k]
    BY <1>7
  <2> HIDE DEF r
  <2>6. CASE e \notin S
    <3>1. g[m] = r
      BY <2>2, <2>6 DEF OnlyStep
    <3>2. Ordered(r, m)
      BY <2>4, <2>5
    <3>3. \A i \in 1 .. Len(r) : r[i] \in S /\ Found(r, i, m)
      BY <2>4, <2>5
    <3>4. \A k \in 1 .. m : s[k] \in S => \E i \in 1 .. Len(r) : r[i] = s[k]
      BY <2>3, <2>5, <2>6
    <3> QED
      BY <2>1, <3>1, <3>2, <3>3, <3>4
  <2>7. CASE e \in S
    <3> DEFINE q == Append(r, e)
    <3>1. g[m] = q
      BY <2>2, <2>7 DEF OnlyStep
    <3>2. /\ q \in Seq(T) /\ Len(q) = Len(r) + 1 /\ q[Len(r) + 1] = e
          /\ \A i \in 1 .. Len(r) : q[i] = r[i]
      BY <2>1, OneMoreAtEnd
    <3> HIDE DEF q, e
    <3>3. \A i \in 1 .. Len(q) : i \in 1 .. Len(r) \/ i = Len(r) + 1
      BY <2>1, <3>2
    <3>4. ASSUME NEW i \in 1 .. Len(q), NEW j \in 1 .. Len(q), i < j
          PROVE  \E k, l \in 1 .. m : k < l /\ q[i] = s[k] /\ q[j] = s[l]
      <4>1. i \in 1 .. Len(r) /\ q[i] = r[i]
        BY <2>1, <3>2, <3>3, <3>4
      <4>2. CASE j \in 1 .. Len(r)
        <5>1. PICK k \in 1 .. m - 1, l \in 1 .. m - 1 : k < l /\ r[i] = s[k] /\ r[j] = s[l]
          BY <2>5, <3>4, <4>1, <4>2
        <5> QED
          BY <2>4, <3>2, <4>1, <4>2, <5>1
      <4>3. CASE j = Len(r) + 1
        <5>1. PICK k \in 1 .. m - 1 : r[i] = s[k]
          BY <2>5, <4>1
        <5>2. k \in 1 .. m /\ m \in 1 .. m /\ k < m
          BY <2>1, <5>1
        <5>3. q[j] = s[m]
          BY <3>2, <4>3 DEF e
        <5> QED
          BY <4>1, <5>1, <5>2, <5>3
      <4> QED
        BY <3>3, <4>2, <4>3
    <3>5. \A i \in 1 .. Len(q) : q[i] \in S /\ Found(q, i, m)
      <4>1. ASSUME NEW i \in 1 .. Len(r) PROVE q[i] \in S /\ Found(q, i, m)
        <5>1. q[i] = r[i] /\ r[i] \in S /\ Found(r, i, m - 1)
          BY <2>5, <3>2, <4>1
        <5>2. PICK k \in 1 .. m - 1 : r[i] = s[k]
          BY <5>1
        <5>3. k \in 1 .. m
          BY <2>4, <5>2
        <5> QED
          BY <5>1, <5>2, <5>3
      <4>2. q[Len(r) + 1] \in S /\ Found(q, Len(r) + 1, m)
        <5>1. m \in 1 .. m
          BY <2>1
        <5> QED
          BY <2>7, <3>2, <5>1 DEF e
      <4> QED
        BY <3>3, <4>1, <4>2
    <3>6. \A k \in 1 .. m : s[k] \in S => \E i \in 1 .. Len(q) : q[i] = s[k]
      <4>1. \A i \in 1 .. Len(r) : i \in 1 .. Len(q)
        BY <2>1, <3>2
      <4>2. Len(r) + 1 \in 1 .. Len(q)
        BY <2>1, <3>2
      <4> QED
        BY <2>3, <2>5, <3>2, <4>1, <4>2 DEF e
    <3> QED
      BY <3>1, <3>2, <3>4, <3>5, <3>6
  <2> QED
    BY <2>6, <2>7
<1> DEFINE Wrong == {m \in Nat : m <= n /\ ~Right(g[m], m)}
<1> HIDE DEF Right
<1>8. Wrong = {}
  <2>1. SUFFICES ASSUME Wrong # {} PROVE FALSE
    OBVIOUS
  <2>2. PICK m \in Wrong : \A k \in Wrong : m <= k
    BY <2>1, Smallest
  <2>3. m \in Nat /\ m # 0 /\ m <= n
    BY <1>6, <2>2
  <2>4. m - 1 \in Nat /\ m - 1 <= n /\ m - 1 \notin Wrong /\ m \in 1 .. n
    BY <1>1, <2>2, <2>3
  <2> QED
    BY <1>7, <2>2, <2>4
<1>9. Right(Only(s, S), n)
  BY <1>1, <1>2, <1>3, <1>8
<1>10. ToSet(Only(s, S)) = ToSet(s) \cap S
  <2> DEFINE r == Only(s, S)
  <2>1. /\ \A i \in 1 .. Len(r) : r[i] \in S /\ \E k \in 1 .. Len(s) : r[i] = s[k]
        /\ \A k \in 1 .. Len(s) : s[k] \in S => \E i \in 1 .. Len(r) : r[i] = s[k]
    BY <1>9 DEF Right, n
  <2> HIDE DEF r
  <2>2. ToSet(r) \subseteq ToSet(s) \cap S
    BY <2>1 DEF ToSet
  <2>3. ToSet(s) \cap S \subseteq ToSet(r)
    BY <2>1 DEF ToSet
  <2> QED
    BY <2>2, <2>3 DEF r
<1> QED
  BY <1>9, <1>10 DEF Right, n

LEMMA OnlyDistinct ==
  ASSUME NEW T, NEW s \in Seq(T), NEW S, Distinct(s)
  PROVE  Distinct(Only(s, S))
<1> DEFINE r == Only(s, S)
<1>1. \A i, j \in 1 .. Len(r) : i < j =>
          \E k, l \in 1 .. Len(s) : k < l /\ r[i] = s[k] /\ r[j] = s[l]
  BY OnlyIs
<1>2. Len(s) \in Nat /\ Len(r) \in Nat
  BY OnlyIs
<1> HIDE DEF r
<1>3. ASSUME NEW i \in 1 .. Len(r), NEW j \in 1 .. Len(r), i < j PROVE r[i] # r[j]
  <2>1. PICK k \in 1 .. Len(s), l \in 1 .. Len(s) : k < l /\ r[i] = s[k] /\ r[j] = s[l]
    BY <1>1, <1>3
  <2>2. k # l
    BY <1>2, <2>1
  <2> QED
    BY <2>1, <2>2 DEF Distinct
<1>4. \A i, j \in 1 .. Len(r) : i # j => i < j \/ j < i
  BY <1>2
<1> QED
  BY <1>3, <1>4 DEF Distinct, r

LEMMA ReceiveOnly == /\ \A s : Receive!ToSet(s) = ToSet(s)
                     /\ \A s, S : Receive!Only(s, S) = Only(s, S)
  BY DEF Receive!ToSet, ToSet, Receive!Only, Only, Receive!FoldLeft, FoldLeft

Inside == {"taps", "ingress", "vlan", "deref", "handler", "untag"}
TapHeads == {<<"all">>, <<"all", LowerDev>>, <<"all", UpperDev>>}
Met == Pt \X Receive!Dev

\* Once somebody has got the packet its fragments are the kernel's.
CopyOK == /\ denied \in Seq(Met) /\ given \in Seq(Met) /\ userFrags \in BOOLEAN
          /\ given # <<>> => ~userFrags

ReceiveTypeOK ==
    /\ list \in Seq(Pt) /\ freed \subseteq Pt
    /\ handler \in BOOLEAN /\ data \in BOOLEAN /\ exact \in BOOLEAN
    /\ writer \in {"idle", "remove", "register", "unregister"} /\ waits \in Pt \cup {NoPt}
    /\ at \in Inside \cup {"idle", "last", "nit", "nit dev", "nit last"}
    /\ sender \in Pt \cup {NoPt} /\ dev \in Receive!Dev /\ ptPrev \in Pt \cup {NoPt} /\ own \in {0, 1}
    /\ skb \in [tagged : BOOLEAN, pfmemalloc : BOOLEAN]
    /\ seen \in Seq(Met) /\ CopyOK

\* What is linked is not freed, and what waits for its grace period is neither.
ListOK == /\ Distinct(list) /\ \A pt \in Receive!ToSet(list) : pt \notin freed
          /\ writer = "remove" => waits \in Pt /\ waits \notin Receive!ToSet(list) /\ waits \notin freed

HandlerOK == /\ handler \/ writer = "register" \/ at = "handler" => data
             /\ writer = "unregister" => ~handler

\* The packet type that is pending is linked, or waited for; it is the one thing that has
\* been met and not offered the packet.
PendingOK == /\ at = "idle" => ptPrev = NoPt
             /\ ptPrev # NoPt => ptPrev \in Receive!ToSet(list) \/ (writer = "remove" /\ waits = ptPrev)
             /\ ptPrev = NoPt => seen = Receive!Offered
             /\ ptPrev # NoPt => seen = Append(Receive!Offered, <<ptPrev, dev>>)

\* What has been met at each stage: never what will be met now.
MetOK == /\ Distinct(seen)
         /\ dev = LowerDev => \A i \in 1 .. Len(seen) : seen[i][2] = LowerDev
         /\ at = "taps" => \A i \in 1 .. Len(seen) : seen[i][2] # dev
         /\ at \in Inside => \A i \in 1 .. Len(seen) : HeadOf[seen[i][1]] \in TapHeads
         /\ at = "handler" => dev = LowerDev
         /\ at = "nit" => seen = <<>>
         /\ at = "nit dev" => \A i \in 1 .. Len(seen) : HeadOf[seen[i][1]] = <<"all">>

\* Packets from the reserves do not go past the taps.
ReserveOK == at \in Inside /\ skb.pfmemalloc => seen = <<>> /\ ptPrev = NoPt

ReceiveIInv == ReceiveTypeOK /\ ListOK /\ HandlerOK /\ PendingOK /\ MetOK /\ ReserveOK

LEMMA OfferKept == ASSUME CopyOK, UNCHANGED Receive!offer
                   PROVE  CopyOK' /\ Receive!Offered' = Receive!Offered
  BY DEF CopyOK, Receive!offer, Receive!Offered

LEMMA ReceiveInit == ASSUME Receive!ReceiveAssumption, Receive!Init PROVE ReceiveIInv
<1>1. Len(<<>>) = 0
  OBVIOUS
<1>2. /\ list = <<>> /\ freed = {} /\ writer = "idle" /\ waits = NoPt /\ at = "idle"
      /\ sender = NoPt /\ dev = LowerDev /\ ptPrev = NoPt /\ seen = <<>> /\ denied = <<>> /\ given = <<>>
      /\ own = 0 /\ skb = [tagged |-> FALSE, pfmemalloc |-> FALSE]
  BY Zenon DEF Receive!Init
<1>3. handler = FALSE /\ data = FALSE /\ exact = FALSE /\ userFrags = FALSE
  BY Zenon DEF Receive!Init
<1>4. ReceiveTypeOK
  <2>1. list \in Seq(Pt) /\ seen \in Seq(Met) /\ CopyOK
    <3>1. userFrags \in BOOLEAN
      BY <1>3, Zenon
    <3>2. denied \in Seq(Met) /\ given \in Seq(Met) /\ list \in Seq(Pt) /\ seen \in Seq(Met)
      BY <1>2
    <3> QED
      BY <1>2, <3>1, <3>2, Zenon DEF CopyOK
  <2>2. skb \in [tagged : BOOLEAN, pfmemalloc : BOOLEAN]
    BY <1>2
  <2>3. handler \in BOOLEAN /\ data \in BOOLEAN /\ exact \in BOOLEAN
    BY <1>3, Zenon
  <2>4. /\ freed \subseteq Pt /\ writer \in {"idle", "remove", "register", "unregister"}
        /\ waits \in Pt \cup {NoPt} /\ at \in Inside \cup {"idle", "last", "nit", "nit dev", "nit last"}
        /\ sender \in Pt \cup {NoPt} /\ dev \in Receive!Dev /\ ptPrev \in Pt \cup {NoPt} /\ own \in {0, 1}
    BY <1>2, Zenon DEF Receive!Dev
  <2> QED
    BY <2>1, <2>2, <2>3, <2>4 DEF ReceiveTypeOK
<1>5. ListOK
  BY <1>1, <1>2 DEF ListOK, Distinct, Receive!ToSet
<1>6. HandlerOK
  BY <1>2, <1>3 DEF HandlerOK
<1>7. PendingOK /\ MetOK
  <2>1. Receive!Offered = <<>>
    BY <1>2 DEF Receive!Offered
  <2> QED
    BY <1>1, <1>2, <2>1 DEF PendingOK, MetOK, Distinct, Inside
<1>8. ReserveOK
  BY <1>2, Zenon DEF ReserveOK
<1> QED
  BY <1>4, <1>5, <1>6, <1>7, <1>8 DEF ReceiveIInv

\* The writer's steps.
LEMMA WriterOK == ASSUME Receive!ReceiveAssumption, ReceiveIInv, Receive!Writer PROVE ReceiveIInv'
<1>1. UNCHANGED <<at, sender, dev, skb, exact, ptPrev, seen, userFrags, denied, given, own>>
  BY DEF Receive!Writer, Receive!DevAddPack, Receive!DevRemovePack, Receive!Removed, Receive!RegisterData, Receive!RegisterHandler,
         Receive!UnregisterHandler, Receive!UnregisterData, Receive!walkVars
<1>1a. UNCHANGED Receive!offer
  BY <1>1 DEF Receive!offer
<1>1b. CopyOK' /\ Receive!Offered' = Receive!Offered
  BY <1>1a, OfferKept DEF ReceiveIInv, ReceiveTypeOK
<1>2. MetOK' /\ ReserveOK'
  <2>1. MetOK'
    <3>1. MetOK /\ Distinct(seen)
      BY DEF ReceiveIInv, MetOK
    <3>2. Distinct(seen)'
      BY <1>1, <3>1 DEF Distinct
    <3> QED
      BY <1>1, <3>1, <3>2 DEF MetOK, Inside, TapHeads
  <2>2. ReserveOK /\ Inside' = Inside
    BY DEF ReceiveIInv, Inside
  <2>3. ReserveOK'
    BY <1>1, <2>2, Zenon DEF ReserveOK
  <2> QED
    BY <2>1, <2>3
<1>3. /\ list \in Seq(Pt) /\ freed \subseteq Pt /\ handler \in BOOLEAN /\ data \in BOOLEAN
      /\ writer \in {"idle", "remove", "register", "unregister"} /\ waits \in Pt \cup {NoPt}
      /\ NoPt \notin Pt
  BY DEF Receive!ReceiveAssumption, ReceiveIInv, ReceiveTypeOK
<1>4. ASSUME /\ list' \in Seq(Pt) /\ freed' \subseteq Pt /\ handler' \in BOOLEAN /\ data' \in BOOLEAN
             /\ writer' \in {"idle", "remove", "register", "unregister"}
             /\ waits' \in Pt \cup {NoPt}
      PROVE  ReceiveTypeOK'
  BY <1>1, <1>1b, <1>4 DEF ReceiveIInv, ReceiveTypeOK
<1>5. ASSUME ptPrev # NoPt => ptPrev \in Receive!ToSet(list') \/ (writer' = "remove" /\ waits' = ptPrev)
      PROVE  PendingOK'
  BY <1>1, <1>1b, <1>5 DEF ReceiveIInv, PendingOK, Receive!ToSet
<1>6. /\ Distinct(list) /\ \A pt \in Receive!ToSet(list) : pt \notin freed
      /\ writer = "remove" => waits \in Pt /\ waits \notin Receive!ToSet(list) /\ waits \notin freed
      /\ ptPrev # NoPt => ptPrev \in Receive!ToSet(list) \/ (writer = "remove" /\ waits = ptPrev)
      /\ at = "idle" => ptPrev = NoPt
  BY DEF ReceiveIInv, ListOK, PendingOK
<1>7. /\ handler \/ writer = "register" \/ at = "handler" => data
      /\ writer = "unregister" => ~handler
  BY DEF ReceiveIInv, HandlerOK
<1>8. ASSUME NEW pt \in Pt, Receive!DevAddPack(pt) PROVE ReceiveIInv'
  <2>1. /\ writer = "idle" /\ pt \notin Receive!ToSet(list) /\ list' = <<pt>> \o list
        /\ freed' = freed \ {pt} /\ UNCHANGED <<handler, data, writer, waits>>
    BY <1>8 DEF Receive!DevAddPack, Receive!Change
  <2> DEFINE r == <<pt>> \o list
  <2>2. /\ r \in Seq(Pt) /\ Len(r) = Len(list) + 1 /\ r[1] = pt
        /\ \A k \in 2 .. Len(list) + 1 : r[k] = list[k - 1]
    BY <1>3, InFront
  <2>3. list' = r
    BY <2>1
  <2>4. Len(list) \in Nat
    BY <1>3
  <2> HIDE DEF r
  <2>5. \A k \in 1 .. Len(r) : k = 1 \/ (k \in 2 .. Len(list) + 1 /\ k - 1 \in 1 .. Len(list))
    BY <2>2, <2>4
  <2>6. Receive!ToSet(r) = Receive!ToSet(list) \cup {pt}
    <3>1. Receive!ToSet(r) \subseteq Receive!ToSet(list) \cup {pt}
      BY <2>2, <2>5 DEF Receive!ToSet
    <3>2. ASSUME NEW k \in 1 .. Len(list) PROVE list[k] \in Receive!ToSet(r)
      <4>1. k + 1 \in 2 .. Len(list) + 1 /\ k + 1 \in 1 .. Len(r) /\ k + 1 - 1 = k
        BY <2>2, <2>4
      <4>2. r[k + 1] = list[k]
        BY <2>2, <4>1
      <4> QED
        BY <4>1, <4>2 DEF Receive!ToSet
    <3>3. pt \in Receive!ToSet(r)
      BY <2>2, <2>4 DEF Receive!ToSet
    <3> QED
      BY <3>1, <3>2, <3>3 DEF Receive!ToSet
  <2>7. Distinct(r)
    <3> SUFFICES ASSUME NEW k \in 1 .. Len(r), NEW l \in 1 .. Len(r), k # l PROVE r[k] # r[l]
      BY DEF Distinct
    <3>1. CASE k = 1 \/ l = 1
      <4>1. \A m \in 1 .. Len(list) : list[m] # pt
        BY <2>1 DEF Receive!ToSet
      <4> QED
        BY <2>2, <2>5, <3>1, <4>1
    <3>2. CASE k # 1 /\ l # 1
      <4>1. /\ k - 1 \in 1 .. Len(list) /\ l - 1 \in 1 .. Len(list) /\ k - 1 # l - 1
            /\ r[k] = list[k - 1] /\ r[l] = list[l - 1]
        BY <2>2, <2>5, <3>2
      <4> QED
        BY <1>6, <4>1 DEF Distinct
    <3> QED
      BY <3>1, <3>2
  <2>8. ListOK'
    <3>1. Distinct(list') /\ Receive!ToSet(list') = Receive!ToSet(list) \cup {pt}
      BY <2>3, <2>6, <2>7
    <3> QED
      BY <1>6, <2>1, <3>1 DEF ListOK, Distinct, Receive!ToSet
  <2>9. HandlerOK'
    BY <1>1, <1>7, <2>1 DEF HandlerOK
  <2>10. ReceiveTypeOK'
    <3>1. list' \in Seq(Pt) /\ freed' \subseteq Pt
      BY <1>3, <2>1, <2>2, <2>3
    <3> QED
      BY <1>3, <1>4, <2>1, <3>1
  <2>11. PendingOK'
    <3>1. ptPrev # NoPt => ptPrev \in Receive!ToSet(list')
      BY <1>6, <2>1, <2>3, <2>6
    <3> QED
      BY <1>5, <3>1
  <2> QED
    BY <1>2, <2>8, <2>9, <2>10, <2>11 DEF ReceiveIInv
<1>9. ASSUME NEW pt \in Pt, Receive!DevRemovePack(pt) PROVE ReceiveIInv'
  <2>1. /\ writer = "idle" /\ pt \in Receive!ToSet(list) /\ list' = Receive!Remove(list, pt)
        /\ writer' = "remove" /\ waits' = pt /\ UNCHANGED <<freed, handler, data>>
    BY <1>9 DEF Receive!DevRemovePack, Receive!Change
  <2>2. /\ list' \in Seq(Pt) /\ Distinct(list') /\ Receive!ToSet(list') = Receive!ToSet(list) \ {pt}
    <3>1. list' = Receive!Only(list, Receive!ToSet(list) \ {pt})
      BY <2>1 DEF Receive!Remove
    <3>2. Receive!Only(list, Receive!ToSet(list) \ {pt}) \in Seq(Pt)
          /\ Receive!ToSet(Receive!Only(list, Receive!ToSet(list) \ {pt})) = Receive!ToSet(list) \cap (Receive!ToSet(list) \ {pt})
      BY <1>3, OnlyIs, ReceiveOnly
    <3>3. Distinct(Receive!Only(list, Receive!ToSet(list) \ {pt}))
      BY <1>3, <1>6, OnlyDistinct, ReceiveOnly
    <3> QED
      BY <3>1, <3>2, <3>3
  <2>3. ReceiveTypeOK'
    BY <1>3, <1>4, <2>1, <2>2
  <2>4. ListOK'
    BY <1>6, <2>1, <2>2 DEF ListOK, Distinct, Receive!ToSet
  <2>5. HandlerOK'
    BY <1>1, <1>7, <2>1 DEF HandlerOK
  <2>6. PendingOK'
    <3>1. ptPrev # NoPt => ptPrev \in Receive!ToSet(list') \/ (writer' = "remove" /\ waits' = ptPrev)
      BY <1>6, <2>1, <2>2
    <3> QED
      BY <1>5, <3>1
  <2> QED
    BY <1>2, <2>3, <2>4, <2>5, <2>6 DEF ReceiveIInv
<1>10. CASE Receive!Removed
  <2>1. /\ writer = "remove" /\ at = "idle" /\ freed' = freed \cup {waits}
        /\ writer' = "idle" /\ waits' = NoPt /\ UNCHANGED <<list, handler, data>>
    BY <1>10 DEF Receive!Removed, Receive!Reading
  <2>2. ReceiveTypeOK'
    BY <1>3, <1>4, <1>6, <2>1
  <2>3. ListOK'
    BY <1>6, <2>1 DEF ListOK, Distinct, Receive!ToSet
  <2>4. HandlerOK'
    BY <1>1, <1>7, <2>1 DEF HandlerOK
  <2>5. PendingOK'
    BY <1>5, <1>6, <2>1
  <2> QED
    BY <1>2, <2>2, <2>3, <2>4, <2>5 DEF ReceiveIInv
<1>11. CASE Receive!RegisterData \/ Receive!RegisterHandler \/ Receive!UnregisterHandler \/ Receive!UnregisterData
  <2>1. /\ UNCHANGED <<list, freed, waits>> /\ writer # "remove"
        /\ writer' \in {"idle", "register", "unregister"}
    BY <1>11 DEF Receive!RegisterData, Receive!RegisterHandler, Receive!UnregisterHandler, Receive!UnregisterData, Receive!Change
  <2>2. handler' \in BOOLEAN /\ data' \in BOOLEAN
    BY <1>3, <1>11 DEF Receive!RegisterData, Receive!RegisterHandler, Receive!UnregisterHandler, Receive!UnregisterData
  <2>3. ReceiveTypeOK'
    BY <1>3, <1>4, <2>1, <2>2
  <2>4. ListOK'
    BY <1>6, <2>1 DEF ListOK, Distinct, Receive!ToSet
  <2>5. HandlerOK'
    <3>1. CASE Receive!RegisterData
      BY <1>1, <1>7, <3>1 DEF Receive!RegisterData, HandlerOK
    <3>2. CASE Receive!RegisterHandler
      BY <1>1, <1>7, <3>2 DEF Receive!RegisterHandler, HandlerOK
    <3>3. CASE Receive!UnregisterHandler
      BY <1>1, <1>7, <3>3 DEF Receive!UnregisterHandler, HandlerOK
    <3>4. CASE Receive!UnregisterData
      BY <1>1, <1>7, <3>4 DEF Receive!UnregisterData, HandlerOK, Receive!Reading
    <3> QED
      BY <1>11, <3>1, <3>2, <3>3, <3>4
  <2>6. PendingOK'
    BY <1>5, <1>6, <2>1
  <2> QED
    BY <1>2, <2>3, <2>4, <2>5, <2>6 DEF ReceiveIInv
<1> QED
  BY <1>8, <1>9, <1>10, <1>11, Zenon DEF Receive!Writer

\* What is offered to some is offered to them after all others, and in their order.
LEMMA OfferedIs == ASSUME CopyOK PROVE Receive!Offered \in Seq(Met)
  BY AtEnd DEF CopyOK, Receive!Offered

LEMMA OfferIs ==
  ASSUME CopyOK, NEW pts \in Seq(Met), Receive!Offer(pts)
  PROVE  CopyOK' /\ Receive!Offered' = Receive!Offered \o pts
<1>0. ASSUME NEW x \in Seq(Met), NEW y \in Seq(Met), NEW z \in Seq(Met)
      PROVE  (x \o y) \o z = x \o (y \o z)
  BY ConcatAssociative
<1>1. /\ denied \in Seq(Met) /\ given \in Seq(Met) /\ userFrags \in BOOLEAN
      /\ given # <<>> => ~userFrags /\ Len(pts) \in Nat
  BY DEF CopyOK
<1>2. CASE userFrags
  <2>1. given = <<>>
    BY <1>1, <1>2
  <2>2. PICK k \in 0 .. Len(pts) : /\ denied' = denied \o SubSeq(pts, 1, k)
                                  /\ given' = given \o SubSeq(pts, k + 1, Len(pts))
                                  /\ userFrags' = (userFrags /\ k = Len(pts))
    BY <1>2 DEF Receive!Offer
  <2> DEFINE a == SubSeq(pts, 1, k)
             b == SubSeq(pts, k + 1, Len(pts))
  <2>3. k \in Nat /\ k <= Len(pts)
    BY <1>1
  <2>4. a \in Seq(Met) /\ b \in Seq(Met) /\ a \o b = pts /\ (k = Len(pts) => b = <<>>)
    <3>1. a \in Seq(Met) /\ b \in Seq(Met)
      BY <1>1, <2>3, PartOfSeq
    <3>2. a \o b = SubSeq(pts, 1, Len(pts))
      <4>1. /\ 1 \in 1 .. Len(pts) + 1 /\ k \in 1 - 1 .. Len(pts)
            /\ Len(pts) \in k .. Len(pts)
        BY <1>1, <2>3
      <4> QED
        BY <4>1, ConcatAdjacentSubSeq
    <3>3. k = Len(pts) => b = <<>>
      BY <1>1, SubSeqEmpty
    <3> QED
      BY <3>1, <3>2, <3>3, SubSeqFull
  <2>5. denied' = denied \o a /\ given' = given \o b
    BY <2>2
  <2> HIDE DEF a, b
  <2>6. given' = b /\ denied \o a \in Seq(Met)
    BY <1>1, <2>1, <2>4, <2>5, ConcatEmptySeq, AtEnd
  <2>7. CopyOK'
    BY <1>1, <2>2, <2>4, <2>5, <2>6 DEF CopyOK
  <2>8. Receive!Offered' = (denied \o a) \o b
    BY <2>5, <2>6 DEF Receive!Offered
  <2>9. Receive!Offered = denied
    BY <1>1, <2>1, ConcatEmptySeq DEF Receive!Offered
  <2>10. (denied \o a) \o b = denied \o (a \o b)
    BY <1>1, <1>0, <2>4, Zenon
  <2> QED
    BY <2>4, <2>7, <2>8, <2>9, <2>10
<1>3. CASE ~userFrags
  <2>1. denied' = denied \o SubSeq(pts, 1, 0) /\ given' = given \o SubSeq(pts, 0 + 1, Len(pts))
        /\ userFrags' = FALSE
    <3>1. PICK k \in 0 .. 0 : /\ denied' = denied \o SubSeq(pts, 1, k)
                             /\ given' = given \o SubSeq(pts, k + 1, Len(pts))
                             /\ userFrags' = (userFrags /\ k = Len(pts))
      BY <1>3, Zenon DEF Receive!Offer
    <3>2. k = 0
      OBVIOUS
    <3> QED
      BY <1>3, <3>1, <3>2, Zenon
  <2>2. SubSeq(pts, 1, 0) = <<>> /\ SubSeq(pts, 0 + 1, Len(pts)) = pts
    BY SubSeqEmpty, SubSeqFull
  <2>3. denied' = denied /\ given' = given \o pts /\ given \o pts \in Seq(Met)
    BY <1>1, <2>1, <2>2, ConcatEmptySeq, AtEnd
  <2>4. CopyOK'
    <3>1. userFrags' \in BOOLEAN
      BY <2>1, Zenon
    <3> QED
      BY <1>1, <2>1, <2>3, <3>1, Zenon DEF CopyOK
  <2>5. denied \o (given \o pts) = (denied \o given) \o pts
    BY <1>1, <1>0, Zenon
  <2> QED
    BY <2>3, <2>4, <2>5 DEF Receive!Offered
<1> QED
  BY <1>1, <1>2, <1>3

\* What is pending is offered the packet.
LEMMA DeliverIs ==
  ASSUME Receive!ReceiveAssumption, ReceiveTypeOK, PendingOK, Receive!Deliver
  PROVE  CopyOK' /\ Receive!Offered' = seen
<1>1. CopyOK /\ dev \in Receive!Dev /\ ptPrev \in Pt \cup {NoPt}
  BY DEF ReceiveTypeOK
<1>2. CASE ptPrev = NoPt
  <2>1. Receive!Offer(<<>>) /\ <<>> \in Seq(Met)
    BY <1>2 DEF Receive!Deliver
  <2>2. CopyOK' /\ Receive!Offered' = Receive!Offered \o <<>>
    BY <1>1, <2>1, OfferIs
  <2> QED
    BY <1>1, <1>2, <2>2, OfferedIs DEF PendingOK
<1>3. CASE ptPrev # NoPt
  <2> DEFINE x == <<ptPrev, dev>>
  <2>1. Receive!Offer(<<x>>) /\ x \in Met
    BY <1>1, <1>3 DEF Receive!Deliver, Met
  <2>2. seen = Append(Receive!Offered, x)
    BY <1>3 DEF PendingOK
  <2> HIDE DEF x
  <2>3. CopyOK' /\ Receive!Offered' = Receive!Offered \o <<x>>
    <3>1. <<x>> \in Seq(Met)
      BY <2>1
    <3> QED
      BY <1>1, <2>1, <3>1, OfferIs
  <2> QED
    BY <1>1, <2>1, <2>2, <2>3, OfferedIs
<1> QED
  BY <1>2, <1>3

LEMMA OneIn == ASSUME NEW l \in {0, 1}, NEW k \in 1 .. l PROVE k = 1 /\ l = 1
  OBVIOUS

\* A walk of lists nothing has been met of on this device.
LEMMA WalkIs ==
  ASSUME Receive!ReceiveAssumption, ReceiveTypeOK, ListOK, PendingOK, Distinct(seen), NEW hs, Receive!Walk(hs),
         \A i \in 1 .. Len(seen) : ~(seen[i][2] = dev /\ HeadOf[seen[i][1]] \in hs)
  PROVE  /\ seen' \in Seq(Met) /\ CopyOK' /\ ptPrev' \in Pt \cup {NoPt}
         /\ Distinct(seen')
         /\ ptPrev' # NoPt => ptPrev' \in Receive!ToSet(list) \/ (writer = "remove" /\ waits = ptPrev')
         /\ ptPrev' = NoPt => seen' = Receive!Offered'
         /\ ptPrev' # NoPt => seen' = Append(Receive!Offered', <<ptPrev', dev>>)
         /\ \A i \in 1 .. Len(seen') : \/ \E j \in 1 .. Len(seen) : seen'[i] = seen[j]
                                       \/ seen'[i][2] = dev /\ HeadOf[seen'[i][1]] \in hs
<1> DEFINE m == Receive!Matching(hs)
           first == IF ptPrev = NoPt THEN <<>> ELSE <<ptPrev>>
           inTurn == first \o m
           met == [i \in 1 .. Len(m) |-> <<m[i], dev>>]
           got == [i \in 1 .. Len(inTurn) - 1 |-> <<inTurn[i], dev>>]
<1>1. /\ list \in Seq(Pt) /\ seen \in Seq(Met) /\ Receive!Offered \in Seq(Met) /\ dev \in Receive!Dev
      /\ ptPrev \in Pt \cup {NoPt} /\ NoPt \notin Pt /\ CopyOK
  BY OfferedIs DEF Receive!ReceiveAssumption, ReceiveTypeOK
<1>2. /\ m \in Seq(Pt) /\ Distinct(m)
      /\ \A i \in 1 .. Len(m) : m[i] \in Receive!ToSet(list) /\ HeadOf[m[i]] \in hs
  <2> DEFINE P == {pt \in Pt : HeadOf[pt] \in hs /\ pt # sender}
  <2>1. m = Receive!Only(list, P)
    BY DEF Receive!Matching
  <2>2. Distinct(list)
    BY DEF ListOK
  <2>3. m \in Seq(Pt) /\ Receive!ToSet(m) = Receive!ToSet(list) \cap P
    BY <1>1, <2>1, OnlyIs, ReceiveOnly
  <2>4. Distinct(m)
    BY <1>1, <2>1, <2>2, OnlyDistinct, ReceiveOnly
  <2> HIDE DEF m
  <2>5. \A i \in 1 .. Len(m) : m[i] \in Receive!ToSet(m)
    BY <2>3 DEF Receive!ToSet
  <2> QED
    BY <2>3, <2>4, <2>5
<1>3. CASE m = <<>>
  <2>1. UNCHANGED <<ptPrev, seen>> /\ Receive!Offered' = Receive!Offered /\ CopyOK'
    BY <1>1, <1>3, OfferKept DEF Receive!Walk
  <2> QED
    BY <1>1, <2>1 DEF PendingOK, Distinct
<1>4. CASE m # <<>>
  <2>1. ptPrev' = Receive!Last(inTurn) /\ Receive!Offer(got) /\ seen' = seen \o met
    BY <1>4 DEF Receive!Walk
  <2>2. Len(m) \in Nat \ {0} /\ \A i \in 1 .. Len(m) : m[i] \in Pt
    <3> HIDE DEF m
    <3> QED BY <1>2, <1>4
  <2> HIDE DEF m
  <2>3. first \in Seq(Pt) /\ Len(first) \in {0, 1}
        /\ (ptPrev = NoPt => Len(first) = 0) /\ (ptPrev # NoPt => Len(first) = 1 /\ first[1] = ptPrev)
    BY <1>1
  <2>4. /\ seen = Receive!Offered \/ ptPrev # NoPt
        /\ Len(seen) = Len(Receive!Offered) + Len(first)
        /\ \A i \in 1 .. Len(Receive!Offered) : seen[i] = Receive!Offered[i]
        /\ Len(first) = 1 => seen[Len(Receive!Offered) + 1] = <<first[1], dev>>
    <3>1. CASE ptPrev = NoPt
      BY <1>1, <2>3, <3>1 DEF PendingOK
    <3>2. CASE ptPrev # NoPt
      <4>1. seen = Append(Receive!Offered, <<ptPrev, dev>>) /\ <<ptPrev, dev>> \in Met
        BY <1>1, <3>2 DEF PendingOK, Met
      <4>2. Len(seen) = Len(Receive!Offered) + 1 /\ seen[Len(Receive!Offered) + 1] = <<ptPrev, dev>>
            /\ \A i \in 1 .. Len(Receive!Offered) : seen[i] = Receive!Offered[i]
        BY <1>1, <4>1, OneMoreAtEnd
      <4> QED
        BY <2>3, <3>2, <4>2
    <3> QED
      BY <3>1, <3>2
  <2> HIDE DEF first
  <2>5. /\ inTurn \in Seq(Pt) /\ Len(inTurn) = Len(first) + Len(m)
        /\ \A i \in 1 .. Len(first) : inTurn[i] = first[i]
        /\ \A i \in Len(first) + 1 .. Len(first) + Len(m) : inTurn[i] = m[i - Len(first)]
    BY <1>2, <2>3, AtEnd
  <2> HIDE DEF inTurn
  <2>6. /\ met \in Seq(Met) /\ Len(met) = Len(m) /\ \A i \in 1 .. Len(m) : met[i] = <<m[i], dev>>
    BY <1>1, <2>2 DEF Met
  <2> DEFINE n == Len(inTurn)
  <2>7. n \in Nat \ {0} /\ \A i \in 1 .. n : inTurn[i] \in Pt
    BY <2>2, <2>3, <2>5
  <2>8. /\ got \in Seq(Met) /\ Len(got) = n - 1 /\ \A i \in 1 .. n - 1 : got[i] = <<inTurn[i], dev>>
    <3>1. n - 1 \in Nat /\ \A i \in 1 .. n - 1 : i \in 1 .. n
      BY <2>7
    <3> HIDE DEF n
    <3>2. got = [i \in 1 .. n - 1 |-> <<inTurn[i], dev>>]
      BY DEF n
    <3>3. \A i \in 1 .. n - 1 : <<inTurn[i], dev>> \in Met
      BY <1>1, <2>7, <3>1 DEF Met
    <3> HIDE DEF got
    <3> QED
      BY <3>1, <3>2, <3>3
  <2> HIDE DEF met, got
  <2>9. /\ seen' \in Seq(Met) /\ Len(seen') = Len(seen) + Len(m)
        /\ \A i \in 1 .. Len(seen) : seen'[i] = seen[i]
        /\ \A i \in Len(seen) + 1 .. Len(seen) + Len(m) : seen'[i] = <<m[i - Len(seen)], dev>>
    <3>1. /\ seen \o met \in Seq(Met) /\ Len(seen \o met) = Len(seen) + Len(met)
          /\ \A i \in 1 .. Len(seen) : (seen \o met)[i] = seen[i]
          /\ \A i \in Len(seen) + 1 .. Len(seen) + Len(met) : (seen \o met)[i] = met[i - Len(seen)]
      BY <1>1, <2>6, AtEnd, ZenonT(40)
    <3>2. \A i \in Len(seen) + 1 .. Len(seen) + Len(m) : i - Len(seen) \in 1 .. Len(m)
      BY <1>1, <2>2
    <3> QED
      BY <2>1, <2>6, <3>1, <3>2
  <2>9a. CopyOK' /\ Receive!Offered' = Receive!Offered \o got
    BY <1>1, <2>1, <2>8, OfferIs
  <2>10. /\ Receive!Offered' \in Seq(Met) /\ Len(Receive!Offered') = Len(Receive!Offered) + (n - 1)
         /\ \A i \in 1 .. Len(Receive!Offered) : Receive!Offered'[i] = Receive!Offered[i]
         /\ \A i \in Len(Receive!Offered) + 1 .. Len(Receive!Offered) + (n - 1) : Receive!Offered'[i] = <<inTurn[i - Len(Receive!Offered)], dev>>
    <3>1. /\ Receive!Offered \o got \in Seq(Met) /\ Len(Receive!Offered \o got) = Len(Receive!Offered) + Len(got)
          /\ \A i \in 1 .. Len(Receive!Offered) : (Receive!Offered \o got)[i] = Receive!Offered[i]
          /\ \A i \in Len(Receive!Offered) + 1 .. Len(Receive!Offered) + Len(got) : (Receive!Offered \o got)[i] = got[i - Len(Receive!Offered)]
      BY <1>1, <2>8, AtEnd
    <3>2. \A i \in Len(Receive!Offered) + 1 .. Len(Receive!Offered) + (n - 1) : i - Len(Receive!Offered) \in 1 .. n - 1
      BY <1>1, <2>7
    <3> QED
      BY <2>8, <2>9a, <3>1, <3>2
  <2>11. ptPrev' = inTurn[n] /\ ptPrev' = m[Len(m)]
    <3>1. n \in Len(first) + 1 .. Len(first) + Len(m) /\ n - Len(first) = Len(m)
      BY <2>2, <2>3, <2>5
    <3> QED
      BY <2>1, <2>5, <3>1 DEF Receive!Last
  <2>12. Len(m) \in 1 .. Len(m)
    BY <2>2
  <2>13. ptPrev' \in Pt /\ ptPrev' \in Receive!ToSet(list) /\ ptPrev' # NoPt
    BY <1>1, <1>2, <2>2, <2>11, <2>12
  <2>14. Len(seen) \in Nat /\ Len(Receive!Offered) \in Nat
    BY <1>1
  <2>15. \A i \in 1 .. Len(seen') : \/ i \in 1 .. Len(seen)
                                    \/ i \in Len(seen) + 1 .. Len(seen) + Len(m)
                                       /\ i - Len(seen) \in 1 .. Len(m)
    BY <2>2, <2>9, <2>14
  <2>16. ASSUME NEW i \in 1 .. Len(seen')
         PROVE  \/ i \in 1 .. Len(seen) /\ seen'[i] = seen[i]
                \/ /\ i - Len(seen) \in 1 .. Len(m) /\ seen'[i] = <<m[i - Len(seen)], dev>>
                   /\ seen'[i][2] = dev /\ HeadOf[seen'[i][1]] \in hs
    BY <1>2, <2>9, <2>15
  <2>17. Distinct(seen')
    <3> SUFFICES ASSUME NEW i \in 1 .. Len(seen'), NEW j \in 1 .. Len(seen'), i # j
                 PROVE  seen'[i] # seen'[j]
      BY DEF Distinct
    <3>1. CASE i \in 1 .. Len(seen) /\ seen'[i] = seen[i] /\ j \in 1 .. Len(seen) /\ seen'[j] = seen[j]
      BY <3>1 DEF Distinct
    <3>2. CASE /\ i \in 1 .. Len(seen) /\ seen'[i] = seen[i]
               /\ seen'[j][2] = dev /\ HeadOf[seen'[j][1]] \in hs
      BY <3>2
    <3>3. CASE /\ j \in 1 .. Len(seen) /\ seen'[j] = seen[j]
               /\ seen'[i][2] = dev /\ HeadOf[seen'[i][1]] \in hs
      BY <3>3
    <3>4. CASE /\ i - Len(seen) \in 1 .. Len(m) /\ seen'[i] = <<m[i - Len(seen)], dev>>
               /\ j - Len(seen) \in 1 .. Len(m) /\ seen'[j] = <<m[j - Len(seen)], dev>>
      <4>1. i - Len(seen) # j - Len(seen)
        BY <2>9, <2>14
      <4>2. m[i - Len(seen)] # m[j - Len(seen)]
        BY <1>2, <3>4, <4>1 DEF Distinct
      <4> QED
        BY <3>4, <4>2
    <3> QED
      BY <2>16, <3>1, <3>2, <3>3, <3>4
  <2>18. seen' = Append(Receive!Offered', <<ptPrev', dev>>)
    <3> DEFINE x == <<ptPrev', dev>>
               r == Append(Receive!Offered', x)
    <3>1. x \in Met
      BY <1>1, <2>13 DEF Met
    <3>2. /\ r \in Seq(Met) /\ Len(r) = Len(Receive!Offered') + 1 /\ r[Len(Receive!Offered') + 1] = x
          /\ \A i \in 1 .. Len(Receive!Offered') : r[i] = Receive!Offered'[i]
      BY <2>10, <3>1, OneMoreAtEnd
    <3> HIDE DEF r
    <3>3. Len(r) = Len(Receive!Offered) + n /\ Len(seen') = Len(Receive!Offered) + n
      BY <2>2, <2>3, <2>4, <2>5, <2>7, <2>9, <2>10, <2>14, <3>2
    <3>4. ASSUME NEW i \in 1 .. Len(Receive!Offered) + n PROVE seen'[i] = r[i]
      <4>1. CASE i \in 1 .. Len(Receive!Offered)
        <5>1. i \in 1 .. Len(Receive!Offered') /\ i \in 1 .. Len(seen)
          BY <2>3, <2>4, <2>7, <2>10, <2>14, <4>1
        <5> QED
          BY <2>4, <2>9, <2>10, <3>2, <4>1, <5>1
      <4>2. CASE i \in Len(Receive!Offered) + 1 .. Len(Receive!Offered) + n
        <5> DEFINE k == i - Len(Receive!Offered)
        <5>1. k \in 1 .. n
          BY <2>7, <2>14, <4>2
        <5>2. r[i] = <<inTurn[k], dev>>
          <6>1. CASE k = n
            <7>1. i = Len(Receive!Offered') + 1
              BY <2>7, <2>10, <2>14, <4>2, <6>1
            <7> QED
              BY <2>11, <3>2, <6>1, <7>1
          <6>2. CASE k # n
            <7>1. i \in Len(Receive!Offered) + 1 .. Len(Receive!Offered) + (n - 1) /\ i \in 1 .. Len(Receive!Offered')
              BY <2>7, <2>10, <2>14, <4>2, <6>2
            <7> QED
              BY <2>10, <3>2, <7>1
          <6> QED
            BY <6>1, <6>2
        <5>3. seen'[i] = <<inTurn[k], dev>>
          <6>1. CASE k \in 1 .. Len(first)
            <7>1. k = 1 /\ Len(first) = 1
              BY <2>3, <6>1, OneIn
            <7>2. i = Len(Receive!Offered) + 1 /\ i \in 1 .. Len(seen)
              BY <2>4, <2>14, <4>2, <7>1
            <7>3. seen'[i] = seen[Len(Receive!Offered) + 1]
              BY <2>9, <7>2
            <7>4. inTurn[k] = first[1]
              BY <2>5, <6>1, <7>1
            <7> QED
              BY <2>4, <7>1, <7>3, <7>4
          <6>2. CASE k \notin 1 .. Len(first)
            <7>1. /\ k \in Len(first) + 1 .. Len(first) + Len(m)
                  /\ i \in Len(seen) + 1 .. Len(seen) + Len(m)
                  /\ k - Len(first) = i - Len(seen)
              BY <2>2, <2>3, <2>4, <2>5, <2>14, <4>2, <5>1, <6>2
            <7> QED
              BY <2>5, <2>9, <7>1
          <6> QED
            BY <6>1, <6>2
        <5> QED
          BY <5>2, <5>3
      <4> QED
        BY <2>7, <2>14, <4>1, <4>2
    <3>5. \A i \in 1 .. Len(seen') : seen'[i] = r[i]
      BY <3>3, <3>4
    <3>6. seen' = r
      BY <2>9, <3>2, <3>3, <3>5, SeqEqual
    <3> QED
      BY <3>6 DEF r
  <2> QED
    BY <2>9, <2>9a, <2>13, <2>16, <2>17, <2>18
<1> QED
  BY <1>3, <1>4

\* A step of the CPU keeps the invariant if it keeps what it can disturb.
LEMMA ReaderKeeps ==
  ASSUME ReceiveIInv, UNCHANGED Receive!listVars,
         at' \in Inside \cup {"idle", "last", "nit", "nit dev", "nit last"},
         sender' \in Pt \cup {NoPt}, dev' \in Receive!Dev, own' \in {0, 1}, exact' \in BOOLEAN,
         ptPrev' \in Pt \cup {NoPt}, seen' \in Seq(Met), CopyOK',
         skb' \in [tagged : BOOLEAN, pfmemalloc : BOOLEAN],
         at' = "handler" => data,
         PendingOK', MetOK', ReserveOK'
  PROVE  ReceiveIInv'
<1>1. UNCHANGED <<list, freed, handler, data, writer, waits>>
  BY DEF Receive!listVars
<1>2. ReceiveTypeOK /\ ListOK /\ HandlerOK
  BY DEF ReceiveIInv
<1>3. ReceiveTypeOK'
  <2>1. /\ list' \in Seq(Pt) /\ freed' \subseteq Pt
        /\ writer' \in {"idle", "remove", "register", "unregister"} /\ waits' \in Pt \cup {NoPt}
    BY <1>1, <1>2 DEF ReceiveTypeOK
  <2>2. handler' \in BOOLEAN /\ data' \in BOOLEAN
    BY <1>1, <1>2, Zenon DEF ReceiveTypeOK
  <2>3. Inside' = Inside /\ Met' = Met /\ Receive!Dev' = Receive!Dev
    BY DEF Inside, Met, Receive!Dev
  <2> QED
    BY <2>1, <2>2, <2>3, Zenon DEF ReceiveTypeOK
<1>4. ListOK'
  <2>1. Distinct(list)' /\ Receive!ToSet(list)' = Receive!ToSet(list)
    BY <1>1, <1>2, ZenonT(40) DEF ListOK, Distinct, Receive!ToSet
  <2> QED
    BY <1>1, <1>2, <2>1 DEF ListOK
<1>5. HandlerOK'
  BY <1>1, <1>2 DEF HandlerOK
<1> QED
  BY <1>3, <1>4, <1>5 DEF ReceiveIInv

\* A packet arrives or goes out.
LEMMA BeginOK ==
  ASSUME Receive!ReceiveAssumption, ReceiveIInv,
         \/ \E t, p, f, n \in BOOLEAN : Receive!Receive(t, p, f, n)
         \/ \E pt \in Receive!Tap \cup {NoPt} : Receive!XmitOne(pt)
  PROVE  ReceiveIInv'
<1>1. /\ UNCHANGED Receive!listVars /\ dev' = LowerDev /\ ptPrev' = NoPt /\ seen' = <<>>
      /\ denied' = <<>> /\ given' = <<>>
      /\ own' \in {0, 1} /\ at' \in {"vlan", "taps", "nit"}
  BY DEF Receive!Receive, Receive!XmitOne
<1>2. exact' \in BOOLEAN
  <2>1. exact' = FALSE
    BY Zenon DEF Receive!Receive, Receive!XmitOne
  <2> QED
    BY <2>1, Zenon
<1>3. skb' \in [tagged : BOOLEAN, pfmemalloc : BOOLEAN]
  <2>1. CASE \E t, p, f, n \in BOOLEAN : Receive!Receive(t, p, f, n)
    <3>1. PICK t \in BOOLEAN, p \in BOOLEAN : skb' = [tagged |-> t, pfmemalloc |-> p]
      BY <2>1 DEF Receive!Receive
    <3> QED
      BY <3>1
  <2>2. CASE \E pt \in Receive!Tap \cup {NoPt} : Receive!XmitOne(pt)
    <3>1. skb' = [tagged |-> FALSE, pfmemalloc |-> FALSE]
      BY <2>2 DEF Receive!XmitOne
    <3> QED
      BY <3>1
  <2> QED
    BY <2>1, <2>2
<1>4. sender' \in Pt \cup {NoPt}
  <2>1. sender \in Pt \cup {NoPt}
    BY DEF ReceiveIInv, ReceiveTypeOK
  <2> QED
    BY <2>1 DEF Receive!Receive, Receive!XmitOne, Receive!Tap
<1>5. Len(seen') = 0 /\ seen' \in Seq(Met) /\ Receive!Offered' = <<>> /\ CopyOK'
  <2>1. userFrags' \in BOOLEAN
    <3>1. CASE \E t, p, f, n \in BOOLEAN : Receive!Receive(t, p, f, n)
      BY <3>1 DEF Receive!Receive
    <3>2. CASE \E pt \in Receive!Tap \cup {NoPt} : Receive!XmitOne(pt)
      BY <3>2 DEF Receive!XmitOne
    <3> QED
      BY <3>1, <3>2
  <2> QED
    BY <1>1, <2>1 DEF CopyOK, Receive!Offered
<1>6. PendingOK' /\ MetOK' /\ ReserveOK'
  BY <1>1, <1>5 DEF PendingOK, MetOK, ReserveOK, Distinct
<1> QED
  BY <1>1, <1>2, <1>3, <1>4, <1>5, <1>6, ReaderKeeps DEF Inside, Receive!Dev

\* What the invariant says of where the packet has been.
LEMMA WhereItWas ==
  ASSUME Receive!ReceiveAssumption, ReceiveIInv
  PROVE  /\ list \in Seq(Pt) /\ sender \in Pt \cup {NoPt} /\ dev \in Receive!Dev /\ own \in {0, 1}
         /\ ptPrev \in Pt \cup {NoPt} /\ seen \in Seq(Met) /\ CopyOK
         /\ Receive!Offered \in Seq(Met)
         /\ skb \in [tagged : BOOLEAN, pfmemalloc : BOOLEAN] /\ LowerDev # UpperDev /\ NoPt \notin Pt
         /\ Distinct(seen) /\ PendingOK /\ MetOK /\ ReserveOK
  BY OfferedIs DEF Receive!ReceiveAssumption, ReceiveIInv, ReceiveTypeOK, MetOK

\* The walks: past the taps, to the protocols, of a packet that is sent.
LEMMA TapsOK == ASSUME Receive!ReceiveAssumption, ReceiveIInv, Receive!Taps PROVE ReceiveIInv'
<1>1. /\ at = "taps" /\ at' = "ingress" /\ UNCHANGED <<Receive!listVars, sender, dev, skb, exact, own>>
  BY DEF Receive!Taps
<1>2. exact' \in BOOLEAN
  BY <1>1, Zenon DEF ReceiveIInv, ReceiveTypeOK
<1>3. CASE skb.pfmemalloc
  <2>0. UNCHANGED <<ptPrev, seen, Receive!offer>>
    BY <1>3, Zenon DEF Receive!Taps
  <2>1. UNCHANGED <<ptPrev, seen>> /\ CopyOK' /\ Receive!Offered' = Receive!Offered
    BY <2>0, OfferKept, WhereItWas
  <2>2. PendingOK'
    BY <1>1, <2>1, WhereItWas DEF PendingOK, Receive!listVars, Receive!ToSet
  <2>3. MetOK'
    <3>1. Distinct(seen)'
      BY <2>1, WhereItWas DEF Distinct
    <3> QED
      BY <1>1, <2>1, <3>1, WhereItWas DEF MetOK, Inside, TapHeads
  <2>4. ReserveOK'
    <3>1. seen = <<>> /\ ptPrev = NoPt
      BY <1>1, <1>3, WhereItWas, Zenon DEF ReserveOK, Inside
    <3> QED
      BY <2>1, <3>1 DEF ReserveOK
  <2> QED
    BY <1>1, <1>2, <2>1, <2>2, <2>3, <2>4, ReaderKeeps, WhereItWas DEF Inside
<1>4. CASE ~skb.pfmemalloc
  <2> DEFINE hs == {<<"all">>, <<"all", dev>>}
  <2>1. Receive!Walk(hs)
    BY <1>4, Zenon DEF Receive!Taps
  <2>2. \A i \in 1 .. Len(seen) : seen[i][2] # dev
    BY <1>1, WhereItWas DEF MetOK
  <2>3. ListOK /\ ReceiveTypeOK
    BY DEF ReceiveIInv
  <2>4. hs \subseteq TapHeads
    BY WhereItWas DEF TapHeads, Receive!Dev
  <2> HIDE DEF hs
  <2>5. /\ seen' \in Seq(Met) /\ CopyOK' /\ ptPrev' \in Pt \cup {NoPt}
        /\ Distinct(seen')
        /\ ptPrev' # NoPt => ptPrev' \in Receive!ToSet(list) \/ (writer = "remove" /\ waits = ptPrev')
        /\ ptPrev' = NoPt => seen' = Receive!Offered'
        /\ ptPrev' # NoPt => seen' = Append(Receive!Offered', <<ptPrev', dev>>)
        /\ \A i \in 1 .. Len(seen') : \/ \E j \in 1 .. Len(seen) : seen'[i] = seen[j]
                                      \/ seen'[i][2] = dev /\ HeadOf[seen'[i][1]] \in hs
    BY <2>1, <2>2, <2>3, WalkIs, WhereItWas
  <2>6. PendingOK'
    BY <1>1, <2>5 DEF PendingOK, Receive!listVars, Receive!ToSet
  <2>7. MetOK'
    <3>1. Distinct(seen)'
      BY <2>5 DEF Distinct
    <3>2. ASSUME NEW i \in 1 .. Len(seen')
          PROVE  (dev = LowerDev => seen'[i][2] = LowerDev) /\ HeadOf[seen'[i][1]] \in TapHeads
      <4>1. CASE \E j \in 1 .. Len(seen) : seen'[i] = seen[j]
        <5>1. PICK j \in 1 .. Len(seen) : seen'[i] = seen[j]
          BY <4>1
        <5>2. (dev = LowerDev => seen[j][2] = LowerDev) /\ HeadOf[seen[j][1]] \in TapHeads
          BY <1>1, WhereItWas DEF MetOK, Inside
        <5> QED
          BY <5>1, <5>2
      <4>2. CASE seen'[i][2] = dev /\ HeadOf[seen'[i][1]] \in hs
        BY <2>4, <4>2
      <4> QED
        BY <2>5, <4>1, <4>2
    <3>3. TapHeads' = TapHeads
      BY DEF TapHeads
    <3> QED
      BY <1>1, <3>1, <3>2, <3>3 DEF MetOK
  <2>8. ReserveOK'
    BY <1>1, <1>4, Zenon DEF ReserveOK
  <2> QED
    BY <1>1, <1>2, <2>5, <2>6, <2>7, <2>8, ReaderKeeps, WhereItWas DEF Inside
<1> QED
  BY <1>3, <1>4

LEMMA ProtocolsOK == ASSUME Receive!ReceiveAssumption, ReceiveIInv, Receive!Protocols PROVE ReceiveIInv'
<1>1. /\ at = "untag" /\ at' = "last" /\ UNCHANGED <<Receive!listVars, sender, dev, skb, exact, own>>
  BY DEF Receive!Protocols
<1>2. exact' \in BOOLEAN
  BY <1>1, Zenon DEF ReceiveIInv, ReceiveTypeOK
<1> DEFINE bound == {<<"specific", LowerDev>>, <<"specific", dev>>}
           hs == bound \cup IF exact THEN {} ELSE {<<"base">>}
<1>3. Receive!Walk(hs)
  BY DEF Receive!Protocols
<1>4. \A h \in hs : h \in bound \cup {<<"base">>}
  <2>1. CASE exact
    BY <2>1, Zenon
  <2>2. CASE ~exact
    BY <2>2, Zenon
  <2> QED
    BY <2>1, <2>2
<1>5. \A h \in TapHeads : h \notin bound \cup {<<"base">>}
  BY DEF TapHeads
<1> HIDE DEF hs
<1>6. \A i \in 1 .. Len(seen) : HeadOf[seen[i][1]] \in TapHeads
  BY <1>1, WhereItWas DEF MetOK, Inside
<1>7. \A i \in 1 .. Len(seen) : ~(seen[i][2] = dev /\ HeadOf[seen[i][1]] \in hs)
  BY <1>4, <1>5, <1>6
<1>8. ListOK /\ ReceiveTypeOK
  BY DEF ReceiveIInv
<1>9. /\ seen' \in Seq(Met) /\ CopyOK' /\ ptPrev' \in Pt \cup {NoPt}
      /\ Distinct(seen')
      /\ ptPrev' # NoPt => ptPrev' \in Receive!ToSet(list) \/ (writer = "remove" /\ waits = ptPrev')
      /\ ptPrev' = NoPt => seen' = Receive!Offered'
      /\ ptPrev' # NoPt => seen' = Append(Receive!Offered', <<ptPrev', dev>>)
      /\ \A i \in 1 .. Len(seen') : \/ \E j \in 1 .. Len(seen) : seen'[i] = seen[j]
                                    \/ seen'[i][2] = dev /\ HeadOf[seen'[i][1]] \in hs
  BY <1>3, <1>7, <1>8, WalkIs, WhereItWas
<1>10. PendingOK'
  BY <1>1, <1>9 DEF PendingOK, Receive!listVars, Receive!ToSet
<1>11. MetOK'
  <2>1. Distinct(seen)'
    BY <1>9 DEF Distinct
  <2>2. ASSUME NEW i \in 1 .. Len(seen'), dev = LowerDev PROVE seen'[i][2] = LowerDev
    BY <1>9, <2>2, WhereItWas DEF MetOK
  <2> QED
    BY <1>1, <2>1, <2>2 DEF MetOK, Inside
<1>12. ReserveOK'
  BY <1>1 DEF ReserveOK, Inside
<1> QED
  BY <1>1, <1>2, <1>9, <1>10, <1>11, <1>12, ReaderKeeps, WhereItWas

LEMMA NitOK == ASSUME Receive!ReceiveAssumption, ReceiveIInv, Receive!Nit PROVE ReceiveIInv'
<1>1. /\ at \in {"nit", "nit dev"} /\ at' = Receive!NitNext /\ UNCHANGED <<Receive!listVars, sender, dev, skb, exact>>
      /\ Receive!Walk({Receive!NitHead}) /\ own' \in {0, 1}
  BY WhereItWas DEF Receive!Nit
<1>2. exact' \in BOOLEAN
  BY <1>1, Zenon DEF ReceiveIInv, ReceiveTypeOK
<1>3. \A i \in 1 .. Len(seen) : ~(seen[i][2] = dev /\ HeadOf[seen[i][1]] \in {Receive!NitHead})
  <2>1. CASE at = "nit"
    BY <2>1, WhereItWas DEF MetOK
  <2>2. CASE at = "nit dev"
    <3>1. Receive!NitHead = <<"all", dev>>
      BY <2>2 DEF Receive!NitHead
    <3>2. \A i \in 1 .. Len(seen) : HeadOf[seen[i][1]] = <<"all">>
      BY <2>2, WhereItWas DEF MetOK
    <3>3. <<"all">> # <<"all", dev>>
      OBVIOUS
    <3>4. \A h : h \in {Receive!NitHead} => h = <<"all", dev>>
      BY <3>1, Zenon
    <3> QED
      BY <3>2, <3>3, <3>4, Zenon
  <2> QED
    BY <1>1, <2>1, <2>2
<1>4. ListOK /\ ReceiveTypeOK
  BY DEF ReceiveIInv
<1> DEFINE hs == {Receive!NitHead}
<1>5. \A h \in hs : h = Receive!NitHead
  OBVIOUS
<1>6. Receive!Walk(hs) /\ \A i \in 1 .. Len(seen) : ~(seen[i][2] = dev /\ HeadOf[seen[i][1]] \in hs)
  BY <1>1, <1>3
<1> HIDE DEF hs
<1>7. /\ seen' \in Seq(Met) /\ CopyOK' /\ ptPrev' \in Pt \cup {NoPt}
      /\ Distinct(seen')
      /\ ptPrev' # NoPt => ptPrev' \in Receive!ToSet(list) \/ (writer = "remove" /\ waits = ptPrev')
      /\ ptPrev' = NoPt => seen' = Receive!Offered'
      /\ ptPrev' # NoPt => seen' = Append(Receive!Offered', <<ptPrev', dev>>)
      /\ \A i \in 1 .. Len(seen') : \/ \E j \in 1 .. Len(seen) : seen'[i] = seen[j]
                                    \/ seen'[i][2] = dev /\ HeadOf[seen'[i][1]] \in hs
  BY <1>4, <1>6, WalkIs, WhereItWas
<1>8. /\ at = "nit" => at' = "nit dev" /\ Receive!NitHead = <<"all">> /\ seen = <<>>
      /\ at = "nit dev" => at' = "nit last"
  BY <1>1, WhereItWas DEF Receive!NitNext, Receive!NitHead, MetOK
<1>9. PendingOK'
  BY <1>1, <1>7, <1>8 DEF PendingOK, Receive!listVars, Receive!ToSet
<1>10. MetOK'
  <2>1. Distinct(seen)'
    BY <1>7 DEF Distinct
  <2>2. ASSUME NEW i \in 1 .. Len(seen'), dev = LowerDev PROVE seen'[i][2] = LowerDev
    BY <1>7, <2>2, WhereItWas DEF MetOK
  <2>3. ASSUME NEW i \in 1 .. Len(seen'), at' = "nit dev" PROVE HeadOf[seen'[i][1]] = <<"all">>
    <3>1. at = "nit" /\ seen = <<>> /\ Receive!NitHead = <<"all">>
      BY <1>1, <1>8, <2>3
    <3>2. HeadOf[seen'[i][1]] \in hs
      BY <1>7, <3>1
    <3> QED
      BY <1>5, <3>1, <3>2
  <2> QED
    BY <1>1, <1>8, <2>1, <2>2, <2>3 DEF MetOK, Inside
<1>11. ReserveOK'
  BY <1>1, <1>8 DEF ReserveOK, Inside
<1>12. at' \in {"nit dev", "nit last"}
  BY <1>1, <1>8
<1> QED
  BY <1>1, <1>2, <1>7, <1>9, <1>10, <1>11, <1>12, ReaderKeeps, WhereItWas

\* The steps that meet nobody: what is pending stays so, or gets the packet.
LEMMA MeetsNobody ==
  ASSUME Receive!ReceiveAssumption, ReceiveIInv, UNCHANGED Receive!listVars, seen' = seen,
         \/ UNCHANGED <<ptPrev, Receive!offer, dev>> /\ (at' = "idle" => ptPrev = NoPt)
         \/ Receive!Deliver /\ ptPrev' = NoPt,
         at' \in {"idle", "taps", "ingress", "vlan", "deref", "handler", "untag"},
         at' # "idle" => at \in Inside /\ skb'.pfmemalloc = skb.pfmemalloc,
         sender' \in Pt \cup {NoPt}, own' \in {0, 1}, exact' \in BOOLEAN,
         skb' \in [tagged : BOOLEAN, pfmemalloc : BOOLEAN],
         \/ dev' = dev /\ at' # "taps"
         \/ dev = LowerDev /\ dev' = UpperDev,
         at' = "handler" => data /\ dev' = LowerDev
  PROVE  ReceiveIInv'
<1>1. UNCHANGED <<list, writer, waits>>
  BY DEF Receive!listVars
<1>2. ReceiveTypeOK /\ PendingOK
  BY DEF ReceiveIInv
<1>4. CopyOK' /\ ptPrev' \in Pt \cup {NoPt}
  <2>1. CASE UNCHANGED <<ptPrev, Receive!offer, dev>>
    BY <2>1, OfferKept, WhereItWas
  <2>2. CASE Receive!Deliver /\ ptPrev' = NoPt
    BY <1>2, <2>2, DeliverIs
  <2> QED
    BY <2>1, <2>2
<1>5. PendingOK'
  <2>1. CASE UNCHANGED <<ptPrev, Receive!offer, dev>> /\ (at' = "idle" => ptPrev = NoPt)
    <3>1. Receive!ToSet(list)' = Receive!ToSet(list)
      BY <1>1 DEF Receive!ToSet
    <3>2. Receive!Offered' = Receive!Offered
      BY <2>1, OfferKept, WhereItWas
    <3> QED
      BY <1>1, <1>2, <2>1, <3>1, <3>2 DEF PendingOK
  <2>2. CASE Receive!Deliver /\ ptPrev' = NoPt
    <3>1. Receive!Offered' = seen
      BY <1>2, <2>2, DeliverIs
    <3> QED
      BY <2>2, <3>1 DEF PendingOK
  <2> QED
    BY <2>1, <2>2
<1>6. MetOK'
  <2>1. Distinct(seen)'
    BY WhereItWas DEF Distinct
  <2>2. dev' = LowerDev => dev = LowerDev
    BY WhereItWas
  <2>3. at' = "taps" => dev = LowerDev /\ dev' = UpperDev
    OBVIOUS
  <2>4. at' \in Inside => at \in Inside
    BY DEF Inside
  <2>5. at' # "nit" /\ at' # "nit dev"
    OBVIOUS
  <2>6. Inside' = Inside /\ TapHeads' = TapHeads
    BY DEF Inside, TapHeads
  <2> QED
    BY <2>1, <2>2, <2>3, <2>4, <2>5, <2>6, WhereItWas DEF MetOK
<1>7. ReserveOK'
  <2>1. at' \in Inside => at' # "idle" /\ at \in Inside /\ skb'.pfmemalloc = skb.pfmemalloc
    BY DEF Inside
  <2>2. Inside' = Inside
    BY DEF Inside
  <2>3. ptPrev' = NoPt \/ ptPrev' = ptPrev
    OBVIOUS
  <2>4. at \in Inside /\ skb.pfmemalloc => seen = <<>> /\ ptPrev = NoPt
    BY WhereItWas, Zenon DEF ReserveOK
  <2>5. CASE ~(at' \in Inside /\ skb'.pfmemalloc)
    BY <2>2, <2>5, Zenon DEF ReserveOK
  <2>6. CASE at' \in Inside /\ skb'.pfmemalloc
    <3>1. at \in Inside /\ skb.pfmemalloc
      BY <2>1, <2>6, Zenon
    <3>2. seen = <<>> /\ ptPrev = NoPt
      BY <2>4, <3>1, Zenon
    <3>3. seen' = <<>> /\ ptPrev' = NoPt
      BY <2>3, <3>2
    <3> QED
      BY <3>3, Zenon DEF ReserveOK
  <2> QED
    BY <2>5, <2>6
<1>8. seen' \in Seq(Met) /\ dev' \in Receive!Dev
  BY WhereItWas DEF Receive!Dev
<1>9. at' \in Inside \cup {"idle", "last", "nit", "nit dev", "nit last"}
  BY DEF Inside
<1> QED
  BY <1>4, <1>5, <1>6, <1>7, <1>8, <1>9, ReaderKeeps

LEMMA IngressOK == ASSUME Receive!ReceiveAssumption, ReceiveIInv, Receive!Ingress PROVE ReceiveIInv'
<1>1. /\ at = "ingress" /\ UNCHANGED Receive!listVars /\ UNCHANGED <<sender, dev, skb, exact, seen>>
      /\ at' \in {"vlan", "idle"} /\ own' \in {0, 1}
      /\ \/ at' = "vlan" /\ UNCHANGED <<ptPrev, Receive!offer, dev>>
         \/ Receive!Deliver /\ ptPrev' = NoPt
  BY WhereItWas DEF Receive!Ingress, Receive!Leave
<1>2. exact' \in BOOLEAN
  BY <1>1, Zenon DEF ReceiveIInv, ReceiveTypeOK
<1> QED
  BY <1>1, <1>2, MeetsNobody, WhereItWas DEF Inside

LEMMA VlanOK == ASSUME Receive!ReceiveAssumption, ReceiveIInv, Receive!Vlan PROVE ReceiveIInv'
<1>1. at = "vlan" /\ UNCHANGED Receive!listVars /\ UNCHANGED <<sender, exact, seen>>
  BY DEF Receive!Vlan
<1>2. exact' \in BOOLEAN
  BY <1>1, Zenon DEF ReceiveIInv, ReceiveTypeOK
<1>3. CASE skb.pfmemalloc /\ Receive!Leave /\ UNCHANGED <<dev, skb, ptPrev, Receive!offer>>
  <2>1. Receive!Leave /\ UNCHANGED <<dev, skb, ptPrev, Receive!offer>> /\ ptPrev = NoPt
    BY <1>1, <1>3, WhereItWas, Zenon DEF ReserveOK, Inside
  <2> QED
    BY <1>1, <1>2, <2>1, MeetsNobody, WhereItWas DEF Receive!Leave, Inside
<1>4. CASE ~skb.tagged /\ at' = "deref" /\ UNCHANGED <<dev, skb, ptPrev, Receive!offer, own>>
  BY <1>1, <1>2, <1>4, MeetsNobody, WhereItWas DEF Inside
<1>5. CASE Receive!Deliver /\ ptPrev' = NoPt /\ dev = LowerDev /\ dev' = UpperDev
           /\ (\E inner \in BOOLEAN : skb' = [skb EXCEPT !.tagged = inner])
           /\ at' = "taps" /\ UNCHANGED own
  <2>1. skb' \in [tagged : BOOLEAN, pfmemalloc : BOOLEAN] /\ skb'.pfmemalloc = skb.pfmemalloc
    <3>1. PICK inner \in BOOLEAN : skb' = [skb EXCEPT !.tagged = inner]
      BY <1>5
    <3> QED
      BY <3>1, WhereItWas
  <2> QED
    BY <1>1, <1>2, <1>5, <2>1, MeetsNobody, WhereItWas DEF Inside
<1>6. CASE Receive!Deliver /\ ptPrev' = NoPt /\ at' = "deref" /\ UNCHANGED <<dev, skb, own>>
  BY <1>1, <1>2, <1>6, MeetsNobody, WhereItWas DEF Inside
<1>7. CASE Receive!Deliver /\ ptPrev' = NoPt /\ Receive!Leave /\ UNCHANGED <<dev, skb>>
  BY <1>1, <1>2, <1>7, MeetsNobody, WhereItWas DEF Inside, Receive!Leave
<1> QED
  BY <1>3, <1>4, <1>5, <1>6, <1>7, Zenon DEF Receive!Vlan

LEMMA DerefOK == ASSUME Receive!ReceiveAssumption, ReceiveIInv, Receive!Deref PROVE ReceiveIInv'
<1>1. at = "deref" /\ UNCHANGED Receive!listVars
      /\ UNCHANGED <<sender, dev, skb, exact, ptPrev, seen, Receive!offer, own>>
  BY DEF Receive!Deref
<1>2. exact' \in BOOLEAN
  BY <1>1, Zenon DEF ReceiveIInv, ReceiveTypeOK
<1>3. at' \in {"handler", "untag"} /\ (at' = "handler" => data /\ dev' = LowerDev)
  <2>1. CASE dev = LowerDev /\ handler
    <3>1. data
      BY <2>1, Zenon DEF ReceiveIInv, HandlerOK
    <3>2. at' = "handler"
      BY <2>1, Zenon DEF Receive!Deref
    <3> QED
      BY <1>1, <2>1, <3>1, <3>2
  <2>2. CASE ~(dev = LowerDev /\ handler)
    <3>1. at' = "untag"
      BY <2>2, Zenon DEF Receive!Deref
    <3> QED
      BY <3>1
  <2> QED
    BY <2>1, <2>2
<1> QED
  BY <1>1, <1>2, <1>3, MeetsNobody, WhereItWas DEF Inside

LEMMA HandlerStepOK == ASSUME Receive!ReceiveAssumption, ReceiveIInv, Receive!Handler PROVE ReceiveIInv'
<1>1. /\ at = "handler" /\ Receive!Deliver /\ ptPrev' = NoPt /\ UNCHANGED Receive!listVars
      /\ UNCHANGED <<sender, skb, seen>> /\ at' \in {"idle", "taps", "untag"} /\ own' \in {0, 1}
      /\ (dev' = dev /\ at' # "taps") \/ dev' = UpperDev
  BY WhereItWas DEF Receive!Handler, Receive!Leave
<1>2. exact \in BOOLEAN
  BY Zenon DEF ReceiveIInv, ReceiveTypeOK
<1>3. exact' \in BOOLEAN
  BY <1>2, Zenon DEF Receive!Handler
<1>4. dev = LowerDev
  BY <1>1, WhereItWas DEF MetOK
<1> QED
  BY <1>1, <1>3, <1>4, MeetsNobody, WhereItWas DEF Inside

LEMMA LeavesOK == ASSUME Receive!ReceiveAssumption, ReceiveIInv, Receive!LastOne \/ Receive!NitFails \/ Receive!NitLast
                  PROVE  ReceiveIInv'
<1>1. /\ UNCHANGED Receive!listVars /\ UNCHANGED <<dev, skb, exact, seen>> /\ at' = "idle"
      /\ sender' \in {sender, NoPt} /\ own' \in {0, own}
      /\ \/ UNCHANGED <<ptPrev, Receive!offer, dev>> /\ ptPrev = NoPt
         \/ Receive!Deliver /\ ptPrev' = NoPt
  BY DEF Receive!LastOne, Receive!NitFails, Receive!NitLast, Receive!Leave
<1>2. exact' \in BOOLEAN
  BY <1>1, Zenon DEF ReceiveIInv, ReceiveTypeOK
<1> QED
  BY <1>1, <1>2, MeetsNobody, WhereItWas

LEMMA ReceiveStep == ASSUME Receive!ReceiveAssumption, ReceiveIInv, Receive!Next PROVE ReceiveIInv'
<1>1. CASE Receive!Writer
  BY <1>1, WriterOK
<1>2. CASE \/ \E t, p, f, n \in BOOLEAN : Receive!Receive(t, p, f, n)
           \/ \E pt \in Receive!Tap \cup {NoPt} : Receive!XmitOne(pt)
  BY <1>2, BeginOK
<1>3. CASE Receive!Taps \/ Receive!Ingress \/ Receive!Vlan \/ Receive!Deref
  BY <1>3, TapsOK, IngressOK, VlanOK, DerefOK
<1>4. CASE Receive!Handler \/ Receive!Protocols \/ Receive!LastOne \/ Receive!Nit \/ Receive!NitFails \/ Receive!NitLast
  BY <1>4, HandlerStepOK, ProtocolsOK, LeavesOK, NitOK
<1> QED
  BY <1>1, <1>2, <1>3, <1>4 DEF Receive!Next, Receive!Reader

LEMMA ReceiveStays == ASSUME ReceiveIInv, UNCHANGED Receive!vars PROVE ReceiveIInv'
<1>1. UNCHANGED Receive!listVars
  BY DEF Receive!vars
<1>2. /\ at' = at /\ sender' = sender /\ dev' = dev /\ skb' = skb /\ ptPrev' = ptPrev
      /\ seen' = seen /\ UNCHANGED Receive!offer /\ own' = own
      /\ list' = list /\ writer' = writer /\ waits' = waits
  BY DEF Receive!vars, Receive!listVars, Receive!walkVars, Receive!offer
<1>3. exact' = exact
  BY Zenon DEF Receive!vars, Receive!walkVars
<1>4. ReceiveTypeOK /\ HandlerOK /\ PendingOK /\ ReserveOK
  BY DEF ReceiveIInv
<1>11. CopyOK' /\ Receive!Offered' = Receive!Offered
  BY <1>2, <1>4, OfferKept DEF ReceiveTypeOK
<1>5. /\ at' \in Inside \cup {"idle", "last", "nit", "nit dev", "nit last"}
      /\ sender' \in Pt \cup {NoPt} /\ dev' \in Receive!Dev /\ own' \in {0, 1}
      /\ ptPrev' \in Pt \cup {NoPt} /\ seen' \in Seq(Met)
      /\ skb' \in [tagged : BOOLEAN, pfmemalloc : BOOLEAN]
  BY <1>2, <1>4 DEF ReceiveTypeOK
<1>6. exact' \in BOOLEAN
  BY <1>3, <1>4, Zenon DEF ReceiveTypeOK
<1>7. at' = "handler" => data
  BY <1>2, <1>4 DEF HandlerOK
<1>8. PendingOK'
  BY <1>2, <1>4, <1>11 DEF PendingOK, Receive!ToSet
<1>9. MetOK'
  <2>1. MetOK /\ Distinct(seen)
    BY DEF ReceiveIInv, MetOK
  <2>2. Distinct(seen)'
    BY <1>2, <2>1 DEF Distinct
  <2> QED
    BY <1>2, <2>1, <2>2 DEF MetOK, Inside, TapHeads
<1>10. ReserveOK'
  <2>1. Inside' = Inside
    BY DEF Inside
  <2> QED
    BY <1>2, <1>4, <2>1, Zenon DEF ReserveOK
<1> QED
  BY <1>1, <1>5, <1>6, <1>7, <1>8, <1>9, <1>10, <1>11, ReaderKeeps

LEMMA ReceiveSound ==
  ASSUME Receive!ReceiveAssumption, ReceiveIInv
  PROVE  Receive!TypeOK /\ Receive!NothingFreedIsUsed /\ Receive!EveryMatchIsServed
<1>1. Receive!TypeOK
  <2>1. {handler, data, exact, userFrags} \subseteq BOOLEAN
    BY Zenon DEF ReceiveIInv, ReceiveTypeOK, CopyOK
  <2>2. Receive!ToSet(list) \subseteq Pt
    <3>1. \A i \in 1 .. Len(list) : list[i] \in Pt
      BY WhereItWas
    <3> QED
      BY <3>1 DEF Receive!ToSet
  <2> QED
    BY <2>1, <2>2 DEF Receive!TypeOK, ReceiveIInv, ReceiveTypeOK, Inside
<1>2. Receive!NothingFreedIsUsed
  BY DEF Receive!NothingFreedIsUsed, ReceiveIInv, ListOK, HandlerOK, PendingOK
<1>3. Len(seen) \in Nat /\ Len(Receive!Offered) \in Nat
  BY WhereItWas
<1>6. given # <<>> => ~userFrags
  BY WhereItWas DEF CopyOK
<1>4. CASE ptPrev = NoPt
  <2>1. seen = Receive!Offered
    BY <1>4, WhereItWas DEF PendingOK
  <2>2. Receive!Offered = Receive!Offered \o <<>>
    BY WhereItWas
  <2> QED
    BY <1>1, <1>2, <1>4, <1>6, <2>1, <2>2, WhereItWas DEF Receive!EveryMatchIsServed, Distinct
<1>5. CASE ptPrev # NoPt
  <2> DEFINE x == <<ptPrev, dev>>
  <2>1. seen = Append(Receive!Offered, x) /\ at # "idle"
    BY <1>5, WhereItWas DEF PendingOK
  <2>2. x \in Met
    BY <1>5, WhereItWas DEF Met
  <2> HIDE DEF x
  <2>3. /\ Len(seen) = Len(Receive!Offered) + 1 /\ seen[Len(Receive!Offered) + 1] = x
        /\ \A i \in 1 .. Len(Receive!Offered) : seen[i] = Receive!Offered[i]
    BY <2>1, <2>2, WhereItWas, OneMoreAtEnd
  <2>4. Receive!Last(seen) = x
    BY <2>3 DEF Receive!Last
  <2>5. seen = Receive!Offered \o <<Receive!Last(seen)>>
    BY <2>1, <2>2, <2>4, WhereItWas
  <2>6. \A i \in 1 .. Len(Receive!Offered) : i \in 1 .. Len(seen)
    BY <1>3, <2>3
  <2>7. \A i, j \in 1 .. Len(Receive!Offered) : i # j => Receive!Offered[i] # Receive!Offered[j]
    BY <2>3, <2>6, WhereItWas DEF Distinct
  <2> QED
    BY <1>1, <1>2, <1>5, <1>6, <2>1, <2>5, <2>7, Zenon DEF Receive!EveryMatchIsServed
<1> QED
  BY <1>4, <1>5
-----------------------------------------------------------------------------
(* Receive flow steering                                                   *)

LEMMA FlowsRemoves == \A s, i : Flows!RemoveAt(s, i) = RemoveAt(s, i)
  BY DEF Flows!RemoveAt, RemoveAt

FlowKind == {"flow", "other"}
Tick == 0 .. TailWidth - 1

\* A packet on its way to the queue of a CPU that is on, and what a receiver has
Sent(from) == [kind : FlowKind, cpu : on, from : {from}]
Packet == [kind : FlowKind \cup {"none"}, cpu : Cpu \cup {NoCpu}, from : Cpu \cup {NoCpu}]

FlowsTypeOK ==
    /\ on \subseteq Cpu /\ rflowCpu \in Cpu \cup {NoCpu} /\ ident \in Cpu \cup {NoCpu}
    /\ lastQtail \in Tick
    /\ queueHead \in [Cpu -> Tick] /\ queueTail \in [Cpu -> Tick]
    /\ fifo \in [Cpu -> Seq(FlowKind)] /\ inHand \in [Cpu -> Seq(FlowKind)]
    /\ steered \in [Receiver -> Packet]

\* Only dev_cpu_callback takes packets from a CPU, and that one is off.
Placed(r) == /\ steered[r].cpu \in on /\ steered[r].kind \in FlowKind
             /\ steered[r].from \in Cpu \cup {NoCpu} /\ steered[r].from \notin on
             /\ r # Callback => steered[r].from = NoCpu

\* No more than the queue takes and one in hand; a packet comes from a CPU that is off,
\* and goes to one that is on.
PlacesOK ==
    /\ \A c \in Cpu : /\ Len(fifo[c]) <= MaxBacklog + 1 /\ Len(inHand[c]) <= 1
                      /\ c \notin on => inHand[c] = <<>>
    /\ \A r \in Receiver : Flows!Idle(r) \/ Placed(r)

HasFlow(c) == Flows!Contains(fifo[c], "flow") \/ Flows!Contains(inHand[c], "flow")

SteeredTogether == \A r \in Receiver : steered[r].kind = "flow" => steered[r].cpu = rflowCpu

TogetherOK ==
    ~loose => /\ SteeredTogether
              /\ \A c \in on \ {rflowCpu} : ~HasFlow(c)

\* The entry's tail is ahead of the head of its CPU by as many packets as there are to
\* the last one of the flow, or more; but never by half the width.
AheadBy(j) == /\ lastQtail = (queueHead[rflowCpu] + j) % TailWidth
              /\ \A k \in 1 .. Len(fifo[rflowCpu]) :
                     fifo[rflowCpu][k] = "flow" => Len(inHand[rflowCpu]) + k <= j

EntryOK == ~loose /\ rflowCpu \in on /\ HasFlow(rflowCpu) =>
               \E j \in 1 .. MaxBacklog + 2 : AheadBy(j)

FlowsIInv == FlowsTypeOK /\ PlacesOK /\ Flows!CountersFit /\ TogetherOK /\ EntryOK

\* Arithmetic of the counters
LEMMA WidthIs ==
  ASSUME Flows!RpsFlowAssumption
  PROVE  /\ TailWidth \in Nat /\ MaxBacklog \in Nat /\ NoCpu \notin Cpu
         /\ TailWidth \div 2 \in Nat /\ 2 * (TailWidth \div 2) = TailWidth /\ TailWidth \div 2 >= MaxBacklog + 2
  BY DEF Flows!RpsFlowAssumption

LEMMA ModIs ==
  ASSUME Flows!RpsFlowAssumption, NEW n \in 0 .. 2 * TailWidth - 1
  PROVE  n % TailWidth = (IF n < TailWidth THEN n ELSE n - TailWidth) /\ n % TailWidth \in Tick
<1>1. TailWidth \in Nat /\ TailWidth >= 4
  BY DEF Flows!RpsFlowAssumption
<1>2. CASE n < TailWidth
  BY <1>1, <1>2 DEF Tick
<1>3. CASE n >= TailWidth
  <2>1. n - TailWidth \in 0 .. TailWidth - 1 /\ n = (n - TailWidth) + TailWidth
    BY <1>1, <1>3
  <2>2. n % TailWidth = n - TailWidth
    BY <1>1, <2>1
  <2> QED
    BY <1>1, <1>3, <2>1, <2>2 DEF Tick
<1> QED
  BY <1>1, <1>2, <1>3

\* The head or the tail goes on by one.
LEMMA GapIs ==
  ASSUME Flows!RpsFlowAssumption, NEW head \in Tick, NEW tail \in Tick,
         NEW n \in 0 .. MaxBacklog + 2, (tail + TailWidth - head) % TailWidth = n
  PROVE  /\ n # 0 => (tail + TailWidth - Flows!Incr(head)) % TailWidth = n - 1
         /\ (Flows!Incr(tail) + TailWidth - head) % TailWidth = n + 1
         /\ Flows!Incr(head) \in Tick /\ Flows!Incr(tail) \in Tick
         /\ Flows!Incr(tail) = (head + (n + 1)) % TailWidth
<1>1. TailWidth \in Nat /\ MaxBacklog \in Nat /\ TailWidth >= 2 * (MaxBacklog + 2)
  BY DEF Flows!RpsFlowAssumption
<1>2. head \in 0 .. TailWidth - 1 /\ tail \in 0 .. TailWidth - 1
  BY DEF Tick
<1>3. \A m \in 0 .. 2 * TailWidth - 1 : m % TailWidth = (IF m < TailWidth THEN m ELSE m - TailWidth) /\ m % TailWidth \in Tick
  BY ModIs
<1>4. n = IF tail >= head THEN tail - head ELSE tail + TailWidth - head
  BY <1>1, <1>2, <1>3
<1>5. Flows!Incr(head) = IF head = TailWidth - 1 THEN 0 ELSE head + 1
  BY <1>1, <1>2, <1>3 DEF Flows!Incr
<1>6. Flows!Incr(tail) = IF tail = TailWidth - 1 THEN 0 ELSE tail + 1
  BY <1>1, <1>2, <1>3 DEF Flows!Incr
<1>7. Flows!Incr(head) \in 0 .. TailWidth - 1 /\ Flows!Incr(tail) \in 0 .. TailWidth - 1
  BY <1>1, <1>2, <1>5, <1>6
<1>8. n + 1 \in 1 .. TailWidth - 1
  BY <1>1
<1>9. ASSUME n # 0 PROVE (tail + TailWidth - Flows!Incr(head)) % TailWidth = n - 1
  <2>1. (tail + TailWidth - Flows!Incr(head)) % TailWidth
           = IF tail + TailWidth - Flows!Incr(head) < TailWidth THEN tail + TailWidth - Flows!Incr(head)
             ELSE tail - Flows!Incr(head)
    BY <1>1, <1>2, <1>3, <1>7
  <2> QED
    BY <1>1, <1>2, <1>4, <1>5, <1>7, <1>9, <2>1
<1>10. (Flows!Incr(tail) + TailWidth - head) % TailWidth = n + 1
  <2>1. (Flows!Incr(tail) + TailWidth - head) % TailWidth
           = IF Flows!Incr(tail) + TailWidth - head < TailWidth THEN Flows!Incr(tail) + TailWidth - head
             ELSE Flows!Incr(tail) - head
    BY <1>1, <1>2, <1>3, <1>7
  <2> QED
    BY <1>1, <1>2, <1>4, <1>6, <1>7, <1>8, <2>1
<1>11. Flows!Incr(tail) = (head + (n + 1)) % TailWidth
  <2>1. (head + (n + 1)) % TailWidth
           = IF head + (n + 1) < TailWidth THEN head + (n + 1) ELSE head + (n + 1) - TailWidth
    BY <1>1, <1>2, <1>3, <1>8
  <2> QED
    BY <1>1, <1>2, <1>4, <1>6, <1>8, <2>1
<1> QED
  BY <1>7, <1>9, <1>10, <1>11 DEF Tick

LEMMA NextHead ==
  ASSUME Flows!RpsFlowAssumption, NEW head \in Tick, NEW j \in 1 .. MaxBacklog + 2
  PROVE  (head + j) % TailWidth = (Flows!Incr(head) + (j - 1)) % TailWidth
<1>1. TailWidth \in Nat /\ MaxBacklog \in Nat /\ TailWidth >= 2 * (MaxBacklog + 2)
  BY DEF Flows!RpsFlowAssumption
<1>2. head \in 0 .. TailWidth - 1
  BY DEF Tick
<1>3. \A m \in 0 .. 2 * TailWidth - 1 : m % TailWidth = (IF m < TailWidth THEN m ELSE m - TailWidth)
  BY ModIs
<1>4. Flows!Incr(head) = IF head = TailWidth - 1 THEN 0 ELSE head + 1
  BY <1>1, <1>2, <1>3 DEF Flows!Incr
<1>5. (head + j) % TailWidth = IF head + j < TailWidth THEN head + j ELSE head + j - TailWidth
  BY <1>1, <1>2, <1>3
<1>6. (Flows!Incr(head) + (j - 1)) % TailWidth
          = IF Flows!Incr(head) + (j - 1) < TailWidth THEN Flows!Incr(head) + (j - 1) ELSE Flows!Incr(head) + (j - 1) - TailWidth
  BY <1>1, <1>2, <1>3, <1>4
<1> QED
  BY <1>1, <1>2, <1>4, <1>5, <1>6

\* A tail that is ahead of the head does not let the entry move.
LEMMA Behind ==
  ASSUME Flows!RpsFlowAssumption, NEW head \in Tick, NEW j \in 1 .. MaxBacklog + 2
  PROVE  ~((head + TailWidth - ((head + j) % TailWidth)) % TailWidth < TailWidth \div 2)
<1>1. TailWidth \in Nat /\ MaxBacklog \in Nat /\ TailWidth \div 2 \in Nat /\ 2 * (TailWidth \div 2) = TailWidth
      /\ TailWidth \div 2 >= MaxBacklog + 2
  BY WidthIs
<1>2. head \in 0 .. TailWidth - 1
  BY DEF Tick
<1>3. \A m \in 0 .. 2 * TailWidth - 1 : m % TailWidth = (IF m < TailWidth THEN m ELSE m - TailWidth)
  BY ModIs
<1> DEFINE half == TailWidth \div 2
           tail == (head + j) % TailWidth
<1>4. tail = IF head + j < TailWidth THEN head + j ELSE head + j - TailWidth
  BY <1>1, <1>2, <1>3
<1> HIDE DEF half
<1>5. 2 * half = TailWidth /\ half >= MaxBacklog + 2 /\ half \in Nat
  BY <1>1 DEF half
<1> HIDE DEF tail
<1>6. tail \in 0 .. TailWidth - 1
  BY <1>1, <1>2, <1>4, <1>5
<1>7. (head + TailWidth - tail) % TailWidth
          = IF head + TailWidth - tail < TailWidth THEN head + TailWidth - tail ELSE head - tail
  BY <1>1, <1>2, <1>3, <1>6
<1>8. ~((head + TailWidth - tail) % TailWidth < half)
  BY <1>1, <1>2, <1>4, <1>5, <1>6, <1>7
<1> QED
  BY <1>8 DEF half, tail

\* What the invariant says of each CPU and of the packet in the air
LEMMA FlowFacts ==
  ASSUME Flows!RpsFlowAssumption, FlowsIInv
  PROVE  /\ on \subseteq Cpu /\ NoCpu \notin Cpu /\ NoCpu \notin on
         /\ rflowCpu \in Cpu \cup {NoCpu} /\ ident \in Cpu \cup {NoCpu} /\ lastQtail \in Tick
         /\ Flows!Nothing.kind = "none" /\ Flows!Nothing.from = NoCpu
         /\ \A c \in Cpu : /\ fifo[c] \in Seq(FlowKind) /\ inHand[c] \in Seq(FlowKind)
                           /\ queueHead[c] \in Tick /\ queueTail[c] \in Tick
                           /\ Len(fifo[c]) \in 0 .. MaxBacklog + 1 /\ Len(inHand[c]) \in 0 .. 1
                           /\ c \notin on => inHand[c] = <<>>
         /\ Callback \in Receiver /\ steered \in [Receiver -> Packet]
         /\ \A r \in Receiver : Flows!Idle(r) \/ Placed(r)
<1>1. FlowsTypeOK /\ PlacesOK /\ NoCpu \notin Cpu
  BY DEF FlowsIInv, Flows!RpsFlowAssumption
<1>2. Flows!Nothing.kind = "none" /\ Flows!Nothing.from = NoCpu
  BY DEF Flows!Nothing
<1>3. ASSUME NEW c \in Cpu
      PROVE  /\ fifo[c] \in Seq(FlowKind) /\ inHand[c] \in Seq(FlowKind)
             /\ queueHead[c] \in Tick /\ queueTail[c] \in Tick
             /\ Len(fifo[c]) \in 0 .. MaxBacklog + 1 /\ Len(inHand[c]) \in 0 .. 1
             /\ c \notin on => inHand[c] = <<>>
  <2>1. /\ fifo[c] \in Seq(FlowKind) /\ inHand[c] \in Seq(FlowKind)
        /\ queueHead[c] \in Tick /\ queueTail[c] \in Tick
    BY <1>1 DEF FlowsTypeOK
  <2>2. /\ Len(fifo[c]) <= MaxBacklog + 1 /\ Len(inHand[c]) <= 1
        /\ c \notin on => inHand[c] = <<>>
    BY <1>1 DEF PlacesOK
  <2>3. Len(fifo[c]) \in Nat /\ Len(inHand[c]) \in Nat
    BY <2>1
  <2>4. \A n \in Nat : (n <= MaxBacklog + 1 => n \in 0 .. MaxBacklog + 1)
                      /\ (n <= 1 => n \in 0 .. 1)
    BY WidthIs
  <2>5. Len(fifo[c]) \in 0 .. MaxBacklog + 1 /\ Len(inHand[c]) \in 0 .. 1
    BY <2>2, <2>3, <2>4
  <2> QED
    BY <2>1, <2>2, <2>5
<1>4. on \subseteq Cpu /\ NoCpu \notin on
  BY <1>1 DEF FlowsTypeOK
<1>5. rflowCpu \in Cpu \cup {NoCpu} /\ ident \in Cpu \cup {NoCpu} /\ lastQtail \in Tick
  BY <1>1 DEF FlowsTypeOK
<1>6. \A r \in Receiver : Flows!Idle(r) \/ Placed(r)
  BY <1>1 DEF PlacesOK
<1>7. Callback \in Receiver /\ steered \in [Receiver -> Packet]
  BY <1>1 DEF FlowsTypeOK, Flows!RpsFlowAssumption
<1> QED
  BY <1>1, <1>2, <1>3, <1>4, <1>5, <1>6, <1>7

\* The packets between the head and the tail of c
InAir(c) == IF steered[Callback].from = c THEN 1 ELSE 0
Gap(c) == Len(fifo[c]) + Len(inHand[c]) + InAir(c)

LEMMA GapsFit ==
  ASSUME Flows!RpsFlowAssumption, FlowsIInv, NEW c \in Cpu
  PROVE  /\ (queueTail[c] + TailWidth - queueHead[c]) % TailWidth = Gap(c)
         /\ Gap(c) \in 0 .. MaxBacklog + 2
         /\ c \in on => InAir(c) = 0
<1>1. MaxBacklog \in Nat
  BY WidthIs
<1>2. (queueTail[c] + TailWidth - queueHead[c]) % TailWidth = Gap(c)
  BY DEF FlowsIInv, Flows!CountersFit, Gap, InAir
<1>3. Len(fifo[c]) \in 0 .. MaxBacklog + 1 /\ Len(inHand[c]) \in 0 .. 1
  BY FlowFacts
<1>4. c \in on => InAir(c) = 0
  <2>1. c # NoCpu
    BY FlowFacts
  <2>2. c \in on => steered[Callback].from # c
    BY <2>1, FlowFacts DEF Placed, Flows!Idle
  <2> QED
    BY <2>2 DEF InAir
<1>5. c \notin on => Len(inHand[c]) = 0
  BY FlowFacts
<1>6. InAir(c) \in {0, 1}
  BY DEF InAir
<1>7. \A n \in 0 .. MaxBacklog + 1, h \in 0 .. 1, a \in {0, 1} :
          h = 0 \/ a = 0 => n + h + a \in 0 .. MaxBacklog + 2
  BY <1>1
<1>8. Gap(c) \in 0 .. MaxBacklog + 2
  BY <1>3, <1>4, <1>5, <1>6, <1>7 DEF Gap
<1> QED
  BY <1>2, <1>4, <1>8

\* While a packet of the flow is before its CPU, the entry stays.
LEMMA EntryStays ==
  ASSUME Flows!RpsFlowAssumption, FlowsIInv, ~loose, rflowCpu \in on, HasFlow(rflowCpu)
  PROVE  ~Flows!Advanced(rflowCpu)
<1>1. PICK j \in 1 .. MaxBacklog + 2 : AheadBy(j)
  BY DEF FlowsIInv, EntryOK
<1>2. queueHead[rflowCpu] \in Tick
  BY FlowFacts
<1>3. ~((queueHead[rflowCpu] + TailWidth - ((queueHead[rflowCpu] + j) % TailWidth)) % TailWidth < TailWidth \div 2)
  BY <1>2, Behind
<1> QED
  BY <1>1, <1>3 DEF AheadBy, Flows!Advanced

\* A receiver takes up a packet.
LEMMA TakesUp ==
  ASSUME Flows!RpsFlowAssumption, FlowsIInv, NEW r \in Receiver, NEW from \in Cpu \cup {NoCpu},
         NEW p \in Sent(from), steered' = [steered EXCEPT ![r] = p]
  PROVE  /\ steered' \in [Receiver -> Packet]
         /\ steered'[r] = p /\ \A s \in Receiver : s # r => steered'[s] = steered[s]
         /\ p.cpu \in on /\ p.kind \in FlowKind /\ p.from = from
<1>1. steered \in [Receiver -> Packet] /\ on \subseteq Cpu
  BY FlowFacts
<1>2. p.cpu \in on /\ p.kind \in FlowKind /\ p.from = from /\ p \in Packet
  BY <1>1 DEF Sent, Packet
<1> HIDE DEF Packet, Sent
<1> QED
  BY <1>1, <1>2

LEMMA Steers ==
  ASSUME Flows!RpsFlowAssumption, FlowsIInv, NEW r \in Receiver,
         NEW from \in Cpu \cup {NoCpu}, Flows!GetRpsCpu(r, from)
  PROVE  /\ lastQtail' \in Tick /\ rflowCpu' \in Cpu \cup {NoCpu}
         /\ \E p \in Sent(from) : /\ steered' = [steered EXCEPT ![r] = p]
                                  /\ p.kind = "flow" => p.cpu = rflowCpu'
         /\ ~loose' => ~loose
         /\ ~loose' => \A s \in Receiver : steered[s].kind = "flow" => steered[s].cpu = rflowCpu'
         /\ ~loose' => \A c \in on \ {rflowCpu'} : ~HasFlow(c)
         /\ \/ UNCHANGED <<rflowCpu, lastQtail>>
            \/ rflowCpu' \notin on
            \/ ~loose' => ~HasFlow(rflowCpu')
<1> DEFINE switch == ident # NoCpu /\ Flows!MaySwitch
           tcpu == IF switch THEN ident ELSE rflowCpu
           held == \E s \in Receiver : steered[s].kind = "flow"
<1>1. /\ rflowCpu' = tcpu
      /\ lastQtail' = IF switch THEN queueHead[ident] ELSE lastQtail
      /\ \/ tcpu \in on /\ Flows!Steer(r, "flow", tcpu, from)
         \/ \E c \in on : Flows!Steer(r, "other", c, from)
  BY DEF Flows!GetRpsCpu
<1>2. \E p \in Sent(from) : /\ steered' = [steered EXCEPT ![r] = p]
                            /\ p.kind = "flow" => p.cpu = rflowCpu'
  <2>1. CASE tcpu \in on /\ Flows!Steer(r, "flow", tcpu, from)
    <3> DEFINE p == [kind |-> "flow", cpu |-> tcpu, from |-> from]
    <3>1. p \in Sent(from) /\ p.cpu = tcpu
      BY <2>1 DEF FlowKind, Sent
    <3>2. steered' = [steered EXCEPT ![r] = p]
      BY <2>1 DEF Flows!Steer
    <3> HIDE DEF p
    <3> QED
      BY <1>1, <3>1, <3>2
  <2>2. ASSUME NEW c \in on, Flows!Steer(r, "other", c, from) PROVE <1>2!:
    <3> DEFINE p == [kind |-> "other", cpu |-> c, from |-> from]
    <3>1. p \in Sent(from) /\ p.kind # "flow"
      BY DEF FlowKind, Sent
    <3>2. steered' = [steered EXCEPT ![r] = p]
      BY <2>2 DEF Flows!Steer
    <3> HIDE DEF p
    <3> QED
      BY <3>1, <3>2
  <2> QED
    BY <1>1, <2>1, <2>2
<1>3. ~loose => SteeredTogether /\ \A c \in on \ {rflowCpu} : ~HasFlow(c)
  BY Zenon DEF FlowsIInv, TogetherOK
<1>4. (~loose' => ~loose) /\ (~loose' /\ switch => ~held)
  BY Zenon DEF Flows!GetRpsCpu
<1> HIDE DEF switch, held
<1>5. CASE switch
  <2>1. ident # NoCpu /\ rflowCpu # ident /\ (rflowCpu = NoCpu \/ rflowCpu \notin on \/ Flows!Advanced(rflowCpu))
    BY <1>5, Zenon DEF switch, Flows!MaySwitch
  <2>2. rflowCpu' = ident /\ lastQtail' = queueHead[ident] /\ ident \in Cpu
    BY <1>1, <1>5, <2>1, FlowFacts
  <2>3. ASSUME ~loose, NEW c \in on \ {ident} PROVE ~HasFlow(c)
    <3>1. CASE c = rflowCpu
      <4>1. Flows!Advanced(rflowCpu)
        BY <2>1, <3>1, FlowFacts
      <4> QED
        BY <2>3, <3>1, <4>1, EntryStays
    <3> QED
      BY <1>3, <2>3, <3>1
  <2>4. ASSUME ~loose, ident \in on PROVE ~HasFlow(ident)
    BY <1>3, <2>1, <2>4
  <2>5. lastQtail' \in Tick
    BY <2>2, FlowFacts
  <2>6. ~loose' => \A s \in Receiver : steered[s].kind # "flow"
    BY <1>4, <1>5 DEF held
  <2> QED
    BY <1>2, <1>4, <2>2, <2>3, <2>4, <2>5, <2>6
<1>6. CASE ~switch
  <2>1. UNCHANGED <<rflowCpu, lastQtail>>
    BY <1>1, <1>6
  <2> QED
    BY <1>2, <1>3, <1>4, <2>1, FlowFacts DEF SteeredTogether
<1> QED
  BY <1>5, <1>6

LEMMA SameFlow ==
  ASSUME NEW c, fifo'[c] = fifo[c], inHand'[c] = inHand[c]
  PROVE  HasFlow(c)' <=> HasFlow(c)
  BY DEF HasFlow, Flows!Contains

\* What does not touch the CPUs that are on keeps the entry right.
LEMMA EntryKeeps ==
  ASSUME FlowsIInv, on' = on, ~loose' => ~loose,
         \A c \in on : fifo'[c] = fifo[c] /\ inHand'[c] = inHand[c] /\ queueHead'[c] = queueHead[c],
         \/ UNCHANGED <<rflowCpu, lastQtail>>
         \/ rflowCpu' \notin on
         \/ ~loose' => ~HasFlow(rflowCpu')
  PROVE  EntryOK'
<1> SUFFICES ASSUME ~loose', rflowCpu' \in on', HasFlow(rflowCpu)'
             PROVE  \E j \in 1 .. MaxBacklog + 2 : AheadBy(j)'
  BY DEF EntryOK
<1>1. ~loose /\ ~loose' /\ rflowCpu' \in on /\ HasFlow(rflowCpu')
  <2>1. ~loose /\ ~loose' /\ rflowCpu' \in on
    BY Zenon
  <2>2. HasFlow(rflowCpu')
    BY <2>1 DEF HasFlow, Flows!Contains
  <2> QED
    BY <2>1, <2>2
<1>2. UNCHANGED <<rflowCpu, lastQtail>>
  BY <1>1
<1>3. PICK j \in 1 .. MaxBacklog + 2 : AheadBy(j)
  BY <1>1, <1>2 DEF FlowsIInv, EntryOK
<1>4. AheadBy(j)'
  BY <1>1, <1>2, <1>3 DEF AheadBy
<1> QED
  BY <1>4

LEMMA FlowsInit == ASSUME Flows!RpsFlowAssumption, Flows!Init PROVE FlowsIInv
<1>1. TailWidth \in Nat /\ MaxBacklog \in Nat /\ TailWidth >= 4 /\ NoCpu \notin Cpu /\ Len(<<>>) = 0
  BY DEF Flows!RpsFlowAssumption
<1>2. /\ on = Cpu /\ ident = NoCpu /\ rflowCpu = NoCpu /\ lastQtail = 0
      /\ steered = [r \in Receiver |-> Flows!Nothing] /\ Callback \in Receiver
      /\ fifo = [c \in Cpu |-> <<>>] /\ inHand = [c \in Cpu |-> <<>>]
      /\ queueHead = [c \in Cpu |-> 0] /\ queueTail = [c \in Cpu |-> 0]
  BY DEF Flows!Init, Flows!RpsFlowAssumption
<1>3. FlowsTypeOK
  <2>1. Flows!Nothing \in Packet
    BY DEF Flows!Nothing, Packet
  <2>2. steered \in [Receiver -> Packet]
    BY <1>2, <2>1
  <2> QED
    BY <1>1, <1>2, <2>2 DEF FlowsTypeOK, Tick
<1>4. PlacesOK
  BY <1>1, <1>2 DEF PlacesOK, Flows!Idle
<1>5. \A r \in Receiver : steered[r].from = NoCpu /\ steered[r].kind = "none"
  BY <1>2 DEF Flows!Nothing
<1>6. Flows!CountersFit
  <2>1. TailWidth % TailWidth = 0
    BY <1>1
  <2>2. ASSUME NEW c \in Cpu
        PROVE  /\ queueTail[c] + TailWidth - queueHead[c] = TailWidth
               /\ Len(fifo[c]) + Len(inHand[c]) + (IF steered[Callback].from = c THEN 1 ELSE 0) = 0
    <3>1. steered[Callback].from # c
      BY <1>1, <1>2, <1>5
    <3>2. queueTail[c] = 0 /\ queueHead[c] = 0 /\ fifo[c] = <<>> /\ inHand[c] = <<>>
      BY <1>2
    <3> QED
      BY <1>1, <3>1, <3>2
  <2> QED
    BY <2>1, <2>2 DEF Flows!CountersFit
<1>7. TogetherOK /\ EntryOK
  <2>1. ASSUME NEW c \in Cpu PROVE ~HasFlow(c)
    BY <1>1, <1>2 DEF HasFlow, Flows!Contains
  <2> QED
    BY <1>2, <1>5, <2>1 DEF TogetherOK, SteeredTogether, EntryOK
<1> QED
  BY <1>3, <1>4, <1>6, <1>7 DEF FlowsIInv

\* What a step has to show
LEMMA FlowsKeep ==
  ASSUME Flows!RpsFlowAssumption, FlowsIInv, on' \subseteq Cpu,
         ident' \in Cpu \cup {NoCpu}, rflowCpu' \in Cpu \cup {NoCpu}, lastQtail' \in Tick,
         queueHead' \in [Cpu -> Tick], queueTail' \in [Cpu -> Tick],
         fifo' \in [Cpu -> Seq(FlowKind)], inHand' \in [Cpu -> Seq(FlowKind)],
         steered' \in [Receiver -> Packet],
         PlacesOK', Flows!CountersFit', TogetherOK', EntryOK'
  PROVE  FlowsIInv'
<1>1. Tick' = Tick /\ FlowKind' = FlowKind /\ Packet' = Packet
  BY DEF Tick, FlowKind, Packet
<1> QED
  BY <1>1 DEF FlowsIInv, FlowsTypeOK

LEMMA FlowsTypes ==
  ASSUME FlowsIInv
  PROVE  /\ queueHead \in [Cpu -> Tick] /\ queueTail \in [Cpu -> Tick]
         /\ fifo \in [Cpu -> Seq(FlowKind)] /\ inHand \in [Cpu -> Seq(FlowKind)]
         /\ steered \in [Receiver -> Packet]
  BY DEF FlowsIInv, FlowsTypeOK

\* What holds after a packet has been taken up
TakenUp(r, from) ==
    /\ lastQtail' \in Tick /\ rflowCpu' \in Cpu \cup {NoCpu}
    /\ \E p \in Sent(from) : /\ steered' = [steered EXCEPT ![r] = p]
                             /\ ~loose' => (p.kind = "flow" => p.cpu = rflowCpu')
    /\ ~loose' => ~loose
    /\ ~loose' => \A s \in Receiver : steered[s].kind = "flow" => steered[s].cpu = rflowCpu'
    /\ ~loose' => \A c \in on \ {rflowCpu'} : ~HasFlow(c)
    /\ \/ UNCHANGED <<rflowCpu, lastQtail>>
       \/ rflowCpu' \notin on
       \/ ~loose' => ~HasFlow(rflowCpu')

LEMMA TakesAny ==
  ASSUME Flows!RpsFlowAssumption, FlowsIInv, NEW r \in Receiver, NEW from \in Cpu \cup {NoCpu},
         \/ Flows!GetRpsCpu(r, from)
         \/ /\ \E c \in on : Flows!Steer(r, "other", c, from)
            /\ UNCHANGED <<rflowCpu, lastQtail, loose>>
  PROVE  TakenUp(r, from)
<1>1. CASE Flows!GetRpsCpu(r, from)
  <2>1. /\ lastQtail' \in Tick /\ rflowCpu' \in Cpu \cup {NoCpu}
        /\ \E p \in Sent(from) : /\ steered' = [steered EXCEPT ![r] = p]
                                 /\ p.kind = "flow" => p.cpu = rflowCpu'
        /\ ~loose' => ~loose
        /\ ~loose' => \A s \in Receiver : steered[s].kind = "flow" => steered[s].cpu = rflowCpu'
        /\ ~loose' => \A c \in on \ {rflowCpu'} : ~HasFlow(c)
        /\ \/ UNCHANGED <<rflowCpu, lastQtail>>
           \/ rflowCpu' \notin on
           \/ ~loose' => ~HasFlow(rflowCpu')
    BY <1>1, Steers
  <2> QED
    BY <2>1, Zenon DEF TakenUp
<1>2. ASSUME NEW c \in on, Flows!Steer(r, "other", c, from), UNCHANGED <<rflowCpu, lastQtail, loose>>
      PROVE  TakenUp(r, from)
  <2> DEFINE p == [kind |-> "other", cpu |-> c, from |-> from]
  <2>1. p \in Sent(from) /\ p.kind # "flow" /\ steered' = [steered EXCEPT ![r] = p]
    BY <1>2 DEF FlowKind, Sent, Flows!Steer
  <2> HIDE DEF p
  <2>2. ~loose => SteeredTogether /\ \A d \in on \ {rflowCpu} : ~HasFlow(d)
    BY Zenon DEF FlowsIInv, TogetherOK
  <2>3. lastQtail \in Tick /\ rflowCpu \in Cpu \cup {NoCpu}
    BY FlowFacts
  <2>4. UNCHANGED rflowCpu /\ UNCHANGED lastQtail /\ (~loose' => ~loose)
    BY <1>2, Zenon
  <2>5. \E q \in Sent(from) : /\ steered' = [steered EXCEPT ![r] = q]
                              /\ ~loose' => (q.kind = "flow" => q.cpu = rflowCpu')
    BY <2>1, Zenon
  <2>6. /\ ~loose' => \A s \in Receiver : steered[s].kind = "flow" => steered[s].cpu = rflowCpu'
        /\ ~loose' => \A d \in on \ {rflowCpu'} : ~HasFlow(d)
    BY <2>2, <2>4 DEF SteeredTogether
  <2> QED
    BY <2>3, <2>4, <2>5, <2>6 DEF TakenUp
<1> QED
  BY <1>1, <1>2

\* The receivers' part of the invariant then
LEMMA TakenUpOK ==
  ASSUME Flows!RpsFlowAssumption, FlowsIInv, NEW r \in Receiver, NEW from \in Cpu \cup {NoCpu},
         from \notin on, r # Callback => from = NoCpu, TakenUp(r, from), on' = on,
         \A d \in on : fifo'[d] = fifo[d] /\ inHand'[d] = inHand[d] /\ queueHead'[d] = queueHead[d]
  PROVE  /\ steered' \in [Receiver -> Packet] /\ steered'[r].from = from
         /\ \A s \in Receiver : s # r => steered'[s] = steered[s]
         /\ \A s \in Receiver : Flows!Idle(s)' \/ Placed(s)'
         /\ TogetherOK' /\ EntryOK'
<1>1. PICK p \in Sent(from) : /\ steered' = [steered EXCEPT ![r] = p]
                              /\ ~loose' => (p.kind = "flow" => p.cpu = rflowCpu')
  BY DEF TakenUp
<1>2. /\ steered' \in [Receiver -> Packet]
      /\ steered'[r] = p /\ \A s \in Receiver : s # r => steered'[s] = steered[s]
      /\ p.cpu \in on /\ p.kind \in FlowKind /\ p.from = from
  <2>1. steered' = [steered EXCEPT ![r] = p]
    BY <1>1
  <2>2. p.cpu \in on /\ p.kind \in FlowKind /\ p.from = from
    BY <1>1 DEF Sent
  <2>3. p \in Packet
    BY <1>1, FlowFacts DEF Sent, Packet
  <2>4. steered \in [Receiver -> Packet]
    BY FlowFacts
  <2> QED
    BY <2>1, <2>2, <2>3, <2>4
<1>3. ASSUME NEW s \in Receiver PROVE Flows!Idle(s)' \/ Placed(s)'
  <2>1. Flows!Idle(s) \/ Placed(s)
    BY FlowFacts
  <2>2. Flows!Nothing' = Flows!Nothing /\ FlowKind' = FlowKind
    BY DEF Flows!Nothing, FlowKind
  <2>3. CASE s = r
    BY <1>2, <2>2, <2>3 DEF Placed
  <2>4. CASE s # r
    BY <1>2, <2>1, <2>2, <2>4 DEF Placed, Flows!Idle
  <2> QED
    BY <2>3, <2>4
<1>4. TogetherOK'
  <2>1. \A d \in on : HasFlow(d)' <=> HasFlow(d)
    BY SameFlow
  <2>2. /\ ~loose' => \A s \in Receiver : steered[s].kind = "flow" => steered[s].cpu = rflowCpu'
        /\ ~loose' => \A d \in on \ {rflowCpu'} : ~HasFlow(d)
    BY Zenon DEF TakenUp
  <2>3. ASSUME ~loose', NEW s \in Receiver PROVE steered'[s].kind = "flow" => steered'[s].cpu = rflowCpu'
    BY <1>1, <1>2, <2>2, <2>3
  <2> QED
    BY <2>1, <2>2, <2>3 DEF TogetherOK, SteeredTogether
<1>5. EntryOK'
  <2>1. (~loose' => ~loose) /\ (\/ UNCHANGED <<rflowCpu, lastQtail>>
                                \/ rflowCpu' \notin on
                                \/ ~loose' => ~HasFlow(rflowCpu'))
    BY Zenon DEF TakenUp
  <2> QED
    BY <2>1, EntryKeeps
<1> QED
  BY <1>2, <1>3, <1>4, <1>5

LEMMA FlowsReceiveOK ==
  ASSUME Flows!RpsFlowAssumption, FlowsIInv, NEW r \in Receiver \ {Callback}, Flows!Receive(r)
  PROVE  FlowsIInv'
<1>1. /\ UNCHANGED <<on, ident, fifo, inHand, queueHead, queueTail>>
      /\ \/ Flows!GetRpsCpu(r, NoCpu)
         \/ /\ \E c \in on : Flows!Steer(r, "other", c, NoCpu)
            /\ UNCHANGED <<rflowCpu, lastQtail, loose>>
  BY DEF Flows!Receive
<1>2. TakenUp(r, NoCpu) /\ lastQtail' \in Tick /\ rflowCpu' \in Cpu \cup {NoCpu}
  BY <1>1, TakesAny DEF TakenUp
<1>3. /\ steered' \in [Receiver -> Packet]
      /\ \A s \in Receiver : s # r => steered'[s] = steered[s]
      /\ \A s \in Receiver : Flows!Idle(s)' \/ Placed(s)'
      /\ TogetherOK' /\ EntryOK'
  BY <1>1, <1>2, TakenUpOK, FlowFacts
<1>4. PlacesOK'
  BY <1>1, <1>3 DEF FlowsIInv, PlacesOK
<1>5. Flows!CountersFit'
  <2>1. steered'[Callback] = steered[Callback]
    BY <1>3, FlowFacts
  <2> QED
    BY <1>1, <2>1 DEF FlowsIInv, Flows!CountersFit
<1> QED
  BY <1>1, <1>2, <1>3, <1>4, <1>5, FlowsKeep, FlowsTypes, FlowFacts

LEMMA FlowsReinjectOK ==
  ASSUME Flows!RpsFlowAssumption, FlowsIInv, NEW c \in Cpu, Flows!Reinject(c)
  PROVE  FlowsIInv'
<1>1. /\ c \notin on /\ fifo[c] # <<>> /\ steered[Callback] = Flows!Nothing
      /\ fifo' = [fifo EXCEPT ![c] = Tail(@)]
      /\ UNCHANGED <<on, ident, inHand, queueHead, queueTail>>
      /\ \/ Flows!GetRpsCpu(Callback, c)
         \/ /\ \E d \in on : Flows!Steer(Callback, "other", d, c)
            /\ UNCHANGED <<rflowCpu, lastQtail, loose>>
  BY DEF Flows!Reinject, Flows!Idle
<1>2. TakenUp(Callback, c) /\ lastQtail' \in Tick /\ rflowCpu' \in Cpu \cup {NoCpu}
  BY <1>1, TakesAny, FlowFacts DEF TakenUp
<1>4. /\ fifo' \in [Cpu -> Seq(FlowKind)] /\ Len(fifo'[c]) = Len(fifo[c]) - 1
      /\ Len(fifo[c]) \in 1 .. MaxBacklog + 1
      /\ \A d \in Cpu : d # c => fifo'[d] = fifo[d]
  <2>1. fifo \in [Cpu -> Seq(FlowKind)] /\ Len(fifo[c]) \in 0 .. MaxBacklog + 1
    BY FlowsTypes, FlowFacts
  <2>2. Tail(fifo[c]) \in Seq(FlowKind) /\ Len(Tail(fifo[c])) = Len(fifo[c]) - 1 /\ Len(fifo[c]) # 0
    BY <1>1, <2>1
  <2>3. MaxBacklog \in Nat
    BY WidthIs
  <2> QED
    BY <1>1, <2>1, <2>2, <2>3
<1>7. \A d \in on : fifo'[d] = fifo[d] /\ inHand'[d] = inHand[d] /\ queueHead'[d] = queueHead[d]
  BY <1>1, <1>4, FlowFacts
<1>3. /\ steered' \in [Receiver -> Packet] /\ steered'[Callback].from = c
      /\ \A s \in Receiver : Flows!Idle(s)' \/ Placed(s)'
      /\ TogetherOK' /\ EntryOK'
  BY <1>1, <1>2, <1>7, TakenUpOK, FlowFacts
<1>5. PlacesOK'
  <2>1. PlacesOK /\ MaxBacklog \in Nat
    BY WidthIs DEF FlowsIInv
  <2>2. ASSUME NEW d \in Cpu PROVE Len(fifo'[d]) <= MaxBacklog + 1
    BY <1>4, <2>1, <2>2 DEF PlacesOK
  <2> QED
    BY <1>1, <1>3, <2>1, <2>2 DEF PlacesOK
<1>6. Flows!CountersFit'
  <2>1. steered[Callback].from = NoCpu /\ steered'[Callback].from = c
    BY <1>1, <1>3, FlowFacts
  <2>2. ASSUME NEW d \in Cpu
        PROVE  Len(fifo'[d]) + Len(inHand'[d]) + (IF steered'[Callback].from = d THEN 1 ELSE 0) = Gap(d)
    <3>1. d # NoCpu /\ Len(inHand[d]) \in Nat /\ Len(fifo[d]) \in Nat
      BY FlowFacts
    <3>2. CASE d = c
      <4>0. InAir(d) = 0
        BY <2>1, <3>1 DEF InAir
      <4>1. Gap(d) = Len(fifo[c]) + Len(inHand[c])
        BY <3>1, <3>2, <4>0 DEF Gap
      <4>2. Len(fifo'[d]) = Len(fifo[c]) - 1 /\ inHand'[d] = inHand[c] /\ steered'[Callback].from = d
        BY <1>1, <1>4, <2>1, <3>2
      <4> QED
        BY <3>1, <3>2, <4>1, <4>2
    <3>3. CASE d # c
      BY <1>1, <1>4, <2>1, <3>1, <3>3 DEF Gap, InAir
    <3> QED
      BY <3>2, <3>3
  <2>3. \A d \in Cpu : (queueTail'[d] + TailWidth - queueHead'[d]) % TailWidth = Gap(d)
    BY <1>1, GapsFit
  <2> QED
    BY <2>2, <2>3 DEF Flows!CountersFit
<1> QED
  BY <1>1, <1>2, <1>3, <1>4, <1>5, <1>6, FlowsKeep, FlowsTypes, FlowFacts

\* A CPU that is on and its queue changes, no packet being on its way to a queue or from one.
LEMMA PlacesKeep ==
  ASSUME FlowsIInv, on' = on, steered' = steered,
         \A d \in Cpu : /\ Len(fifo'[d]) <= MaxBacklog + 1 /\ Len(inHand'[d]) <= 1
                        /\ d \notin on => inHand'[d] = <<>>
  PROVE  PlacesOK'
<1>1. Flows!Nothing' = Flows!Nothing /\ FlowKind' = FlowKind
  BY DEF Flows!Nothing, FlowKind
<1> QED
  BY <1>1 DEF FlowsIInv, PlacesOK, Placed, Flows!Idle

\* The CPU c only loses packets of the flow.
LEMMA TogetherKeeps ==
  ASSUME FlowsIInv, on' = on, rflowCpu' = rflowCpu, steered' = steered, ~loose' => ~loose,
         \A d \in on : HasFlow(d)' => HasFlow(d)
  PROVE  TogetherOK'
<1>1. ASSUME ~loose'
      PROVE  /\ \A r \in Receiver : steered'[r].kind = "flow" => steered'[r].cpu = rflowCpu'
             /\ \A c \in on' \ {rflowCpu'} : ~HasFlow(c)'
  <2>1. ~loose
    BY <1>1, Zenon
  <2>2. /\ \A r \in Receiver : steered[r].kind = "flow" => steered[r].cpu = rflowCpu
        /\ \A c \in on \ {rflowCpu} : ~HasFlow(c)
    BY <2>1, Zenon DEF FlowsIInv, TogetherOK, SteeredTogether
  <2> QED
    BY <2>2
<1> QED
  BY <1>1 DEF TogetherOK, SteeredTogether

LEMMA DequeueOK ==
  ASSUME Flows!RpsFlowAssumption, FlowsIInv, NEW c \in Cpu, Flows!Dequeue(c)
  PROVE  FlowsIInv'
<1>1. /\ c \in on /\ inHand[c] = <<>> /\ fifo[c] # <<>>
      /\ inHand' = [inHand EXCEPT ![c] = <<Head(fifo[c])>>]
      /\ fifo' = [fifo EXCEPT ![c] = Tail(@)]
      /\ UNCHANGED <<on, ident, rflowCpu, lastQtail, queueHead, queueTail, steered>>
  BY DEF Flows!Dequeue
<1>2. loose' = loose
  BY Zenon DEF Flows!Dequeue
<1> DEFINE s == fifo[c]
           t == Tail(s)
<1>3. s \in Seq(FlowKind) /\ fifo \in [Cpu -> Seq(FlowKind)] /\ inHand \in [Cpu -> Seq(FlowKind)]
      /\ Len(s) \in 0 .. MaxBacklog + 1 /\ MaxBacklog \in Nat
  BY FlowsTypes, FlowFacts, WidthIs
<1>4. /\ t \in Seq(FlowKind) /\ Len(t) = Len(s) - 1 /\ Len(s) # 0 /\ Len(s) \in Nat
      /\ Head(s) = s[1] /\ s[1] \in FlowKind /\ \A k \in 1 .. Len(s) - 1 : t[k] = s[k + 1]
  BY <1>1, <1>3
<1>5. /\ fifo'[c] = t /\ inHand'[c] = <<s[1]>> /\ Len(inHand'[c]) = 1
      /\ inHand' \in [Cpu -> Seq(FlowKind)] /\ fifo' \in [Cpu -> Seq(FlowKind)]
      /\ \A d \in Cpu : d # c => fifo'[d] = fifo[d] /\ inHand'[d] = inHand[d]
  BY <1>1, <1>3, <1>4
<1> HIDE DEF t
<1>6. PlacesOK'
  <2>1. ASSUME NEW d \in Cpu
        PROVE  /\ Len(fifo'[d]) <= MaxBacklog + 1 /\ Len(inHand'[d]) <= 1
               /\ d \notin on => inHand'[d] = <<>>
    <3>1. CASE d = c
      BY <1>1, <1>3, <1>4, <1>5, <3>1
    <3>2. CASE d # c
      BY <1>5, <3>2 DEF FlowsIInv, PlacesOK
    <3> QED
      BY <3>1, <3>2
  <2> QED
    BY <1>1, <2>1, PlacesKeep
<1>7. Flows!CountersFit'
  <2>1. ASSUME NEW d \in Cpu
        PROVE  Len(fifo'[d]) + Len(inHand'[d]) + InAir(d) = Gap(d)
    <3>1. CASE d = c
      <4>1. Len(inHand[c]) = 0 /\ InAir(c) = 0
        BY <1>1, GapsFit
      <4>2. Gap(d) = Len(s)
        BY <1>4, <3>1, <4>1 DEF Gap
      <4>3. Len(fifo'[d]) = Len(s) - 1 /\ Len(inHand'[d]) = 1 /\ InAir(d) = 0
        BY <1>4, <1>5, <3>1, <4>1
      <4> QED
        BY <1>4, <4>2, <4>3
    <3>2. CASE d # c
      BY <1>5, <3>2 DEF Gap
    <3> QED
      BY <3>1, <3>2
  <2>2. \A d \in Cpu : (queueTail'[d] + TailWidth - queueHead'[d]) % TailWidth = Gap(d)
    BY <1>1, GapsFit
  <2> QED
    BY <1>1, <2>1, <2>2 DEF Flows!CountersFit, InAir
<1>8. \A d \in Cpu : HasFlow(d)' => HasFlow(d)
  <2>1. ASSUME NEW d \in Cpu, HasFlow(d)' PROVE HasFlow(d)
    <3>1. CASE d = c
      <4>1. \A k \in 1 .. Len(s) - 1 : k + 1 \in 1 .. Len(s)
        BY <1>4
      <4>2. 1 \in 1 .. Len(s)
        BY <1>4
      <4>3. (\E k \in 1 .. Len(t) : t[k] = "flow") \/ s[1] = "flow"
        BY <1>5, <2>1, <3>1 DEF HasFlow, Flows!Contains
      <4> QED
        BY <1>4, <3>1, <4>1, <4>2, <4>3 DEF HasFlow, Flows!Contains
    <3>2. CASE d # c
      BY <1>5, <2>1, <3>2, SameFlow
    <3> QED
      BY <3>1, <3>2
  <2> QED
    BY <2>1
<1>9. TogetherOK'
  BY <1>1, <1>2, <1>8, TogetherKeeps, FlowFacts
<1>10. EntryOK'
  <2> SUFFICES ASSUME ~loose', rflowCpu' \in on', HasFlow(rflowCpu)'
               PROVE  \E j \in 1 .. MaxBacklog + 2 : AheadBy(j)'
    BY DEF EntryOK
  <2>1. ~loose /\ rflowCpu \in on /\ rflowCpu \in Cpu
    BY <1>1, <1>2, FlowFacts
  <2>2. HasFlow(rflowCpu)
    BY <1>1, <1>8, <2>1 DEF HasFlow
  <2>3. PICK j \in 1 .. MaxBacklog + 2 : AheadBy(j)
    BY <2>1, <2>2 DEF FlowsIInv, EntryOK
  <2>4. CASE rflowCpu # c
    <3>1. fifo'[rflowCpu] = fifo[rflowCpu] /\ inHand'[rflowCpu] = inHand[rflowCpu]
      BY <1>5, <2>1, <2>4
    <3> QED
      BY <1>1, <2>3, <3>1 DEF AheadBy
  <2>5. CASE rflowCpu = c
    <3>1. lastQtail = (queueHead[c] + j) % TailWidth
          /\ \A k \in 1 .. Len(s) : s[k] = "flow" => Len(inHand[c]) + k <= j
      BY <2>3, <2>5 DEF AheadBy
    <3>2. ASSUME NEW k \in 1 .. Len(t), t[k] = "flow" PROVE 1 + k <= j
      <4>1. k + 1 \in 1 .. Len(s) /\ s[k + 1] = "flow"
        BY <1>4, <3>2
      <4>2. Len(inHand[c]) + (k + 1) <= j /\ Len(inHand[c]) = 0
        BY <1>1, <3>1, <4>1
      <4> QED
        BY <4>2
    <3> QED
      BY <1>1, <1>5, <2>5, <3>1, <3>2 DEF AheadBy
  <2> QED
    BY <2>4, <2>5
<1> QED
  BY <1>1, <1>5, <1>6, <1>7, <1>9, <1>10, FlowsKeep, FlowsTypes, FlowFacts

\* The head of a CPU goes on by one for a packet that is no longer there.
LEMMA CountedOne ==
  ASSUME Flows!RpsFlowAssumption, FlowsIInv, NEW c \in Cpu, Gap(c) # 0,
         queueHead' = [queueHead EXCEPT ![c] = Flows!Incr(@)], queueTail' = queueTail, steered' = steered,
         Len(fifo'[c]) + Len(inHand'[c]) = Len(fifo[c]) + Len(inHand[c]) - 1,
         \A d \in Cpu : d # c => fifo'[d] = fifo[d] /\ inHand'[d] = inHand[d]
  PROVE  Flows!CountersFit' /\ queueHead' \in [Cpu -> Tick]
<1>1. queueHead \in [Cpu -> Tick] /\ queueHead[c] \in Tick /\ queueTail[c] \in Tick
  BY FlowsTypes, FlowFacts
<1>2. /\ (queueTail[c] + TailWidth - Flows!Incr(queueHead[c])) % TailWidth = Gap(c) - 1 /\ Flows!Incr(queueHead[c]) \in Tick
  BY <1>1, GapsFit, GapIs
<1>3. queueHead' \in [Cpu -> Tick] /\ queueHead'[c] = Flows!Incr(queueHead[c])
      /\ \A d \in Cpu : d # c => queueHead'[d] = queueHead[d]
  BY <1>1, <1>2
<1>4. ASSUME NEW d \in Cpu
      PROVE  (queueTail[d] + TailWidth - queueHead'[d]) % TailWidth = Len(fifo'[d]) + Len(inHand'[d]) + InAir(d)
  <2>1. CASE d = c
    <3>1. InAir(c) \in Nat /\ Len(fifo[c]) \in Nat /\ Len(inHand[c]) \in Nat
      BY FlowFacts DEF InAir
    <3>2. Gap(c) - 1 = Len(fifo[c]) + Len(inHand[c]) - 1 + InAir(c)
      <4> DEFINE f == Len(fifo[c])
                 h == Len(inHand[c])
                 a == InAir(c)
      <4>1. f \in Nat /\ h \in Nat /\ a \in Nat /\ Gap(c) = f + h + a
        BY <3>1 DEF Gap
      <4> HIDE DEF f, h, a
      <4>2. Gap(c) - 1 = f + h - 1 + a
        BY <4>1
      <4> QED
        BY <4>2 DEF f, h, a
    <3> QED
      BY <1>2, <1>3, <2>1, <3>2
  <2>2. CASE d # c
    <3>1. (queueTail[d] + TailWidth - queueHead[d]) % TailWidth = Gap(d)
      BY GapsFit
    <3> QED
      BY <1>3, <2>2, <3>1 DEF Gap
  <2> QED
    BY <2>1, <2>2
<1> QED
  BY <1>3, <1>4 DEF Flows!CountersFit, InAir

LEMMA ProcessedOK ==
  ASSUME Flows!RpsFlowAssumption, FlowsIInv, NEW c \in Cpu, Flows!Processed(c)
  PROVE  FlowsIInv'
<1>1. /\ inHand[c] # <<>> /\ inHand' = [inHand EXCEPT ![c] = <<>>]
      /\ queueHead' = [queueHead EXCEPT ![c] = Flows!Incr(@)]
      /\ UNCHANGED <<on, ident, rflowCpu, lastQtail, fifo, queueTail, steered>>
  BY DEF Flows!Processed
<1>2. loose' = loose
  BY Zenon DEF Flows!Processed
<1>3. /\ inHand \in [Cpu -> Seq(FlowKind)] /\ inHand[c] \in Seq(FlowKind)
      /\ Len(inHand[c]) \in 0 .. 1 /\ Len(fifo[c]) \in Nat /\ MaxBacklog \in Nat
  BY FlowsTypes, FlowFacts, WidthIs
<1>4. Len(inHand[c]) = 1 /\ Gap(c) # 0
  <2>1. Len(inHand[c]) # 0
    BY <1>1, <1>3
  <2>2. Len(inHand[c]) = 1
    BY <1>3, <2>1
  <2>3. InAir(c) \in {0, 1}
    BY DEF InAir
  <2> QED
    BY <1>3, <2>2, <2>3 DEF Gap
<1>5. /\ inHand'[c] = <<>> /\ Len(inHand'[c]) = 0 /\ inHand' \in [Cpu -> Seq(FlowKind)]
      /\ \A d \in Cpu : d # c => inHand'[d] = inHand[d]
  BY <1>1, <1>3
<1>6. PlacesOK'
  <2>1. ASSUME NEW d \in Cpu
        PROVE  /\ Len(fifo'[d]) <= MaxBacklog + 1 /\ Len(inHand'[d]) <= 1
               /\ d \notin on => inHand'[d] = <<>>
    <3>1. /\ Len(fifo[d]) <= MaxBacklog + 1 /\ Len(inHand[d]) <= 1
          /\ d \notin on => inHand[d] = <<>>
      BY DEF FlowsIInv, PlacesOK
    <3>2. CASE d = c
      BY <1>1, <1>5, <3>1, <3>2
    <3>3. CASE d # c
      BY <1>1, <1>5, <3>1, <3>3
    <3> QED
      BY <3>2, <3>3
  <2> QED
    BY <1>1, <2>1, PlacesKeep
<1>7. Flows!CountersFit' /\ queueHead' \in [Cpu -> Tick]
  <2>1. Len(fifo'[c]) + Len(inHand'[c]) = Len(fifo[c]) + Len(inHand[c]) - 1
    BY <1>1, <1>3, <1>4, <1>5
  <2> QED
    BY <1>1, <1>4, <1>5, <2>1, CountedOne
<1>8. \A d \in Cpu : HasFlow(d)' => HasFlow(d)
  <2>1. ASSUME NEW d \in Cpu, HasFlow(d)' PROVE HasFlow(d)
    <3>1. CASE d = c
      BY <1>1, <1>5, <2>1, <3>1 DEF HasFlow, Flows!Contains
    <3>2. CASE d # c
      BY <1>1, <1>5, <2>1, <3>2, SameFlow
    <3> QED
      BY <3>1, <3>2
  <2> QED
    BY <2>1
<1>9. TogetherOK'
  BY <1>1, <1>2, <1>8, TogetherKeeps, FlowFacts
<1>10. EntryOK'
  <2> SUFFICES ASSUME ~loose', rflowCpu' \in on', HasFlow(rflowCpu)'
               PROVE  \E j \in 1 .. MaxBacklog + 2 : AheadBy(j)'
    BY DEF EntryOK
  <2>1. ~loose /\ rflowCpu \in on /\ rflowCpu \in Cpu
    BY <1>1, <1>2, FlowFacts
  <2>2. HasFlow(rflowCpu)
    BY <1>1, <1>8, <2>1 DEF HasFlow
  <2>3. PICK j \in 1 .. MaxBacklog + 2 : AheadBy(j)
    BY <2>1, <2>2 DEF FlowsIInv, EntryOK
  <2>4. CASE rflowCpu # c
    <3>1. queueHead'[rflowCpu] = queueHead[rflowCpu] /\ inHand'[rflowCpu] = inHand[rflowCpu]
      BY <1>1, <1>5, <2>1, <2>4, FlowsTypes
    <3> QED
      BY <1>1, <2>3, <3>1 DEF AheadBy
  <2>5. CASE rflowCpu = c
    <3>1. lastQtail = (queueHead[c] + j) % TailWidth
          /\ \A k \in 1 .. Len(fifo[c]) : fifo[c][k] = "flow" => Len(inHand[c]) + k <= j
      BY <2>3, <2>5 DEF AheadBy
    <3>2. Flows!Contains(fifo[c], "flow")
      <4>1. HasFlow(c)'
        BY <1>1, <2>5
      <4> QED
        BY <1>1, <1>5, <4>1 DEF HasFlow, Flows!Contains
    <3>3. PICK k \in 1 .. Len(fifo[c]) : fifo[c][k] = "flow"
      BY <3>2 DEF Flows!Contains
    <3>4. j - 1 \in 1 .. MaxBacklog + 2
      <4>1. 1 + k <= j
        BY <1>4, <3>1, <3>3
      <4> QED
        BY <1>3, <4>1
    <3>5. lastQtail = (queueHead'[c] + (j - 1)) % TailWidth
      <4>1. queueHead'[c] = Flows!Incr(queueHead[c]) /\ queueHead[c] \in Tick
        BY <1>1, FlowsTypes
      <4> QED
        BY <3>1, <4>1, NextHead
    <3>6. ASSUME NEW l \in 1 .. Len(fifo[c]), fifo[c][l] = "flow" PROVE Len(inHand'[c]) + l <= j - 1
      <4>1. 1 + l <= j
        BY <1>4, <3>1, <3>6
      <4> QED
        BY <1>3, <1>5, <4>1
    <3>7. AheadBy(j - 1)'
      BY <1>1, <2>5, <3>5, <3>6 DEF AheadBy
    <3> QED
      BY <3>4, <3>7
  <2> QED
    BY <2>4, <2>5
<1> QED
  BY <1>1, <1>5, <1>6, <1>7, <1>9, <1>10, FlowsKeep, FlowsTypes, FlowFacts

LEMMA FlowsFlushOK ==
  ASSUME Flows!RpsFlowAssumption, FlowsIInv, NEW c \in Cpu, NEW i, Flows!Flush(c, i)
  PROVE  FlowsIInv'
<1> DEFINE s == fifo[c]
           t == Flows!RemoveAt(s, i)
           before == inHand[c] \o SubSeq(s, 1, i - 1)
<1>1. /\ c \in on /\ i \in DOMAIN s /\ s[i] = "other"
      /\ fifo' = [fifo EXCEPT ![c] = Flows!RemoveAt(@, i)]
      /\ queueHead' = [queueHead EXCEPT ![c] = Flows!Incr(@)]
      /\ UNCHANGED <<on, ident, rflowCpu, lastQtail, inHand, queueTail, steered>>
  BY DEF Flows!Flush
<1>2. ~loose' => ~loose /\ ~Flows!Contains(before, "flow")
  BY Zenon DEF Flows!Flush
<1>3. /\ fifo \in [Cpu -> Seq(FlowKind)] /\ s \in Seq(FlowKind) /\ inHand[c] \in Seq(FlowKind)
      /\ Len(inHand[c]) \in 0 .. 1 /\ Len(s) \in 0 .. MaxBacklog + 1 /\ MaxBacklog \in Nat
  BY FlowsTypes, FlowFacts, WidthIs
<1>4. i \in 1 .. Len(s) /\ Len(s) \in Nat \ {0}
  BY <1>1, <1>3
<1>5. /\ t \in Seq(FlowKind) /\ Len(t) = Len(s) - 1
      /\ \A k \in 1 .. i - 1 : t[k] = s[k]
      /\ \A k \in i .. Len(s) - 1 : t[k] = s[k + 1]
  BY <1>3, <1>4, Removed, FlowsRemoves
<1>6. ~loose' => /\ ~Flows!Contains(inHand[c], "flow")
                 /\ \A k \in 1 .. i - 1 : s[k] # "flow"
  <2> DEFINE b == SubSeq(s, 1, i - 1)
  <2>1. b \in Seq(FlowKind) /\ Len(b) = i - 1 /\ \A k \in 1 .. i - 1 : b[k] = s[k]
    <3>1. 1 \in 1 .. Len(s) + 1 /\ i - 1 \in 0 .. Len(s) /\ 1 <= i - 1 + 1
      BY <1>4
    <3>2. b \in Seq(FlowKind) /\ Len(b) = i - 1 - 1 + 1 /\ \A k \in 1 .. i - 1 - 1 + 1 : b[k] = s[1 + k - 1]
      BY <1>3, <3>1, PartOfSeq
    <3> QED
      BY <1>4, <3>2
  <2> HIDE DEF b
  <2>2. /\ Len(inHand[c] \o b) = Len(inHand[c]) + Len(b)
        /\ \A k \in 1 .. Len(inHand[c]) : (inHand[c] \o b)[k] = inHand[c][k]
        /\ \A k \in Len(inHand[c]) + 1 .. Len(inHand[c]) + Len(b) : (inHand[c] \o b)[k] = b[k - Len(inHand[c])]
    <3>1. inHand[c] \in Seq(FlowKind) /\ b \in Seq(FlowKind)
      BY <1>3, <2>1
    <3> QED
      BY <3>1, AtEnd
  <2> DEFINE q == inHand[c] \o b
             h == Len(inHand[c])
  <2> HIDE DEF q
  <2>3. h \in Nat /\ i - 1 \in Nat
    BY <1>3, <1>4
  <2>4. ASSUME ~Flows!Contains(q, "flow")
        PROVE  ~Flows!Contains(inHand[c], "flow") /\ \A k \in 1 .. i - 1 : s[k] # "flow"
    <3>1. \A k \in 1 .. h + (i - 1) : q[k] # "flow"
      BY <2>1, <2>2, <2>4 DEF Flows!Contains, q
    <3>2. \A k \in 1 .. h : inHand[c][k] # "flow"
      <4>1. \A k \in 1 .. h : k \in 1 .. h + (i - 1)
        BY <2>3
      <4> QED
        BY <2>2, <3>1, <4>1 DEF q
    <3>3. ASSUME NEW k \in 1 .. i - 1 PROVE s[k] # "flow"
      <4>1. h + k \in 1 .. h + (i - 1) /\ h + k \in h + 1 .. h + Len(b) /\ h + k - h = k
        BY <2>1, <2>3
      <4>2. q[h + k] = b[h + k - h]
        BY <2>2, <4>1 DEF q
      <4> QED
        BY <2>1, <3>1, <4>1, <4>2
    <3> QED
      BY <3>2, <3>3 DEF Flows!Contains
  <2> QED
    BY <1>2, <2>4 DEF b, q
<1>7. /\ fifo'[c] = t /\ fifo' \in [Cpu -> Seq(FlowKind)]
      /\ \A d \in Cpu : d # c => fifo'[d] = fifo[d] /\ inHand'[d] = inHand[d]
  BY <1>1, <1>3, <1>5
<1> HIDE DEF t
<1>8. PlacesOK'
  <2>1. ASSUME NEW d \in Cpu
        PROVE  /\ Len(fifo'[d]) <= MaxBacklog + 1 /\ Len(inHand'[d]) <= 1
               /\ d \notin on => inHand'[d] = <<>>
    <3>1. /\ Len(fifo[d]) <= MaxBacklog + 1 /\ Len(inHand[d]) <= 1
          /\ d \notin on => inHand[d] = <<>>
      BY DEF FlowsIInv, PlacesOK
    <3>2. CASE d = c
      <4>1. Len(fifo'[c]) <= MaxBacklog + 1
        BY <1>3, <1>5, <1>7
      <4> QED
        BY <1>1, <3>1, <3>2, <4>1
    <3>3. CASE d # c
      BY <1>1, <1>7, <3>1, <3>3
    <3> QED
      BY <3>2, <3>3
  <2> QED
    BY <1>1, <2>1, PlacesKeep
<1>9. Flows!CountersFit' /\ queueHead' \in [Cpu -> Tick]
  <2>1. Len(fifo'[c]) + Len(inHand'[c]) = Len(fifo[c]) + Len(inHand[c]) - 1
    <3>1. Len(fifo'[c]) = Len(s) - 1 /\ inHand'[c] = inHand[c]
      BY <1>1, <1>5, <1>7
    <3> QED
      BY <1>3, <3>1
  <2>2. Gap(c) # 0
    <3>1. InAir(c) \in {0, 1}
      BY DEF InAir
    <3> QED
      BY <1>3, <1>4, <3>1 DEF Gap
  <2> QED
    BY <1>1, <1>7, <2>1, <2>2, CountedOne
<1>10. \A k \in 1 .. Len(t) : \/ k \in 1 .. i - 1 /\ k \in 1 .. Len(s) /\ t[k] = s[k]
                              \/ k >= i /\ k + 1 \in 1 .. Len(s) /\ t[k] = s[k + 1]
  <2>1. ASSUME NEW k \in 1 .. Len(t)
        PROVE  \/ k \in 1 .. i - 1 /\ k \in 1 .. Len(s) /\ t[k] = s[k]
               \/ k >= i /\ k + 1 \in 1 .. Len(s) /\ t[k] = s[k + 1]
    <3>1. CASE k < i
      BY <1>4, <1>5, <3>1
    <3>2. CASE k >= i
      <4>1. k \in i .. Len(s) - 1 /\ k + 1 \in 1 .. Len(s)
        BY <1>4, <1>5, <3>2
      <4> QED
        BY <1>5, <3>2, <4>1
    <3> QED
      BY <1>4, <3>1, <3>2
  <2> QED
    BY <2>1
<1>11. \A d \in Cpu : HasFlow(d)' => HasFlow(d)
  <2>1. ASSUME NEW d \in Cpu, HasFlow(d)' PROVE HasFlow(d)
    <3>1. CASE d = c
      BY <1>1, <1>7, <1>10, <2>1, <3>1 DEF HasFlow, Flows!Contains
    <3>2. CASE d # c
      BY <1>7, <2>1, <3>2, SameFlow
    <3> QED
      BY <3>1, <3>2
  <2> QED
    BY <2>1
<1>12. TogetherOK'
  BY <1>1, <1>2, <1>11, TogetherKeeps, FlowFacts
<1>13. EntryOK'
  <2> SUFFICES ASSUME ~loose', rflowCpu' \in on', HasFlow(rflowCpu)'
               PROVE  \E j \in 1 .. MaxBacklog + 2 : AheadBy(j)'
    BY DEF EntryOK
  <2>1. ~loose /\ rflowCpu \in on /\ rflowCpu \in Cpu
    BY <1>1, <1>2, FlowFacts
  <2>2. HasFlow(rflowCpu)
    BY <1>1, <1>11, <2>1 DEF HasFlow
  <2>3. PICK j \in 1 .. MaxBacklog + 2 : AheadBy(j)
    BY <2>1, <2>2 DEF FlowsIInv, EntryOK
  <2>4. CASE rflowCpu # c
    <3>1. queueHead'[rflowCpu] = queueHead[rflowCpu] /\ fifo'[rflowCpu] = fifo[rflowCpu]
      BY <1>1, <1>7, <2>1, <2>4, FlowsTypes
    <3> QED
      BY <1>1, <2>3, <3>1 DEF AheadBy
  <2>5. CASE rflowCpu = c
    <3> DEFINE h == Len(inHand[c])
    <3>1. /\ lastQtail = (queueHead[c] + j) % TailWidth
          /\ \A k \in 1 .. Len(s) : s[k] = "flow" => h + k <= j
      BY <2>3, <2>5 DEF AheadBy
    <3>2. h \in 0 .. 1
      BY <1>3
    <3> HIDE DEF h
    <3>3. ASSUME NEW l \in 1 .. Len(t), t[l] = "flow" PROVE l >= 1 /\ h + l <= j - 1
      <4>1. l + 1 \in 1 .. Len(s) /\ s[l + 1] = "flow"
        BY <1>6, <1>10, <3>3
      <4>2. h + (l + 1) <= j
        BY <3>1, <4>1
      <4> QED
        BY <3>2, <4>2
    <3>4. PICK l \in 1 .. Len(t) : t[l] = "flow"
      BY <1>1, <1>6, <1>7, <2>5 DEF HasFlow, Flows!Contains
    <3>5. j - 1 \in 1 .. MaxBacklog + 2
      <4>1. l >= 1 /\ h + l <= j - 1
        BY <3>3, <3>4
      <4> QED
        BY <1>3, <3>2, <4>1
    <3>6. lastQtail = (queueHead'[c] + (j - 1)) % TailWidth
      <4>1. queueHead'[c] = Flows!Incr(queueHead[c]) /\ queueHead[c] \in Tick
        BY <1>1, FlowsTypes
      <4> QED
        BY <3>1, <4>1, NextHead
    <3>7. AheadBy(j - 1)'
      BY <1>1, <1>7, <2>5, <3>3, <3>6 DEF AheadBy, h
    <3> QED
      BY <3>5, <3>7
  <2> QED
    BY <2>4, <2>5
<1> QED
  BY <1>1, <1>7, <1>8, <1>9, <1>12, <1>13, FlowsKeep, FlowsTypes, FlowFacts

\* The packet that goes behind c's others, or is dropped
LEMMA EnqueueTypes ==
  ASSUME Flows!RpsFlowAssumption, FlowsIInv, NEW r \in Receiver, Flows!Enqueue(r)
  PROVE  /\ Placed(r) /\ steered[r].cpu \in Cpu
         /\ steered' \in [Receiver -> Packet] /\ steered'[r] = Flows!Nothing
         /\ \A s \in Receiver : s # r => steered'[s] = steered[s]
         /\ UNCHANGED <<on, ident, rflowCpu, inHand>>
         /\ queueHead' \in [Cpu -> Tick]
         /\ \A d \in Cpu : queueHead'[d] = IF d = steered[r].from THEN Flows!Incr(queueHead[d]) ELSE queueHead[d]
<1> DEFINE g == steered[r].from
<1>1. /\ ~Flows!Idle(r) /\ steered' = [steered EXCEPT ![r] = Flows!Nothing] /\ UNCHANGED <<on, ident, rflowCpu, inHand>>
      /\ queueHead' = IF g = NoCpu THEN queueHead ELSE [queueHead EXCEPT ![g] = Flows!Incr(@)]
  BY DEF Flows!Enqueue
<1>2. /\ steered' \in [Receiver -> Packet] /\ steered'[r] = Flows!Nothing
      /\ \A s \in Receiver : s # r => steered'[s] = steered[s]
  <2>1. Flows!Nothing \in Packet
    BY DEF Flows!Nothing, Packet
  <2> HIDE DEF Packet, Flows!Nothing
  <2> QED
    BY <1>1, <2>1, FlowFacts
<1>3. Placed(r) /\ steered[r].cpu \in Cpu /\ g \in Cpu \cup {NoCpu}
  BY <1>1, FlowFacts DEF Placed
<1>4. queueHead \in [Cpu -> Tick] /\ NoCpu \notin Cpu
  BY FlowsTypes, FlowFacts
<1>5. \A d \in Cpu : Flows!Incr(queueHead[d]) \in Tick
  <2>1. ASSUME NEW d \in Cpu PROVE Flows!Incr(queueHead[d]) \in Tick
    <3>1. queueHead[d] \in Tick /\ queueTail[d] \in Tick /\ Gap(d) \in 0 .. MaxBacklog + 2
          /\ (queueTail[d] + TailWidth - queueHead[d]) % TailWidth = Gap(d)
      BY GapsFit, FlowFacts
    <3> QED
      BY <3>1, GapIs
  <2> QED
    BY <2>1
<1> HIDE DEF g
<1>6. queueHead' \in [Cpu -> Tick]
      /\ \A d \in Cpu : queueHead'[d] = IF d = g THEN Flows!Incr(queueHead[d]) ELSE queueHead[d]
  <2>1. CASE g = NoCpu
    BY <1>1, <1>4, <2>1
  <2>2. CASE g # NoCpu
    BY <1>1, <1>3, <1>4, <1>5, <2>2
  <2> QED
    BY <2>1, <2>2
<1> QED
  BY <1>1, <1>2, <1>3, <1>6 DEF g

\* The receiver's packet is gone: the counters fit what is left.
LEMMA EnqueueCounts ==
  ASSUME Flows!RpsFlowAssumption, FlowsIInv, NEW r \in Receiver, Flows!Enqueue(r), NEW d \in Cpu
  PROVE  /\ InAir(d)' \in {0, 1}
         /\ (queueTail[d] + TailWidth - queueHead'[d]) % TailWidth = Len(fifo[d]) + Len(inHand[d]) + InAir(d)'
<1> DEFINE g == steered[r].from
           m == Len(fifo[d])
           h == Len(inHand[d])
<1>1. /\ (queueTail[d] + TailWidth - queueHead[d]) % TailWidth = Gap(d) /\ Gap(d) \in 0 .. MaxBacklog + 2
      /\ m \in Nat /\ h \in Nat /\ queueHead[d] \in Tick /\ queueTail[d] \in Tick
      /\ Callback \in Receiver /\ d # NoCpu /\ Flows!Nothing.from = NoCpu
  BY GapsFit, FlowFacts
<1>2. /\ Placed(r) /\ steered'[r] = Flows!Nothing /\ \A s \in Receiver : s # r => steered'[s] = steered[s]
      /\ queueHead'[d] = IF d = g THEN Flows!Incr(queueHead[d]) ELSE queueHead[d]
  BY EnqueueTypes
<1>3. InAir(d) \in {0, 1} /\ InAir(d)' \in {0, 1}
  BY DEF InAir
<1>4. Gap(d) = m + h + InAir(d)
  BY DEF Gap
<1>5. CASE d = g
  <2>1. r = Callback
    BY <1>1, <1>2, <1>5 DEF Placed
  <2>2. InAir(d) = 1 /\ InAir(d)' = 0
    BY <1>1, <1>2, <1>5, <2>1 DEF InAir
  <2> HIDE DEF m, h, g
  <2>3. Gap(d) # 0 /\ Gap(d) - 1 = m + h + 0
    BY <1>1, <1>4, <2>2
  <2>4. (queueTail[d] + TailWidth - Flows!Incr(queueHead[d])) % TailWidth = Gap(d) - 1
    BY <1>1, <2>3, GapIs
  <2>5. (queueTail[d] + TailWidth - queueHead'[d]) % TailWidth = m + h + InAir(d)'
    BY <1>2, <1>5, <2>2, <2>3, <2>4
  <2> QED
    BY <1>3, <2>5 DEF m, h
<1>6. CASE d # g
  <2>1. InAir(d)' = InAir(d)
    <3>1. CASE r = Callback
      BY <1>1, <1>2, <1>6, <3>1 DEF InAir
    <3>2. CASE r # Callback
      BY <1>1, <1>2, <3>2 DEF InAir
    <3> QED
      BY <3>1, <3>2
  <2> QED
    BY <1>1, <1>2, <1>3, <1>4, <1>6, <2>1
<1> QED
  BY <1>5, <1>6

LEMMA EnqueueOK ==
  ASSUME Flows!RpsFlowAssumption, FlowsIInv, NEW r \in Receiver, Flows!Enqueue(r)
  PROVE  FlowsIInv'
<1> DEFINE c == steered[r].cpu
           x == steered[r].kind
<1>1. /\ c \in on /\ c \in Cpu /\ x \in FlowKind
      /\ steered' \in [Receiver -> Packet] /\ steered'[r] = Flows!Nothing
      /\ \A s \in Receiver : s # r => steered'[s] = steered[s]
      /\ UNCHANGED <<on, ident, rflowCpu, inHand>>
      /\ queueHead' \in [Cpu -> Tick]
  BY EnqueueTypes DEF Placed
<1>2. loose' = loose
  BY Zenon DEF Flows!Enqueue
<1>3. \/ /\ Len(fifo[c]) <= MaxBacklog /\ fifo' = [fifo EXCEPT ![c] = Append(@, x)]
         /\ queueTail' = [queueTail EXCEPT ![c] = Flows!Incr(@)]
         /\ lastQtail' = IF x = "flow" THEN Flows!Qtail(c) ELSE lastQtail
      \/ UNCHANGED <<fifo, queueTail, lastQtail>>
  BY DEF Flows!Enqueue
<1>4. MaxBacklog \in Nat
  BY WidthIs
<1>5. \A d \in on : queueHead'[d] = queueHead[d] /\ inHand'[d] = inHand[d]
  <2>1. steered[r].from \notin on
    BY EnqueueTypes DEF Placed
  <2> QED
    BY <1>1, <2>1, EnqueueTypes, FlowFacts
<1>6. /\ \A s \in Receiver : Flows!Idle(s)' \/ Placed(s)'
      /\ ~loose' => SteeredTogether'
  <2>1. Flows!Nothing' = Flows!Nothing /\ FlowKind' = FlowKind /\ Flows!Nothing.kind = "none"
    BY DEF Flows!Nothing, FlowKind
  <2>2. ASSUME NEW s \in Receiver PROVE Flows!Idle(s)' \/ Placed(s)'
    <3>1. CASE s = r
      BY <1>1, <2>1, <3>1 DEF Flows!Idle
    <3>2. CASE s # r
      BY <1>1, <2>1, <3>2, FlowFacts DEF Flows!Idle, Placed
    <3> QED
      BY <3>1, <3>2
  <2>3. ASSUME ~loose', NEW s \in Receiver, steered'[s].kind = "flow" PROVE steered'[s].cpu = rflowCpu'
    <3>1. ~loose => SteeredTogether
      BY Zenon DEF FlowsIInv, TogetherOK
    <3>2. s # r /\ steered'[s] = steered[s]
      BY <1>1, <2>1, <2>3
    <3> QED
      BY <1>1, <1>2, <2>3, <3>1, <3>2 DEF SteeredTogether
  <2> QED
    BY <2>2, <2>3 DEF SteeredTogether
<1>7. CASE UNCHANGED <<fifo, queueTail, lastQtail>>
  <2>1. PlacesOK'
    BY <1>1, <1>6, <1>7 DEF FlowsIInv, PlacesOK
  <2>2. Flows!CountersFit'
    <3>1. ASSUME NEW d \in Cpu
          PROVE  (queueTail'[d] + TailWidth - queueHead'[d]) % TailWidth = Len(fifo'[d]) + Len(inHand'[d]) + InAir(d)'
      BY <1>1, <1>7, EnqueueCounts
    <3> QED
      BY <3>1 DEF Flows!CountersFit, InAir
  <2>3. \A d \in on : fifo'[d] = fifo[d] /\ inHand'[d] = inHand[d]
    BY <1>1, <1>7
  <2>4. TogetherOK'
    <3>1. \A d \in on : HasFlow(d)' <=> HasFlow(d)
      BY <2>3, SameFlow
    <3>2. ~loose => \A d \in on \ {rflowCpu} : ~HasFlow(d)
      BY Zenon DEF FlowsIInv, TogetherOK
    <3>3. ~loose' => \A d \in on' \ {rflowCpu'} : ~HasFlow(d)'
      BY <1>1, <1>2, <3>1, <3>2
    <3> QED
      BY <1>6, <3>3 DEF TogetherOK
  <2>5. EntryOK'
    BY <1>1, <1>2, <1>5, <1>7, <2>3, EntryKeeps
  <2> QED
    BY <1>1, <1>7, <2>1, <2>2, <2>4, <2>5, FlowsKeep, FlowsTypes, FlowFacts
<1>8. CASE /\ Len(fifo[c]) <= MaxBacklog /\ fifo' = [fifo EXCEPT ![c] = Append(@, x)]
           /\ queueTail' = [queueTail EXCEPT ![c] = Flows!Incr(@)]
           /\ lastQtail' = IF x = "flow" THEN Flows!Qtail(c) ELSE lastQtail
  <2> DEFINE s == fifo[c]
             t == Append(s, x)
             h == Len(inHand[c])
  <2>1. /\ fifo \in [Cpu -> Seq(FlowKind)] /\ queueTail \in [Cpu -> Tick] /\ s \in Seq(FlowKind)
        /\ queueHead[c] \in Tick /\ queueTail[c] \in Tick /\ lastQtail \in Tick
    BY <1>1, FlowsTypes, FlowFacts
  <2>2. Len(s) \in Nat /\ h \in 0 .. 1
    BY <1>1, FlowFacts
  <2>3. /\ t \in Seq(FlowKind) /\ Len(t) = Len(s) + 1 /\ t[Len(s) + 1] = x
        /\ \A k \in 1 .. Len(s) : t[k] = s[k]
    BY <1>1, <2>1, OneMoreAtEnd
  <2>4. /\ Gap(c) = Len(s) + h /\ Gap(c) \in 0 .. MaxBacklog + 2
        /\ (queueTail[c] + TailWidth - queueHead[c]) % TailWidth = Gap(c)
    <3>1. InAir(c) = 0 /\ Gap(c) = Len(s) + h + InAir(c)
      BY <1>1, GapsFit DEF Gap
    <3>2. Len(s) + h + 0 = Len(s) + h
      <4> HIDE DEF h, s
      <4> QED BY <2>2
    <3>3. Gap(c) = Len(s) + h
      BY <3>1, <3>2
    <3> QED
      BY <1>1, <3>3, GapsFit
  <2>5. /\ (Flows!Incr(queueTail[c]) + TailWidth - queueHead[c]) % TailWidth = Gap(c) + 1
        /\ Flows!Incr(queueTail[c]) \in Tick
        /\ Flows!Incr(queueTail[c]) = (queueHead[c] + (Gap(c) + 1)) % TailWidth
    BY <2>1, <2>4, GapIs
  <2>6. /\ fifo' \in [Cpu -> Seq(FlowKind)] /\ fifo'[c] = t
        /\ \A d \in Cpu : d # c => fifo'[d] = fifo[d]
        /\ queueTail' \in [Cpu -> Tick] /\ queueTail'[c] = Flows!Incr(queueTail[c])
        /\ \A d \in Cpu : d # c => queueTail'[d] = queueTail[d]
    BY <1>1, <1>8, <2>1, <2>3, <2>5
  <2>7. /\ x = "flow" => lastQtail' = Flows!Incr(queueTail[c])
        /\ x # "flow" => lastQtail' = lastQtail
        /\ lastQtail' \in Tick
    BY <1>8, <2>1, <2>5 DEF Flows!Qtail
  <2> HIDE DEF t, x
  <2>8. PlacesOK'
    <3>1. ASSUME NEW d \in Cpu
          PROVE  /\ Len(fifo'[d]) <= MaxBacklog + 1 /\ Len(inHand'[d]) <= 1
                 /\ d \notin on => inHand'[d] = <<>>
      <4>1. /\ Len(fifo[d]) <= MaxBacklog + 1 /\ Len(inHand[d]) <= 1
            /\ d \notin on => inHand[d] = <<>>
        BY DEF FlowsIInv, PlacesOK
      <4>2. d = c => Len(fifo'[d]) <= MaxBacklog + 1
        BY <1>4, <1>8, <2>2, <2>3, <2>6
      <4> QED
        BY <1>1, <2>6, <4>1, <4>2
    <3> QED
      BY <1>1, <1>6, <3>1 DEF PlacesOK
  <2>9. Flows!CountersFit'
    <3>1. ASSUME NEW d \in Cpu
          PROVE  (queueTail'[d] + TailWidth - queueHead'[d]) % TailWidth = Len(fifo'[d]) + Len(inHand'[d]) + InAir(d)'
      <4>1. CASE d = c
        <5>1. queueHead'[c] = queueHead[c] /\ inHand'[c] = inHand[c]
          BY <1>1, <1>5
        <5>2. InAir(d)' = 0
          <6>1. InAir(c) = 0 /\ c # NoCpu /\ Flows!Nothing.from = NoCpu /\ Callback \in Receiver
            BY <1>1, GapsFit, FlowFacts
          <6>2. steered[Callback].from # c
            BY <6>1 DEF InAir
          <6>3. steered'[Callback].from # d
            <7>1. CASE Callback = r
              BY <1>1, <4>1, <6>1, <7>1
            <7>2. CASE Callback # r
              BY <1>1, <4>1, <6>1, <6>2, <7>2
            <7> QED
              BY <7>1, <7>2
          <6> QED
            BY <6>3 DEF InAir
        <5>3. Gap(c) + 1 = Len(t) + h + InAir(d)'
          <6> HIDE DEF h
          <6> QED BY <2>2, <2>3, <2>4, <5>2
        <5>4. (queueTail'[c] + TailWidth - queueHead'[c]) % TailWidth = Gap(c) + 1
          BY <2>5, <2>6, <5>1
        <5>5. Gap(c) + 1 = Len(fifo'[c]) + Len(inHand'[c]) + InAir(d)'
          BY <2>6, <5>1, <5>3
        <5> QED
          BY <4>1, <5>4, <5>5
      <4>2. CASE d # c
        BY <1>1, <2>6, <4>2, EnqueueCounts
      <4> QED
        BY <4>1, <4>2
    <3> QED
      BY <3>1 DEF Flows!CountersFit, InAir
  <2>10. \A k \in 1 .. Len(t) : \/ k \in 1 .. Len(s) /\ t[k] = s[k]
                                \/ k = Len(s) + 1 /\ t[k] = x
    BY <2>2, <2>3
  <2>11. x # "flow" => \A d \in Cpu : HasFlow(d)' => HasFlow(d)
    <3>1. ASSUME x # "flow", NEW d \in Cpu, HasFlow(d)' PROVE HasFlow(d)
      <4>1. CASE d = c
        BY <1>1, <2>6, <2>10, <3>1, <4>1 DEF HasFlow, Flows!Contains
      <4>2. CASE d # c
        BY <1>1, <2>6, <3>1, <4>2, SameFlow
      <4> QED
        BY <4>1, <4>2
    <3> QED
      BY <3>1
  <2>12. ~loose => /\ x = "flow" => c = rflowCpu
                   /\ \A d \in on \ {rflowCpu} : ~HasFlow(d)
    BY Zenon DEF FlowsIInv, TogetherOK, SteeredTogether, x
  <2>13. TogetherOK'
    <3>1. ASSUME ~loose', NEW d \in on \ {rflowCpu} PROVE ~HasFlow(d)'
      <4>1. ~loose /\ d \in Cpu
        BY <1>2, <3>1, FlowFacts
      <4>2. ~HasFlow(d)
        BY <2>12, <3>1, <4>1
      <4>3. CASE x # "flow"
        BY <2>11, <4>1, <4>2, <4>3
      <4>4. CASE x = "flow"
        <5>1. d # c
          BY <2>12, <3>1, <4>1, <4>4
        <5> QED
          BY <1>1, <2>6, <4>1, <4>2, <5>1, SameFlow
      <4> QED
        BY <4>3, <4>4
    <3> QED
      BY <1>1, <1>6, <3>1 DEF TogetherOK
  <2>14. EntryOK'
    <3> SUFFICES ASSUME ~loose', rflowCpu' \in on', HasFlow(rflowCpu)'
                 PROVE  \E j \in 1 .. MaxBacklog + 2 : AheadBy(j)'
      BY DEF EntryOK
    <3>1. ~loose /\ rflowCpu \in on /\ rflowCpu \in Cpu
      BY <1>1, <1>2, FlowFacts
    <3>2. CASE x = "flow"
      <4>1. c = rflowCpu
        BY <2>12, <3>1, <3>2
      <4>0. PICK j : j = Gap(c) + 1
        OBVIOUS
      <4>2. j \in 1 .. MaxBacklog + 2 /\ j = Len(s) + h + 1
        <5> HIDE DEF h
        <5>1. h \in 0 .. 1 /\ Len(s) <= MaxBacklog /\ Gap(c) = Len(s) + h
          BY <1>8, <2>2, <2>4 DEF h
        <5> QED
          BY <1>4, <2>2, <4>0, <5>1
      <4>3. lastQtail' = (queueHead'[c] + j) % TailWidth
        BY <1>1, <1>5, <2>5, <2>7, <3>2, <4>0
      <4>4. ASSUME NEW k \in 1 .. Len(t) PROVE h + k <= j
        <5> HIDE DEF h
        <5>1. h \in 0 .. 1 /\ k \in 1 .. Len(s) + 1
          BY <2>2, <2>3 DEF h
        <5> QED
          BY <2>2, <4>2, <5>1
      <4>5. AheadBy(j)'
        BY <1>1, <2>6, <4>1, <4>3, <4>4 DEF AheadBy
      <4> QED
        BY <4>2, <4>5
    <3>3. CASE x # "flow"
      <4>1. HasFlow(rflowCpu)
        BY <1>1, <2>11, <3>1, <3>3 DEF HasFlow
      <4>2. PICK j \in 1 .. MaxBacklog + 2 : AheadBy(j)
        BY <3>1, <4>1 DEF FlowsIInv, EntryOK
      <4>3. lastQtail' = lastQtail /\ queueHead'[rflowCpu] = queueHead[rflowCpu]
        BY <1>5, <2>7, <3>1, <3>3
      <4>4. CASE rflowCpu # c
        <5>1. fifo'[rflowCpu] = fifo[rflowCpu]
          BY <2>6, <3>1, <4>4
        <5> QED
          BY <1>1, <4>2, <4>3, <5>1 DEF AheadBy
      <4>5. CASE rflowCpu = c
        <5>1. \A k \in 1 .. Len(s) : s[k] = "flow" => h + k <= j
          BY <4>2, <4>5 DEF AheadBy
        <5>2. \A k \in 1 .. Len(t) : t[k] = "flow" => h + k <= j
          BY <2>10, <3>3, <5>1
        <5> QED
          BY <1>1, <2>6, <4>2, <4>3, <4>5, <5>2 DEF AheadBy
      <4> QED
        BY <4>4, <4>5
    <3> QED
      BY <3>2, <3>3
  <2> QED
    BY <1>1, <2>6, <2>7, <2>8, <2>9, <2>13, <2>14, FlowsKeep, FlowsTypes, FlowFacts
<1> QED
  BY <1>3, <1>7, <1>8

\* recvmsg and CPUs that go and come.
LEMMA OutsideOK ==
  ASSUME Flows!RpsFlowAssumption, FlowsIInv, NEW c \in Cpu \cup {NoCpu},
         Flows!Recvmsg(c) \/ (c \in Cpu /\ (Flows!CpuDown(c) \/ Flows!CpuUp(c)))
  PROVE  FlowsIInv'
<1>1. /\ UNCHANGED <<rflowCpu, lastQtail, fifo, inHand, queueHead, queueTail, steered>>
      /\ ident' \in Cpu \cup {NoCpu}
  BY FlowFacts DEF Flows!Recvmsg, Flows!CpuDown, Flows!CpuUp
<1>2. loose' = loose
  BY Zenon DEF Flows!Recvmsg, Flows!CpuDown, Flows!CpuUp
<1>3. \/ on' = on
      \/ c \in on /\ on' = on \ {c} /\ inHand[c] = <<>> /\ \A r \in Receiver : Flows!Idle(r)
      \/ c \in Cpu \ on /\ on' = on \cup {c} /\ fifo[c] = <<>> /\ Flows!Idle(Callback)
  BY DEF Flows!Recvmsg, Flows!CpuDown, Flows!CpuUp
<1>4. on' \subseteq Cpu
  BY <1>3, FlowFacts
<1>5. PlacesOK'
  <2>1. Flows!Nothing' = Flows!Nothing /\ FlowKind' = FlowKind
    BY DEF Flows!Nothing, FlowKind
  <2>2. \A d \in Cpu : Len(fifo[d]) <= MaxBacklog + 1 /\ Len(inHand[d]) <= 1
    BY DEF FlowsIInv, PlacesOK
  <2>3. \A d \in Cpu : d \notin on' => inHand[d] = <<>>
    BY <1>3, FlowFacts
  <2>4. ASSUME NEW r \in Receiver PROVE Flows!Idle(r)' \/ Placed(r)'
    <3>1. Flows!Idle(r) \/ Placed(r)
      BY FlowFacts
    <3>2. CASE Flows!Idle(r)
      BY <1>1, <2>1, <3>2 DEF Flows!Idle
    <3>3. CASE ~Flows!Idle(r)
      <4>1. on' = on \/ (c \in Cpu \ on /\ on' = on \cup {c} /\ steered[r].from = NoCpu)
        BY <1>3, <3>1, <3>3 DEF Placed
      <4> QED
        BY <1>1, <2>1, <3>1, <3>3, <4>1, FlowFacts DEF Placed
    <3> QED
      BY <3>2, <3>3
  <2> QED
    BY <1>1, <2>1, <2>2, <2>3, <2>4 DEF PlacesOK
<1>6. Flows!CountersFit'
  BY <1>1 DEF FlowsIInv, Flows!CountersFit
<1>7. \A d \in Cpu : HasFlow(d)' <=> HasFlow(d)
  BY <1>1, SameFlow
<1>8. \A d \in on' : d \in on \/ ~HasFlow(d)
  <2>1. CASE c \in Cpu \ on /\ on' = on \cup {c} /\ fifo[c] = <<>>
    <3>1. inHand[c] = <<>> /\ Len(<<>>) = 0
      BY <2>1, FlowFacts
    <3>2. ~HasFlow(c)
      BY <2>1, <3>1 DEF HasFlow, Flows!Contains
    <3> QED
      BY <2>1, <3>2
  <2> QED
    BY <1>3, <2>1
<1>9. TogetherOK'
  <2>1. ~loose => SteeredTogether /\ \A d \in on \ {rflowCpu} : ~HasFlow(d)
    BY Zenon DEF FlowsIInv, TogetherOK
  <2>2. ASSUME ~loose', NEW d \in on' \ {rflowCpu} PROVE ~HasFlow(d)'
    BY <1>2, <1>4, <1>7, <1>8, <2>1, <2>2
  <2>3. ~loose' => SteeredTogether'
    BY <1>1, <1>2, <2>1 DEF SteeredTogether
  <2> QED
    BY <1>1, <2>2, <2>3 DEF TogetherOK
<1>10. EntryOK'
  <2> SUFFICES ASSUME ~loose', rflowCpu' \in on', HasFlow(rflowCpu)'
               PROVE  \E j \in 1 .. MaxBacklog + 2 : AheadBy(j)'
    BY DEF EntryOK
  <2>1. HasFlow(rflowCpu)
    BY <1>1 DEF HasFlow
  <2>2. ~loose /\ rflowCpu \in on
    BY <1>1, <1>2, <1>8, <2>1
  <2>3. PICK j \in 1 .. MaxBacklog + 2 : AheadBy(j)
    BY <2>1, <2>2 DEF FlowsIInv, EntryOK
  <2> QED
    BY <1>1, <2>3 DEF AheadBy
<1> QED
  BY <1>1, <1>4, <1>5, <1>6, <1>9, <1>10, FlowsKeep, FlowsTypes, FlowFacts

LEMMA FlowsStep == ASSUME Flows!RpsFlowAssumption, FlowsIInv, Flows!Next PROVE FlowsIInv'
<1>1. ASSUME NEW r \in Receiver, (r # Callback /\ Flows!Receive(r)) \/ Flows!Enqueue(r) PROVE FlowsIInv'
  BY <1>1, FlowsReceiveOK, EnqueueOK
<1>2. ASSUME NEW c \in Cpu, \/ Flows!Dequeue(c) \/ Flows!Processed(c) \/ \E i \in 1 .. MaxBacklog + 1 : Flows!Flush(c, i)
                            \/ Flows!Reinject(c)
      PROVE  FlowsIInv'
  BY <1>2, DequeueOK, ProcessedOK, FlowsFlushOK, FlowsReinjectOK
<1>3. ASSUME NEW c \in Cpu, Flows!CpuDown(c) \/ Flows!CpuUp(c) PROVE FlowsIInv'
  BY <1>3, OutsideOK
<1>4. ASSUME NEW c \in Cpu \cup {NoCpu}, Flows!Recvmsg(c) PROVE FlowsIInv'
  BY <1>4, OutsideOK
<1> QED
  BY <1>1, <1>2, <1>3, <1>4 DEF Flows!Next

LEMMA FlowsStay == ASSUME FlowsIInv, UNCHANGED Flows!flowVars PROVE FlowsIInv'
<1>1. UNCHANGED <<on, ident, rflowCpu, lastQtail, fifo, inHand, queueHead, queueTail, steered, loose>>
  BY DEF Flows!flowVars
<1>2. FlowsTypeOK' /\ PlacesOK' /\ Flows!CountersFit'
  BY <1>1 DEF FlowsIInv, FlowsTypeOK, PlacesOK, Placed, Packet, Flows!Idle, Flows!CountersFit, Tick, FlowKind,
              Flows!Nothing
<1>3. TogetherOK' /\ EntryOK'
  BY <1>1, Zenon DEF FlowsIInv, TogetherOK, SteeredTogether, EntryOK, AheadBy, HasFlow, Flows!Contains
<1> QED
  BY <1>2, <1>3 DEF FlowsIInv

LEMMA FlowsSound == ASSUME Flows!RpsFlowAssumption, FlowsIInv PROVE Flows!FlowsAreSound
<1>1. Flows!CountersFit
  BY DEF FlowsIInv
<1>2. ASSUME NEW c \in on, ~HasFlow(c) PROVE ~Flows!Contains(fifo[c] \o inHand[c], "flow")
  <2> DEFINE a == fifo[c]
             b == inHand[c]
             q == a \o b
  <2>1. a \in Seq(FlowKind) /\ b \in Seq(FlowKind)
    BY FlowFacts
  <2>2. \A k \in 1 .. Len(a) : a[k] # "flow"
    BY <1>2 DEF HasFlow, Flows!Contains
  <2>3. \A k \in 1 .. Len(b) : b[k] # "flow"
    BY <1>2 DEF HasFlow, Flows!Contains
  <2> HIDE DEF a, b
  <2>4. /\ Len(q) = Len(a) + Len(b)
        /\ \A k \in 1 .. Len(a) : q[k] = a[k]
        /\ \A k \in Len(a) + 1 .. Len(a) + Len(b) : q[k] = b[k - Len(a)]
    BY <2>1, AtEnd
  <2>5. Len(a) \in Nat /\ Len(b) \in Nat
    BY <2>1
  <2> HIDE DEF q
  <2>6. ASSUME NEW k \in 1 .. Len(q) PROVE q[k] # "flow"
    <3>1. CASE k \in 1 .. Len(a)
      BY <2>2, <2>4, <3>1
    <3>2. CASE k \in Len(a) + 1 .. Len(a) + Len(b)
      <4>1. k - Len(a) \in 1 .. Len(b)
        BY <2>5, <3>2
      <4> QED
        BY <2>3, <2>4, <3>2, <4>1
    <3> QED
      BY <2>4, <2>5, <3>1, <3>2
  <2>7. ~Flows!Contains(q, "flow")
    BY <2>6 DEF Flows!Contains
  <2> QED
    BY <2>7 DEF a, b, q
<1>3. Flows!FlowStaysTogether
  <2>1. ~loose => SteeredTogether /\ \A c \in on \ {rflowCpu} : ~HasFlow(c)
    BY Zenon DEF FlowsIInv, TogetherOK
  <2> QED
    BY <1>2, <2>1 DEF Flows!FlowStaysTogether, SteeredTogether
<1> QED
  BY <1>1, <1>3 DEF Flows!FlowsAreSound
-----------------------------------------------------------------------------
\* A step of PartsNext is one of a part, or leaves that part as it was.
LEMMA StackMoves == ASSUME [PartsNext]_partVars PROVE Stack!Next \/ UNCHANGED stackState
  BY DEF PartsNext, partVars, SocketsNext, TextsNext, ReceiveNext, NamesNext, QueuesNext, FlagsNext,
         MergeNext, StackNext, ProtocolsNext, StartsNext, FlowsNext, BitsNext, ExitsNext, StampsNext

LEMMA MergeMoves == ASSUME [PartsNext]_partVars PROVE Merge!Next \/ UNCHANGED mergeState
  BY DEF PartsNext, partVars, SocketsNext, TextsNext, ReceiveNext, NamesNext, QueuesNext, FlagsNext,
         MergeNext, StackNext, ProtocolsNext, StartsNext, FlowsNext, BitsNext, ExitsNext, StampsNext

LEMMA FlagsMove == ASSUME [PartsNext]_partVars PROVE Flags!Next \/ UNCHANGED flagsState
  BY DEF PartsNext, partVars, SocketsNext, TextsNext, ReceiveNext, NamesNext, QueuesNext, FlagsNext,
         MergeNext, StackNext, ProtocolsNext, StartsNext, FlowsNext, BitsNext, ExitsNext, StampsNext

LEMMA BitsMove == ASSUME [PartsNext]_partVars PROVE Bits!Next \/ UNCHANGED bitsState
  BY DEF PartsNext, partVars, SocketsNext, TextsNext, ReceiveNext, NamesNext, QueuesNext, FlagsNext,
         MergeNext, StackNext, ProtocolsNext, StartsNext, FlowsNext, BitsNext, ExitsNext, StampsNext

LEMMA StampsMove == ASSUME [PartsNext]_partVars PROVE Stamps!Next \/ UNCHANGED stampsState
  BY DEF PartsNext, partVars, SocketsNext, TextsNext, ReceiveNext, NamesNext, QueuesNext, FlagsNext,
         MergeNext, StackNext, ProtocolsNext, StartsNext, FlowsNext, BitsNext, ExitsNext, StampsNext

\* Devices stacked in a circle do not use up the kernel's stack nor wait for their own
\* lock, and each driver gets packets its device can send (__dev_queue_xmit, validate_xmit_skb).
THEOREM StackSoundness == PartsSpec => []StackIsSound
<1>1. PartsInit => StackIInv
  BY PartsAssumption, StackInit DEF PartsInit
<1>2. StackIInv /\ [PartsNext]_partVars => StackIInv'
  <2> SUFFICES ASSUME StackIInv, [PartsNext]_partVars PROVE StackIInv'
    OBVIOUS
  <2>1. CASE Stack!Next
    BY <2>1, PartsAssumption, StackStep
  <2>2. CASE UNCHANGED stackState
    <3>1. UNCHANGED <<frames, recursion, owned>> /\ stopped' \subseteq StackDev
      BY <2>2 DEF stackState, StackIInv, StackTypeOK
    <3> QED
      BY <3>1, StackStays
  <2> QED
    BY <2>1, <2>2, StackMoves
<1>3. StackIInv => StackIsSound
  BY PartsAssumption, StackSound DEF StackIsSound
<1> QED
  BY <1>1, <1>2, <1>3, PTL DEF PartsSpec

\* promiscuity and allmulti count those who want them, and IFF_UP is what the notifiers
\* were told; no device has a feature without what that needs, and LRO is off below a
\* device that does not want it; packets are stamped iff somebody wants it, once
\* netstamp_work has caught up (__dev_set_promiscuity, __dev_change_flags,
\* netdev_fix_features, netdev_sync_lower_features, netstamp_clear).
THEOREM FlagsAndBits == PartsSpec => []FlagsAreRight
<1> DEFINE IInv == FlagsIInv /\ BitsIInv /\ StampsIInv
<1>1. PartsInit => IInv
  BY PartsAssumption, FlagsInit, BitsInit, StampsInit DEF PartsInit
<1>2. ASSUME IInv, [PartsNext]_partVars PROVE IInv'
  <2>1. FlagsIInv'
    BY <1>2, PartsAssumption, FlagsMove, FlagsStep, FlagsStay DEF flagsState, Flags!rxVars
  <2>2. BitsIInv'
    BY <1>2, PartsAssumption, BitsMove, BitsStep, BitsStay DEF bitsState, Bits!featureVars
  <2>3. StampsIInv'
    BY <1>2, PartsAssumption, StampsMove, StampsStep, StampsStay DEF stampsState, Stamps!stampVars
  <2> QED
    BY <2>1, <2>2, <2>3
<1>3. IInv => FlagsAreRight
  BY PartsAssumption, FlagsSound, BitsSound, StampsSound DEF FlagsAreRight
<1> HIDE DEF IInv
<1>4. IInv /\ [PartsNext]_partVars => IInv'
  BY <1>2
<1> QED
  BY <1>1, <1>3, <1>4, PTL DEF PartsSpec

\* gro_count is the length of the list; a flow's packets reach the protocols in the order
\* they came, whatever is merged, flushed or freed; and cutting a merged packet up gives
\* the packets that were merged (dev_gro_receive, inet_gro_receive, inet_gso_segment).
THEOREM MergeSoundness == PartsSpec => []MergeIsSound
<1>1. PartsInit => MergeIInv
  BY PartsAssumption, MergeInit DEF PartsInit
<1>2. MergeIInv /\ [PartsNext]_partVars => MergeIInv'
  BY PartsAssumption, MergeMoves, MergeStep, MergeStay DEF mergeState, Merge!groVars
<1>3. MergeIInv => MergeIsSound
  BY MergeSound DEF MergeIsSound
<1> QED
  BY <1>1, <1>2, <1>3, PTL DEF PartsSpec

LEMMA QueuesMove == ASSUME [PartsNext]_partVars PROVE Queues!Next \/ UNCHANGED queuesState
  BY DEF PartsNext, partVars, SocketsNext, TextsNext, ReceiveNext, NamesNext, QueuesNext, FlagsNext,
         MergeNext, StackNext, ProtocolsNext, StartsNext, FlowsNext, BitsNext, ExitsNext, StampsNext

\* Whatever order the changes of the queues, of the classes and of the XPS maps and a
\* sending CPU come in, no packet ends up behind the last queue, and no map names a queue
\* twice (netif_set_real_num_tx_queues, netif_set_xps_queue, netdev_pick_tx).
THEOREM QueuesSoundness == PartsSpec => []QueuesAreSound
<1>1. PartsInit => QueuesIInv
  BY PartsAssumption, QueuesInit DEF PartsInit
<1>2. QueuesIInv /\ [PartsNext]_partVars => QueuesIInv'
  BY PartsAssumption, QueuesMove, QueuesStep
     DEF queuesState, Queues!txqVars, Queues!confVars, Queues!pickVars
<1>3. QueuesIInv => QueuesAreSound
  BY QueuesSound DEF QueuesAreSound
<1> QED
  BY <1>1, <1>2, <1>3, PTL DEF PartsSpec

LEMMA ReceiveMoves == ASSUME [PartsNext]_partVars PROVE Receive!Next \/ UNCHANGED receiveState
  BY DEF PartsNext, partVars, SocketsNext, TextsNext, ReceiveNext, NamesNext, QueuesNext, FlagsNext,
         MergeNext, StackNext, ProtocolsNext, StartsNext, FlowsNext, BitsNext, ExitsNext, StampsNext

LEMMA FlowsMove == ASSUME [PartsNext]_partVars PROVE Flows!Next \/ UNCHANGED flowsState
  BY DEF PartsNext, partVars, SocketsNext, TextsNext, ReceiveNext, NamesNext, QueuesNext, FlagsNext,
         MergeNext, StackNext, ProtocolsNext, StartsNext, FlowsNext, BitsNext, ExitsNext, StampsNext

\* While packet types and a receive handler come and go, nothing that is freed is used, and
\* every packet type a packet has met gets it once per device; and packets of a flow are not
\* on two CPUs at once, whatever recvmsg, overflow, hotplug and the wrap-around of the
\* counters do (__netif_receive_skb_core, dev_queue_xmit_nit, get_rps_cpu).
THEOREM ReceiveSoundness == PartsSpec => []ReceiveIsSound
<1> DEFINE IInv == ReceiveIInv /\ FlowsIInv
<1>1. PartsInit => IInv
  BY PartsAssumption, ReceiveInit, FlowsInit DEF PartsInit
<1>2. ASSUME IInv, [PartsNext]_partVars PROVE IInv'
  <2>1. ReceiveIInv'
    BY <1>2, PartsAssumption, ReceiveMoves, ReceiveStep, ReceiveStays
       DEF receiveState, Receive!vars, Receive!listVars, Receive!walkVars
  <2>2. FlowsIInv'
    BY <1>2, PartsAssumption, FlowsMove, FlowsStep, FlowsStay DEF flowsState, Flows!flowVars
  <2> QED
    BY <2>1, <2>2
<1>3. IInv => ReceiveIsSound
  BY PartsAssumption, ReceiveSound, FlowsSound DEF ReceiveIsSound
<1> HIDE DEF IInv
<1>4. IInv /\ [PartsNext]_partVars => IInv'
  BY <1>2
<1> QED
  BY <1>1, <1>3, <1>4, PTL DEF PartsSpec
=============================================================================
