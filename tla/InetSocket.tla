----------------------------- MODULE InetSocket -----------------------------
(***************************************************************************)
(* One IPv4 socket of src/af_inet.c, stream or datagram, made by socket()  *)
(* (not by accept) and used by several threads at once.  Two states have   *)
(* to go together: sock->state, which the functions here keep, and         *)
(* sk->sk_state, which TCP changes under their feet.  Most functions do    *)
(* all their work under lock_sock and are one step here; connect gives the *)
(* lock up while it waits, and inet_num is looked at without it before     *)
(* inet_autobind and before a datagram socket is connected.                *)
(*                                                                         *)
(* External: the protocols (get_port, connect, disconnect, shutdown of TCP *)
(* and UDP; the handshake, SYNs that cross, RST and FIN of a connection),  *)
(* signals and timeouts.                                                   *)
(***************************************************************************)
EXTENDS Naturals, FiniteSets

CONSTANTS
    Thread,
    Port,       \* the ports there are
    NoPort      \* inet_num is 0

ASSUME SocketAssumption == NoPort \notin Port

VARIABLES
    type,       \* "stream" or "dgram"
    state,      \* sock->state
    sk,         \* sk->sk_state; "closing" stands for the states after a FIN
    num,        \* inet_num
    bindLock,   \* SOCK_BINDPORT_LOCK
    shut,       \* sk_shutdown: subset of {"rcv", "snd"}
    pc,         \* pc[t]: "idle", "wait" in inet_wait_for_connect, and after the unlocked
                \* test of inet_num: "autobind", or "connect" of a datagram socket
    answer,     \* answer[t]: what t's last connect returned
    relisten,   \* history: the socket was made to listen while a thread waited in connect
    up          \* history: the connection has been ESTABLISHED

vars == <<type, state, sk, num, bindLock, shut, pc, answer, relisten, up>>

Stream == type = "stream"
Idle(t) == pc[t] = "idle"
Waiting == {t \in Thread : pc[t] = "wait"}
-----------------------------------------------------------------------------
\* inet_create
Init == /\ type \in {"stream", "dgram"}
        /\ state = "unconnected" /\ sk = "close"
        /\ num = NoPort /\ bindLock = FALSE /\ shut = {}
        /\ pc = [t \in Thread |-> "idle"]
        /\ answer = [t \in Thread |-> "none"]
        /\ relisten = FALSE /\ up = FALSE
-----------------------------------------------------------------------------
(* Ports.                                                                  *)

\* sk_prot->get_port(sk, 0): one of the ports, or none is left.
GetPort == num' \in Port \cup {NoPort}

\* What a socket's port becomes when it is closed: only a bind keeps it.
PutPort == num' = IF bindLock THEN num ELSE NoPort

\* inet_bind to a port of the caller's choice (which may be taken), or to any.
Bind(t, p) == /\ Idle(t) /\ sk = "close" /\ num = NoPort
              /\ IF p = NoPort THEN GetPort /\ UNCHANGED bindLock
                 ELSE /\ num' \in {p, NoPort}
                      /\ bindLock' = (num' = p \/ bindLock)
              /\ UNCHANGED <<type, state, sk, shut, pc, answer, relisten, up>>

\* inet_sendmsg, inet_sendpage, inet_dgram_connect of a datagram socket (TCP has
\* no_autobind): the test for a port is made without the lock.
NeedsPort(t) == /\ Idle(t) /\ ~Stream
                /\ pc' = [pc EXCEPT ![t] = IF num = NoPort THEN "autobind" ELSE "connect"]
                /\ UNCHANGED <<type, state, sk, num, bindLock, shut, answer, relisten, up>>

\* Mutant: the test is not repeated under the lock.
AutobindUntested(t) == /\ pc[t] = "autobind"
                       /\ GetPort
                       /\ pc' = [pc EXCEPT ![t] = "idle"]
                       /\ UNCHANGED <<type, state, sk, bindLock, shut, answer, relisten, up>>

\* inet_autobind; then a connect goes on, anything else is done with, as is a failure.
Autobind(t) == /\ pc[t] = "autobind"
               /\ IF num = NoPort THEN GetPort ELSE UNCHANGED num
               /\ \/ pc' = [pc EXCEPT ![t] = "idle"]
                  \/ num' # NoPort /\ pc' = [pc EXCEPT ![t] = "connect"]
               /\ UNCHANGED <<type, state, sk, bindLock, shut, answer, relisten, up>>

\* sk_prot->connect at the end of inet_dgram_connect: UDP's connected state is
\* "established".  By now the port may be gone again.
DgramConnect(t) == /\ pc[t] = "connect"
                   /\ sk' \in {sk, "established"}
                   /\ pc' = [pc EXCEPT ![t] = "idle"]
                   /\ UNCHANGED <<type, state, num, bindLock, shut, answer, relisten, up>>

\* inet_dgram_connect with AF_UNSPEC
DgramUnspec(t) == /\ Idle(t) /\ ~Stream
                  /\ sk' = "close" /\ PutPort
                  /\ UNCHANGED <<type, state, bindLock, shut, pc, answer, relisten, up>>
-----------------------------------------------------------------------------
(* Stream sockets.                                                         *)

\* sk_prot->disconnect of TCP; it answers 0.
Disconnect == sk' = "close" /\ shut' = {} /\ relisten' = FALSE /\ up' = FALSE /\ PutPort

\* Mutant: only sk_state is looked at.
MayListenIfClosed == Stream /\ sk \in {"close", "listen"}

MayListen == Stream /\ state = "unconnected" /\ sk \in {"close", "listen"}

\* inet_listen
Listen(t) == /\ Idle(t) /\ MayListen
             /\ IF sk = "listen" THEN UNCHANGED <<sk, num>>
                ELSE \/ /\ num' \in IF num = NoPort THEN Port ELSE {num}
                        /\ sk' = "listen"
                     \/ UNCHANGED <<sk, num>>
             /\ relisten' = (relisten \/ (sk' = "listen" /\ Waiting # {}))
             /\ UNCHANGED <<type, state, bindLock, shut, pc, answer, up>>

\* TCPF_SYN_SENT | TCPF_SYN_RECV
SynStates == {"syn_sent", "syn_recv"}

Answer(t, a) == answer' = [answer EXCEPT ![t] = a]

\* Mutant: a connection that was closed is taken for one that was made.
FinishAlways(t) == /\ state' = "connected" /\ Answer(t, "ok")
                   /\ UNCHANGED <<sk, num, shut, relisten, up>>

\* The end of __inet_stream_connect: sk_state tells whether the connection was made, and
\* one that was not is undone.
Finish(t) == IF sk = "close"
             THEN state' = "unconnected" /\ Disconnect /\ Answer(t, "error")
             ELSE /\ state' = "connected" /\ Answer(t, "ok")
                  /\ UNCHANGED <<sk, num, shut, relisten, up>>

\* __inet_stream_connect with the socket unconnected: TCP sends a SYN, or fails.  The
\* caller waits, or asked not to (or for less than it takes).
Connect(t) == /\ Idle(t) /\ Stream /\ state = "unconnected" /\ sk = "close"
              /\ \/ /\ sk' = "syn_sent"
                    /\ num' \in IF num = NoPort THEN Port ELSE {num}
                    /\ state' = "connecting"
                    /\ \/ pc' = [pc EXCEPT ![t] = "wait"] /\ Answer(t, "none")
                       \/ Answer(t, "in_progress") /\ UNCHANGED pc
                 \/ Answer(t, "error") /\ UNCHANGED <<sk, num, state, pc>>
              /\ UNCHANGED <<type, bindLock, shut, relisten, up>>

\* The same with the socket connecting: by now the connection may be there, or gone.
ConnectAgain(t) ==
    /\ Idle(t) /\ Stream /\ state = "connecting"
    /\ IF sk \in SynStates
       THEN /\ \/ pc' = [pc EXCEPT ![t] = "wait"] /\ Answer(t, "none")
               \/ Answer(t, "already") /\ UNCHANGED pc
            /\ UNCHANGED <<state, sk, num, shut, relisten, up>>
       ELSE Finish(t) /\ UNCHANGED pc
    /\ UNCHANGED <<type, bindLock>>

\* inet_wait_for_connect returns: a signal or the timeout ends the call, wherever the
\* connection is; else the socket is not connecting any more, says sk_state.
Wake(t) == /\ pc[t] = "wait"
           /\ pc' = [pc EXCEPT ![t] = "idle"]
           /\ \/ Answer(t, "interrupted") /\ UNCHANGED <<state, sk, num, shut, relisten, up>>
              \/ sk \notin SynStates /\ Finish(t)
           /\ UNCHANGED <<type, bindLock>>

\* connect with AF_UNSPEC.
ConnectUnspec(t) == /\ Idle(t) /\ Stream
                    /\ Disconnect /\ state' = "unconnected"
                    /\ UNCHANGED <<type, bindLock, pc, answer>>

\* inet_shutdown's first step, for a socket that is connecting.
ShutState == IF state # "connecting" THEN state
             ELSE IF sk \in SynStates \cup {"close"} THEN "disconnecting" ELSE "connected"

\* inet_shutdown: a listener (if it is to receive no more) and a socket that has only
\* sent a SYN are disconnected, for all others TCP sees to it: where SYNs have crossed,
\* too, a FIN is sent.
Shutdown(t, how) ==
    /\ Idle(t) /\ how # {}
    /\ IF sk = "syn_sent" \/ (sk = "listen" /\ "rcv" \in how)
       THEN Disconnect /\ state' = "unconnected"
       ELSE /\ state' = ShutState
            /\ shut' = IF sk = "listen" THEN shut ELSE shut \cup how
            /\ sk' = IF Stream /\ sk \in {"syn_recv", "established"} /\ "snd" \in how
                    THEN "closing" ELSE sk
            /\ UNCHANGED <<num, relisten, up>>
    /\ UNCHANGED <<type, bindLock, pc, answer>>
-----------------------------------------------------------------------------
(* TCP.                                                                    *)

Tcp(from, to) == /\ Stream /\ sk \in from /\ sk' = to
                 /\ UNCHANGED <<type, state, bindLock, pc, answer, relisten>>

\* The peer's SYN comes before its answer to ours.
SynsCross == Tcp({"syn_sent"}, "syn_recv") /\ UNCHANGED <<num, shut, up>>

Established == Tcp(SynStates, "established") /\ up' = TRUE /\ UNCHANGED <<num, shut>>

PeerCloses == /\ Tcp({"established"}, "closing")
              /\ shut' = shut \cup {"rcv"} /\ UNCHANGED <<num, up>>

\* A reset, or TCP gives up: tcp_done.
Reset == /\ Tcp(SynStates \cup {"established", "closing"}, "close")
         /\ shut' = {"rcv", "snd"} /\ PutPort /\ UNCHANGED up
-----------------------------------------------------------------------------
Call(t) == \/ \E p \in Port \cup {NoPort} : Bind(t, p)
           \/ NeedsPort(t) \/ Autobind(t) \/ DgramConnect(t) \/ DgramUnspec(t)
           \/ Listen(t) \/ Connect(t) \/ ConnectAgain(t) \/ Wake(t) \/ ConnectUnspec(t)
           \/ \E how \in SUBSET {"rcv", "snd"} : Shutdown(t, how)

Next == \/ \E t \in Thread : Call(t)
        \/ SynsCross \/ Established \/ PeerCloses \/ Reset

Spec == Init /\ [][Next]_vars
-----------------------------------------------------------------------------
SkStates == SynStates \cup {"close", "established", "closing", "listen"}

TypeOK == /\ type \in {"stream", "dgram"}
          /\ state \in {"unconnected", "connecting", "connected", "disconnecting"}
          /\ sk \in SkStates
          /\ num \in Port \cup {NoPort}
          /\ {bindLock, relisten, up} \subseteq BOOLEAN
          /\ shut \subseteq {"rcv", "snd"}
          /\ pc \in [Thread -> {"idle", "wait", "autobind", "connect"}]
          /\ answer \in [Thread -> {"none", "ok", "error", "in_progress", "already", "interrupted"}]

\* The two states go together whenever the socket's lock is free, however connect, listen
\* and shutdown of several threads and TCP come together (src/af_inet.c:220, 569, 606,
\* 651, 819, 842): an unconnected socket is closed or listens; one that has sent a SYN,
\* or listens, is so under no other state than the right one; one that is disconnecting
\* is closed, unless it was shut down after SYNs had crossed: that leaves it to TCP, which
\* may make the connection all the same.  The known exception: a thread that waits in
\* connect finds that another one has shut the socket down and made it listen, and takes
\* the LISTEN state for a connection.
StatesAgree ==
    Stream => /\ state = "unconnected" => sk \in {"close", "listen"}
              /\ state = "disconnecting" => \/ sk = "close"
                                            \/ sk \notin {"syn_sent", "listen"} /\ shut # {}
              /\ sk = "syn_sent" => state = "connecting"
              /\ sk = "syn_recv" => state \in {"connecting", "disconnecting"}
              /\ sk = "listen" => state = "unconnected" \/ relisten

\* A port the socket has got stays its port until the protocol gives it up, and one the
\* program chose until the end, whoever binds, autobinds or connects at the same time
\* (src/af_inet.c:197, 510).
PortStays == [][/\ num # NoPort => num' \in {num, NoPort}
                /\ bindLock => num' = num]_vars

\* connect returns 0 only for a connection that was made: it is up, or, since TCP goes
\* on, was up; with the exception of StatesAgree, and of a socket whose sending side a
\* thread has shut down after SYNs had crossed: TCP is then past SYN_RECV without ever
\* having been ESTABLISHED, and a waiting connect knows no better (src/af_inet.c:569, 651,
\* 832).
ConnectTellsTruth ==
    [][\A t \in Thread : answer[t] # "ok" /\ answer'[t] = "ok" /\ ~relisten
           => /\ sk \in {"established", "closing"} /\ state' = "connected"
              /\ up \/ "snd" \in shut]_vars
=============================================================================
