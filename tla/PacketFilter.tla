---------------------------- MODULE PacketFilter ----------------------------
(***************************************************************************)
(* The two hooks that put the rule table in the path of packets:           *)
(*                                                                         *)
(*   napi_gro_receive (src/dev.c)    -> print_skb_info  -> need_drop       *)
(*   inet_sendmsg (src/af_inet.c)    -> print_sock_info -> need_drop       *)
(*                                                                         *)
(* each of which builds the text that need_drop looks up, multicasts a     *)
(* report of the verdict to user space and then lets the packet go or not. *)
(* The table and need_drop are RuleTable's; this module adds what happens  *)
(* before and after, and the sockets whose addresses print_sock_info reads *)
(* without taking the socket lock.                                         *)
(*                                                                         *)
(* Addresses are abstracted: a rule text names a direction and a peer, the *)
(* device's own address being the other half of saddr,daddr.  Ports are    *)
(* left out, str_split drops them.                                         *)
(***************************************************************************)
EXTENDS RuleTable

CONSTANTS
    Softirq,   \* the contexts that receive; the others are sending tasks
    Peer,      \* remote addresses
    Nobody,    \* the address 0.0.0.0 of a socket that is not connected
    Sock,      \* sockets
    Stream,    \* the stream sockets among them; the others are datagram sockets
    NoFlow     \* the empty text that str_split makes of "ICMP"

Incoming(p) == <<p, "me">>
Outgoing(p) == <<"me", p>>
FlowText == {Incoming(p) : p \in Peer} \cup {Outgoing(p) : p \in Peer \cup {Nobody}}

ASSUME HookAssumption == /\ Softirq \subseteq Ctx
                         /\ Peer # {}
                         /\ Stream \subseteq Sock
                         /\ Nobody \notin Peer
                         /\ FlowText \subseteq Admissible
                         /\ NoFlow \in Text \ Admissible

VARIABLES
    peer,      \* peer[s]: inet_daddr of socket s
    stage,     \* stage[c]: where context c is in the hook's caller
    job,       \* job[c]: the packet c receives or the send it executes
    decision,  \* decision[c]: the hook's return value, 1 meaning drop
    report,    \* report[c]: the verdict multicast for c's last packet, <<>> if lost
    fate,      \* fate[c]: what became of c's last packet
    dest,      \* dest[c]: where c's last send went
    found,     \* history: found[c] is the peer that print_sock_info has found for c's send
    left       \* history: sends under way whose socket has left a peer since that

hookVars == <<peer, stage, job, decision, report, fate, dest, found, left>>
allVars == <<vars, hookVars>>

\* What a received frame is to print_skb_info.  "flow" is TCP or UDP over IPv4;
\* "other" is any other protocol, or a frame whose driver has not set the header
\* offsets that napi_gro_receive sets only after the hook.
FrameKind == {"flow", "ICMP", "ARP", "other"}
Frame == [kind : FrameKind, from : Peer]
SendCall == [sock : Sock, name : Peer \cup {Nobody}]
Fate == {"none", "passed", "dropped", "sent", "refused", "failed"}
-----------------------------------------------------------------------------
FilterInit ==
    /\ Init
    /\ peer = [s \in Sock |-> Nobody]
    /\ stage = [c \in Ctx |-> "idle"]
    /\ job = [c \in Ctx |-> CHOOSE f \in Frame : f.kind = "ARP"]
    /\ decision = [c \in Ctx |-> 1]
    /\ report = [c \in Ctx |-> <<>>]
    /\ fate = [c \in Ctx |-> "none"]
    /\ dest = [c \in Ctx |-> Nobody]
    /\ found = [c \in Ctx |-> Nobody]
    /\ left = {}

\* The texts need_drop may look for: str_split of the string print_skb_info has
\* formatted; for "other" the string is whatever the stack held, or is formatted
\* from header bytes that are not the packet's.
FrameTexts(f) == IF f.kind = "flow" THEN {Incoming(f.from)}
                 ELSE IF f.kind = "ICMP" THEN {NoFlow}
                 ELSE Text

\* print_skb_info does not consult the table for ARP.
Unchecked(f) == f.kind = "ARP"

\* napi_gro_receive -> print_skb_info up to the call of need_drop.
GroReceive(c, f) ==
    /\ stage[c] = "idle"
    /\ c \in Softirq
    /\ job' = [job EXCEPT ![c] = f]
    /\ fate' = [fate EXCEPT ![c] = "none"]
    /\ IF Unchecked(f)
       THEN /\ stage' = [stage EXCEPT ![c] = "report"]
            /\ decision' = [decision EXCEPT ![c] = 0]
            /\ UNCHANGED vars
       ELSE /\ stage' = [stage EXCEPT ![c] = "check"]
            /\ \E t \in FrameTexts(f) : NeedDrop(c, t)
            /\ decision' = [decision EXCEPT ![c] = 1]
    /\ report' = [report EXCEPT ![c] = <<>>]
    /\ UNCHANGED <<peer, dest, found, left>>

\* inet_sendmsg when the socket has no port yet and inet_autobind fails: -EAGAIN.
AutobindFails(c, m) ==
    /\ stage[c] = "idle"
    /\ c \notin Softirq
    /\ job' = [job EXCEPT ![c] = m]
    /\ fate' = [fate EXCEPT ![c] = "failed"]
    /\ decision' = [decision EXCEPT ![c] = 1]
    /\ report' = [report EXCEPT ![c] = <<>>]
    /\ dest' = [dest EXCEPT ![c] = Nobody]
    /\ UNCHANGED <<vars, peer, stage, found, left>>

\* inet_sendmsg -> print_sock_info up to the call of need_drop: the text comes from
\* inet_daddr as it is now, whatever address the message names.
Sendmsg(c, m) ==
    /\ stage[c] = "idle"
    /\ c \notin Softirq
    /\ job' = [job EXCEPT ![c] = m]
    /\ fate' = [fate EXCEPT ![c] = "none"]
    /\ stage' = [stage EXCEPT ![c] = "check"]
    /\ NeedDrop(c, Outgoing(peer[m.sock]))
    /\ decision' = [decision EXCEPT ![c] = 1]
    /\ report' = [report EXCEPT ![c] = <<>>]
    /\ dest' = [dest EXCEPT ![c] = Nobody]
    /\ found' = [found EXCEPT ![c] = peer[m.sock]]
    /\ left' = left \ {c}
    /\ UNCHANGED peer

\* inet_daddr of a socket changes, from a peer perhaps, under the sends on that socket.
Repeer(s, p) ==
    /\ peer' = [peer EXCEPT ![s] = p]
    /\ left' = IF peer[s] \in {Nobody, p} THEN left
               ELSE left \cup {c \in Ctx \ Softirq : stage[c] # "idle" /\ job[c].sock = s}
    /\ UNCHANGED <<vars, stage, job, decision, report, fate, dest, found>>

\* Another task connects a socket, again and again: a datagram socket from one peer to
\* the next or (AF_UNSPEC) to nobody.  A stream must be disconnected first, by
\* AF_UNSPEC or because its connect has failed; whether that clears inet_daddr is
\* TCP's choice, so that one peer may follow upon another here, too.
Connect(s, p) == Repeer(s, p)

\* inet_shutdown disconnects a stream that listens or has only sent a SYN.
Shutdown(s) == s \in Stream /\ Repeer(s, Nobody)

\* Mutant: the hook reports and obeys the file's global instead of its call's result.
CheckedGlobal(c) ==
    /\ stage[c] = "check"
    /\ Return(c)
    /\ stage' = [stage EXCEPT ![c] = "report"]
    /\ decision' = [decision EXCEPT ![c] = drop]
    /\ UNCHANGED <<peer, job, report, fate, dest, found, left>>

\* The hook has need_drop's verdict.
Checked(c) ==
    /\ stage[c] = "check"
    /\ Return(c)
    /\ stage' = [stage EXCEPT ![c] = "report"]
    /\ decision' = [decision EXCEPT ![c] = verdict[c]]
    /\ UNCHANGED <<peer, job, report, fate, dest, found, left>>

\* The literal 1 or 0 that the hook appends to its report.
ReportedBit(c) == decision[c]

\* nmj_genl_send_rcvmsg, nmj_genl_send_sndmsg: the report is multicast, or is lost
\* without a trace when the message cannot be allocated, built or delivered.
Report(c) ==
    /\ stage[c] = "report"
    /\ \E r \in {<<ReportedBit(c)>>, <<>>} : report' = [report EXCEPT ![c] = r]
    /\ stage' = [stage EXCEPT ![c] = "act"]
    /\ UNCHANGED <<vars, peer, job, decision, fate, dest, found, left>>

\* napi_gro_receive after the hook: kfree_skb, or on into GRO.
FinishReceive(c) ==
    /\ stage[c] = "act"
    /\ c \in Softirq
    /\ fate' = [fate EXCEPT ![c] = IF decision[c] = 1 THEN "dropped" ELSE "passed"]
    /\ stage' = [stage EXCEPT ![c] = "idle"]
    /\ UNCHANGED <<vars, peer, job, decision, report, dest, found, left>>

\* Mutant: a stream, too, sends where the message says.
TargetNamed(m) == IF m.name # Nobody THEN m.name ELSE peer[m.sock]

\* Where sk_prot->sendmsg sends: a datagram to the address the message names, if it
\* names one, everything else to the socket's peer.
Target(m) == IF m.sock \notin Stream /\ m.name # Nobody THEN m.name ELSE peer[m.sock]

\* inet_sendmsg after the hook: -EHOSTDOWN, or sk_prot->sendmsg.
FinishSend(c) ==
    LET to == IF decision[c] = 1 THEN Nobody ELSE Target(job[c]) IN
    /\ stage[c] = "act"
    /\ c \notin Softirq
    /\ dest' = [dest EXCEPT ![c] = to]
    /\ fate' = [fate EXCEPT ![c] = IF decision[c] = 1 THEN "refused"
                                   ELSE IF to = Nobody THEN "failed"
                                   ELSE "sent"]
    /\ stage' = [stage EXCEPT ![c] = "idle"]
    /\ IF to = Nobody THEN found' = [found EXCEPT ![c] = Nobody] /\ left' = left \ {c}
                      ELSE UNCHANGED <<found, left>>
    /\ UNCHANGED <<vars, peer, job, decision, report>>
-----------------------------------------------------------------------------
TableStep(c) == \/ LoadItem(c) \/ LoadHead(c) \/ CompareItem(c) \/ WildRead(c)
                \/ StoreDrop(c) \/ TestDrop(c)

HookStep(c) == \/ TableStep(c) /\ UNCHANGED hookVars
               \/ Checked(c)
               \/ Report(c)
               \/ FinishReceive(c)
               \/ FinishSend(c)

FilterNext ==
    \/ (WriterStep \/ \E t \in Text : ReceiveMsg(t)) /\ UNCHANGED hookVars
    \/ \E s \in Sock, p \in Peer \cup {Nobody} : Connect(s, p)
    \/ \E s \in Sock : Shutdown(s)
    \/ \E c \in Ctx : \/ \E f \in Frame : GroReceive(c, f)
                      \/ \E m \in SendCall : Sendmsg(c, m) \/ AutobindFails(c, m)
                      \/ HookStep(c)

FilterSpec == FilterInit /\ [][FilterNext]_allVars
-----------------------------------------------------------------------------
\* Types, and the correspondence of a hook's stage with need_drop's.
FilterTypeOK ==
    /\ TypeOK
    /\ peer \in [Sock -> Peer \cup {Nobody}]
    /\ stage \in [Ctx -> {"idle", "check", "report", "act"}]
    /\ \A c \in Ctx : job[c] \in Frame \cup SendCall
    /\ decision \in [Ctx -> {0, 1}]
    /\ report \in [Ctx -> {<<0>>, <<1>>, <<>>}]
    /\ fate \in [Ctx -> Fate]
    /\ {dest, found} \subseteq [Ctx -> Peer \cup {Nobody}]
    /\ left \subseteq Ctx
    /\ \A c \in Ctx : stage[c] = "check" <=> pc[c] # "idle"

\* A TCP or UDP packet over IPv4 gets into the stack only if its own flow is listed,
\* whatever the other contexts are checking at the same time.
PassedFlowIsListed ==
    ~ReloadDrop =>
        \A c \in Ctx : fate[c] = "passed" /\ job[c].kind = "flow"
                           => Incoming(job[c].from) \in Elements(Chain)

\* No rule that check_rule admits lets ICMP in: str_split makes the empty text of
\* it, which has neither a comma nor six dots.
IcmpNeverPasses ==
    ~ReloadDrop => \A c \in Ctx : fate[c] = "passed" => job[c].kind # "ICMP"

\* Before the first rule is linked nothing but ARP gets through either hook, not even
\* with a build in which the contexts mix up their results.
OnlyArpBeforeFirstRule ==
    Chain = <<>> => \A c \in Ctx : /\ fate[c] # "sent"
                                   /\ fate[c] = "passed" => job[c].kind = "ARP"

\* inet_daddr is read without the socket lock and read again when the data is sent
\* (src/nmjfilter.c:352, src/af_inet.c:759).  Whatever a task has sent, the peer its
\* socket had at the check is listed; and what a stream has sent went to that very peer,
\* unless the socket had none, for which there is a rule then, or was taken away from
\* its peer between the check and the send: then the data may go where no rule allows it.
SendsAreChecked ==
    ~ReloadDrop => \A c \in Ctx : fate[c] = "sent" =>
        /\ Outgoing(found[c]) \in Elements(Chain)
        /\ job[c].sock \in Stream => dest[c] = found[c] \/ found[c] = Nobody \/ c \in left

\* A report that reaches user space tells what became of the packet.
ReportTellsFate ==
    \A c \in Ctx : /\ fate[c] \in {"passed", "sent"} => report[c] \in {<<0>>, <<>>}
                   /\ fate[c] \in {"dropped", "refused"} => report[c] \in {<<1>>, <<>>}

\* What gets through the hooks and what is told of it: nothing but ARP before the first
\* rule, no ICMP ever, only listed flows, and reports as the packet fared, whatever the
\* contexts and receive_msg do meanwhile (src/dev.c:4479, src/af_inet.c:759).
HooksAreSound ==
    PassedFlowIsListed /\ IcmpNeverPasses /\ OnlyArpBeforeFirstRule /\ ReportTellsFate
=============================================================================
