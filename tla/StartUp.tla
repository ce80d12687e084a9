------------------------------ MODULE StartUp ------------------------------
(***************************************************************************)
(* The parts of src/af_inet.c that are set up in steps: inet_init's        *)
(* protocols, the counters of a namespace (ipv4_mib_init_net) and the      *)
(* files under /proc (ipv4_proc_init).  Each takes back what is done when  *)
(* a later step fails, by a goto into a chain of labels.                   *)
(*                                                                         *)
(* External: which registration or allocation fails.                       *)
(***************************************************************************)
EXTENDS Naturals, Sequences, SeqOps

VARIABLES
    done,       \* what a part has set up
    part        \* the part: [of, next] with the number of its next step

startVars == <<done, part>>

(* What is set up, in turn, and what the labels behind the return take     *)
(* back, from the first label to the last.  OnFail is the label a failing  *)
(* step goes to; one past the last takes nothing back.                     *)
Steps == [ proto |-> <<"tcp_prot", "udp_prot", "raw_prot", "ping_prot">>,
           mib |-> <<"tcp", "ip", "net", "udp", "udplite", "icmp", "icmpmsg">>,
           proc |-> <<"raw", "tcp", "udp", "ping", "misc">> ]

Labels == [ proto |-> <<"raw_prot", "udp_prot", "tcp_prot">>,
            mib |-> <<"icmp", "udplite", "udp", "net", "ip", "tcp">>,
            proc |-> <<"ping", "udp", "tcp", "raw">> ]

OnFail == [ proto |-> <<4, 3, 2, 1>>, mib |-> <<7, 6, 5, 4, 3, 2, 1>>,
            proc |-> <<5, 4, 3, 2, 1>> ]

\* ipv4_mib_exit_net; the others stay for ever
Exit == [ proto |-> {}, mib |-> ToSet(Steps.mib), proc |-> {} ]

Init == done = {} /\ part = [of |-> "none", next |-> 0]

Start(p) == /\ part.of = "none" /\ done = {}
            /\ part' = [of |-> p, next |-> 1]
            /\ UNCHANGED done

Starting == part.of # "none" /\ part.next <= Len(Steps[part.of])

StepDone == /\ Starting
            /\ done' = done \cup {Steps[part.of][part.next]}
            /\ part' = [part EXCEPT !.next = @ + 1]

StepFails == /\ Starting
             /\ done' = done \ {Labels[part.of][i] :
                                    i \in OnFail[part.of][part.next] .. Len(Labels[part.of])}
             /\ part' = [of |-> "none", next |-> 0]

\* The namespace goes.
Stop == /\ part.of = "mib" /\ ~Starting
        /\ done' = done \ Exit.mib
        /\ part' = [of |-> "none", next |-> 0]

Next == \/ \E p \in DOMAIN Steps : Start(p)
        \/ StepDone \/ StepFails \/ Stop

Spec == Init /\ [][Next]_startVars
-----------------------------------------------------------------------------
\* A part that has failed, and a namespace that is gone, leave nothing behind: each goto
\* of inet_init, ipv4_mib_init_net and ipv4_proc_init meets exactly what has been done.
FailureTakesAllBack == part.of = "none" => done = {}
=============================================================================
