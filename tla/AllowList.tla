----------------------------- MODULE AllowList -----------------------------
(***************************************************************************)
(* What rules_for_each (src/nmjfilter.c) promises its callers: a question  *)
(* about a rule is answered in one instant, with 0 if the rule is in the   *)
(* table at that instant and with 1 if it is not, whatever other contexts  *)
(* and the writer do meanwhile.  Rules are only ever added.                *)
(*                                                                         *)
(* RuleTable implements this specification with a linked list that is      *)
(* walked item by item, without a lock, while another CPU appends to it.   *)
(***************************************************************************)
CONSTANTS Ctx,   \* execution contexts that ask: softirqs and sending tasks
          Text   \* the rule texts they may ask about

VARIABLES allowed,  \* the rules in the table
          phase,    \* phase[c]: where c is with its question
          wanted,   \* wanted[c]: the rule c asks about
          answer    \* answer[c]: 0 (listed) or 1 (not listed), 1 between questions

AnyText == CHOOSE t \in Text : TRUE  \* what wanted holds between questions

vars == <<allowed, phase, wanted, answer>>

Init == /\ allowed = {}
        /\ phase = [c \in Ctx |-> "quiet"]
        /\ wanted = [c \in Ctx |-> AnyText]
        /\ answer = [c \in Ctx |-> 1]

Allow(t) == /\ allowed' = allowed \cup {t}
            /\ UNCHANGED <<phase, wanted, answer>>

Ask(c, t) == /\ phase[c] = "quiet"
             /\ phase' = [phase EXCEPT ![c] = "asked"]
             /\ wanted' = [wanted EXCEPT ![c] = t]
             /\ UNCHANGED <<allowed, answer>>

Answer(c) == /\ phase[c] = "asked"
             /\ phase' = [phase EXCEPT ![c] = "answered"]
             /\ answer' = [answer EXCEPT ![c] = IF wanted[c] \in allowed THEN 0 ELSE 1]
             /\ UNCHANGED <<allowed, wanted>>

Finish(c) == /\ phase[c] = "answered"
             /\ phase' = [phase EXCEPT ![c] = "quiet"]
             /\ wanted' = [wanted EXCEPT ![c] = AnyText]
             /\ answer' = [answer EXCEPT ![c] = 1]
             /\ UNCHANGED allowed

Next == \/ \E t \in Text : Allow(t)
        \/ \E c \in Ctx : \/ \E t \in Text : Ask(c, t)
                          \/ Answer(c)
                          \/ Finish(c)

Spec == Init /\ [][Next]_vars
=============================================================================
