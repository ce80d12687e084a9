---------------------------- MODULE MCRuleTable ----------------------------
(* Instances of RuleTable for TLC.                                         *)
EXTENDS RuleTable

CONSTANTS r1, r2, icmp, cpu0, cpu1

AdmissibleRules == {r1, r2}
Texts == {r1, r2, icmp}        \* icmp: the empty text, which check_rule refuses
TwoContexts == {cpu0, cpu1}
=============================================================================
