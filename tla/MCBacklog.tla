----------------------------- MODULE MCBacklog -----------------------------
(* Instances of Backlog for TLC.                                           *)
EXTENDS Backlog

CONSTANTS cpu0, cpu1

TwoCpus == {cpu0, cpu1}
Second == {2}
OneOrTwo == {1, 2}
=============================================================================
