------------------------------- MODULE MCNapi -------------------------------
(* An instance of Napi for TLC.                                            *)
EXTENDS Napi

CONSTANTS cpu0, cpu1

TwoCpus == {cpu0, cpu1}
=============================================================================
