----------------------------- MODULE MCTransmit -----------------------------
(* An instance of Transmit for TLC.                                        *)
EXTENDS Transmit

CONSTANTS cpu0, cpu1

TwoCpus == {cpu0, cpu1}
FirstInTwo(p) == IF p = 1 THEN 2 ELSE 1
=============================================================================
