-------------------------- MODULE MCFilterService --------------------------
(* Instances of FilterService for TLC.                                     *)
EXTENDS FilterService

CONSTANTS r1, rcv1, rcv2, snd1

OneRule == {r1}
OneReceiver == {rcv1}
TwoReceivers == {rcv1, rcv2}
OneSender == {snd1}
=============================================================================
