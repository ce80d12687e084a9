--------------------------- MODULE MCPacketFilter ---------------------------
(* Instances of PacketFilter for TLC.                                      *)
EXTENDS PacketFilter, TLC

CONSTANTS softirq0, task0, p1, p2, tcp

Contexts == {softirq0, task0}
Softirqs == {softirq0}
TwoPeers == {p1, p2}
Streams == {tcp}

\* Nothing tells one peer from the other but the frame FilterInit chooses and the text of
\* a context that checks nothing, which nobody reads.
PeersAlike == Permutations(TwoPeers)

AdmissibleRules == FlowText
Texts == FlowText \cup {NoFlow}
=============================================================================
