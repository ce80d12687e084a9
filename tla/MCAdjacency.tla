---------------------------- MODULE MCAdjacency ----------------------------
(* Model-checking values for Adjacency. *)
EXTENDS Adjacency, TLC

CONSTANTS d1, d2, d3, d4, d5

FiveDevices == {d1, d2, d3, d4, d5}
Permuted == Permutations(FiveDevices)
=============================================================================
