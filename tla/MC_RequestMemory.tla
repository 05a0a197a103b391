-------------------------- MODULE MC_RequestMemory --------------------------
(* Requests with blocks that are told apart by nothing. *)
EXTENDS Responses, TLC

Symmetry == Permutations(Blocks)
=============================================================================
