----------------------------- MODULE MC_Server ------------------------------
(* The event loop on small sets of clients, slots and descriptors. *)
EXTENDS Server, TLC

\* Clients are told apart by nothing.  (Not for liveness.)
Symmetry == Permutations(Clients)
=============================================================================
