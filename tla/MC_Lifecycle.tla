---------------------------- MODULE MC_Lifecycle ----------------------------
(* A manager whose endpoints overlap, and URIs of up to three characters. *)
EXTENDS Lifecycle, SequencesExt

\* The texts: of "/", of "/r", and of another beginning.
OverlappingNames == {<<1>>, <<1, 2>>, <<2>>}
ShortUris == BoundedSeq({1, 2}, 3) \ {<<>>}

\* Neither are functions told apart by anything, nor is memory.
Symmetry == Permutations(Handlers) \cup Permutations(Nodes)
=============================================================================
