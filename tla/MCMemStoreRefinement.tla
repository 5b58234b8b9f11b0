------------------------ MODULE MCMemStoreRefinement ------------------------
(* The refinement, with clients and values that can be exchanged. *)
EXTENDS MemStoreRefinement, TLC

Symmetry == Permutations(Clients) \cup Permutations(Values)
=============================================================================
