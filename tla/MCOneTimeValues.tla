-------------------------- MODULE MCOneTimeValues --------------------------
(* One-time values, with clients and values that can be exchanged. *)
EXTENDS OneTimeValues, TLC

Symmetry == Permutations(Clients) \cup Permutations(Values)
=============================================================================
