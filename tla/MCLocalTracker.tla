--------------------------- MODULE MCLocalTracker ---------------------------
(* LocalTracker with requests and ids that can be exchanged. *)
EXTENDS LocalTracker, TLC

\* Of two requests half are left: whole, so that float64 may make it none.  It
\* does not with a window of 2; this stands for the longer ones where it does.
MCShort == {<<2, 1>>}

Symmetry == Permutations(Requests) \cup Permutations(Ids)
=============================================================================
