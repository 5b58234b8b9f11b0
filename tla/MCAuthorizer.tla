---------------------------- MODULE MCAuthorizer ----------------------------
(* Authorizer with handlers, codes and stored values that can be exchanged. *)
EXTENDS Authorizer, TLC

Symmetry == Permutations(Clients) \cup Permutations(Keys) \cup Permutations(Values)
=============================================================================
