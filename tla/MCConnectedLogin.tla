-------------------------- MODULE MCConnectedLogin --------------------------
(* Symmetry of the ConnectedLogin instances TLC checks. *)
EXTENDS ConnectedLogin, TLC

Symmetry == Permutations(Handlers) \union Permutations(Sids)
              \union Permutations(Results)
=============================================================================
