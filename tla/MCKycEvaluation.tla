-------------------------- MODULE MCKycEvaluation --------------------------
(* Symmetry of the KycEvaluation instances TLC checks. *)
EXTENDS KycEvaluation, TLC

Symmetry == Permutations(Handlers) \union Permutations(Keys)
              \union Permutations(Evals) \union Permutations(Webhooks)
=============================================================================
