------------------------- MODULE MCInvestorProfile -------------------------
(* Symmetry of the InvestorProfile instance TLC checks. *)
EXTENDS InvestorProfile, TLC

Symmetry == Permutations(Handlers) \union Permutations(Sessions)
              \union Permutations(Answers)
=============================================================================
