------------------------- MODULE MCInvestorApiCall -------------------------
(* The InvestorApiCall instance TLC checks. *)
EXTENDS InvestorApiCall
=============================================================================
