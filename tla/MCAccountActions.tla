--------------------------- MODULE MCAccountActions ---------------------------
(* The sessions of the AccountActions instance TLC checks: one whose claim *)
(* is out of date, and one that must choose between its accounts.          *)
EXTENDS AccountActions, TLC

CONSTANTS a1, a2

MCAccounts == {a1, a2}
MCSessions == {[claim |-> a1, owned |-> {a2}],
               [claim |-> None, owned |-> {a1, a2}]}
Symmetry == Permutations(Handlers) \union Permutations(Percents)
=============================================================================
