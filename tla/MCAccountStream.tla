--------------------------- MODULE MCAccountStream ---------------------------
(***************************************************************************)
(* Bounds for AccountStream.                                               *)
(***************************************************************************)
EXTENDS AccountStream
=============================================================================
