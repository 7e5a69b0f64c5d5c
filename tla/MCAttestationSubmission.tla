---------------------- MODULE MCAttestationSubmission ----------------------
(* Symmetry of the AttestationSubmission instances TLC checks. *)
EXTENDS AttestationSubmission, TLC

Symmetry == Permutations(Handlers)
=============================================================================
