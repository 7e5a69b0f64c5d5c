--------------------------- MODULE SubmissionChain ---------------------------
(***************************************************************************)
(* What the attestation record promises of each decision                   *)
(* (prototype-store/entities/attestation-submission.ts 1-28, 43-54): the    *)
(* states come in their order, one at a time; the backend is only called   *)
(* for a decision recorded as submitted, so that a call in flight is never  *)
(* invisible; and what the record says of the answer is an answer the      *)
(* backend gave.                                                           *)
(***************************************************************************)
CONSTANT Decisions

VARIABLES
  state,      \* of each decision's record, "absent" before there is one
  held,       \* decisions the backend holds an attestation for
  refused     \* decisions the backend has refused

vars == <<state, held, refused>>

Init ==
  /\ state = [d \in Decisions |-> "absent"]
  /\ held = {}
  /\ refused = {}

Moves(d, from, to) ==
  /\ state[d] = from
  /\ state' = [state EXCEPT ![d] = to]
  /\ UNCHANGED <<held, refused>>

Open(d) == Moves(d, "absent", "disclosure_delivered")

Proceed(d) ==
  \/ Moves(d, "disclosure_delivered", "consent_accepted")
  \/ Moves(d, "consent_accepted", "attestation_constructed")
  \/ Moves(d, "attestation_constructed", "submitted")

Block(d) ==
  \E from \in {"disclosure_delivered", "consent_accepted",
               "attestation_constructed"} : Moves(d, from, "blocked")

(* The backend takes the attestation, or refuses it: it is only asked for  *)
(* a decision recorded as submitted, and a repeated call may be answered   *)
(* after the answer of another has been recorded.                          *)
Asked(d) == state[d] \in {"submitted", "acknowledged", "rejected"}

Accept(d) ==
  /\ Asked(d)
  /\ held' = held \union {d}
  /\ UNCHANGED <<state, refused>>

Refuse(d) ==
  /\ Asked(d)
  /\ refused' = refused \union {d}
  /\ UNCHANGED <<state, held>>

Acknowledge(d) == d \in held /\ Moves(d, "submitted", "acknowledged")
Reject(d) == d \in refused /\ Moves(d, "submitted", "rejected")

Next ==
  \E d \in Decisions :
    \/ Open(d) \/ Proceed(d) \/ Block(d)
    \/ Accept(d) \/ Refuse(d) \/ Acknowledge(d) \/ Reject(d)

Spec == Init /\ [][Next]_vars
=============================================================================
