---------------------------- MODULE CallPromise ----------------------------
(***************************************************************************)
(* What one mutation of the Investor API promises whoever makes it         *)
(*   packages/api-clients/src/investor-api/client.ts                        *)
(* The backend is asked at most once, and the verdict the caller gets is   *)
(* never wrong about what the backend did: it may only be "unknown".       *)
(***************************************************************************)
EXTENDS Naturals

CONSTANT Calls

VARIABLES
  verdict,  \* what the caller has been told
  carried   \* how many requests of the call the backend carried out

Verdicts == {"pending", "applied", "refused", "unsent", "unknown"}

Init ==
  /\ verdict = [c \in Calls |-> "pending"]
  /\ carried = [c \in Calls |-> 0]

(* A request may still be carried out after the caller gave up on it.      *)
Carry(c) ==
  /\ carried[c] = 0
  /\ verdict[c] \in {"pending", "unknown"}
  /\ carried' = [carried EXCEPT ![c] = 1]
  /\ UNCHANGED verdict

(* Several calls may be told the same thing at once.                       *)
Conclude(S, v) ==
  /\ \A c \in S :
       /\ verdict[c] = "pending"
       /\ v = "applied" => carried[c] = 1
       /\ v \in {"refused", "unsent"} => carried[c] = 0
  /\ verdict' = [c \in Calls |-> IF c \in S THEN v ELSE verdict[c]]
  /\ UNCHANGED carried

Next ==
  \/ \E c \in Calls : Carry(c)
  \/ \E S \in SUBSET Calls, v \in Verdicts \ {"pending"} : Conclude(S, v)

Spec == Init /\ [][Next]_<<verdict, carried>>
=============================================================================
