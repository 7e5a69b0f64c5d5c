---------------------------- MODULE AtomicUpdate ----------------------------
(***************************************************************************)
(* What KVStore.update promises of one key (lib/store/types.ts 27-42):      *)
(* "Exactly one caller's decision is applied per key at a time".  Each      *)
(* call decides once, on the value as it is at that moment, and the         *)
(* decision is either written in the same step or leaves the value alone.   *)
(* This is also how the Firestore driver behaves (durable-store/store.ts    *)
(* 135-147), and how every model of this project uses update.               *)
(*                                                                         *)
(* The decision is an admission: the caller is added while there is room.   *)
(* The value, the set of the callers admitted, tells a lost update apart.   *)
(***************************************************************************)
EXTENDS Naturals, FiniteSets

CONSTANTS
  Callers,    \* one per call of update on the key
  Capacity    \* how many callers the decision admits

VARIABLES
  value,      \* what is stored under the key
  outcome     \* what each call has done, or "none" so far

vars == <<value, outcome>>

Outcomes == {"none", "written", "unchanged"}

Admits(current) == Cardinality(current) < Capacity

Init ==
  /\ value = {}
  /\ outcome = [c \in Callers |-> "none"]

Write(c) ==
  /\ outcome[c] = "none"
  /\ Admits(value)
  /\ value' = value \union {c}
  /\ outcome' = [outcome EXCEPT ![c] = "written"]

Leave(c) ==
  /\ outcome[c] = "none"
  /\ ~Admits(value)
  /\ outcome' = [outcome EXCEPT ![c] = "unchanged"]
  /\ UNCHANGED value

Next == \E c \in Callers : Write(c) \/ Leave(c)

Spec == Init /\ [][Next]_vars
=============================================================================
