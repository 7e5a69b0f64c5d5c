---------------------------- MODULE OneTimeLogin ----------------------------
(***************************************************************************)
(* What a login promises (auth/connected-login.ts 1-20, connected-store):  *)
(* it is consumed once, bound once to one session id, each result the      *)
(* backend issues for that id is spent once, and the session is created    *)
(* once, from a spent result, and never replaced.  Revocation only marks   *)
(* a session and is left out.                                              *)
(***************************************************************************)
CONSTANTS Sids, Results, None

VARIABLES
  consumed,  \* the login has been used
  bound,     \* the session id its exchange was opened for, None before
  issued,    \* backend: the session id each result was issued for
  spent,     \* results that have been consumed
  session    \* by session id: the result its session rests on

vars == <<consumed, bound, issued, spent, session>>

Init ==
  /\ consumed = FALSE
  /\ bound = None
  /\ issued = [r \in Results |-> None]
  /\ spent = {}
  /\ session = [s \in Sids |-> None]

Consume ==
  /\ ~consumed
  /\ consumed' = TRUE
  /\ UNCHANGED <<bound, issued, spent, session>>

Bind(s) ==
  /\ consumed /\ bound = None
  /\ bound' = s
  /\ UNCHANGED <<consumed, issued, spent, session>>

(* The backend may issue several results, all for the one session id.      *)
Issue(r) ==
  /\ bound # None /\ issued[r] = None
  /\ issued' = [issued EXCEPT ![r] = bound]
  /\ UNCHANGED <<consumed, bound, spent, session>>

Spend(r) ==
  /\ bound # None /\ issued[r] = bound /\ r \notin spent
  /\ spent' = spent \union {r}
  /\ UNCHANGED <<consumed, bound, issued, session>>

Create(r) ==
  /\ bound # None /\ issued[r] = bound /\ r \in spent
  /\ session[bound] = None
  /\ session' = [session EXCEPT ![bound] = r]
  /\ UNCHANGED <<consumed, bound, issued, spent>>

Next ==
  \/ Consume
  \/ \E s \in Sids : Bind(s)
  \/ \E r \in Results : Issue(r) \/ Spend(r) \/ Create(r)

Spec == Init /\ [][Next]_vars
=============================================================================
