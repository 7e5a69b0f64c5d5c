---------------------------- MODULE AccountActions ----------------------------
(***************************************************************************)
(* The account actions of the automated Alpha, from the investor's request *)
(* to the backend's answer and the investor's receipt                      *)
(*   apps/web/src/lib/bff/handler.ts  (bffMutate)                          *)
(*   apps/web/src/lib/investor-api/account-actions.ts                      *)
(*   apps/web/src/lib/investor-api/{account-scope,mutation-route,          *)
(*     brokerage-connection,brokerage-maintenance}.ts                      *)
(*   apps/web/app/api/v1/investor/allocation/*, broker/connection/*        *)
(* for one session, with the backend as those calls and its contract use   *)
(* it: "same request and Idempotency-Key returns the same receipt"         *)
(* (contracts/investor-api/v1.1.0-alpha.3/examples.json).                  *)
(*                                                                         *)
(* A request is served by a handler, one step per call it waits for.  What *)
(* comes before the first wait that another request could use (origin,     *)
(* session, release stage, body) is one step.                              *)
(*                                                                         *)
(* Abstracted: there is one template; an allocation is known by its        *)
(* percentage, a preview, a connection and a backend receipt by the        *)
(* request that first made it, an earlier connection by 0; a key is the    *)
(* data it is a hash of; identifiers are well formed; one paper key pair   *)
(* is used to connect and one to rotate to.                                *)
(***************************************************************************)
EXTENDS Naturals, ReleasePolicy

CONSTANTS
  Handlers,     \* slots for requests served concurrently
  Accounts,
  Sessions,     \* what a session claims and the backend lists for its user
  Percents,     \* allocations the investor may choose
  None,
  ReleaseStages,\* stages the server may be released at
  Asked,        \* actions the investor takes in this instance
  MaxRequests,  \* bound: requests sent
  MaxTroubles,  \* bound: requests, reads, calls and handlers that fail
  MaxEvents     \* bound: what the backend and the clock do by themselves

ASSUME StagesAssumption == ReleaseStages \subseteq Stages
ASSUME SessionsAssumption ==
  Sessions \subseteq [claim : Accounts \union {None}, owned : SUBSET Accounts]
ASSUME AskedAssumption ==
  Asked \subseteq {"previewAllocation", "joinTemplate", "updateAllocation",
                   "leaveTemplate", "connectBroker", "syncBrokerConnection",
                   "rotateBrokerCredentials"}
ASSUME BoundsAssumption ==
  MaxRequests \in Nat /\ MaxTroubles \in Nat /\ MaxEvents \in Nat
ASSUME NoneAssumption == None \notin Accounts \union Percents \union Nat
ASSUME NoneIsNoAnswer ==
  None \notin {"ok", "rejected", "blocked", "turned_away", "internal"}
ASSUME NoneIsNoInput == None \notin [action : Asked, percent : Percents \union {None},
                                     names : 0..MaxRequests \union {None}]
ASSUME PercentsAssumption == Percents \intersect Nat = {}

VARIABLES
  stage,       \* REFI_RELEASE_STAGE of this deployment
  session,     \* the account it names, if any, and the accounts of its user
  authorized,  \* backend: AccountAuthorization is AUTHORIZED
  holding,     \* backend: percentage subscribed to, None when not subscribed
  connection,  \* backend: the one that is live, None when none is
  stale,       \* backend: previews that may no longer be used
  kept,        \* backend: by idempotency key, the request that made the result
  minute,
  request,     \* what the investor sent, by number
  told,        \* what each request was answered
  receipts,    \* action-receipts
  job,
  cleared,     \* ghost: requests during which the account was authorized
  cut,         \* ghost: requests that lost an answer or were not completed
  troubles, events   \* counted up to their bounds

server == <<stage, session>>
account == <<authorized, holding, connection, stale>>
ghosts == <<cleared, cut>>
counts == <<troubles, events>>
vars == <<server, account, kept, minute, request, told, receipts, job, ghosts,
          counts>>

----------------------------------------------------------------------------
(* Data *)

Ids == 1..MaxRequests
ECONOMIC_ACTIONS == {"joinTemplate", "updateAllocation"}
Maintenance == {"syncBrokerConnection", "rotateBrokerCredentials"}
Connections == 0..MaxRequests
Inputs == [action : Asked, percent : Percents \union {None},
           names : Connections \union {None}]
Input(a, p, x) == [action |-> a, percent |-> p, names |-> x]

Outcomes == {"ok", "rejected", "blocked"}
Answers == Outcomes \union {"turned_away", "internal"}

(* The idempotency keys: the account and the exact parameters of an action;*)
(* a synchronisation has its minute instead.                               *)
KeyPerRequest(id, a, in, now) ==
  [account |-> a, input |-> in, minute |-> now, id |-> id]
Key(id, a, in, now) ==
  [account |-> a, input |-> in,
   minute |-> IF in.action = "syncBrokerConnection" THEN now ELSE 0]

Keys == [account : Accounts, input : Inputs, minute : Nat]

(* resolveAccountScope: the account claimed if the backend lists it, else  *)
(* the only account listed.                                                *)
Scope(c, accounts) ==
  IF c \in accounts THEN {c} ELSE {a \in accounts : accounts = {a}}

(* upstreamRefusal, and the narrower table of the connection route: what a *)
(* failed call is to the investor.                                         *)
Errors == {"403", "404", "409", "413", "422", "429", "5xx", "other",
           "transport"}
RefusalTransportRejected(action, error) ==
  IF error \in {"429", "5xx", "other"} THEN "blocked" ELSE "rejected"
Refusal(action, error) ==
  IF error \in (IF action = "connectBroker" THEN {"409", "422"}
                ELSE {"403", "404", "409", "413", "422"})
  THEN "rejected" ELSE "blocked"

(* Every failure counts as a trouble, whether it is one of a request, of a *)
(* read, of a call or of the handler.                                      *)
Trouble == troubles < MaxTroubles /\ troubles' = troubles + 1 /\ UNCHANGED events
Smoothly == UNCHANGED counts
Event == events < MaxEvents /\ events' = events + 1 /\ UNCHANGED troubles

Steps == {"idle", "gate", "authorization", "connection", "call",
          "receipt"}
Idle == [pc |-> "idle", id |-> 0, account |-> None, outcome |-> None]
Jobs == [pc : Steps, id : 0..MaxRequests, account : Accounts \union {None},
         outcome : Outcomes \union {None}]

(* An account is new, or established: connected, authorized, and perhaps   *)
(* subscribed.                                                             *)
Init ==
  /\ stage \in ReleaseStages
  /\ session \in Sessions
  /\ \/ authorized = FALSE /\ holding = None /\ connection = None
     \/ authorized = TRUE /\ holding \in Percents \union {None} /\ connection = 0
  /\ stale = {}
  /\ kept = {}
  /\ minute = 1
  /\ request = [i \in Ids |-> None]
  /\ told = [i \in Ids |-> None]
  /\ receipts = {}
  /\ job = [h \in Handlers |-> Idle]
  /\ cleared = {}
  /\ cut = {}
  /\ troubles = 0
  /\ events = 0

Sent == {i \in Ids : request[i] # None}
Served == {job[h].id : h \in {g \in Handlers : job[g].pc # "idle"}}
In(h) == request[job[h].id]

----------------------------------------------------------------------------
(* The investor *)

(* A join or an update names a preview that an answer has shown, and       *)
(* maintenance the connection that is listed.                              *)
Shown ==
  {k.by : k \in {x \in kept :
     /\ x.key.input.action = "previewAllocation"
     /\ \E i \in Sent : told[i] = "ok" /\ request[i] = x.key.input}}

Offered ==
  {Input("previewAllocation", p, None) : p \in Percents}
  \union {Input(a, request[v].percent, v) : a \in ECONOMIC_ACTIONS, v \in Shown}
  \union {Input(a, None, None) :
            a \in {"leaveTemplate", "connectBroker"}}
  \union {Input(a, None, connection) : a \in Maintenance}

Ask(h) ==
  /\ job[h].pc = "idle"
  /\ \E in \in Offered, i \in Ids :
       /\ in.action \in Asked
       /\ request[i] = None /\ \A j \in Ids : j < i => request[j] # None
       /\ request' = [request EXCEPT ![i] = in]
       /\ job' = [job EXCEPT ![h] = [Idle EXCEPT !.pc = "gate", !.id = i]]
       /\ cleared' = IF authorized THEN cleared \union {i} ELSE cleared
  /\ Smoothly
  /\ UNCHANGED <<server, account, kept, minute, told, receipts, cut>>

----------------------------------------------------------------------------
(* The handler: bffMutate around the route's apply *)

Goes(h, pc) == job' = [job EXCEPT ![h].pc = pc]
Concludes(h, outcome) ==
  job' = [job EXCEPT ![h].pc = "receipt", ![h].outcome = outcome]
Answer(h, answer) ==
  /\ told' = [told EXCEPT ![job[h].id] = answer]
  /\ job' = [job EXCEPT ![h] = Idle]

(* Another origin, or no valid session: answered without a receipt.        *)
TurnAway(h) ==
  /\ job[h].pc = "gate"
  /\ Trouble
  /\ Answer(h, "turned_away")
  /\ UNCHANGED <<server, account, kept, minute, request, receipts, ghosts>>

(* Where a request goes once it has its account.                           *)
AfterScopeUngated(action) ==
  CASE action = "joinTemplate" -> "authorization"
    [] action \in Maintenance -> "connection"
    [] OTHER -> "call"
AfterScope(action) ==
  CASE action \in ECONOMIC_ACTIONS -> "authorization"
    [] action \in Maintenance -> "connection"
    [] OTHER -> "call"

(* The release stage is looked at before the body; a synchronisation has   *)
(* no body to refuse.                                                      *)
Refused(h) ==
  \/ ~Permitted(In(h).action, stage) /\ Concludes(h, "blocked") /\ Smoothly
  \/ /\ Permitted(In(h).action, stage)
     /\ In(h).action # "syncBrokerConnection"
     /\ Concludes(h, "rejected") /\ Trouble

(* clientAndScopeOrRefusal: no account or several, and a listing that      *)
(* fails, are refusals.                                                    *)
Scoped(h) ==
  \/ \E a \in Scope(session.claim, session.owned) :
       /\ job' = [job EXCEPT ![h].pc = AfterScope(In(h).action),
                             ![h].account = a]
       /\ Smoothly
  \/ /\ Scope(session.claim, session.owned) = {}
     /\ Concludes(h, "blocked") /\ Smoothly
  \/ Concludes(h, "blocked") /\ Trouble

Enter(h) ==
  /\ job[h].pc = "gate"
  /\ Refused(h) \/ (Permitted(In(h).action, stage) /\ Scoped(h))
  /\ UNCHANGED <<server, account, kept, minute, request, told, receipts, ghosts>>

(* The connection route builds its client outside any guard, so a client   *)
(* that cannot be built is an internal error there.                        *)
ClientFails(h) ==
  /\ job[h].pc = "gate" /\ In(h).action = "connectBroker"
  /\ Permitted(In(h).action, stage)
  /\ Trouble
  /\ Answer(h, "internal")
  /\ UNCHANGED <<server, account, kept, minute, request, receipts, ghosts>>

(* submitAccountAction: anything but AUTHORIZED ends an economic action.   *)
ReadAuthorization(h) ==
  /\ job[h].pc = "authorization"
  /\ \/ authorized /\ Goes(h, "call") /\ Smoothly
     \/ ~authorized /\ Concludes(h, "blocked") /\ Smoothly
     \/ \E e \in Errors : Concludes(h, Refusal(In(h).action, e)) /\ Trouble
  /\ UNCHANGED <<server, account, kept, minute, request, told, receipts, ghosts>>

(* assertConnectionInScope: the connection named is the account's, and not *)
(* at its end.                                                             *)
Usable(in) == in.names # None /\ connection = in.names

ReadConnection(h) ==
  /\ job[h].pc = "connection"
  /\ \/ Usable(In(h)) /\ Goes(h, "call") /\ Smoothly
     \/ ~Usable(In(h)) /\ Concludes(h, "blocked") /\ Smoothly
     \/ \E e \in Errors : Concludes(h, Refusal(In(h).action, e)) /\ Trouble
  /\ UNCHANGED <<server, account, kept, minute, request, told, receipts, ghosts>>

KeyOf(h) == Key(job[h].id, job[h].account, In(h), minute)
Replays(h) == \E k \in kept : k.key = KeyOf(h)

(* What the backend can do, and what it does, with a request it has not    *)
(* seen.  It looks at the subscription, the preview and the connection,    *)
(* and may refuse for reasons of its own; it is not relied on to look at   *)
(* the authorization again.                                                *)
Sensible(in) ==
  CASE in.action = "joinTemplate" -> holding = None /\ in.names \notin stale
    [] in.action = "updateAllocation" -> holding # None /\ in.names \notin stale
    [] in.action = "leaveTemplate" -> holding # None
    [] in.action = "connectBroker" -> connection = None
    [] in.action \in Maintenance -> Usable(in)
    [] OTHER -> TRUE

CarriesOut(id, in) ==
  /\ holding' = CASE in.action \in ECONOMIC_ACTIONS -> in.percent
                  [] in.action = "leaveTemplate" -> None
                  [] OTHER -> holding
  /\ connection' = IF in.action = "connectBroker" THEN id ELSE connection

Settle(h) ==
  \/ Replays(h) /\ UNCHANGED <<holding, connection, kept>>
  \/ /\ ~Replays(h)
     /\ Sensible(In(h)) /\ CarriesOut(job[h].id, In(h))
     /\ kept' = kept \union {[key |-> KeyOf(h), by |-> job[h].id]}

CallAccepted(h) ==
  /\ job[h].pc = "call"
  /\ Settle(h)
  /\ Concludes(h, "ok")
  /\ Smoothly
  /\ UNCHANGED <<server, authorized, stale, minute, request, told, receipts, ghosts>>

CallRefused(h) ==
  /\ job[h].pc = "call"
  /\ ~Replays(h)
  /\ IF Sensible(In(h)) THEN Trouble ELSE Smoothly
  /\ \E e \in Errors \ {"transport"} : Concludes(h, Refusal(In(h).action, e))
  /\ UNCHANGED <<server, account, kept, minute, request, told, receipts, ghosts>>

(* No answer, whether or not the backend has acted.  A mutation is never   *)
(* tried again here.                                                       *)
CallLost(h) ==
  /\ job[h].pc = "call"
  /\ Trouble
  /\ Settle(h) \/ UNCHANGED <<holding, connection, kept>>
  /\ Concludes(h, Refusal(In(h).action, "transport"))
  /\ cut' = cut \union {job[h].id}
  /\ UNCHANGED <<server, authorized, stale, minute, request, told, receipts,
                 cleared>>

(* appendActionReceipt, and then the answer, which may never arrive.       *)
ReplyUnrecorded(h) ==
  /\ job[h].pc = "receipt"
  /\ Answer(h, job[h].outcome)
  /\ Smoothly
  /\ UNCHANGED <<server, account, kept, minute, request, receipts, ghosts>>
Reply(h) ==
  /\ job[h].pc = "receipt"
  /\ receipts' = receipts \union {[id |-> job[h].id, outcome |-> job[h].outcome]}
  /\ \/ Answer(h, job[h].outcome) /\ Smoothly /\ UNCHANGED cut
     \/ /\ Trouble
        /\ job' = [job EXCEPT ![h] = Idle]
        /\ cut' = cut \union {job[h].id}
        /\ UNCHANGED told
  /\ UNCHANGED <<server, account, kept, minute, request, cleared>>

(* The receipt cannot be stored: the request fails as an internal error,   *)
(* whatever it has done.                                                   *)
ReceiptFails(h) ==
  /\ job[h].pc = "receipt"
  /\ Trouble
  /\ Answer(h, "internal")
  /\ cut' = cut \union {job[h].id}
  /\ UNCHANGED <<server, account, kept, minute, request, receipts, cleared>>

(* The handler dies.                                                       *)
Die(h) ==
  /\ job[h].pc # "idle"
  /\ Trouble
  /\ job' = [job EXCEPT ![h] = Idle]
  /\ cut' = cut \union {job[h].id}
  /\ UNCHANGED <<server, account, kept, minute, request, told, receipts, cleared>>

----------------------------------------------------------------------------
(* The backend and the clock by themselves *)

AuthorizationChanges ==
  /\ Event
  /\ authorized' = ~authorized
  /\ cleared' = IF authorized' THEN cleared \union Served ELSE cleared
  /\ UNCHANGED <<server, holding, connection, stale, kept, minute, request, told,
                 receipts, job, cut>>

PreviewExpires ==
  /\ Event
  /\ \E k \in kept :
       /\ k.key.input.action = "previewAllocation" /\ k.by \notin stale
       /\ stale' = stale \union {k.by}
  /\ UNCHANGED <<server, authorized, holding, connection, kept, minute, request,
                 told, receipts, job, ghosts>>

ConnectionEnds ==
  /\ Event
  /\ connection # None
  /\ connection' = None
  /\ UNCHANGED <<server, authorized, holding, stale, kept, minute, request, told,
                 receipts, job, ghosts>>

MinutePasses ==
  /\ Event
  /\ minute' = minute + 1
  /\ UNCHANGED <<server, account, kept, request, told, receipts, job, ghosts>>

Step(h) ==
  \/ TurnAway(h) \/ Enter(h) \/ ClientFails(h)
  \/ ReadAuthorization(h) \/ ReadConnection(h)
  \/ CallAccepted(h) \/ CallRefused(h) \/ CallLost(h)
  \/ Reply(h) \/ ReceiptFails(h) \/ Die(h)

Next ==
  \/ \E h \in Handlers : Ask(h) \/ Step(h)
  \/ AuthorizationChanges \/ PreviewExpires \/ ConnectionEnds \/ MinutePasses

Spec == Init /\ [][Next]_vars

----------------------------------------------------------------------------
(* Properties *)

TypeOK ==
  /\ stage \in ReleaseStages
  /\ session \in Sessions
  /\ authorized \in BOOLEAN
  /\ holding \in Percents \union {None}
  /\ connection \in Connections \union {None}
  /\ stale \subseteq Ids
  /\ kept \subseteq [key : Keys, by : Ids]
  /\ minute \in Nat
  /\ request \in [Ids -> Inputs \union {None}]
  /\ told \in [Ids -> Answers \union {None}]
  /\ receipts \subseteq [id : Ids, outcome : Outcomes]
  /\ job \in [Handlers -> Jobs]
  /\ cleared \subseteq Ids /\ cut \subseteq Ids
  /\ troubles \in 0..MaxTroubles
  /\ events \in 0..MaxEvents

(* What the investor is answered is what the audit says: an answered       *)
(* request has the one receipt with its outcome, one turned away or failed *)
(* has none, and a change at the backend whose request is over is          *)
(* receipted as ok unless the request was cut (handler.ts:5-12, 160-164).  *)
ReceiptAgrees ==
  /\ \A i \in Ids :
       /\ told[i] \in Outcomes =>
            {r \in receipts : r.id = i} = {[id |-> i, outcome |-> told[i]]}
       /\ told[i] \in {"turned_away", "internal"} =>
            \A r \in receipts : r.id # i
  /\ \A k \in kept :
       k.by \in Served \union cut \/ [id |-> k.by, outcome |-> "ok"] \in receipts

(* A rejection is definite: the request rejected has changed nothing, while*)
(* an answer that never came is only "blocked"; and an ok receipt stands   *)
(* for a result the backend keeps for those very parameters                *)
(* (mutation-route.ts:61-80).                                              *)
AnswersAreTrue ==
  /\ \A k \in kept : told[k.by] \notin {"rejected", "turned_away"}
  /\ \A r \in receipts : r.outcome = "ok" =>
       \E k \in kept : k.key.input = request[r.id]

(* Whatever changes while a request is served, a subscription is opened or *)
(* changed only in an account the backend lists for the user, at a stage   *)
(* that allows it, by a request during which the account was authorized    *)
(* (account-actions.ts:10-18).                                             *)
GateHeld ==
  \A k \in kept :
    /\ k.key.account \in session.owned
    /\ stage = "signal" => k.key.input.action \notin AlphaOnly
    /\ k.key.input.action \in ECONOMIC_ACTIONS => k.by \in cleared

(* However often a preview, a join, an update or a rotation is sent, at    *)
(* once or after a lost answer, it is carried out once, so a retry brings  *)
(* the first result and never a second (account-actions.ts:28-30,          *)
(* brokerage-maintenance.ts:69-80).                                        *)
AppliedOnce ==
  \A k1, k2 \in kept :
    /\ k1.key.input = k2.key.input
    /\ k1.key.input.action \in
         ECONOMIC_ACTIONS \union {"previewAllocation", "rotateBrokerCredentials"}
    => k1.by = k2.by
=============================================================================
