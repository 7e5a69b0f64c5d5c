-------------------------- MODULE InvestorApiCall --------------------------
(***************************************************************************)
(* Calls of the Investor API from one server process                       *)
(*   packages/api-clients/src/investor-api/client.ts                        *)
(*   apps/web/src/lib/investor-api/google-id-token.ts                       *)
(*   apps/web/src/lib/investor-api/user-assertion.ts, gateway.ts            *)
(* Each call acquires the process's bearer token, mints an assertion, sends*)
(* one request and reads its answer.  Reads and the opening of a stream    *)
(* are tried again within one deadline; a mutation is sent once and has no *)
(* deadline.  All calls share one cached token, renewed by one fetch.      *)
(*                                                                         *)
(* Abstracted: one runtime target (each has a token cache of its own) and  *)
(* the policy google+assertion (the others skip the assertion, or both);   *)
(* headers, schemas and media types are the choice between an answer that  *)
(* conforms and one that does not; time is counted in ticks, and a timer   *)
(* fires before the tick after it is due.                                  *)
(***************************************************************************)
EXTENDS Naturals

CONSTANTS
  Calls,                      \* slots for one call each, of any kind
  MaxReadRetries,
  ReadBudget, ConnectTimeout, \* deadlines of a read and of a connection
  Margin,                     \* REFRESH_MARGIN_SECONDS
  TokenLife,                  \* longest life of a token
  AssertionLife,              \* USER_ASSERTION_TTL_SECONDS
  MetadataTimeout,
  MaxJitter,                  \* longest pause before another attempt
  None

Kinds == {"read", "mutation", "stream"}

ASSUME NumbersAssumption ==
  /\ MaxReadRetries \in Nat /\ ReadBudget \in Nat /\ ConnectTimeout \in Nat
  /\ Margin \in Nat /\ TokenLife \in Nat /\ AssertionLife \in Nat
  /\ MetadataTimeout \in Nat /\ MaxJitter \in Nat
(* 10 s and 10 s against a margin and a time to live of 60 s.              *)
ASSUME MarginAssumption ==
  /\ ReadBudget <= Margin /\ ConnectTimeout <= Margin
  /\ ReadBudget < AssertionLife /\ ConnectTimeout < AssertionLife

VARIABLES
  kind,       \* what each call is (isMutation), once made
  pc,         \* where each call is
  attempt,    \* which attempt it is on
  left,       \* time before its deadline (read or connecting stream)
  pause,      \* time before its next attempt
  bearer,     \* remaining life of the token it carries
  assertion,  \* remaining life of the assertion it carries
  request,    \* its last request: on the wire, or what the backend answered
  outcome,    \* what the caller has been told
  carried,    \* how often the backend carried a mutation out
  token,      \* remaining life of the cached token, 0 when there is none
  refreshing, \* a fetch of a new token is under way
  patience    \* time before that fetch is aborted

callVars == <<kind, pc, attempt, left, pause, bearer, assertion, outcome>>
provider == <<token, refreshing, patience>>
vars == <<callVars, request, carried, provider>>

Steps == {"idle", "credential", "refresh", "mint", "sign", "wait", "answer",
          "error", "backoff", "live", "done"}
Answers == {"ok", "refused", "unavailable", "gateway"}
Outcomes == {"answer", "refused", "unavailable", "mismatch", "transport",
             "credential", "invalid", "aborted"}

ASSUME NoneAssumption ==
  None \notin Steps \union Answers \union Outcomes \union Kinds \union {"wire"}

Budget(k) ==
  CASE k = "read" -> ReadBudget
    [] k = "stream" -> ConnectTimeout
    [] k = "mutation" -> 0
(* mutant: a mutation is tried again like a read *)
MaxAttemptsOfAnyCall(c) == MaxReadRetries + 1
MaxAttempts(c) == IF kind[c] = "mutation" THEN 1 ELSE MaxReadRetries + 1

TypeOK ==
  /\ kind \in [Calls -> Kinds \union {None}]
  /\ pc \in [Calls -> Steps]
  /\ attempt \in [Calls -> Nat]
  /\ left \in [Calls -> Nat]
  /\ pause \in [Calls -> Nat]
  /\ bearer \in [Calls -> Nat]
  /\ assertion \in [Calls -> Nat]
  /\ request \in [Calls -> Answers \union {"wire", None}]
  /\ outcome \in [Calls -> Outcomes \union {None}]
  /\ carried \in [Calls -> Nat]
  /\ token \in Nat /\ refreshing \in BOOLEAN /\ patience \in Nat

Init ==
  /\ kind = [c \in Calls |-> None]
  /\ pc = [c \in Calls |-> "idle"]
  /\ attempt = [c \in Calls |-> 0]
  /\ left = [c \in Calls |-> 0]
  /\ pause = [c \in Calls |-> 0]
  /\ bearer = [c \in Calls |-> 0]
  /\ assertion = [c \in Calls |-> 0]
  /\ request = [c \in Calls |-> None]
  /\ outcome = [c \in Calls |-> None]
  /\ carried = [c \in Calls |-> 0]
  /\ token = 0 /\ refreshing = FALSE /\ patience = 0

----------------------------------------------------------------------------
Active(c) == pc[c] \notin {"idle", "done"}
Timed(c) == kind[c] # "mutation" /\ Active(c) /\ pc[c] # "live"

Goto(c, step) ==
  /\ pc' = [pc EXCEPT ![c] = step]
  /\ UNCHANGED <<kind, attempt, left, pause, bearer, assertion, outcome>>

(* The attempt's credentials go with it.                                   *)
DropCredentials(c) ==
  /\ bearer' = [bearer EXCEPT ![c] = 0]
  /\ assertion' = [assertion EXCEPT ![c] = 0]

End(c, o) ==
  /\ pc' = [pc EXCEPT ![c] = "done"]
  /\ outcome' = [outcome EXCEPT ![c] = o]
  /\ left' = [left EXCEPT ![c] = 0]
  /\ pause' = [pause EXCEPT ![c] = 0]
  /\ DropCredentials(c)
  /\ UNCHANGED <<kind, attempt>>

(* openScope, then the checks of perform before anything is sent: a        *)
(* mutation must carry an idempotency key, and a PATCH an If-Match.        *)
Call(c) ==
  /\ pc[c] = "idle"
  /\ \E k \in Kinds :
       /\ kind' = [kind EXCEPT ![c] = k]
       /\ left' = [left EXCEPT ![c] = Budget(k)]
  /\ pc' = [pc EXCEPT ![c] = "credential"]
  /\ attempt' = [attempt EXCEPT ![c] = 1]
  /\ UNCHANGED <<pause, bearer, assertion, outcome, request, carried, provider>>

CallInvalid(c) ==
  /\ pc[c] = "idle"
  /\ pc' = [pc EXCEPT ![c] = "done"]
  /\ kind' = [kind EXCEPT ![c] = "mutation"]
  /\ outcome' = [outcome EXCEPT ![c] = "invalid"]
  /\ UNCHANGED <<attempt, left, pause, bearer, assertion, request, carried,
                 provider>>

----------------------------------------------------------------------------
(* getToken: the cached token while it outlives the margin, else one fetch *)
(* that every caller waits for.                                            *)
FreshWithoutMargin == token > 0   \* mutant: used until it expires
Fresh == token > Margin

TakeCached(c) ==
  /\ pc[c] = "credential"
  /\ Fresh
  /\ pc' = [pc EXCEPT ![c] = "mint"]
  /\ bearer' = [bearer EXCEPT ![c] = token]
  /\ UNCHANGED <<kind, attempt, left, pause, assertion, outcome, request, carried,
                 provider>>

AwaitRefreshJoinsOnly(c) ==   \* mutant: an old token keeps the fetch from starting
  /\ pc[c] = "credential"
  /\ ~Fresh
  /\ Goto(c, "refresh")
  /\ refreshing' = (refreshing \/ token = 0)
  /\ patience' = IF refreshing THEN patience ELSE MetadataTimeout
  /\ UNCHANGED <<request, carried, token>>

AwaitRefresh(c) ==
  /\ pc[c] = "credential"
  /\ ~Fresh
  /\ Goto(c, "refresh")
  /\ refreshing' = TRUE
  /\ patience' = IF refreshing THEN patience ELSE MetadataTimeout
  /\ UNCHANGED <<request, carried, token>>

(* acquire: a token for the audience that outlives the margin is cached.   *)
RefreshSucceeds ==
  /\ refreshing
  /\ \E life \in (Margin + 1)..TokenLife :
       /\ token' = life
       /\ bearer' = [c \in Calls |->
                       IF pc[c] = "refresh" THEN life ELSE bearer[c]]
  /\ pc' = [c \in Calls |-> IF pc[c] = "refresh" THEN "mint" ELSE pc[c]]
  /\ refreshing' = FALSE
  /\ patience' = 0
  /\ UNCHANGED <<kind, attempt, left, pause, assertion, outcome, request, carried>>

(* Time-out, an error, another audience, or a token about to expire.       *)
RefreshFails ==
  /\ refreshing
  /\ pc' = [c \in Calls |-> IF pc[c] = "refresh" THEN "done" ELSE pc[c]]
  /\ outcome' = [c \in Calls |->
                   IF pc[c] = "refresh" THEN "credential" ELSE outcome[c]]
  /\ left' = [c \in Calls |-> IF pc[c] = "refresh" THEN 0 ELSE left[c]]
  /\ refreshing' = FALSE
  /\ patience' = 0
  /\ UNCHANGED <<kind, attempt, pause, bearer, assertion, request, carried, token>>

(* mintUserAssertion fixes the times of the assertion and then signs it.   *)
Mint(c) ==
  /\ pc[c] = "mint"
  /\ pc' = [pc EXCEPT ![c] = "sign"]
  /\ assertion' = [assertion EXCEPT ![c] = AssertionLife]
  /\ UNCHANGED <<kind, attempt, left, pause, bearer, outcome, request, carried,
                 provider>>

(* No signer, a claim of the wrong form, or the signature fails.           *)
MintFails(c) ==
  /\ pc[c] \in {"mint", "sign"}
  /\ End(c, "credential")
  /\ UNCHANGED <<request, carried, provider>>

Send(c) ==
  /\ pc[c] = "sign"
  /\ Goto(c, "wait")
  /\ request' = [request EXCEPT ![c] = "wire"]
  /\ UNCHANGED <<carried, provider>>

----------------------------------------------------------------------------
(* The backend, whether or not the caller still waits.  What it answers    *)
(* with "unavailable" or "gateway" it may have carried out all the same.   *)
Arrive(c) ==
  /\ request[c] = "wire"
  /\ \E a \in Answers :
       /\ request' = [request EXCEPT ![c] = a]
       /\ \/ /\ a # "refused"
             /\ kind[c] = "mutation"
             /\ carried' = [carried EXCEPT ![c] = @ + 1]
          \/ /\ a = "ok" => kind[c] # "mutation"
             /\ UNCHANGED carried
  /\ UNCHANGED <<callVars, provider>>

(* retryDelay: attempts are left and the pause fits before the deadline    *)
(* (the deadline of a connecting stream is not looked at).                 *)
PauseBeyondDeadline(c) ==     \* mutant: every attempt has a deadline of its own
  /\ attempt[c] < MaxAttempts(c)
  /\ \E d \in 1..MaxJitter :
       /\ pause' = [pause EXCEPT ![c] = d]
       /\ left' = [left EXCEPT ![c] = Budget(kind[c])]
  /\ pc' = [pc EXCEPT ![c] = "backoff"]
  /\ DropCredentials(c)
  /\ UNCHANGED <<kind, attempt, outcome>>

Pause(c) ==
  /\ attempt[c] < MaxAttempts(c)
  /\ \E d \in 0..MaxJitter :
       /\ kind[c] = "read" => d < left[c]
       /\ pause' = [pause EXCEPT ![c] = d]
  /\ pc' = [pc EXCEPT ![c] = "backoff"]
  /\ DropCredentials(c)
  /\ UNCHANGED <<kind, attempt, left, outcome>>

MustGiveUp(c) ==
  \/ attempt[c] >= MaxAttempts(c)
  \/ kind[c] = "read" /\ left[c] <= MaxJitter

(* fetch rejects: the request may or may not have left, and may arrive yet.*)
FetchFailsRetry(c) ==
  /\ pc[c] = "wait"
  /\ Pause(c)
  /\ UNCHANGED <<request, carried, provider>>

FetchFails(c) ==
  /\ pc[c] = "wait"
  /\ MustGiveUp(c)
  /\ End(c, "transport")
  /\ UNCHANGED <<request, carried, provider>>

HeadersDone(c, step) ==
  /\ pc' = [pc EXCEPT ![c] = step]
  /\ left' = [left EXCEPT ![c] = IF step = "live" THEN 0 ELSE @]
  /\ DropCredentials(c)
  /\ UNCHANGED <<kind, attempt, pause, outcome>>

(* The answer's status and headers (assertSuccessShape); a stream that is  *)
(* open has no deadline any more.                                          *)
HeadersOk(c) ==
  /\ pc[c] = "wait"
  /\ request[c] = "ok"
  /\ \/ HeadersDone(c, IF kind[c] = "stream" THEN "live" ELSE "answer")
     \/ End(c, "mismatch")
  /\ UNCHANGED <<request, carried, provider>>

HeadersRetry(c) ==
  /\ pc[c] = "wait"
  /\ request[c] \in {"unavailable", "gateway"}
  /\ Pause(c)
  /\ UNCHANGED <<request, carried, provider>>

(* A read out of attempts: 503 is in its error profile, 502 and 504 are not*)
HeadersError(c) ==
  /\ pc[c] = "wait"
  /\ \/ request[c] = "refused"
     \/ request[c] = "unavailable" /\ MustGiveUp(c)
     \/ request[c] = "gateway" /\ kind[c] = "mutation"
  /\ HeadersDone(c, "error")
  /\ UNCHANGED <<request, carried, provider>>

HeadersGateway(c) ==
  /\ pc[c] = "wait"
  /\ request[c] = "gateway"
  /\ kind[c] # "mutation"
  /\ MustGiveUp(c)
  /\ End(c, "transport")
  /\ UNCHANGED <<request, carried, provider>>

(* The body, under the same deadline: what the contract describes, or a    *)
(* mismatch (failureFromResponse checks status and code against the error  *)
(* profile, which no 502 and no 504 passes), or a broken connection.       *)
Body(c) ==
  /\ \/ pc[c] = "answer" /\ End(c, "answer")
     \/ /\ pc[c] = "error"
        /\ request[c] # "gateway"
        /\ End(c, request[c])
     \/ pc[c] \in {"answer", "error"} /\ End(c, "mismatch")
     \/ pc[c] \in {"answer", "error"} /\ End(c, "transport")
  /\ UNCHANGED <<request, carried, provider>>

AnotherAttempt(c) ==
  /\ pc[c] = "backoff"
  /\ pause[c] = 0
  /\ pc' = [pc EXCEPT ![c] = "credential"]
  /\ attempt' = [attempt EXCEPT ![c] = @ + 1]
  /\ request' = [request EXCEPT ![c] = None]
  /\ UNCHANGED <<kind, left, pause, bearer, assertion, outcome, carried, provider>>

StreamEnds(c) ==
  /\ pc[c] = "live"
  /\ End(c, "answer")
  /\ UNCHANGED <<request, carried, provider>>

(* The signal of the call, from its deadline or from its caller, ends what *)
(* is awaited; a pause is ended by the bare reason of the signal.          *)
AbortedAs(c) ==
  CASE pc[c] \in {"credential", "refresh", "mint", "sign"} -> "credential"
    [] pc[c] \in {"wait", "answer", "error"} -> "transport"
    [] pc[c] = "backoff" -> "aborted"
    [] OTHER -> "answer"

Abort(c) == End(c, AbortedAs(c)) /\ UNCHANGED <<request, carried, provider>>

DeadlinePasses(c) == Timed(c) /\ left[c] = 0 /\ Abort(c)

CallerAborts(c) == Active(c) /\ Abort(c)

----------------------------------------------------------------------------
Less(n) == IF n = 0 THEN 0 ELSE n - 1

(* Time passes once every timer that is due has fired.                     *)
Tick ==
  /\ \A c \in Calls :
       /\ Timed(c) => left[c] > 0
       /\ pc[c] = "backoff" => pause[c] > 0
  /\ refreshing => patience > 0
  /\ left' = [c \in Calls |-> Less(left[c])]
  /\ pause' = [c \in Calls |-> Less(pause[c])]
  /\ bearer' = [c \in Calls |-> Less(bearer[c])]
  /\ assertion' = [c \in Calls |-> Less(assertion[c])]
  /\ token' = Less(token)
  /\ patience' = Less(patience)
  /\ UNCHANGED <<kind, pc, attempt, outcome, request, carried, refreshing>>

(* What the client does by itself once it can.                             *)
Step(c) ==
  \/ TakeCached(c) \/ AwaitRefresh(c) \/ Mint(c) \/ AnotherAttempt(c)
  \/ DeadlinePasses(c)

Network(c) ==
  \/ MintFails(c) \/ Send(c) \/ Arrive(c) \/ FetchFailsRetry(c)
  \/ FetchFails(c) \/ HeadersOk(c) \/ HeadersRetry(c) \/ HeadersError(c)
  \/ HeadersGateway(c) \/ Body(c) \/ StreamEnds(c)

Next ==
  \/ \E c \in Calls : Call(c) \/ CallInvalid(c) \/ CallerAborts(c)
  \/ \E c \in Calls : Step(c) \/ Network(c)
  \/ RefreshSucceeds \/ RefreshFails
  \/ Tick

Spec == Init /\ [][Next]_vars

(* Timers fire and promises already settled continue.  Nothing is assumed  *)
(* of the signer, the network, the backend or the callers; the fetch of a  *)
(* token ends because it has a time-out.                                   *)
FairSpec ==
  /\ Spec
  /\ \A c \in Calls : WF_vars(Step(c))
  /\ WF_vars(patience = 0 /\ RefreshFails)
  /\ WF_vars(Tick)

----------------------------------------------------------------------------
(* Properties *)

(* Whoever waited for a shared token, and however long it was cached, a    *)
(* request that is still awaited under a deadline never reaches the backend*)
(* with an expired credential (google-id-token.ts:31, user-assertion.ts    *)
(* :66-71).  A mutation has no deadline and no such promise.               *)
FreshOnTheWire ==
  \A c \in Calls :
    kind[c] # "mutation" /\ pc[c] = "wait" => bearer[c] > 0 /\ assertion[c] > 0

(* Attempts, pauses and credentials all draw from the deadline set when the*)
(* call was made: it is never moved (client.ts:601-606).                   *)
OneDeadline ==
  [][ \A c \in Calls : Timed(c) /\ Timed(c)' => left'[c] <= left[c] ]_vars

(* What the caller of a mutation may conclude from the end of its call.    *)
Verdict(c) ==
  IF outcome[c] = None \/ kind[c] # "mutation" THEN "pending"
  ELSE IF outcome[c] = "answer" THEN "applied"
  ELSE IF outcome[c] = "refused" THEN "refused"
  ELSE IF outcome[c] \in {"credential", "invalid"} THEN "unsent"
  ELSE "unknown"

Promise == INSTANCE CallPromise WITH
  verdict <- [c \in Calls |-> Verdict(c)]

(* However its call fails, a mutation is carried out at most once, and its *)
(* caller is never told "applied" of one that was not, or "refused" or     *)
(* "unsent" of one that was, or still will be (client.ts:603-606, 816).    *)
SaidIsTrue == Promise!Spec

(* A read, and the opening of a stream, ends; no call waits for a token    *)
(* for ever, whatever became of the fetch it shared (client.ts:601-606,    *)
(* google-id-token.ts:156-158).                                            *)
Waiting(c) == Timed(c) \/ pc[c] = "refresh"

WaitsEnd == \A c \in Calls : Waiting(c) ~> ~Waiting(c)
=============================================================================
