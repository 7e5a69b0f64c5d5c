--------------------------- MODULE ConnectedLogin ---------------------------
(***************************************************************************)
(* One email login, from the browser's completion request to the durable   *)
(* connected session, and the life of that session                         *)
(*   apps/web/src/lib/auth/connected-login.ts, login-flow.ts                *)
(*   apps/web/src/lib/auth/identity-exchange.ts                             *)
(*   apps/web/src/lib/connected-store/{login-state,exchange-attempt,        *)
(*     replay,session}.ts                                                   *)
(*   apps/web/app/api/v1/auth/login/complete/route.ts                       *)
(* Every store access and remote call of a request is a step of its        *)
(* handler, so two completions of one login (a retry, a second tab, a      *)
(* second instance) interleave at each of them, and a handler may die in   *)
(* between.                                                                 *)
(*                                                                         *)
(* Abstracted: the tokens themselves.  An identity result is known by its  *)
(* jti, with whether it passes the closed verification and is bound to     *)
(* this login; the provider's answer is yes or no.                         *)
(***************************************************************************)
EXTENDS Naturals, FiniteSets

CONSTANTS
  Handlers,    \* slots for requests served concurrently
  Sids,        \* session ids the BFF may mint
  Results,     \* jti's of the identity results the backend may issue
  None,
  MaxCrashes   \* how many handlers may die half-way

ASSUME CrashAssumption == MaxCrashes \in Nat

VARIABLES
  consumed,      \* login-consumed: the single-use marker exists
  loginExpired, assertionExpired,   \* the two clocks that run out
  unverified,    \* ghost: an answer could not be verified, the cookie was cleared
  attempt,       \* exchange-attempt of this login
  jtis,          \* identity-result-jti: results consumed
  bridgeUsed,    \* bridge-assertion-jti recorded
  session,       \* session store, by sid
  job,           \* what each handler slot is doing
  issued,        \* backend: the sid each result was issued for
  asked,         \* ghost: calls to the login provider
  overlapped,    \* ghost: two requests have been under way together
  crashes

vars == <<consumed, loginExpired, assertionExpired, unverified, attempt, jtis,
          bridgeUsed, session, job, issued, asked, overlapped, crashes>>
limits == <<loginExpired, assertionExpired, unverified>>

Statuses == {"sent", "completed", "failed"}
Reasons == {None, "refused", "invalid", "replay", "unavailable", "expired"}
Attempts == [status : Statuses, reason : Reasons, sid : Sids]
Sessions == [jti : Results, revoked : BOOLEAN]
Answers == {None, "cookie", "refused", "recoverable", "unavailable", "done"}

ASSUME NoneAssumption ==
  /\ None \notin Statuses \union {"refused"}
  /\ None \notin Sids /\ None \notin Results
  /\ None \notin Attempts /\ None \notin Sessions

Steps == {"idle", "recover", "consume", "authenticate", "open", "read", "write",
          "send", "verify", "replayed", "bridge", "lookup", "create",
          "existing", "auth", "touch", "touchWrite", "revokeWrite"}

IdleJob == [pc |-> "idle", answer |-> None, good |-> FALSE, sid |-> None,
            result |-> None, valid |-> FALSE, copy |-> None, patch |-> None,
            reason |-> None, then |-> "idle"]

Jobs == [pc : Steps, answer : Answers, good : BOOLEAN,
         sid : Sids \union {None}, result : Results \union {None},
         valid : BOOLEAN,
         copy : Attempts \union Sessions \union {None},  \* the record as read
         patch : Statuses \union {None}, reason : Reasons,
         then : {"idle", "send", "cookie", "refused", "unavailable"}]

TypeOK ==
  /\ consumed \in BOOLEAN /\ bridgeUsed \in BOOLEAN
  /\ loginExpired \in BOOLEAN /\ assertionExpired \in BOOLEAN
  /\ unverified \in BOOLEAN
  /\ attempt \in Attempts \union {None}
  /\ jtis \subseteq Results
  /\ session \in [Sids -> Sessions \union {None}]
  /\ job \in [Handlers -> Jobs]
  /\ issued \in [Results -> Sids \union {None}]
  /\ asked \in 0..2
  /\ overlapped \in BOOLEAN
  /\ crashes \in 0..MaxCrashes

Init ==
  /\ consumed = FALSE /\ bridgeUsed = FALSE
  /\ loginExpired = FALSE /\ assertionExpired = FALSE /\ unverified = FALSE
  /\ attempt = None
  /\ jtis = {}
  /\ session = [s \in Sids |-> None]
  /\ job = [h \in Handlers |-> IdleJob]
  /\ issued = [r \in Results |-> None]
  /\ asked = 0
  /\ overlapped = FALSE
  /\ crashes = 0

----------------------------------------------------------------------------
Busy(h) == job[h].pc # "idle"
MayCall(h) ==
  /\ ~Busy(h)
  /\ overlapped' = (overlapped \/ \E g \in Handlers : Busy(g))

Go(h, pc) == job' = [job EXCEPT ![h].pc = pc]
EndAs(j, a) == [IdleJob EXCEPT !.answer = a, !.good = j.good]
Ends(h, a) == job' = [job EXCEPT ![h] = EndAs(@, a)]

Active(s) == session[s] # None /\ ~session[s].revoked

(* updateExchangeAttempt is a read and then a write of the whole record;   *)
(* the handler goes on, or answers, after the write.                       *)
Updates(h, patch, reason, then) ==
  job' = [job EXCEPT ![h].pc = "read", ![h].patch = patch,
                     ![h].reason = reason, ![h].then = then]

ReadAttempt(h) ==
  /\ job[h].pc = "read"
  /\ job' = [job EXCEPT ![h].pc = "write", ![h].copy = attempt]
  /\ UNCHANGED <<consumed, limits, attempt, jtis, bridgeUsed, session, issued,
                 asked, overlapped, crashes>>

WriteAttempt(h) ==
  /\ job[h].pc = "write"
  /\ LET j == job[h] IN
     /\ attempt' = IF j.patch = None THEN j.copy
                   ELSE [j.copy EXCEPT !.status = j.patch,
                         !.reason = IF j.reason = None THEN @ ELSE j.reason]
     /\ IF j.then = "send"
        THEN job' = [job EXCEPT ![h].pc = "send", ![h].copy = None,
                                ![h].patch = None, ![h].then = "idle"]
        ELSE Ends(h, j.then)
  /\ UNCHANGED <<consumed, limits, jtis, bridgeUsed, session, issued, asked,
                 overlapped, crashes>>

----------------------------------------------------------------------------
(* POST login/complete *)

(* The browser presents its login cookie; `good` says the state in it is   *)
(* the one this login was started with.                                    *)
Complete(h, good) ==
  /\ MayCall(h)
  /\ job' = [job EXCEPT ![h] = [IdleJob EXCEPT !.pc = "recover", !.good = good]]
  /\ UNCHANGED <<consumed, limits, attempt, jtis, bridgeUsed, session, issued,
                 asked, crashes>>

(* recoverConnectedSession and recoverAttempt, on the attempt as read.     *)
Recover(h) ==
  /\ job[h].pc = "recover"
  /\ LET sent == job' = [job EXCEPT ![h].sid = attempt.sid, ![h].pc = "read",
                                    ![h].then = "send"]
     IN CASE attempt = None -> Go(h, "consume")
          [] attempt # None /\ ~job[h].good -> Ends(h, "refused")
          [] OTHER ->
               CASE attempt.status = "completed" ->
                      job' = [job EXCEPT ![h].sid = attempt.sid,
                                         ![h].pc = "existing"]
                 [] attempt.status = "failed" -> Ends(h, "refused")
                 [] attempt.status = "sent" ->
                      IF assertionExpired
                      THEN Updates(h, "failed", "expired", "refused")
                      ELSE sent
  /\ UNCHANGED <<consumed, limits, attempt, jtis, bridgeUsed, session, issued,
                 asked, overlapped, crashes>>

(* A completed attempt gives back its session, if it is still active.      *)
ReturnExistingNever(h) ==
  /\ job[h].pc = "existing"
  /\ Ends(h, "refused")
  /\ UNCHANGED <<consumed, limits, attempt, jtis, bridgeUsed, session, issued,
                 asked, overlapped, crashes>>

ReturnExistingRenews(h) ==
  /\ job[h].pc = "existing"
  /\ session' = [session EXCEPT ![job[h].sid].revoked = FALSE]
  /\ Ends(h, "cookie")
  /\ UNCHANGED <<consumed, limits, attempt, jtis, bridgeUsed, issued, asked,
                 overlapped, crashes>>

ReturnExisting(h) ==
  /\ job[h].pc = "existing"
  /\ Ends(h, IF Active(job[h].sid) THEN "cookie" ELSE "refused")
  /\ UNCHANGED <<consumed, limits, attempt, jtis, bridgeUsed, session, issued,
                 asked, overlapped, crashes>>

(* consumePendingLogin: state and expiry first, then the marker, created   *)
(* by at most one caller.                                                  *)
MayConsumeTwice(h) == job[h].good /\ ~loginExpired
MayConsume(h) == job[h].good /\ ~loginExpired /\ ~consumed

ConsumeLogin(h) ==
  /\ job[h].pc = "consume"
  /\ IF MayConsume(h)
     THEN consumed' = TRUE /\ Go(h, "authenticate")
     ELSE consumed' = consumed /\ Ends(h, "refused")
  /\ UNCHANGED <<limits, attempt, jtis, bridgeUsed, session, issued, asked,
                 overlapped, crashes>>

(* The provider's answer, checked against the pending login; a fresh sid   *)
(* is minted with the bridge assertion.                                    *)
Authenticate(h) ==
  /\ job[h].pc = "authenticate"
  /\ asked' = IF asked < 2 THEN asked + 1 ELSE asked
  /\ \/ Ends(h, "refused")
     \/ \E s \in Sids :
          /\ session[s] = None
          /\ \A g \in Handlers : job[g].sid # s
          /\ job' = [job EXCEPT ![h].pc = "open", ![h].sid = s]
  /\ UNCHANGED <<consumed, limits, attempt, jtis, bridgeUsed, session, issued,
                 overlapped, crashes>>

(* openExchangeAttempt: created once; an existing attempt is continued,    *)
(* never replaced.                                                         *)

OpenAttempt(h) ==
  /\ job[h].pc = "open"
  /\ IF attempt = None
     THEN /\ attempt' = [status |-> "sent", reason |-> None, sid |-> job[h].sid]
          /\ Updates(h, None, None, "send")
     ELSE /\ attempt' = attempt
          /\ Go(h, "recover")
  /\ UNCHANGED <<consumed, limits, jtis, bridgeUsed, session, issued, asked,
                 overlapped, crashes>>

(* exchangeIdentity with the stored request: answered (the same result     *)
(* again, or one more for the same sid), refused, lost on the way, or not  *)
(* sent at all.                                                            *)
ExchangeAnswered(h, r, valid) ==
  /\ job[h].pc = "send"
  /\ issued[r] \in {None, job[h].sid}
  /\ issued' = [issued EXCEPT ![r] = job[h].sid]
  /\ job' = [job EXCEPT ![h].pc = "verify", ![h].result = r, ![h].valid = valid]
  /\ UNCHANGED <<consumed, limits, attempt, jtis, bridgeUsed, session, asked,
                 overlapped, crashes>>


ExchangeLost(h) ==
  /\ job[h].pc = "send"
  /\ \/ issued' = issued
     \/ \E r \in Results : issued[r] = None
                           /\ issued' = [issued EXCEPT ![r] = job[h].sid]
  /\ Ends(h, "recoverable")
  /\ UNCHANGED <<consumed, limits, attempt, jtis, bridgeUsed, session, asked,
                 overlapped, crashes>>

ExchangeFails(h) ==
  /\ job[h].pc = "send"
  /\ \/ Updates(h, "failed", "refused", "refused")
     \/ Updates(h, "failed", "unavailable", "unavailable")
  /\ UNCHANGED <<consumed, limits, attempt, jtis, bridgeUsed, session, issued,
                 asked, overlapped, crashes>>

(* verifyIdentityResult: closed checks, then the jti is consumed once.     *)
VerifyUnrecorded(h) ==
  /\ job[h].pc = "verify"
  /\ IF job[h].valid THEN Go(h, "bridge")
     ELSE Updates(h, "failed", "invalid", "refused")
  /\ UNCHANGED <<consumed, limits, attempt, jtis, bridgeUsed, session, issued,
                 asked, overlapped, crashes>>

Verify(h) ==
  /\ job[h].pc = "verify"
  /\ LET j == job[h] IN
     CASE ~j.valid -> Updates(h, "failed", "invalid", "refused") /\ jtis' = jtis
       [] j.valid /\ j.result \in jtis -> Go(h, "replayed") /\ jtis' = jtis
       [] OTHER -> Go(h, "bridge") /\ jtis' = jtis \union {j.result}
  /\ UNCHANGED <<consumed, limits, attempt, bridgeUsed, session, issued, asked,
                 overlapped, crashes>>

(* The backend's key set is not configured or not accepted: the error is   *)
(* passed on with the attempt still sent, but the answer it becomes clears *)
(* the browser's login cookie.                                             *)
VerifyUnavailable(h) ==
  /\ job[h].pc = "verify"
  /\ unverified' = TRUE
  /\ Ends(h, "unavailable")
  /\ UNCHANGED <<consumed, loginExpired, assertionExpired, attempt, jtis,
                 bridgeUsed, session, issued, asked, overlapped, crashes>>

ReplayedReminted(h) ==
  /\ job[h].pc = "replayed"
  /\ IF Active(job[h].sid) THEN Updates(h, "completed", None, "cookie")
     ELSE \E s \in {t \in Sids : session[t] = None} :
            job' = [job EXCEPT ![h].sid = s, ![h].pc = "bridge"]
  /\ UNCHANGED <<consumed, limits, attempt, jtis, bridgeUsed, session, issued,
                 asked, overlapped, crashes>>

Replayed(h) ==
  /\ job[h].pc = "replayed"
  /\ IF Active(job[h].sid) THEN Updates(h, "completed", None, "cookie")
     ELSE Updates(h, "failed", "replay", "refused")
  /\ UNCHANGED <<consumed, limits, attempt, jtis, bridgeUsed, session, issued,
                 asked, overlapped, crashes>>

RecordBridge(h) ==
  /\ job[h].pc = "bridge"
  /\ bridgeUsed' = TRUE
  /\ Go(h, "lookup")
  /\ UNCHANGED <<consumed, limits, attempt, jtis, session, issued, asked,
                 overlapped, crashes>>

(* The session of the result's sid: the active one, or a new one, created  *)
(* only if the sid has none (a revoked one included).                      *)
LookupSession(h) ==
  /\ job[h].pc = "lookup"
  /\ IF Active(job[h].sid) THEN Updates(h, "completed", None, "cookie")
     ELSE Go(h, "create")
  /\ UNCHANGED <<consumed, limits, attempt, jtis, bridgeUsed, session, issued,
                 asked, overlapped, crashes>>

CreateSession(h) ==
  /\ job[h].pc = "create"
  /\ LET s == job[h].sid IN
     IF session[s] = None
     THEN /\ session' = [session EXCEPT ![s] = [jti |-> job[h].result,
                                                revoked |-> FALSE]]
          /\ Updates(h, "completed", None, "cookie")
     ELSE session' = session /\ Ends(h, "unavailable")
  /\ UNCHANGED <<consumed, limits, attempt, jtis, bridgeUsed, issued, asked,
                 overlapped, crashes>>

----------------------------------------------------------------------------
(* Requests made with the session cookie, and revocation *)

Use(h, s) ==
  /\ MayCall(h)
  /\ session[s] # None
  /\ job' = [job EXCEPT ![h] = [IdleJob EXCEPT !.pc = "auth", !.sid = s]]
  /\ UNCHANGED <<consumed, limits, attempt, jtis, bridgeUsed, session, issued,
                 asked, crashes>>

GetAuthContext(h) ==
  /\ job[h].pc = "auth"
  /\ IF Active(job[h].sid) THEN Go(h, "touch") ELSE Ends(h, "refused")
  /\ UNCHANGED <<consumed, limits, attempt, jtis, bridgeUsed, session, issued,
                 asked, overlapped, crashes>>

(* touchConnectedSession and revokeConnectedSession both read the record   *)
(* and then write it back whole.                                           *)
TouchRead(h) ==
  /\ job[h].pc = "touch"
  /\ LET s == job[h].sid IN
     IF Active(s)
     THEN job' = [job EXCEPT ![h].pc = "touchWrite", ![h].copy = session[s]]
     ELSE Ends(h, "done")
  /\ UNCHANGED <<consumed, limits, attempt, jtis, bridgeUsed, session, issued,
                 asked, overlapped, crashes>>

TouchWrite(h) ==
  /\ job[h].pc = "touchWrite"
  /\ session' = [session EXCEPT ![job[h].sid] = job[h].copy]
  /\ Ends(h, "done")
  /\ UNCHANGED <<consumed, limits, attempt, jtis, bridgeUsed, issued, asked,
                 overlapped, crashes>>

Revoke(h, s) ==
  /\ MayCall(h)
  /\ Active(s)
  /\ job' = [job EXCEPT ![h] = [IdleJob EXCEPT !.pc = "revokeWrite", !.sid = s,
                                               !.copy = session[s]]]
  /\ UNCHANGED <<consumed, limits, attempt, jtis, bridgeUsed, session, issued,
                 asked, crashes>>

RevokeWrite(h) ==
  /\ job[h].pc = "revokeWrite"
  /\ session' = [session EXCEPT ![job[h].sid] =
                   [job[h].copy EXCEPT !.revoked = TRUE]]
  /\ Ends(h, "done")
  /\ UNCHANGED <<consumed, limits, attempt, jtis, bridgeUsed, issued, asked,
                 overlapped, crashes>>

----------------------------------------------------------------------------
Crash(h) ==
  /\ Busy(h)
  /\ crashes < MaxCrashes
  /\ crashes' = crashes + 1
  /\ job' = [job EXCEPT ![h] = IdleJob]
  /\ UNCHANGED <<consumed, limits, attempt, jtis, bridgeUsed, session, issued,
                 asked, overlapped>>

LoginExpires ==
  /\ ~loginExpired /\ loginExpired' = TRUE
  /\ UNCHANGED <<consumed, assertionExpired, unverified, attempt, jtis,
                 bridgeUsed, session, job, issued, asked, overlapped, crashes>>

AssertionExpires ==
  /\ attempt # None /\ ~assertionExpired /\ assertionExpired' = TRUE
  /\ UNCHANGED <<consumed, loginExpired, unverified, attempt, jtis, bridgeUsed,
                 session, job, issued, asked, overlapped, crashes>>

Step(h) ==
  \/ ReadAttempt(h) \/ WriteAttempt(h) \/ Recover(h) \/ ReturnExisting(h)
  \/ ConsumeLogin(h) \/ Authenticate(h) \/ OpenAttempt(h)
  \/ \E r \in Results, valid \in BOOLEAN : ExchangeAnswered(h, r, valid)
  \/ ExchangeLost(h) \/ ExchangeFails(h) \/ Verify(h) \/ VerifyUnavailable(h)
  \/ Replayed(h) \/ RecordBridge(h) \/ LookupSession(h) \/ CreateSession(h)
  \/ GetAuthContext(h) \/ TouchRead(h) \/ TouchWrite(h) \/ RevokeWrite(h)

Call(h) ==
  \/ \E good \in BOOLEAN : Complete(h, good)
  \/ \E s \in Sids : Use(h, s) \/ Revoke(h, s)

Next ==
  \/ \E h \in Handlers : Call(h) \/ Step(h) \/ Crash(h)
  \/ LoginExpires \/ AssertionExpires

Spec == Init /\ [][Next]_vars

(* A request once begun runs on; the browser keeps its login cookie while  *)
(* the answer is recoverable and tries again; the exchange is not lost for *)
(* ever.                                                                   *)
FairSpec ==
  /\ Spec
  /\ \A h \in Handlers : WF_vars(Step(h))
  /\ SF_vars(\E h \in Handlers : Complete(h, TRUE))
  /\ SF_vars(\E h \in Handlers, r \in Results, valid \in BOOLEAN :
               ExchangeAnswered(h, r, valid))

----------------------------------------------------------------------------
(* Properties *)

(* A login never yields two sessions, however often and concurrently it is *)
(* completed or recovered ("never creates a second session",               *)
(* connected-login.ts:13-20).                                              *)
AtMostOneSession == Cardinality({s \in Sids : session[s] # None}) <= 1

(* A session exists only for a login that was consumed, an exchange        *)
(* attempt made for that very sid, and a result the backend issued for it  *)
(* whose jti was consumed first (identity-exchange.ts, replay.ts).         *)
SessionBacked ==
  \A s \in Sids : session[s] # None =>
    /\ consumed
    /\ attempt # None /\ attempt.sid = s
    /\ session[s].jti \in jtis
    /\ issued[session[s].jti] = s

(* The login provider is asked at most once per login: a replayed callback *)
(* never reaches it (login-flow.ts:170-176).                               *)
ProviderAskedOnce == asked <= 1

Refuses(h) == Busy(h) /\ job'[h] = EndAs(job[h], "refused")
Alone == ~overlapped' /\ crashes = 0

(* One request at a time: a login whose session is active is never         *)
(* refused to the browser that owns it, but given that session             *)
(* (connected-login.ts:16-20).                                             *)
RecoveryReturnsSession ==
  [][ \A h \in Handlers :
        (Alone /\ Refuses(h) /\ job[h].good) => ~\E s \in Sids : Active(s) ]_vars

(* However recoveries of its login and revocations race and die, a revoked *)
(* session stays revoked ("every instance refuses the session from now     *)
(* on", session.ts:100) but for a request that read the record before the  *)
(* revocation and writes its last-seen after it (session.ts:116-119): once *)
(* those are over it is refused for good.                                  *)
BeingTouched(s) == \E h \in Handlers : job[h].pc = "touchWrite" /\ job[h].sid = s
RevokedForGood ==
  [][ \A s \in Sids :
        session[s] # None /\ session[s].revoked /\ ~BeingTouched(s)
          => session'[s] # None /\ session'[s].revoked ]_vars


(* However the requests overlap and die, they implement the one-time login: *)
(* consumed once, bound to one session id, a result spent before its       *)
(* session, and no session made twice or replaced (connected-login.ts:     *)
(* 13-20, replay.ts, session.ts:46-85).                                    *)
Login == INSTANCE OneTimeLogin WITH
  bound <- IF attempt = None THEN None ELSE attempt.sid,
  spent <- jtis,
  session <- [s \in Sids |-> IF session[s] = None THEN None ELSE session[s].jti]
ImplementsLogin == Login!Spec
=============================================================================
