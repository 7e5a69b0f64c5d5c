------------------------ MODULE ConnectedLoginProofs ------------------------
(***************************************************************************)
(* One email login, whatever the number of requests, session ids and       *)
(* results, however the requests overlap and wherever they die: one        *)
(* session, backed by a consumed login and a consumed result, and one      *)
(* question to the provider; a revoked session comes back only by a touch  *)
(* that read it before.  And with requests one at a time an active session *)
(* is not refused.                                                         *)
(***************************************************************************)
EXTENDS ConnectedLogin, FiniteSetTheorems, TLAPS

(* The steps that act for the sid of the exchange attempt, those that hold *)
(* a result issued for it, and those that serve the session's cookie.      *)
Exchanging == {"send", "verify", "replayed", "bridge", "lookup", "create"}
Holding == {"verify", "replayed", "bridge", "lookup", "create"}
Serving == {"auth", "touch", "touchWrite", "revokeWrite"}
Updating == {"read", "write"}

(* What a handler may rely on.  An attempt is never replaced, so a handler *)
(* past it acts for its sid, and any copy of it written back keeps it.     *)
JobSound(j) ==
  /\ j.pc \in {"authenticate", "open"} => consumed
  /\ j.pc = "open" => j.sid \in Sids
  /\ j.pc \in Exchanging \union {"existing"}
       \/ (j.pc \in Updating /\ j.then = "send")
     => attempt # None /\ j.sid = attempt.sid
  /\ j.pc \in Updating => attempt # None /\ j.then # "idle"
  /\ j.pc = "write" => j.copy \in Attempts /\ j.copy.sid = attempt.sid
  /\ j.pc \in Holding => j.result \in Results /\ issued[j.result] = j.sid
  /\ j.pc \in {"bridge", "lookup", "create"} => j.result \in jtis
  /\ j.pc \in Serving => j.sid \in Sids /\ session[j.sid] # None /\ ~j.good
  /\ j.pc \in {"touchWrite", "revokeWrite"} =>
       j.copy \in Sessions /\ j.copy.jti = session[j.sid].jti

JobsInv == /\ job \in [Handlers -> Jobs]
           /\ \A h \in Handlers : JobSound(job[h])
StoreInv ==
  /\ consumed \in BOOLEAN
  /\ attempt \in Attempts \union {None}
  /\ jtis \subseteq Results
  /\ session \in [Sids -> Sessions \union {None}]
  /\ issued \in [Results -> Sids \union {None}]
  /\ attempt # None => consumed
  /\ SessionBacked
RestInv ==
  /\ bridgeUsed \in BOOLEAN /\ loginExpired \in BOOLEAN
  /\ assertionExpired \in BOOLEAN /\ unverified \in BOOLEAN
  /\ overlapped \in BOOLEAN
  /\ crashes \in 0..MaxCrashes
(* The marker is created once, by the only handler that asks the provider. *)
AskedInv ==
  /\ asked \in {0, 1}
  /\ ~consumed => asked = 0
  /\ \A h \in Handlers : job[h].pc = "authenticate" => asked = 0
  /\ \A g, h \in Handlers :
       job[g].pc = "authenticate" /\ job[h].pc = "authenticate" => g = h

LoginInv == StoreInv /\ JobsInv /\ RestInv /\ AskedInv

(* One request at a time ...                                               *)
SerialInv == ~overlapped => \A g, h \in Handlers : Busy(g) /\ Busy(h) => g = h

(* ... and none dying: until the session is created nobody has one, and    *)
(* from then on its attempt is completed, or about to be.                  *)
NoSession == \A s \in Sids : session[s] = None
Completing(j) == j.pc \in Updating /\ j.patch = "completed"
EarlySound(j) ==
  /\ j.pc \in {"recover", "consume", "authenticate", "open"} => j.patch = None
  /\ j.pc \in {"consume", "authenticate", "open"} => attempt = None
  /\ j.pc \in Exchanging \/ (j.pc \in Updating /\ ~Completing(j)) => NoSession
  /\ j.pc \in Updating /\ j.then # "cookie" => ~Completing(j)
Completed == attempt # None /\ attempt.status = "completed"
Settled(j) == EarlySound(j) /\ (NoSession \/ Completed \/ Completing(j))
UnbrokenInv ==
  ~overlapped /\ crashes = 0 =>
    /\ \A h \in Handlers : EarlySound(job[h])
    /\ NoSession \/ Completed \/ \E h \in Handlers : Completing(job[h])

----------------------------------------------------------------------------
(* What no step takes back: the marker, the sid of the attempt, consumed   *)
(* results, the sid a result was issued for, and the result of a session.  *)
Grows ==
  /\ consumed => consumed'
  /\ attempt # None => attempt' # None /\ attempt'.sid = attempt.sid
  /\ jtis \subseteq jtis'
  /\ \A r \in Results : issued[r] # None => issued'[r] = issued[r]
  /\ \A s \in Sids : session[s] # None =>
       session'[s] # None /\ session'[s].jti = session[s].jti

(* A sound job stays sound while the stores grow.                          *)
LEMMA SoundStays ==
  ASSUME StoreInv, Grows, NEW j \in Jobs, JobSound(j)
  PROVE  JobSound(j)'
<1>1. attempt # None => attempt.sid \in Sids /\ attempt.sid # None
  BY NoneAssumption DEF StoreInv, Attempts
<1>2. j.pc \in Holding => j.result \in Results /\ issued'[j.result] = j.sid
  BY <1>1 DEF JobSound, Grows, Holding, Exchanging
<1>3. j.pc \in Serving => j.sid \in Sids /\ session'[j.sid] # None
                            /\ session'[j.sid].jti = session[j.sid].jti
  BY DEF JobSound, Grows
<1>4. j.pc \in {"touchWrite", "revokeWrite"} => j.pc \in Serving
  BY DEF Serving
<1>5. attempt # None => attempt' # None /\ attempt'.sid = attempt.sid
  BY DEF Grows
<1> QED
  BY <1>2, <1>3, <1>4, <1>5 DEF JobSound, Grows, Updating

(* A handler has a well-formed, sound job.                                 *)
LEMMA JobFacts ==
  ASSUME LoginInv, NEW h \in Handlers
  PROVE  job[h] \in Jobs /\ JobSound(job[h])
BY DEF LoginInv, JobsInv

(* A step that gives one handler a sound job, other than the one of asking *)
(* the provider, keeps the invariant if it keeps the stores sound.         *)
LEMMA OneJobStep ==
  ASSUME JobsInv, StoreInv, Grows, NEW h \in Handlers, NEW j \in Jobs, JobSound(j)',
         job' = [job EXCEPT ![h] = j]
  PROVE  JobsInv'
<1>1. job' \in [Handlers -> Jobs]
  BY DEF JobsInv
<1>2. ASSUME NEW g \in Handlers PROVE JobSound(job[g])'
  <2>1. CASE g = h
    <3>1. job'[g] = j
      BY <2>1 DEF JobsInv
    <3> QED
      BY <3>1 DEF JobSound
  <2>2. CASE g # h
    <3>1. PICK k \in Jobs : k = job[g] /\ JobSound(k)
      BY DEF JobsInv
    <3>2. job'[g] = k /\ JobSound(k)'
      BY <2>2, <3>1, SoundStays DEF JobsInv
    <3> QED
      BY <3>2 DEF JobSound
  <2> QED
    BY <2>1, <2>2
<1> QED
  BY <1>1, <1>2 DEF JobsInv

LEMMA Moves ==
  ASSUME LoginInv, StoreInv', Grows, RestInv', NEW h \in Handlers,
         NEW j \in Jobs, JobSound(j)', job' = [job EXCEPT ![h] = j],
         j.pc # "authenticate", UNCHANGED <<consumed, asked>>
  PROVE  LoginInv'
<1>1. JobsInv'
  BY OneJobStep DEF LoginInv
<1>2. \A g \in Handlers : job'[g] = IF g = h THEN j ELSE job[g]
  BY DEF LoginInv, JobsInv
<1>3. AskedInv'
  BY <1>2 DEF LoginInv, AskedInv
<1> QED
  BY <1>1, <1>3 DEF LoginInv

LEMMA StoreSame ==
  ASSUME LoginInv, UNCHANGED <<consumed, attempt, jtis, session, issued>>
  PROVE  StoreInv' /\ Grows
BY DEF LoginInv, StoreInv, Grows, SessionBacked

LEMMA RestSame ==
  ASSUME LoginInv, UNCHANGED <<bridgeUsed, limits, overlapped, crashes>>
  PROVE  RestInv'
BY DEF LoginInv, RestInv, limits

LEMMA IdleType == IdleJob \in Jobs /\ IdleJob.pc = "idle" /\ IdleJob.good = FALSE
                    /\ IdleJob.patch = None
BY DEF IdleJob, Jobs, Steps, Answers, Reasons

(* The ways a handler goes on: it answers, or it sets out to update the    *)
(* attempt.                                                                *)
LEMMA EndsStep ==
  ASSUME LoginInv, StoreInv', Grows, RestInv', UNCHANGED <<consumed, asked>>,
         NEW h \in Handlers, NEW a \in Answers, Ends(h, a)
  PROVE  LoginInv'
<1>1. EndAs(job[h], a) \in Jobs /\ EndAs(job[h], a).pc = "idle"
  BY JobFacts DEF EndAs, IdleJob, Jobs, Steps, Answers, Reasons
<1>2. PICK j \in Jobs : j = EndAs(job[h], a)
  BY <1>1
<1>3. j.pc = "idle"
  BY <1>1, <1>2
<1>4. JobSound(j)'
  BY <1>3 DEF JobSound, Exchanging, Holding, Serving, Updating
<1>5. job' = [job EXCEPT ![h] = j]
  BY <1>2 DEF Ends, LoginInv, JobsInv
<1> QED
  BY <1>3, <1>4, <1>5, Moves

LEMMA UpdatesStep ==
  ASSUME LoginInv, StoreInv', Grows, RestInv', UNCHANGED <<consumed, asked>>,
         NEW h \in Handlers, NEW patch \in Statuses \union {None},
         NEW reason \in Reasons,
         NEW then \in {"send", "cookie", "refused", "unavailable"},
         Updates(h, patch, reason, then),
         attempt' # None, then = "send" => job[h].sid = attempt'.sid
  PROVE  LoginInv'
<1>1. [job[h] EXCEPT !.pc = "read", !.patch = patch, !.reason = reason,
                     !.then = then] \in Jobs
  BY JobFacts DEF Jobs, Steps
<1>2. PICK j \in Jobs : j = [job[h] EXCEPT !.pc = "read", !.patch = patch,
                                           !.reason = reason, !.then = then]
  BY <1>1
<1>3. j.pc = "read" /\ j.then = then /\ j.sid = job[h].sid
  BY <1>2, JobFacts DEF Jobs
<1>4. JobSound(j)'
  BY <1>3 DEF JobSound, Exchanging, Holding, Serving, Updating
<1>5. job' = [job EXCEPT ![h] = j]
  BY <1>2 DEF Updates, LoginInv, JobsInv
<1> QED
  BY <1>3, <1>4, <1>5, Moves

LEMMA GoStep ==
  ASSUME LoginInv, StoreInv', Grows, RestInv', UNCHANGED <<consumed, asked>>,
         NEW h \in Handlers, NEW pc \in Steps \ {"authenticate", "open"}, Go(h, pc),
         pc \notin Updating \union {"touchWrite", "revokeWrite"},
         pc \in Exchanging \union {"existing"} =>
           attempt' # None /\ job[h].sid = attempt'.sid,
         pc \in Holding =>
           job[h].result \in Results /\ issued'[job[h].result] = job[h].sid,
         pc \in {"bridge", "lookup", "create"} => job[h].result \in jtis',
         pc \in Serving => job[h].pc \in Serving
  PROVE  LoginInv'
<1>1. PICK j \in Jobs : j = [job[h] EXCEPT !.pc = pc]
  BY JobFacts DEF Jobs
<1>2. /\ j.pc = pc /\ j.sid = job[h].sid /\ j.result = job[h].result
      /\ j.good = job[h].good
  BY <1>1, JobFacts DEF Jobs
<1>3. job[h].pc \in Serving => /\ job[h].sid \in Sids /\ ~job[h].good
                               /\ session'[job[h].sid] # None
  BY JobFacts DEF JobSound, Grows
<1>4. JobSound(j)'
  BY <1>2, <1>3 DEF JobSound, Updating
<1>5. job' = [job EXCEPT ![h] = j]
  BY <1>1 DEF Go, LoginInv, JobsInv
<1> QED
  BY <1>2, <1>4, <1>5, Moves

----------------------------------------------------------------------------
(* The completion request, up to the exchange.                             *)
LEMMA ReadAttemptKeeps ==
  ASSUME LoginInv, NEW h \in Handlers, ReadAttempt(h)
  PROVE  LoginInv'
<1>1. job[h] \in Jobs /\ JobSound(job[h]) /\ job[h].pc = "read"
  BY JobFacts DEF ReadAttempt
<1>2. StoreInv' /\ Grows /\ RestInv'
  BY StoreSame, RestSame DEF ReadAttempt
<1>3. attempt \in Attempts
  BY <1>1 DEF JobSound, Updating, LoginInv, StoreInv
<1>4. PICK j \in Jobs : j = [job[h] EXCEPT !.pc = "write", !.copy = attempt]
  BY <1>1, <1>3 DEF Jobs, Steps
<1>5. /\ j.pc = "write" /\ j.copy = attempt /\ j.then = job[h].then
      /\ j.sid = job[h].sid
  BY <1>1, <1>4 DEF Jobs
<1>6. JobSound(j)'
  BY <1>1, <1>3, <1>5 DEF JobSound, Exchanging, Holding, Serving, Updating,
     ReadAttempt
<1>7. job' = [job EXCEPT ![h] = j]
  BY <1>4 DEF ReadAttempt, LoginInv, JobsInv
<1> QED
  BY <1>2, <1>5, <1>6, <1>7, Moves DEF ReadAttempt

LEMMA WriteAttemptKeeps ==
  ASSUME LoginInv, NEW h \in Handlers, WriteAttempt(h)
  PROVE  LoginInv'
<1>1. job[h] \in Jobs /\ JobSound(job[h]) /\ job[h].pc = "write"
  BY JobFacts DEF WriteAttempt
<1>2. /\ attempt # None /\ job[h].then # "idle"
      /\ job[h].copy \in Attempts /\ job[h].copy.sid = attempt.sid
      /\ job[h].then = "send" => job[h].sid = attempt.sid
  BY <1>1 DEF JobSound, Updating
<1>3. attempt' \in Attempts /\ attempt'.sid = attempt.sid
  BY <1>1, <1>2 DEF WriteAttempt, Attempts, Jobs, Reasons
<1>4. attempt' # None
  BY <1>3, NoneAssumption
<1>5. StoreInv' /\ Grows
  BY <1>2, <1>3, <1>4 DEF WriteAttempt, LoginInv, StoreInv, Grows, SessionBacked
<1>6. RestInv'
  BY RestSame DEF WriteAttempt
<1>7. CASE job[h].then = "send"
  <2>1. PICK j \in Jobs : j = [job[h] EXCEPT !.pc = "send", !.copy = None,
                                             !.patch = None, !.then = "idle"]
    BY <1>1 DEF Jobs, Steps
  <2>2. j.pc = "send" /\ j.sid = job[h].sid
    BY <1>1, <2>1 DEF Jobs
  <2>3. JobSound(j)'
    BY <1>2, <1>3, <1>4, <1>7, <2>2 DEF JobSound, Exchanging, Holding, Serving,
     Updating
  <2>4. job' = [job EXCEPT ![h] = j]
    BY <1>7, <2>1 DEF WriteAttempt, LoginInv, JobsInv
  <2> QED
    BY <1>5, <1>6, <2>2, <2>3, <2>4, Moves DEF WriteAttempt
<1>8. CASE job[h].then # "send"
  <2>1. job[h].then \in Answers
    BY <1>1, <1>2, <1>8 DEF Jobs, Answers
  <2> QED
    BY <1>5, <1>6, <1>8, <2>1, EndsStep DEF WriteAttempt
<1> QED
  BY <1>7, <1>8

LEMMA CallKeeps ==
  ASSUME LoginInv, NEW h \in Handlers, Call(h)
  PROVE  LoginInv'
<1>1. StoreInv' /\ Grows
  BY StoreSame DEF Call, Complete, Use, Revoke
<1>2. RestInv' /\ UNCHANGED <<consumed, asked>>
  BY DEF Call, Complete, Use, Revoke, MayCall, Busy, limits, LoginInv, RestInv
<1>3. ASSUME NEW good \in BOOLEAN, Complete(h, good) PROVE LoginInv'
  <2>1. PICK j \in Jobs : j = [IdleJob EXCEPT !.pc = "recover", !.good = good]
    BY DEF IdleJob, Jobs, Steps, Answers, Reasons
  <2>2. j.pc = "recover"
    BY <2>1 DEF IdleJob
  <2>3. JobSound(j)'
    BY <2>2 DEF JobSound, Exchanging, Holding, Serving, Updating
  <2>4. job' = [job EXCEPT ![h] = j]
    BY <1>3, <2>1 DEF Complete
  <2> QED
    BY <1>1, <1>2, <2>2, <2>3, <2>4, Moves
<1>4. ASSUME NEW s \in Sids, Use(h, s) PROVE LoginInv'
  <2>1. PICK j \in Jobs : j = [IdleJob EXCEPT !.pc = "auth", !.sid = s]
    BY IdleType DEF Jobs, Steps
  <2>2. j.pc = "auth" /\ j.sid = s /\ j.good = FALSE
    BY <2>1 DEF IdleJob
  <2>3. JobSound(j)'
    BY <1>4, <2>2 DEF JobSound, Exchanging, Holding, Serving, Updating, Use
  <2>4. job' = [job EXCEPT ![h] = j]
    BY <1>4, <2>1 DEF Use
  <2> QED
    BY <1>1, <1>2, <2>2, <2>3, <2>4, Moves
<1>5. ASSUME NEW s \in Sids, Revoke(h, s) PROVE LoginInv'
  <2>1. session[s] \in Sessions /\ session[s] # None
    BY <1>5 DEF Revoke, Active, LoginInv, StoreInv
  <2>2. PICK j \in Jobs : j = [IdleJob EXCEPT !.pc = "revokeWrite", !.sid = s,
                                              !.copy = session[s]]
    BY <2>1, IdleType DEF Jobs, Steps
  <2>3. j.pc = "revokeWrite" /\ j.sid = s /\ j.good = FALSE /\ j.copy = session[s]
    BY <2>2 DEF IdleJob
  <2>4. JobSound(j)'
    BY <1>5, <2>1, <2>3 DEF JobSound, Exchanging, Holding, Serving, Updating, Revoke
  <2>5. job' = [job EXCEPT ![h] = j]
    BY <1>5, <2>2 DEF Revoke
  <2> QED
    BY <1>1, <1>2, <2>3, <2>4, <2>5, Moves
<1> QED
  BY <1>3, <1>4, <1>5 DEF Call

LEMMA RecoverKeeps ==
  ASSUME LoginInv, NEW h \in Handlers, Recover(h)
  PROVE  LoginInv'
<1>1. StoreInv' /\ Grows /\ RestInv' /\ UNCHANGED <<consumed, asked, attempt>>
  BY StoreSame, RestSame DEF Recover
<1>2. job[h] \in Jobs
  BY JobFacts
<1>3. CASE attempt = None
  <2>1. Go(h, "consume")
    BY <1>3 DEF Recover
  <2> QED
    BY <1>1, <2>1, GoStep DEF Steps, Exchanging, Holding, Serving, Updating
<1>4. CASE Ends(h, "refused")
  BY <1>1, <1>4, EndsStep DEF Answers
<1>5. CASE attempt # None /\ Updates(h, "failed", "expired", "refused")
  BY <1>1, <1>5, UpdatesStep DEF Statuses, Reasons
<1>6. CASE /\ attempt # None
           /\ \/ job' = [job EXCEPT ![h].sid = attempt.sid, ![h].pc = "existing"]
              \/ job' = [job EXCEPT ![h].sid = attempt.sid, ![h].pc = "read",
                                    ![h].then = "send"]
  <2>1. attempt.sid \in Sids
    BY <1>6 DEF LoginInv, StoreInv, Attempts
  <2>2. /\ [job[h] EXCEPT !.sid = attempt.sid, !.pc = "existing"] \in Jobs
        /\ [job[h] EXCEPT !.sid = attempt.sid, !.pc = "read",
                                  !.then = "send"] \in Jobs
    BY <1>2, <2>1 DEF Jobs, Steps
  <2>3. PICK j \in Jobs :
          /\ job' = [job EXCEPT ![h] = j]
          /\ \/ j = [job[h] EXCEPT !.sid = attempt.sid, !.pc = "existing"]
             \/ j = [job[h] EXCEPT !.sid = attempt.sid, !.pc = "read",
                                   !.then = "send"]
    BY <1>6, <2>2 DEF LoginInv, JobsInv
  <2>4. j.sid = attempt.sid /\ (j.pc = "existing" \/ (j.pc = "read" /\ j.then = "send"))
    BY <1>2, <2>3 DEF Jobs
  <2>5. JobSound(j)'
    BY <1>1, <1>6, <2>4 DEF JobSound, Exchanging, Holding, Serving, Updating
  <2> QED
    BY <1>1, <2>3, <2>4, <2>5, Moves
<1> QED
  BY <1>3, <1>4, <1>5, <1>6 DEF Recover, Attempts, Statuses, LoginInv, StoreInv

LEMMA ReturnExistingKeeps ==
  ASSUME LoginInv, NEW h \in Handlers, ReturnExisting(h)
  PROVE  LoginInv'
<1>1. StoreInv' /\ Grows /\ RestInv' /\ UNCHANGED <<consumed, asked>>
  BY StoreSame, RestSame DEF ReturnExisting
<1>2. Ends(h, "cookie") \/ Ends(h, "refused")
  BY DEF ReturnExisting
<1> QED
  BY <1>1, <1>2, EndsStep DEF Answers

(* The marker is set by one handler, the only one to ask the provider.     *)
LEMMA ConsumeLoginKeeps ==
  ASSUME LoginInv, NEW h \in Handlers, ConsumeLogin(h)
  PROVE  LoginInv'
<1>1. RestInv' /\ job[h] \in Jobs
  BY RestSame, JobFacts DEF ConsumeLogin
<1>2. CASE MayConsume(h)
  <2>1. consumed' = TRUE /\ ~consumed /\ Go(h, "authenticate")
    BY <1>2 DEF ConsumeLogin, MayConsume
  <2>2. StoreInv' /\ Grows
    BY <2>1 DEF ConsumeLogin, LoginInv, StoreInv, Grows, SessionBacked
  <2>3. PICK j \in Jobs : j = [job[h] EXCEPT !.pc = "authenticate"]
    BY <1>1 DEF Jobs, Steps
  <2>4. j.pc = "authenticate"
    BY <1>1, <2>3 DEF Jobs
  <2>5. JobSound(j)'
    BY <2>1, <2>4 DEF JobSound, Exchanging, Holding, Serving, Updating
  <2>6. job' = [job EXCEPT ![h] = j]
    BY <2>1, <2>3 DEF Go, LoginInv, JobsInv
  <2>7. JobsInv'
    BY <2>2, <2>5, <2>6, OneJobStep DEF LoginInv
  <2>8. AskedInv'
    <3>1. \A g \in Handlers : job[g].pc # "authenticate"
      BY <2>1 DEF LoginInv, JobsInv, JobSound
    <3>2. asked = 0 /\ asked' = asked
      BY <2>1 DEF LoginInv, AskedInv, ConsumeLogin
    <3>3. \A g \in Handlers : g # h => job'[g] = job[g]
      BY <2>6 DEF LoginInv, JobsInv
    <3> QED
      BY <2>1, <3>1, <3>2, <3>3 DEF AskedInv
  <2> QED
    BY <1>1, <2>2, <2>7, <2>8 DEF LoginInv
<1>3. CASE ~MayConsume(h)
  <2>1. Ends(h, "refused") /\ UNCHANGED <<consumed, asked>>
    BY <1>3 DEF ConsumeLogin
  <2>2. StoreInv' /\ Grows
    BY <2>1, StoreSame DEF ConsumeLogin
  <2> QED
    BY <1>1, <2>1, <2>2, EndsStep DEF Answers
<1> QED
  BY <1>2, <1>3

LEMMA AuthenticateKeeps ==
  ASSUME LoginInv, NEW h \in Handlers, Authenticate(h)
  PROVE  LoginInv'
<1>1. StoreInv' /\ Grows /\ RestInv' /\ UNCHANGED consumed
  BY StoreSame, RestSame DEF Authenticate
<1>2. job[h] \in Jobs /\ job[h].pc = "authenticate" /\ consumed
  BY JobFacts DEF Authenticate, JobSound
<1>3. asked = 0 /\ asked' = 1
  BY <1>2 DEF Authenticate, LoginInv, AskedInv
<1>4. \E j \in Jobs : /\ job' = [job EXCEPT ![h] = j]
                      /\ j.pc = "idle" \/ (j.pc = "open" /\ j.sid \in Sids)
  <2>1. CASE Ends(h, "refused")
    <3>1. EndAs(job[h], "refused") \in Jobs /\ EndAs(job[h], "refused").pc = "idle"
      BY <1>2 DEF EndAs, IdleJob, Jobs, Steps, Answers, Reasons
    <3> QED
      BY <2>1, <3>1 DEF Ends, LoginInv, JobsInv
  <2>2. CASE \E s \in Sids : job' = [job EXCEPT ![h].pc = "open", ![h].sid = s]
    <3>1. PICK s \in Sids : job' = [job EXCEPT ![h].pc = "open", ![h].sid = s]
      BY <2>2
    <3> DEFINE k == [job[h] EXCEPT !.pc = "open", !.sid = s]
    <3>2. k \in Jobs /\ k.pc = "open" /\ k.sid = s
      BY <1>2 DEF Jobs, Steps
    <3>3. job' = [job EXCEPT ![h] = k]
      BY <3>1 DEF LoginInv, JobsInv
    <3> QED
      BY <3>2, <3>3
  <2> QED
    BY <2>1, <2>2 DEF Authenticate
<1>5. PICK j \in Jobs : /\ job' = [job EXCEPT ![h] = j]
                        /\ j.pc = "idle" \/ (j.pc = "open" /\ j.sid \in Sids)
  BY <1>4
<1>6. JobSound(j)'
  BY <1>1, <1>2, <1>5 DEF JobSound, Exchanging, Holding, Serving, Updating
<1>7. JobsInv'
  BY <1>1, <1>5, <1>6, OneJobStep DEF LoginInv
<1>8. \A g \in Handlers : job'[g].pc # "authenticate"
  BY <1>2, <1>5 DEF LoginInv, JobsInv, AskedInv
<1>9. AskedInv'
  BY <1>1, <1>2, <1>3, <1>8 DEF AskedInv
<1> QED
  BY <1>1, <1>7, <1>9 DEF LoginInv

LEMMA OpenAttemptKeeps ==
  ASSUME LoginInv, NEW h \in Handlers, OpenAttempt(h)
  PROVE  LoginInv'
<1>1. job[h] \in Jobs /\ consumed /\ job[h].sid \in Sids
  BY JobFacts DEF OpenAttempt, JobSound
<1>2. RestInv' /\ UNCHANGED <<consumed, asked>>
  BY RestSame DEF OpenAttempt
<1>3. CASE attempt = None
  <2>1. /\ attempt' = [status |-> "sent", reason |-> None, sid |-> job[h].sid]
        /\ Updates(h, None, None, "send")
    BY <1>3 DEF OpenAttempt
  <2>2. attempt' \in Attempts /\ attempt' # None /\ attempt'.sid = job[h].sid
    BY <1>1, <2>1, NoneAssumption DEF Attempts, Statuses, Reasons
  <2>3. StoreInv' /\ Grows
    BY <1>1, <1>3, <2>2 DEF OpenAttempt, LoginInv, StoreInv, Grows, SessionBacked
  <2> QED
    BY <1>2, <2>1, <2>2, <2>3, UpdatesStep DEF Reasons
<1>4. CASE attempt # None
  <2>1. Go(h, "recover") /\ attempt' = attempt
    BY <1>4 DEF OpenAttempt
  <2>2. StoreInv' /\ Grows
    BY <2>1, StoreSame DEF OpenAttempt
  <2> QED
    BY <1>2, <2>1, <2>2, GoStep DEF Steps, Exchanging, Holding, Serving, Updating
<1> QED
  BY <1>3, <1>4

----------------------------------------------------------------------------
(* The exchange and the session.                                           *)
LEMMA ExchangeAnsweredKeeps ==
  ASSUME LoginInv, NEW h \in Handlers, NEW r \in Results, NEW valid \in BOOLEAN,
         ExchangeAnswered(h, r, valid)
  PROVE  LoginInv'
<1>1. job[h] \in Jobs /\ attempt # None /\ job[h].sid = attempt.sid
  BY JobFacts DEF ExchangeAnswered, JobSound, Exchanging
<1>2. job[h].sid \in Sids
  BY <1>1 DEF LoginInv, StoreInv, Attempts
<1>3. /\ issued' \in [Results -> Sids \union {None}] /\ issued'[r] = job[h].sid
      /\ \A q \in Results : issued[q] # None => issued'[q] = issued[q]
  BY <1>2 DEF ExchangeAnswered, LoginInv, StoreInv
<1>4. StoreInv' /\ Grows
  <2>1. \A s \in Sids : session[s] # None => session[s].jti \in Results /\ s # None
    BY NoneAssumption DEF LoginInv, StoreInv, Sessions
  <2>2. SessionBacked'
    BY <1>3, <2>1 DEF ExchangeAnswered, LoginInv, StoreInv, SessionBacked
  <2> QED
    BY <1>3, <2>2 DEF ExchangeAnswered, LoginInv, StoreInv, Grows
<1>5. RestInv' /\ UNCHANGED <<consumed, asked, attempt>>
  BY RestSame DEF ExchangeAnswered
<1>6. PICK j \in Jobs : j = [job[h] EXCEPT !.pc = "verify", !.result = r,
     !.valid = valid]
  BY <1>1 DEF Jobs, Steps
<1>7. j.pc = "verify" /\ j.result = r /\ j.sid = job[h].sid
  BY <1>1, <1>6 DEF Jobs
<1>8. JobSound(j)'
  BY <1>1, <1>3, <1>5, <1>7 DEF JobSound, Exchanging, Holding, Serving, Updating
<1>9. job' = [job EXCEPT ![h] = j]
  BY <1>6 DEF ExchangeAnswered, LoginInv, JobsInv
<1> QED
  BY <1>4, <1>5, <1>7, <1>8, <1>9, Moves

LEMMA ExchangeLostKeeps ==
  ASSUME LoginInv, NEW h \in Handlers, ExchangeLost(h)
  PROVE  LoginInv'
<1>1. job[h] \in Jobs /\ attempt # None /\ job[h].sid = attempt.sid
  BY JobFacts DEF ExchangeLost, JobSound, Exchanging
<1>2. job[h].sid \in Sids
  BY <1>1 DEF LoginInv, StoreInv, Attempts
<1>3. /\ issued' \in [Results -> Sids \union {None}]
      /\ \A q \in Results : issued[q] # None => issued'[q] = issued[q]
  BY <1>2 DEF ExchangeLost, LoginInv, StoreInv
<1>4. StoreInv' /\ Grows
  <2>1. \A s \in Sids : session[s] # None => session[s].jti \in Results /\ s # None
    BY NoneAssumption DEF LoginInv, StoreInv, Sessions
  <2>2. SessionBacked'
    BY <1>3, <2>1 DEF ExchangeLost, LoginInv, StoreInv, SessionBacked
  <2> QED
    BY <1>3, <2>2 DEF ExchangeLost, LoginInv, StoreInv, Grows
<1>5. RestInv' /\ UNCHANGED <<consumed, asked>> /\ Ends(h, "recoverable")
  BY RestSame DEF ExchangeLost
<1> QED
  BY <1>4, <1>5, EndsStep DEF Answers

LEMMA ExchangeFailsKeeps ==
  ASSUME LoginInv, NEW h \in Handlers, ExchangeFails(h)
  PROVE  LoginInv'
<1>1. attempt # None
  BY JobFacts DEF ExchangeFails, JobSound, Exchanging
<1>2. StoreInv' /\ Grows /\ RestInv' /\ UNCHANGED <<consumed, asked, attempt>>
  BY StoreSame, RestSame DEF ExchangeFails
<1> QED
  BY <1>1, <1>2, UpdatesStep DEF ExchangeFails, Statuses, Reasons

LEMMA VerifyKeeps ==
  ASSUME LoginInv, NEW h \in Handlers, Verify(h)
  PROVE  LoginInv'
<1>1. /\ job[h] \in Jobs /\ attempt # None /\ job[h].sid = attempt.sid
      /\ job[h].result \in Results /\ issued[job[h].result] = job[h].sid
  BY JobFacts DEF Verify, JobSound, Exchanging, Holding
<1>2. RestInv' /\ UNCHANGED <<consumed, asked, attempt, issued>>
  BY RestSame DEF Verify
<1>3. StoreInv' /\ Grows
  BY <1>1 DEF Verify, LoginInv, StoreInv, Grows, SessionBacked
<1>4. CASE Updates(h, "failed", "invalid", "refused")
  BY <1>1, <1>2, <1>3, <1>4, UpdatesStep DEF Statuses, Reasons
<1>5. CASE Go(h, "replayed")
  BY <1>1, <1>2, <1>3, <1>5, GoStep DEF Steps, Exchanging, Holding, Serving,
     Updating
<1>6. CASE Go(h, "bridge") /\ jtis' = jtis \union {job[h].result}
  BY <1>1, <1>2, <1>3, <1>6, GoStep DEF Steps, Exchanging, Holding, Serving,
     Updating
<1> QED
  BY <1>4, <1>5, <1>6 DEF Verify

LEMMA VerifyUnavailableKeeps ==
  ASSUME LoginInv, NEW h \in Handlers, VerifyUnavailable(h)
  PROVE  LoginInv'
<1>1. StoreInv' /\ Grows /\ UNCHANGED <<consumed, asked>>
  BY StoreSame DEF VerifyUnavailable
<1>2. RestInv'
  BY DEF VerifyUnavailable, LoginInv, RestInv
<1> QED
  BY <1>1, <1>2, EndsStep DEF VerifyUnavailable, Answers

LEMMA ReplayedKeeps ==
  ASSUME LoginInv, NEW h \in Handlers, Replayed(h)
  PROVE  LoginInv'
<1>1. attempt # None
  BY JobFacts DEF Replayed, JobSound, Exchanging
<1>2. StoreInv' /\ Grows /\ RestInv' /\ UNCHANGED <<consumed, asked, attempt>>
  BY StoreSame, RestSame DEF Replayed
<1> QED
  BY <1>1, <1>2, UpdatesStep DEF Replayed, Statuses, Reasons

LEMMA RecordBridgeKeeps ==
  ASSUME LoginInv, NEW h \in Handlers, RecordBridge(h)
  PROVE  LoginInv'
<1>1. /\ attempt # None /\ job[h].sid = attempt.sid
      /\ job[h].result \in Results /\ issued[job[h].result] = job[h].sid
      /\ job[h].result \in jtis
  BY JobFacts DEF RecordBridge, JobSound, Exchanging, Holding
<1>2. /\ StoreInv' /\ Grows
      /\ UNCHANGED <<consumed, asked, attempt, issued, jtis>>
      /\ Go(h, "lookup")
  BY StoreSame DEF RecordBridge
<1>3. RestInv'
  BY DEF RecordBridge, LoginInv, RestInv, limits
<1> QED
  BY <1>1, <1>2, <1>3, GoStep DEF Steps, Exchanging, Holding, Serving, Updating

LEMMA LookupSessionKeeps ==
  ASSUME LoginInv, NEW h \in Handlers, LookupSession(h)
  PROVE  LoginInv'
<1>1. /\ attempt # None /\ job[h].sid = attempt.sid
      /\ job[h].result \in Results /\ issued[job[h].result] = job[h].sid
      /\ job[h].result \in jtis
  BY JobFacts DEF LookupSession, JobSound, Exchanging, Holding
<1>2. StoreInv' /\ Grows /\ RestInv' /\ UNCHANGED <<consumed, asked, attempt,
     issued, jtis>>
  BY StoreSame, RestSame DEF LookupSession
<1>3. CASE Updates(h, "completed", None, "cookie")
  BY <1>1, <1>2, <1>3, UpdatesStep DEF Statuses, Reasons
<1>4. CASE Go(h, "create")
  BY <1>1, <1>2, <1>4, GoStep DEF Steps, Exchanging, Holding, Serving, Updating
<1> QED
  BY <1>3, <1>4 DEF LookupSession

LEMMA CreateSessionKeeps ==
  ASSUME LoginInv, NEW h \in Handlers, CreateSession(h)
  PROVE  LoginInv'
<1>1. /\ attempt # None /\ job[h].sid = attempt.sid
      /\ job[h].result \in Results /\ issued[job[h].result] = job[h].sid
      /\ job[h].result \in jtis
  BY JobFacts DEF CreateSession, JobSound, Exchanging, Holding
<1>2. job[h].sid \in Sids /\ consumed
  BY <1>1 DEF LoginInv, StoreInv, Attempts
<1>3. RestInv' /\ UNCHANGED <<consumed, asked, attempt, issued, jtis>>
  BY RestSame DEF CreateSession
<1>4. CASE session[job[h].sid] = None
  <2> DEFINE s0 == job[h].sid
             new == [jti |-> job[h].result, revoked |-> FALSE]
  <2>1. session' = [session EXCEPT ![s0] = new] /\ Updates(h, "completed",
     None, "cookie")
    BY <1>4 DEF CreateSession
  <2>2. new \in Sessions /\ new.jti = job[h].result
    BY <1>1 DEF Sessions
  <2>3. \A s \in Sids : session'[s] = IF s = s0 THEN new ELSE session[s]
    BY <1>2, <2>1 DEF LoginInv, StoreInv
  <2>4. session' \in [Sids -> Sessions \union {None}]
    BY <1>2, <2>1, <2>2 DEF LoginInv, StoreInv
  <2>5. SessionBacked'
    BY <1>1, <1>2, <1>3, <2>2, <2>3 DEF LoginInv, StoreInv, SessionBacked
  <2>6. StoreInv' /\ Grows
    BY <1>3, <1>4, <2>3, <2>4, <2>5 DEF LoginInv, StoreInv, Grows
  <2> QED
    BY <1>1, <1>3, <2>1, <2>6, UpdatesStep DEF Statuses, Reasons
<1>5. CASE session[job[h].sid] # None
  <2>1. session' = session /\ Ends(h, "unavailable")
    BY <1>5 DEF CreateSession
  <2>2. StoreInv' /\ Grows
    BY <1>3, <2>1, StoreSame
  <2> QED
    BY <1>3, <2>1, <2>2, EndsStep DEF Answers
<1> QED
  BY <1>4, <1>5

----------------------------------------------------------------------------
(* Requests made with the cookie, and revocation.                          *)
LEMMA GetAuthContextKeeps ==
  ASSUME LoginInv, NEW h \in Handlers, GetAuthContext(h)
  PROVE  LoginInv'
<1>1. job[h].pc = "auth"
  BY DEF GetAuthContext
<1>2. StoreInv' /\ Grows /\ RestInv' /\ UNCHANGED <<consumed, asked>>
  BY StoreSame, RestSame DEF GetAuthContext
<1>3. CASE Go(h, "touch")
  BY <1>1, <1>2, <1>3, GoStep DEF Steps, Exchanging, Holding, Serving, Updating
<1>4. CASE Ends(h, "refused")
  BY <1>2, <1>4, EndsStep DEF Answers
<1> QED
  BY <1>3, <1>4 DEF GetAuthContext

LEMMA TouchReadKeeps ==
  ASSUME LoginInv, NEW h \in Handlers, TouchRead(h)
  PROVE  LoginInv'
<1>1. /\ job[h] \in Jobs /\ job[h].sid \in Sids /\ ~job[h].good
      /\ session[job[h].sid] # None
  BY JobFacts DEF TouchRead, JobSound, Serving
<1>2. session[job[h].sid] \in Sessions
  BY <1>1 DEF LoginInv, StoreInv
<1>3. StoreInv' /\ Grows /\ RestInv' /\ UNCHANGED <<consumed, asked, session>>
  BY StoreSame, RestSame DEF TouchRead
<1>4. CASE Active(job[h].sid)
  <2>1. PICK j \in Jobs : j = [job[h] EXCEPT !.pc = "touchWrite",
                                             !.copy = session[job[h].sid]]
    BY <1>1, <1>2 DEF Jobs, Steps
  <2>2. /\ j.pc = "touchWrite" /\ j.sid = job[h].sid /\ j.good = job[h].good
        /\ j.copy = session[job[h].sid]
    BY <1>1, <2>1 DEF Jobs
  <2>3. JobSound(j)'
    BY <1>1, <1>2, <1>3, <2>2 DEF JobSound, Exchanging, Holding, Serving, Updating
  <2>4. job' = [job EXCEPT ![h] = j]
    BY <1>4, <2>1 DEF TouchRead, LoginInv, JobsInv
  <2> QED
    BY <1>3, <2>2, <2>3, <2>4, Moves
<1>5. CASE ~Active(job[h].sid)
  <2>1. Ends(h, "done")
    BY <1>5 DEF TouchRead
  <2> QED
    BY <1>3, <2>1, EndsStep DEF Answers
<1> QED
  BY <1>4, <1>5

(* A session written back keeps its result.                                *)
LEMMA WriteBackKeeps ==
  ASSUME LoginInv, NEW h \in Handlers, TouchWrite(h) \/ RevokeWrite(h)
  PROVE  LoginInv'
<1> DEFINE s0 == job[h].sid
<1>1. /\ s0 \in Sids /\ session[s0] # None
      /\ job[h].copy \in Sessions /\ job[h].copy.jti = session[s0].jti
  BY JobFacts DEF TouchWrite, RevokeWrite, JobSound, Serving
<1>2. PICK new \in Sessions : session' = [session EXCEPT ![s0] = new]
                                /\ new.jti = session[s0].jti
  <2>1. [job[h].copy EXCEPT !.revoked = TRUE] \in Sessions
    BY <1>1 DEF Sessions
  <2>2. [job[h].copy EXCEPT !.revoked = TRUE].jti = session[s0].jti
    BY <1>1 DEF Sessions
  <2> QED
    BY <1>1, <2>1, <2>2 DEF TouchWrite, RevokeWrite
<1>3. \A s \in Sids : session'[s] = IF s = s0 THEN new ELSE session[s]
  BY <1>1, <1>2 DEF LoginInv, StoreInv
<1>4. session' \in [Sids -> Sessions \union {None}] /\ new # None
  BY <1>1, <1>2, NoneAssumption DEF LoginInv, StoreInv
<1>5. /\ UNCHANGED <<consumed, attempt, jtis, issued, asked>>
      /\ UNCHANGED <<bridgeUsed, limits, overlapped, crashes>>
      /\ Ends(h, "done")
  BY DEF TouchWrite, RevokeWrite
<1>6. StoreInv' /\ Grows
  BY <1>1, <1>2, <1>3, <1>4, <1>5 DEF LoginInv, StoreInv, Grows, SessionBacked
<1>7. RestInv'
  BY <1>5, RestSame
<1> QED
  BY <1>5, <1>6, <1>7, EndsStep DEF Answers

LEMMA WorldKeeps ==
  ASSUME LoginInv,
         (\E h \in Handlers : Crash(h)) \/ LoginExpires \/ AssertionExpires
           \/ UNCHANGED vars
  PROVE  LoginInv'
<1>1. /\ StoreInv' /\ Grows
      /\ UNCHANGED <<consumed, asked, attempt, jtis, session, issued>>
  BY StoreSame DEF Crash, LoginExpires, AssertionExpires, vars
<1>2. RestInv'
  <2>1. crashes' \in 0..MaxCrashes
    BY CrashAssumption DEF Crash, LoginExpires, AssertionExpires, vars,
       LoginInv, RestInv
  <2> QED
    BY <2>1, Zenon DEF Crash, LoginExpires, AssertionExpires, vars, limits,
       LoginInv, RestInv
<1>3. ASSUME NEW h \in Handlers, Crash(h) PROVE LoginInv'
  <2>1. PICK j \in Jobs : j = IdleJob
    BY IdleType
  <2>2. j.pc = "idle"
    BY <2>1, IdleType
  <2>3. JobSound(j)'
    BY <2>2 DEF JobSound, Exchanging, Holding, Serving, Updating
  <2> QED
    BY <1>1, <1>2, <1>3, <2>1, <2>2, <2>3, Moves DEF Crash
<1>4. ASSUME UNCHANGED job PROVE LoginInv'
  BY <1>1, <1>2, <1>4 DEF LoginInv, JobsInv, JobSound, AskedInv
<1> QED
  BY <1>3, <1>4 DEF LoginExpires, AssertionExpires, vars

LEMMA StepKeeps ==
  ASSUME LoginInv, NEW h \in Handlers, Step(h)
  PROVE  LoginInv'
BY ReadAttemptKeeps, WriteAttemptKeeps, RecoverKeeps, ReturnExistingKeeps,
   ConsumeLoginKeeps, AuthenticateKeeps, OpenAttemptKeeps, ExchangeAnsweredKeeps,
   ExchangeLostKeeps, ExchangeFailsKeeps, VerifyKeeps, VerifyUnavailableKeeps,
   ReplayedKeeps,
   RecordBridgeKeeps, LookupSessionKeeps, CreateSessionKeeps, GetAuthContextKeeps,
   TouchReadKeeps, WriteBackKeeps DEF Step

----------------------------------------------------------------------------
(* The invariant, for every number of requests, session ids and results.   *)
LEMMA Initially == Init => LoginInv
<1> SUFFICES ASSUME Init PROVE LoginInv
  OBVIOUS
<1>1. JobSound(IdleJob) /\ IdleJob \in Jobs
  BY IdleType DEF JobSound, Exchanging, Holding, Serving, Updating
<1>2. JobsInv
  BY <1>1 DEF Init, JobsInv
<1>3. StoreInv
  BY DEF Init, StoreInv, SessionBacked
<1>4. RestInv
  <2>1. crashes \in 0..MaxCrashes
    BY CrashAssumption DEF Init
  <2> QED
    BY <2>1 DEF Init, RestInv
<1>5. AskedInv
  BY IdleType DEF Init, AskedInv
<1> QED
  BY <1>2, <1>3, <1>4, <1>5 DEF LoginInv

LEMMA Inductive == LoginInv /\ [Next]_vars => LoginInv'
BY CallKeeps, StepKeeps, WorldKeeps DEF Next

THEOREM Invariance == Spec => []LoginInv
BY Initially, Inductive, PTL DEF Spec

(* Every variable keeps its type.                                          *)
THEOREM Typing == Spec => []TypeOK
<1>1. LoginInv => TypeOK
  BY DEF LoginInv, StoreInv, JobsInv, RestInv, AskedInv, TypeOK
<1> QED
  BY <1>1, Invariance, PTL

(* A session has a consumed login, its attempt and its consumed result     *)
(* behind it, however requests race and die (connected-login.ts:13-20).    *)
THEOREM SessionIsBacked == Spec => []SessionBacked
<1>1. LoginInv => SessionBacked
  BY DEF LoginInv, StoreInv
<1> QED
  BY <1>1, Invariance, PTL

(* One session per login: every session is the one of the attempt's sid.   *)
THEOREM OneSession == Spec => []AtMostOneSession
<1>1. LoginInv => AtMostOneSession
  <2> SUFFICES ASSUME LoginInv PROVE AtMostOneSession
    OBVIOUS
  <2> DEFINE open == {s \in Sids : session[s] # None}
  <2>1. open \in SUBSET {attempt.sid}
    BY DEF LoginInv, StoreInv, SessionBacked
  <2>2. IsFiniteSet({attempt.sid}) /\ Cardinality({attempt.sid}) = 1
    BY FS_Singleton
  <2>3. Cardinality(open) <= 1
    BY <2>1, <2>2, FS_Subset
  <2> QED
    BY <2>3 DEF AtMostOneSession
<1> QED
  BY <1>1, Invariance, PTL

(* The provider is asked once: by the handler that set the marker.         *)
THEOREM ProviderIsAskedOnce == Spec => []ProviderAskedOnce
<1>1. LoginInv => ProviderAskedOnce
  BY DEF LoginInv, AskedInv, ProviderAskedOnce
<1> QED
  BY <1>1, Invariance, PTL

----------------------------------------------------------------------------
(* One request at a time.                                                  *)

(* What the three ways of going on leave in the handler.                   *)
LEMMA EndsAt ==
  ASSUME LoginInv, NEW h \in Handlers, NEW a, Ends(h, a)
  PROVE  job'[h] = EndAs(job[h], a) /\ job'[h].pc = "idle" /\ job'[h].answer = a
BY DEF Ends, EndAs, IdleJob, LoginInv, JobsInv

LEMMA UpdatesAt ==
  ASSUME LoginInv, NEW h \in Handlers, NEW patch, NEW reason, NEW then,
         Updates(h, patch, reason, then)
  PROVE  job'[h].pc = "read" /\ job'[h].patch = patch /\ job'[h].then = then
BY JobFacts DEF Updates, LoginInv, JobsInv, Jobs

LEMMA GoAt ==
  ASSUME LoginInv, NEW h \in Handlers, NEW pc, Go(h, pc)
  PROVE  job'[h].pc = pc /\ job'[h].patch = job[h].patch
BY JobFacts DEF Go, LoginInv, JobsInv, Jobs

(* A step belongs to one handler, which is busy.                           *)
LEMMA StepIsOwn ==
  ASSUME LoginInv, NEW h \in Handlers, Step(h)
  PROVE  /\ Busy(h) /\ UNCHANGED <<overlapped, crashes>>
         /\ \A g \in Handlers : g # h => job'[g] = job[g]
<1> DEFINE Mine == \A g \in Handlers : g # h => job'[g] = job[g]
<1>1. /\ \A a : Ends(h, a) => Mine
      /\ \A pc : Go(h, pc) => Mine
      /\ \A patch, reason, then : Updates(h, patch, reason, then) => Mine
  BY DEF LoginInv, JobsInv, Ends, Go, Updates
<1>2. job \in [Handlers -> Jobs] /\ attempt \in Attempts \union {None}
  BY DEF LoginInv, JobsInv, StoreInv
<1>3. ReadAttempt(h) \/ WriteAttempt(h) \/ ReturnExisting(h) => Mine
  BY <1>1, <1>2 DEF ReadAttempt, WriteAttempt, ReturnExisting
<1>4. Recover(h) => Mine
  BY <1>1, <1>2 DEF Recover, Attempts, Statuses
<1>5. ConsumeLogin(h) \/ Authenticate(h) \/ OpenAttempt(h) => Mine
  BY <1>1, <1>2 DEF ConsumeLogin, Authenticate, OpenAttempt
<1>6. (\E r \in Results, valid \in BOOLEAN : ExchangeAnswered(h, r, valid)) => Mine
  BY <1>2 DEF ExchangeAnswered
<1>7. ExchangeLost(h) \/ ExchangeFails(h) \/ Verify(h) \/ VerifyUnavailable(h)
        \/ Replayed(h)
        \/ RecordBridge(h) \/ LookupSession(h) \/ CreateSession(h) => Mine
  BY <1>1 DEF ExchangeLost, ExchangeFails, Verify, VerifyUnavailable, Replayed,
     RecordBridge,
     LookupSession, CreateSession
<1>8. GetAuthContext(h) \/ TouchRead(h) \/ TouchWrite(h) \/ RevokeWrite(h) => Mine
  BY <1>1, <1>2 DEF GetAuthContext, TouchRead, TouchWrite, RevokeWrite
<1>9. Busy(h) /\ UNCHANGED <<overlapped, crashes>>
  BY DEF Busy, Step, ReadAttempt, WriteAttempt, Recover, ReturnExisting,
     ConsumeLogin, Authenticate, OpenAttempt, ExchangeAnswered, ExchangeLost,
     ExchangeFails, Verify, VerifyUnavailable, Replayed, RecordBridge,
     LookupSession,
     CreateSession, GetAuthContext, TouchRead, TouchWrite, RevokeWrite
<1> QED
  BY <1>3, <1>4, <1>5, <1>6, <1>7, <1>8, <1>9 DEF Step

(* A new request finds every other handler idle, or ends the seriality.    *)
LEMMA CallIsOwn ==
  ASSUME LoginInv, NEW h \in Handlers, Call(h), ~overlapped'
  PROVE  /\ \A g \in Handlers : ~Busy(g)
         /\ ~overlapped /\ UNCHANGED <<attempt, session, crashes>>
         /\ \A g \in Handlers : g # h => job'[g] = job[g]
         /\ job'[h].pc \in {"recover", "auth", "revokeWrite"}
         /\ job'[h].patch = None
<1>1. job \in [Handlers -> Jobs] /\ MayCall(h)
  BY DEF LoginInv, JobsInv, Call, Complete, Use, Revoke
<1>2. ~overlapped /\ \A g \in Handlers : ~Busy(g)
  BY <1>1 DEF MayCall
<1>3. \A good \in BOOLEAN : Complete(h, good) =>
        /\ \A g \in Handlers : g # h => job'[g] = job[g]
        /\ job'[h].pc = "recover" /\ job'[h].patch = None
  BY <1>1 DEF Complete, IdleJob
<1>4. \A s \in Sids : Use(h, s) =>
        /\ \A g \in Handlers : g # h => job'[g] = job[g]
        /\ job'[h].pc = "auth" /\ job'[h].patch = None
  BY <1>1 DEF Use, IdleJob
<1>5. \A s \in Sids : Revoke(h, s) =>
        /\ \A g \in Handlers : g # h => job'[g] = job[g]
        /\ job'[h].pc = "revokeWrite" /\ job'[h].patch = None
  BY <1>1 DEF Revoke, IdleJob
<1>6. UNCHANGED <<attempt, session, crashes>>
  BY DEF Call, Complete, Use, Revoke
<1> QED
  BY <1>2, <1>3, <1>4, <1>5, <1>6 DEF Call

LEMMA CrashLeaves ==
  ASSUME LoginInv, NEW h \in Handlers, Crash(h)
  PROVE  /\ job'[h].pc = "idle" /\ job'[h].answer = None
         /\ crashes' # 0
         /\ UNCHANGED <<session, overlapped>>
         /\ \A g \in Handlers : g # h => job'[g] = job[g]
<1>1. crashes \in Nat /\ job \in [Handlers -> Jobs]
  BY CrashAssumption DEF LoginInv, RestInv, JobsInv
<1> QED
  BY <1>1 DEF Crash, IdleJob

LEMMA SerialKeeps == LoginInv /\ SerialInv /\ [Next]_vars => SerialInv'
<1> SUFFICES ASSUME LoginInv, SerialInv, [Next]_vars, ~overlapped' PROVE SerialInv'
  BY DEF SerialInv
<1>1. ASSUME NEW h \in Handlers, Step(h) PROVE SerialInv'
  <2>1. \A g \in Handlers : g # h => job'[g] = job[g] /\ job[g].pc = "idle"
    BY <1>1, StepIsOwn DEF SerialInv, Busy
  <2> QED
    BY <2>1 DEF SerialInv, Busy
<1>2. ASSUME NEW h \in Handlers, Call(h) PROVE SerialInv'
  <2>1. \A g \in Handlers : g # h => job'[g].pc = "idle"
    BY <1>2, CallIsOwn DEF Busy
  <2> QED
    BY <2>1 DEF SerialInv, Busy
<1>3. ASSUME NEW h \in Handlers, Crash(h) PROVE SerialInv'
  <2>1. \A g \in Handlers : job'[g].pc = "idle" \/ job'[g] = job[g]
    BY <1>3, CrashLeaves
  <2>2. ~overlapped
    BY <1>3, CrashLeaves
  <2> QED
    BY <2>1, <2>2 DEF SerialInv, Busy
<1>4. ASSUME UNCHANGED <<job, overlapped>> PROVE SerialInv'
  BY <1>4 DEF SerialInv, Busy
<1> QED
  BY <1>1, <1>2, <1>3, <1>4 DEF Next, LoginExpires, AssertionExpires, vars

THEOREM Serial == Spec => []SerialInv
<1>1. Init => SerialInv
  BY IdleType DEF Init, SerialInv, Busy
<1> QED
  BY <1>1, SerialKeeps, Invariance, PTL DEF Spec

----------------------------------------------------------------------------
(* Sessions are written by a creation, which finds none, and by the two    *)
(* write-backs.                                                            *)
LEMMA SessionWriters ==
  ASSUME LoginInv, [Next]_vars, session' # session
  PROVE  \E h \in Handlers :
           \/ CreateSession(h) /\ session[job[h].sid] = None
           \/ TouchWrite(h) \/ RevokeWrite(h)
<1>1. PICK h \in Handlers : Step(h)
  BY DEF Next, vars, Call, Complete, Use, Revoke, Crash, LoginExpires,
     AssertionExpires
<1>2. CreateSession(h) \/ TouchWrite(h) \/ RevokeWrite(h)
  BY <1>1 DEF Step, ReadAttempt, WriteAttempt, Recover, ReturnExisting,
     ConsumeLogin, Authenticate, OpenAttempt, ExchangeAnswered, ExchangeLost,
     ExchangeFails, Verify, VerifyUnavailable, Replayed, RecordBridge,
     LookupSession, GetAuthContext, TouchRead
<1> QED
  BY <1>2 DEF CreateSession

(* A revoked session is brought back by no completion, recovery or         *)
(* revocation of it, however they overlap and die, only by a request that  *)
(* read it before it was revoked (session.ts:100, 116-119): for every      *)
(* number of requests, session ids and results.                            *)
THEOREM RevokedStays == Spec => RevokedForGood
<1>1. ASSUME LoginInv, [Next]_vars, NEW s \in Sids,
             session[s] # None, session[s].revoked, ~BeingTouched(s)
      PROVE  session'[s] # None /\ session'[s].revoked
  <2>1. session \in [Sids -> Sessions \union {None}]
    BY <1>1 DEF LoginInv, StoreInv
  <2>2. ASSUME NEW h \in Handlers, CreateSession(h), session[job[h].sid] = None
        PROVE  session'[s] = session[s]
    BY <1>1, <2>1, <2>2 DEF CreateSession
  <2>3. ASSUME NEW h \in Handlers, TouchWrite(h)
        PROVE  session'[s] = session[s]
    BY <1>1, <2>1, <2>3 DEF TouchWrite, BeingTouched
  <2>4. ASSUME NEW h \in Handlers, RevokeWrite(h)
        PROVE  session'[s] # None /\ session'[s].revoked
    <3>1. job[h].copy \in Sessions
      BY <1>1, <2>4, JobFacts DEF RevokeWrite, JobSound
    <3>2. PICK c \in Sessions : c = [job[h].copy EXCEPT !.revoked = TRUE]
      BY <3>1 DEF Sessions
    <3>3. c.revoked /\ c # None
      BY <3>1, <3>2, NoneAssumption DEF Sessions
    <3>4. session' = [session EXCEPT ![job[h].sid] = c]
      BY <2>4, <3>2 DEF RevokeWrite
    <3> QED
      BY <1>1, <2>1, <3>3, <3>4
  <2> QED
    BY <1>1, <2>2, <2>3, <2>4, SessionWriters
<1>2. LoginInv /\ [Next]_vars
        => \A s \in Sids :
             session[s] # None /\ session[s].revoked /\ ~BeingTouched(s)
               => session'[s] # None /\ session'[s].revoked
  BY <1>1
<1> QED
  BY <1>2, Invariance, PTL DEF Spec, RevokedForGood

----------------------------------------------------------------------------
(* One request at a time and none dying: until its session is created the  *)
(* login is open; from then on its attempt is completed, or about to be.   *)

LEMMA NoneIsNoStatus == None # "completed"
BY NoneAssumption DEF Statuses

(* Without an attempt there is no session.                                 *)
LEMMA NoAttemptNoSession == LoginInv /\ attempt = None => NoSession
BY DEF LoginInv, StoreInv, SessionBacked, NoSession

(* The ways of going on that leave the handler nothing to account for.     *)
LEMMA RestSettles ==
  ASSUME LoginInv, NEW h \in Handlers, Settled(job[h]),
         UNCHANGED <<session, attempt>>,
         job[h].pc \notin Updating \/ ~Completing(job[h]),
         job'[h].pc \notin {"recover", "consume", "authenticate", "open"}
                          \union Exchanging \union Updating
  PROVE  Settled(job[h])'
BY DEF Settled, EarlySound, Completing, Completed, NoSession

(* A handler before the session exists stays there, or gives up.           *)
LEMMA EarlySettles ==
  ASSUME NoSession', NEW h \in Handlers,
         job'[h].pc \notin {"recover", "consume", "authenticate", "open"},
         job'[h].pc \in Updating => job'[h].patch # "completed"
  PROVE  Settled(job[h])'
BY DEF Settled, EarlySound, Completing

LEMMA WriteSettles ==
  ASSUME LoginInv, NEW h \in Handlers, WriteAttempt(h), Settled(job[h])
  PROVE  Settled(job[h])'
<1>1. /\ job[h] \in Jobs /\ job \in [Handlers -> Jobs]
      /\ job[h].pc = "write" /\ job[h].copy \in Attempts
  BY JobFacts DEF WriteAttempt, JobSound, LoginInv, JobsInv
<1>2. UNCHANGED session
  BY DEF WriteAttempt
<1>3. job[h].then = "send" => job'[h].pc = "send"
  BY <1>1 DEF WriteAttempt, Jobs
<1>4. job[h].then # "send" => job'[h].pc = "idle"
  BY EndsAt DEF WriteAttempt
<1>5. CASE Completing(job[h])
  <2>1. job[h].patch = "completed" /\ job[h].then = "cookie"
    BY <1>1, <1>5 DEF Completing, Settled, EarlySound
  <2>2. attempt' \in Attempts /\ attempt'.status = "completed"
    BY <1>1, <2>1, NoneIsNoStatus DEF WriteAttempt, Attempts, Statuses,
     Reasons, Jobs
  <2>3. attempt' # None
    BY <2>2, NoneAssumption
  <2> QED
    BY <1>4, <2>1, <2>2, <2>3 DEF Settled, EarlySound, Completed, Exchanging,
     Updating
<1>6. CASE ~Completing(job[h])
  <2>1. NoSession'
    BY <1>1, <1>2, <1>6 DEF Settled, EarlySound, NoSession, Updating
  <2> QED
    BY <1>3, <1>4, <2>1, EarlySettles DEF Updating
<1> QED
  BY <1>5, <1>6

LEMMA RecoverSettles ==
  ASSUME LoginInv, NEW h \in Handlers, Recover(h), Settled(job[h])
  PROVE  Settled(job[h])'
<1>1. /\ job[h] \in Jobs /\ job \in [Handlers -> Jobs]
      /\ job[h].pc = "recover" /\ job[h].patch = None
      /\ UNCHANGED <<attempt, session>>
      /\ attempt \in Attempts \union {None}
  BY JobFacts DEF Recover, LoginInv, JobsInv, StoreInv, Settled, EarlySound
<1>2. NoSession \/ Completed
  BY <1>1 DEF Settled, Completing, Updating
<1>3. CASE attempt = None
  <2>1. job'[h].pc = "consume" /\ job'[h].patch = None
    BY <1>1, <1>3, GoAt DEF Recover
  <2> QED
    BY <1>1, <1>2, <1>3, <2>1 DEF Settled, EarlySound, Completed, NoSession,
       Exchanging, Updating
<1>4. CASE job'[h].pc \in {"idle", "existing"}
  BY <1>1, <1>4, RestSettles DEF Updating, Exchanging
<1>5. CASE attempt # None /\ attempt.status = "sent" /\ job'[h].pc = "read"
             /\ job'[h].patch # "completed"
  <2>1. NoSession'
    BY <1>1, <1>2, <1>5 DEF Completed, NoSession
  <2> QED
    BY <1>5, <2>1, EarlySettles
<1>6. ASSUME attempt # None, job[h].good, attempt.status = "completed"
      PROVE  job'[h].pc = "existing"
  BY <1>1, <1>6 DEF Recover, Jobs
<1>7. ASSUME attempt # None, ~job[h].good \/ attempt.status = "failed"
      PROVE  job'[h].pc = "idle"
  <2>1. Ends(h, "refused")
    BY <1>7 DEF Recover
  <2> QED
    BY <2>1, EndsAt
<1>8. ASSUME attempt # None, job[h].good, attempt.status = "sent"
      PROVE  job'[h].pc = "read" /\ job'[h].patch # "completed"
  <2>1. CASE assertionExpired
    BY <1>8, <2>1, UpdatesAt DEF Recover
  <2>2. CASE ~assertionExpired
    <3>1. job' = [job EXCEPT ![h].sid = attempt.sid, ![h].pc = "read",
                             ![h].then = "send"]
      BY <1>8, <2>2 DEF Recover
    <3>2. job'[h].pc = "read" /\ job'[h].patch = job[h].patch
      BY <1>1, <3>1 DEF Jobs
    <3> QED
      BY <1>1, <3>2, NoneIsNoStatus
  <2> QED
    BY <2>1, <2>2
<1> QED
  BY <1>1, <1>3, <1>4, <1>5, <1>6, <1>7, <1>8 DEF Attempts, Statuses

LEMMA OpeningSettles ==
  ASSUME LoginInv, NEW h \in Handlers, Settled(job[h]),
         ConsumeLogin(h) \/ Authenticate(h) \/ OpenAttempt(h)
  PROVE  Settled(job[h])'
<1>1. /\ job[h] \in Jobs /\ job \in [Handlers -> Jobs]
      /\ job[h].pc \in {"consume", "authenticate", "open"}
      /\ job[h].patch = None /\ attempt = None /\ NoSession
      /\ UNCHANGED session
  BY JobFacts, NoAttemptNoSession DEF ConsumeLogin, Authenticate, OpenAttempt,
     LoginInv, JobsInv, Settled, EarlySound
<1>2. NoSession'
  BY <1>1 DEF NoSession
<1>3. ASSUME attempt' = attempt, job'[h].pc \in {"consume", "authenticate", "open"},
             job'[h].patch = None
      PROVE  Settled(job[h])'
  BY <1>1, <1>2, <1>3, NoneAssumption DEF Settled, EarlySound, Exchanging, Updating
<1>4. CASE ConsumeLogin(h)
  <2>1. Go(h, "authenticate") \/ Ends(h, "refused")
    BY <1>4 DEF ConsumeLogin
  <2> QED
    BY <1>1, <1>2, <1>3, <1>4, <2>1, GoAt, EndsAt,
     EarlySettles DEF ConsumeLogin, Updating
<1>5. CASE Authenticate(h)
  <2>1. CASE Ends(h, "refused")
    BY <1>2, <2>1, EndsAt, EarlySettles DEF Updating
  <2>2. ASSUME NEW s \in Sids, job' = [job EXCEPT ![h].pc = "open", ![h].sid = s]
        PROVE  Settled(job[h])'
    <3>1. job'[h].pc = "open" /\ job'[h].patch = job[h].patch
      BY <1>1, <2>2 DEF Jobs
    <3> QED
      BY <1>1, <1>3, <1>5, <3>1 DEF Authenticate
  <2> QED
    BY <1>5, <2>1, <2>2 DEF Authenticate
<1>6. CASE OpenAttempt(h)
  <2>1. Updates(h, None, None, "send")
    BY <1>1, <1>6 DEF OpenAttempt
  <2> QED
    BY <1>2, <2>1, UpdatesAt, EarlySettles, NoneIsNoStatus
<1> QED
  BY <1>4, <1>5, <1>6

LEMMA ExchangeSettles ==
  ASSUME LoginInv, NEW h \in Handlers, Settled(job[h]),
         \/ \E r \in Results, valid \in BOOLEAN : ExchangeAnswered(h, r, valid)
         \/ ExchangeLost(h) \/ ExchangeFails(h) \/ Verify(h) \/ VerifyUnavailable(h)
         \/ Replayed(h)
         \/ RecordBridge(h) \/ LookupSession(h)
  PROVE  Settled(job[h])'
<1>1. /\ job[h] \in Jobs /\ job \in [Handlers -> Jobs]
      /\ job[h].pc \in Exchanging
  BY JobFacts DEF ExchangeAnswered, ExchangeLost, ExchangeFails, Verify,
     VerifyUnavailable,
     Replayed, RecordBridge, LookupSession, Exchanging, LoginInv, JobsInv
<1>2. NoSession /\ UNCHANGED session
  BY <1>1 DEF ExchangeAnswered, ExchangeLost, ExchangeFails, Verify,
     VerifyUnavailable, Replayed,
     RecordBridge, LookupSession, Settled, EarlySound
<1>3. NoSession'
  BY <1>2 DEF NoSession
<1>4. job[h].sid \in Sids => ~Active(job[h].sid)
  BY <1>2 DEF NoSession, Active
<1>5. job[h].sid \in Sids
  BY <1>1, JobFacts DEF JobSound, LoginInv, StoreInv, Attempts
<1>6. \/ job'[h].pc \in {"idle", "verify", "replayed", "bridge", "lookup", "create"}
      \/ job'[h].pc = "read" /\ job'[h].patch = "failed"
  <2>1. ASSUME NEW r \in Results, NEW valid \in BOOLEAN, ExchangeAnswered(h, r,
     valid)
        PROVE  job'[h].pc = "verify"
    BY <1>1, <2>1 DEF ExchangeAnswered, Jobs
  <2>2. CASE ExchangeLost(h)
    BY <2>2, EndsAt DEF ExchangeLost
  <2>3. CASE ExchangeFails(h)
    BY <2>3, UpdatesAt DEF ExchangeFails
  <2>4. CASE Verify(h)
    BY <2>4, UpdatesAt, GoAt DEF Verify
  <2>5. CASE VerifyUnavailable(h)
    BY <2>5, EndsAt DEF VerifyUnavailable
  <2>8. CASE Replayed(h)
    BY <1>4, <1>5, <2>8, UpdatesAt DEF Replayed
  <2>6. CASE RecordBridge(h)
    BY <2>6, GoAt DEF RecordBridge
  <2>7. CASE LookupSession(h)
    BY <1>4, <1>5, <2>7, GoAt DEF LookupSession
  <2> QED
    BY <2>1, <2>2, <2>3, <2>4, <2>5, <2>6, <2>7, <2>8
<1> QED
  BY <1>3, <1>6, EarlySettles DEF Updating

LEMMA StepSettles ==
  ASSUME LoginInv, NEW h \in Handlers, Step(h), Settled(job[h])
  PROVE  Settled(job[h])'
<1>1. job[h] \in Jobs /\ job \in [Handlers -> Jobs]
  BY JobFacts DEF LoginInv, JobsInv
<1>2. CASE ReadAttempt(h)
  <2>1. /\ job'[h].pc = "write" /\ job'[h].patch = job[h].patch
        /\ job'[h].then = job[h].then
        /\ job[h].pc = "read" /\ UNCHANGED <<attempt, session>>
    BY <1>1, <1>2 DEF ReadAttempt, Jobs
  <2> QED
    BY <2>1 DEF Settled, EarlySound, Completing, Completed, NoSession,
       Exchanging, Updating
<1>3. CASE CreateSession(h)
  <2>1. Updates(h, "completed", None, "cookie") \/ Ends(h, "unavailable")
    BY <1>3 DEF CreateSession
  <2>2. CASE Updates(h, "completed", None, "cookie")
    BY <2>2, UpdatesAt DEF Settled, EarlySound, Completing, Exchanging, Updating
  <2>3. CASE Ends(h, "unavailable")
    <3>1. NoSession
      BY <1>3 DEF CreateSession, Settled, EarlySound, Exchanging
    <3>2. session' = session
      BY <1>3, <2>3, EndsAt, UpdatesAt DEF CreateSession
    <3> QED
      BY <2>3, <3>1, <3>2, EndsAt, EarlySettles DEF NoSession, Updating
  <2> QED
    BY <2>1, <2>2, <2>3
<1>4. CASE ReturnExisting(h) \/ GetAuthContext(h) \/ TouchRead(h)
  <2>1. /\ UNCHANGED <<attempt, session>>
        /\ job[h].pc \notin Updating
        /\ job'[h].pc \in {"idle", "touch", "touchWrite"}
    BY <1>1, <1>4, EndsAt, GoAt DEF ReturnExisting, GetAuthContext, TouchRead,
       Updating, Jobs
  <2> QED
    BY <2>1, RestSettles DEF Exchanging, Updating
<1>5. CASE TouchWrite(h) \/ RevokeWrite(h)
  <2>1. /\ job[h].pc \in {"touchWrite", "revokeWrite"}
        /\ UNCHANGED attempt /\ job'[h].pc = "idle"
    BY <1>5, EndsAt DEF TouchWrite, RevokeWrite
  <2>2. job[h].sid \in Sids /\ session[job[h].sid] # None
    BY <2>1, JobFacts DEF JobSound, Serving
  <2>3. Completed
    BY <2>1, <2>2 DEF Settled, NoSession, Completing, Updating
  <2> QED
    BY <2>1, <2>3 DEF Settled, EarlySound, Completed, Exchanging, Updating
<1> QED
  BY <1>2, <1>3, <1>4, <1>5, WriteSettles, RecoverSettles, OpeningSettles,
     ExchangeSettles DEF Step

(* A handler at rest accounts for nothing.                                 *)
LEMMA IdleIsEarly == \A j : j.pc \in {"idle"} \union Serving => EarlySound(j)
BY DEF EarlySound, Exchanging, Updating, Serving

(* The one busy handler is settled.                                        *)
LEMMA BusyIsSettled ==
  ASSUME SerialInv, UnbrokenInv, ~overlapped, crashes = 0, NEW h \in Handlers,
     Busy(h)
  PROVE  /\ Settled(job[h])
         /\ \A g \in Handlers : g # h => job[g].pc = "idle"
<1>1. \A g \in Handlers : g # h => job[g].pc = "idle"
  BY DEF SerialInv, Busy
<1>2. \A g \in Handlers : Completing(job[g]) => g = h
  BY <1>1 DEF Completing, Updating
<1> QED
  BY <1>1, <1>2 DEF UnbrokenInv, Settled

LEMMA UnbrokenKeeps ==
  LoginInv /\ SerialInv /\ UnbrokenInv /\ [Next]_vars => UnbrokenInv'
<1> SUFFICES ASSUME LoginInv, SerialInv, UnbrokenInv, [Next]_vars,
                    ~overlapped', crashes' = 0
             PROVE  UnbrokenInv'
  BY DEF UnbrokenInv
<1>1. ASSUME NEW h \in Handlers, Step(h) PROVE UnbrokenInv'
  <2>1. /\ Busy(h) /\ ~overlapped /\ crashes = 0
        /\ \A g \in Handlers : g # h => job'[g] = job[g]
    BY <1>1, StepIsOwn
  <2>2. /\ Settled(job[h])
        /\ \A g \in Handlers : g # h => job[g].pc = "idle"
    BY <2>1, BusyIsSettled
  <2>3. Settled(job[h])'
    BY <1>1, <2>2, StepSettles
  <2>4. \A g \in Handlers : g # h => EarlySound(job[g])'
    BY <2>1, <2>2 DEF EarlySound, Exchanging, Updating
  <2> QED
    BY <2>3, <2>4 DEF UnbrokenInv, Settled
<1>2. ASSUME NEW h \in Handlers, Call(h) PROVE UnbrokenInv'
  <2>1. /\ ~overlapped /\ crashes = 0
        /\ UNCHANGED <<attempt, session>>
        /\ \A g \in Handlers : job[g].pc = "idle"
        /\ \A g \in Handlers : g # h => job'[g] = job[g]
        /\ job'[h].pc \in {"recover", "auth", "revokeWrite"}
        /\ job'[h].patch = None
    BY <1>2, CallIsOwn DEF Busy
  <2>2. \A g \in Handlers : EarlySound(job[g])'
    BY <2>1 DEF EarlySound, Exchanging, Updating
  <2>3. NoSession \/ Completed
    BY <2>1 DEF UnbrokenInv, Completing, Updating
  <2> QED
    BY <2>1, <2>2, <2>3 DEF UnbrokenInv, NoSession, Completed
<1>3. ASSUME NEW h \in Handlers, Crash(h) PROVE FALSE
  BY <1>3, CrashLeaves
<1>4. ASSUME UNCHANGED <<job, session, attempt, overlapped, crashes>>
      PROVE  UnbrokenInv'
  BY <1>4 DEF UnbrokenInv, EarlySound, Completing, Completed, NoSession
<1> QED
  BY <1>1, <1>2, <1>3, <1>4 DEF Next, LoginExpires, AssertionExpires, vars

THEOREM Unbroken == Spec => []UnbrokenInv
<1>1. Init => UnbrokenInv
  BY IdleType, IdleIsEarly DEF Init, UnbrokenInv, NoSession
<1> QED
  BY <1>1, UnbrokenKeeps, Invariance, Serial, PTL DEF Spec

(* Whoever refuses a login that it recovers finds no session of it.        *)
LEMMA RefusalFindsNone ==
  ASSUME LoginInv, NEW h \in Handlers, Step(h), Settled(job[h]), job[h].good,
         job'[h] = EndAs(job[h], "refused")
  PROVE  ~\E s \in Sids : Active(s)
<1>1. job[h] \in Jobs /\ job \in [Handlers -> Jobs]
      /\ attempt \in Attempts \union {None}
  BY JobFacts DEF LoginInv, JobsInv, StoreInv
<1>2. job'[h].pc = "idle" /\ job'[h].answer = "refused"
  BY DEF EndAs, IdleJob
<1>3. NoSession => ~\E s \in Sids : Active(s)
  BY DEF NoSession, Active
<1>4. CASE WriteAttempt(h)
  <2>1. job[h].then = "refused" /\ job[h].pc = "write"
    <3>1. job[h].then = "send" => job'[h].pc = "send"
      BY <1>1, <1>4 DEF WriteAttempt, Jobs
    <3>2. job[h].then # "send" => job'[h].answer = job[h].then
      BY <1>4, EndsAt DEF WriteAttempt
    <3> QED
      BY <1>2, <1>4, <3>1, <3>2 DEF WriteAttempt
  <2>2. NoSession
    BY <2>1 DEF Settled, EarlySound, Updating
  <2> QED
    BY <1>3, <2>2
<1>5. CASE Recover(h)
  <2>1. attempt # None => attempt.status = "failed"
    <3>1. CASE attempt # None /\ attempt.status = "completed"
      <4>1. job' = [job EXCEPT ![h].sid = attempt.sid, ![h].pc = "existing"]
        BY <1>5, <3>1 DEF Recover
      <4>2. job'[h].pc = "existing"
        BY <1>1, <4>1 DEF Jobs
      <4> QED
        BY <1>2, <4>2
    <3>2. CASE attempt # None /\ attempt.status = "sent" /\ assertionExpired
      BY <1>2, <1>5, <3>2, UpdatesAt DEF Recover
    <3>3. CASE attempt # None /\ attempt.status = "sent" /\ ~assertionExpired
      <4>1. job' = [job EXCEPT ![h].sid = attempt.sid, ![h].pc = "read",
                               ![h].then = "send"]
        BY <1>5, <3>3 DEF Recover
      <4>2. job'[h].pc = "read"
        BY <1>1, <4>1 DEF Jobs
      <4> QED
        BY <1>2, <4>2
    <3> QED
      BY <1>1, <3>1, <3>2, <3>3 DEF Attempts, Statuses
  <2>2. job[h].pc = "recover"
    BY <1>5 DEF Recover
  <2>3. NoSession
    BY <2>1, <2>2, NoAttemptNoSession DEF Settled, Completing, Completed, Updating
  <2> QED
    BY <1>3, <2>3
<1>6. CASE ReturnExisting(h)
  <2>1. ~Active(job[h].sid)
    BY <1>2, <1>6, EndsAt DEF ReturnExisting
  <2>2. \A s \in Sids : session[s] # None => s = job[h].sid
    BY <1>6, JobFacts DEF ReturnExisting, JobSound, LoginInv, StoreInv,
     SessionBacked
  <2> QED
    BY <2>1, <2>2 DEF Active
<1>7. CASE ConsumeLogin(h) \/ Authenticate(h) \/ OpenAttempt(h)
  <2>1. attempt = None
    BY <1>7 DEF ConsumeLogin, Authenticate, OpenAttempt, Settled, EarlySound
  <2> QED
    BY <1>3, <2>1, NoAttemptNoSession
<1>8. CASE GetAuthContext(h)
  BY <1>8, JobFacts DEF GetAuthContext, JobSound, Serving
<1>9. ASSUME job[h].pc \in Exchanging PROVE NoSession
  BY <1>9 DEF Settled, EarlySound
<1>10. CASE (\E r \in Results, valid \in BOOLEAN : ExchangeAnswered(h, r, valid))
              \/ ExchangeLost(h) \/ ExchangeFails(h) \/ Verify(h) \/ VerifyUnavailable(h)
              \/ Replayed(h)
              \/ RecordBridge(h) \/ LookupSession(h) \/ CreateSession(h)
  BY <1>3, <1>9, <1>10 DEF ExchangeAnswered, ExchangeLost, ExchangeFails, Verify,
     VerifyUnavailable,
     Replayed, RecordBridge, LookupSession, CreateSession, Exchanging
<1>11. CASE ReadAttempt(h)
  BY <1>1, <1>2, <1>11 DEF ReadAttempt, Jobs
<1>12. CASE TouchRead(h) \/ TouchWrite(h) \/ RevokeWrite(h)
  BY <1>12, JobFacts DEF TouchRead, TouchWrite, RevokeWrite, JobSound, Serving
<1> QED
  BY <1>4, <1>5, <1>6, <1>7, <1>8, <1>10, <1>11, <1>12 DEF Step

(* One request at a time, the browser that owns an active session is never *)
(* refused it (connected-login.ts:16-20): for every number of requests,    *)
(* session ids and results.                                                *)
THEOREM RecoveryReturns == Spec => RecoveryReturnsSession
<1>1. ASSUME LoginInv, SerialInv, UnbrokenInv, [Next]_vars, NEW h \in Handlers,
             Alone, Refuses(h), job[h].good
      PROVE  ~\E s \in Sids : Active(s)
  <2>1. /\ Busy(h) /\ job'[h] = EndAs(job[h], "refused")
        /\ job'[h].pc = "idle" /\ job'[h].answer = "refused"
        /\ ~overlapped' /\ crashes = 0
    BY <1>1 DEF Refuses, EndAs, IdleJob, Alone
  <2>2. ASSUME NEW g \in Handlers, Call(g) PROVE FALSE
    BY <1>1, <2>1, <2>2, CallIsOwn
  <2>3. ASSUME NEW g \in Handlers, Crash(g) PROVE FALSE
    <3>1. "refused" # None
      BY NoneAssumption
    <3> QED
      BY <1>1, <2>1, <2>3, <3>1, CrashLeaves DEF Busy
  <2>4. ASSUME UNCHANGED job PROVE FALSE
    BY <2>1, <2>4 DEF Busy
  <2>5. Step(h)
    <3>1. PICK g \in Handlers : Step(g)
      BY <1>1, <2>2, <2>3, <2>4 DEF Next, LoginExpires, AssertionExpires, vars
    <3>2. g # h => job'[h] = job[h]
      BY <1>1, <3>1, StepIsOwn
    <3> QED
      BY <2>1, <3>1, <3>2 DEF Busy
  <2>6. ~overlapped
    BY <1>1, <2>1, <2>5, StepIsOwn
  <2>7. Settled(job[h])
    BY <1>1, <2>1, <2>6, BusyIsSettled
  <2> QED
    BY <1>1, <2>1, <2>5, <2>7, RefusalFindsNone
<1>2. LoginInv /\ SerialInv /\ UnbrokenInv /\ [Next]_vars
        => \A h \in Handlers : (Alone /\ Refuses(h) /\ job[h].good)
             => ~\E s \in Sids : Active(s)
  BY <1>1
<1> QED
  BY <1>2, Invariance, Serial, Unbroken, PTL DEF Spec, RecoveryReturnsSession

----------------------------------------------------------------------------
(* The one-time login: what a request does to the stores is one of its     *)
(* steps or none, under any overlap and any deaths.                        *)
BoundTo == IF attempt = None THEN None ELSE attempt.sid
Rests == [s \in Sids |-> IF session[s] = None THEN None ELSE session[s].jti]

LEMMA SameLogin ==
  ASSUME UNCHANGED <<consumed, issued, jtis>>, BoundTo' = BoundTo, Rests' = Rests
  PROVE  [Login!Next]_(Login!vars)
BY DEF BoundTo, Rests, Login!vars

LEMMA QuietRefines ==
  ASSUME UNCHANGED <<consumed, issued, jtis, attempt, session>>
  PROVE  [Login!Next]_(Login!vars)
BY SameLogin DEF BoundTo, Rests

(* The attempt is bound once; its updates keep the sid.                    *)
LEMMA AttemptRefines ==
  ASSUME LoginInv, NEW h \in Handlers, OpenAttempt(h) \/ WriteAttempt(h)
  PROVE  [Login!Next]_(Login!vars)
<1>1. CASE WriteAttempt(h)
  <2>1. /\ attempt # None /\ job[h].copy \in Attempts
        /\ job[h].copy.sid = attempt.sid /\ job[h] \in Jobs
    BY <1>1, JobFacts DEF WriteAttempt, JobSound, Updating
  <2>2. attempt' \in Attempts /\ attempt'.sid = attempt.sid
    BY <1>1, <2>1 DEF WriteAttempt, Attempts, Jobs, Reasons
  <2>3. BoundTo' = BoundTo
    BY <2>1, <2>2, NoneAssumption DEF BoundTo
  <2> QED
    BY <1>1, <2>3, SameLogin DEF WriteAttempt, Rests
<1>2. CASE OpenAttempt(h) /\ attempt = None
  <2>1. PICK s \in Sids : s = job[h].sid
    BY <1>2, JobFacts DEF OpenAttempt, JobSound
  <2>2. attempt' = [status |-> "sent", reason |-> None, sid |-> s]
    BY <1>2, <2>1 DEF OpenAttempt
  <2>3. attempt' \in Attempts /\ attempt'.sid = s
    BY <2>2 DEF Attempts, Statuses, Reasons
  <2>4. BoundTo = None /\ BoundTo' = s
    BY <1>2, <2>3, NoneAssumption DEF BoundTo
  <2>5. consumed /\ UNCHANGED <<consumed, issued, jtis, Rests>>
    BY <1>2, JobFacts DEF OpenAttempt, JobSound, Rests
  <2>6. Login!Bind(s)
    BY <2>4, <2>5 DEF Login!Bind, BoundTo, Rests
  <2> QED
    BY <2>6 DEF Login!Next
<1>3. CASE OpenAttempt(h) /\ attempt # None
  BY <1>3, QuietRefines DEF OpenAttempt
<1> QED
  BY <1>1, <1>2, <1>3

(* Every result is issued for the sid of the attempt.                      *)
LEMMA IssueRefines ==
  ASSUME LoginInv, NEW h \in Handlers, job[h].pc = "send", NEW r \in Results,
         issued[r] \in {None, job[h].sid},
         issued' = [issued EXCEPT ![r] = job[h].sid],
         UNCHANGED <<consumed, jtis, attempt, session>>
  PROVE  [Login!Next]_(Login!vars)
<1>1. attempt # None /\ job[h].sid = attempt.sid /\ attempt.sid # None
  BY JobFacts, NoneAssumption
  DEF JobSound, Exchanging, LoginInv, StoreInv, Attempts
<1>2. issued \in [Results -> Sids \union {None}]
  BY DEF LoginInv, StoreInv
<1>3. CASE issued[r] = None
  <2>1. Login!Issue(r)
    BY <1>1, <1>3 DEF Login!Issue
  <2> QED
    BY <2>1 DEF Login!Next
<1>4. CASE issued[r] = job[h].sid
  BY <1>2, <1>4, QuietRefines
<1> QED
  BY <1>3, <1>4

LEMMA VerifyRefines ==
  ASSUME LoginInv, NEW h \in Handlers, Verify(h)
  PROVE  [Login!Next]_(Login!vars)
<1>1. PICK r \in Results : /\ r = job[h].result /\ issued[r] = job[h].sid
                           /\ attempt # None /\ job[h].sid = attempt.sid
  BY JobFacts DEF Verify, JobSound, Holding, Exchanging
<1>2. attempt.sid # None
  BY <1>1, NoneAssumption DEF LoginInv, StoreInv, Attempts
<1>3. CASE r \notin jtis /\ jtis' = jtis \union {r}
  <2>1. Login!Spend(r)
    BY <1>1, <1>2, <1>3 DEF Verify, Login!Spend
  <2> QED
    BY <2>1 DEF Login!Next
<1>4. CASE jtis' = jtis
  BY <1>4, QuietRefines DEF Verify
<1> QED
  BY <1>1, <1>3, <1>4 DEF Verify

(* A session is created where there is none, for the bound sid and from a  *)
(* result that was spent.                                                  *)
LEMMA CreateRefines ==
  ASSUME LoginInv, NEW h \in Handlers, CreateSession(h)
  PROVE  [Login!Next]_(Login!vars)
<1>1. PICK r \in Results : /\ r = job[h].result /\ issued[r] = job[h].sid
                           /\ r \in jtis
                           /\ attempt # None /\ job[h].sid = attempt.sid
  BY JobFacts DEF CreateSession, JobSound, Holding, Exchanging
<1>2. attempt.sid \in Sids /\ attempt.sid # None
  BY <1>1, NoneAssumption DEF LoginInv, StoreInv, Attempts
<1>3. session \in [Sids -> Sessions \union {None}]
  BY DEF LoginInv, StoreInv
<1>4. CASE session[attempt.sid] = None
  <2>1. PICK c \in Sessions : c = [jti |-> r, revoked |-> FALSE]
    BY DEF Sessions
  <2>2. session' = [session EXCEPT ![attempt.sid] = c] /\ c.jti = r /\ c # None
    BY <1>1, <1>4, <2>1, NoneAssumption DEF CreateSession
  <2>3. Rests' = [Rests EXCEPT ![attempt.sid] = r]
    BY <1>2, <1>3, <2>2 DEF Rests
  <2>4. Rests[attempt.sid] = None
    BY <1>2, <1>4 DEF Rests
  <2>5. Login!Create(r)
    BY <1>1, <1>2, <2>3, <2>4 DEF CreateSession, Login!Create, Rests
  <2> QED
    BY <2>5 DEF Login!Next
<1>5. CASE session[attempt.sid] # None
  BY <1>1, <1>5, QuietRefines DEF CreateSession
<1> QED
  BY <1>4, <1>5

(* A session is written back with the result it had.                       *)
LEMMA WriteBackRefines ==
  ASSUME LoginInv, NEW h \in Handlers, TouchWrite(h) \/ RevokeWrite(h)
  PROVE  [Login!Next]_(Login!vars)
<1>1. /\ job[h].sid \in Sids /\ session[job[h].sid] # None
      /\ job[h].copy \in Sessions /\ job[h].copy.jti = session[job[h].sid].jti
  BY JobFacts DEF TouchWrite, RevokeWrite, JobSound, Serving
<1>2. session \in [Sids -> Sessions \union {None}]
  BY DEF LoginInv, StoreInv
<1>3. PICK c \in Sessions : /\ session' = [session EXCEPT ![job[h].sid] = c]
                            /\ c.jti = session[job[h].sid].jti
  <2>1. [job[h].copy EXCEPT !.revoked = TRUE] \in Sessions
    BY <1>1 DEF Sessions
  <2>2. [job[h].copy EXCEPT !.revoked = TRUE].jti = job[h].copy.jti
    BY <1>1 DEF Sessions
  <2> QED
    BY <1>1, <2>1, <2>2 DEF TouchWrite, RevokeWrite
<1>4. Rests' = Rests
  BY <1>1, <1>2, <1>3, NoneAssumption DEF Rests
<1> QED
  BY <1>4, SameLogin DEF TouchWrite, RevokeWrite, BoundTo

LEMMA StepRefines ==
  ASSUME LoginInv, [Next]_vars
  PROVE  [Login!Next]_(Login!vars)
<1>1. ASSUME NEW h \in Handlers, ConsumeLogin(h) PROVE [Login!Next]_(Login!vars)
  <2>1. CASE MayConsume(h)
    <3>1. Login!Consume
      BY <1>1, <2>1 DEF ConsumeLogin, MayConsume, Login!Consume
    <3> QED
      BY <3>1 DEF Login!Next
  <2>2. CASE ~MayConsume(h)
    BY <1>1, <2>2, QuietRefines DEF ConsumeLogin
  <2> QED
    BY <2>1, <2>2
<1>2. ASSUME NEW h \in Handlers, NEW r \in Results, NEW valid \in BOOLEAN,
             ExchangeAnswered(h, r, valid)
      PROVE  [Login!Next]_(Login!vars)
  BY <1>2, IssueRefines DEF ExchangeAnswered
<1>3. ASSUME NEW h \in Handlers, ExchangeLost(h) PROVE [Login!Next]_(Login!vars)
  BY <1>3, IssueRefines, QuietRefines DEF ExchangeLost
<1>4. ASSUME NEW h \in Handlers,
             \/ ReadAttempt(h) \/ Recover(h) \/ ReturnExisting(h)
             \/ Authenticate(h) \/ ExchangeFails(h) \/ VerifyUnavailable(h)
             \/ Replayed(h)
             \/ RecordBridge(h) \/ LookupSession(h) \/ GetAuthContext(h)
             \/ TouchRead(h) \/ Call(h) \/ Crash(h)
      PROVE  [Login!Next]_(Login!vars)
  BY <1>4, QuietRefines DEF ReadAttempt, Recover, ReturnExisting, Authenticate,
     ExchangeFails, VerifyUnavailable, Replayed, RecordBridge, LookupSession,
     GetAuthContext,
     TouchRead, Call, Complete, Use, Revoke, Crash
<1>5. ASSUME LoginExpires \/ AssertionExpires \/ UNCHANGED vars
      PROVE  [Login!Next]_(Login!vars)
  BY <1>5, QuietRefines DEF LoginExpires, AssertionExpires, vars
<1> QED
  BY <1>1, <1>2, <1>3, <1>4, <1>5, AttemptRefines, VerifyRefines, CreateRefines,
     WriteBackRefines DEF Next, Step

(* However they overlap and die, the requests implement the one-time login *)
(* (connected-login.ts:13-20): for every number of requests, session ids   *)
(* and results.                                                            *)
THEOREM Refinement == Spec => ImplementsLogin
<1>1. Init => Login!Init
  BY DEF Init, Login!Init
<1>2. LoginInv /\ [Next]_vars => [Login!Next]_(Login!vars)
  BY StepRefines
<1> QED
  BY <1>1, <1>2, Invariance, PTL DEF Spec, ImplementsLogin, Login!Spec
=============================================================================
