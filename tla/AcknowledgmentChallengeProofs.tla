-------------------- MODULE AcknowledgmentChallengeProofs --------------------
(***************************************************************************)
(* Whatever the number of requests, continuations and changes, and however  *)
(* the requests overlap and die: a change made on a confirmation is the one *)
(* challenged, with the consent its challenge asked for.                    *)
(***************************************************************************)
EXTENDS AcknowledgmentChallenge, TLAPS

Issues == [intent : Intents, required : Disclosures]
JobsInv == /\ job \in [Handlers -> Jobs]
           /\ \A h \in Handlers : JobSound(job[h])
StoreInv ==
  /\ challenge \in [Refs -> Records \union {None}]
  /\ issued \in [Refs -> Issues \union {None}]
  /\ applied \in [Refs -> Intents \union {None}]
  /\ consents \subseteq Disclosures
  /\ \A r \in Refs : challenge[r] # None => Bound(challenge[r], r)
  /\ \A r \in Refs : applied[r] # None => issued[r] # None
  /\ ConsentBehindChange
  /\ IntentBound
RestInv ==
  /\ initial \subseteq Intents
  /\ version \in 1..MaxVersion
  /\ effective \in Disclosures
  /\ expired \subseteq Refs
  /\ overlapped \in BOOLEAN
  /\ crashes \in 0..MaxCrashes

(* One request at a time: a handler knows the state of its challenge, and   *)
(* what it writes back is what is there ...                                 *)
Alone(j) ==
  /\ j.pc = "scope" => Disconnects(j.intent)
  /\ j.pc = "start" => j.ref = None
  /\ j.pc \in {"list", "consent"} => challenge[j.ref].state = "challenged"
  /\ j.pc \in {"keyRead", "keyWrite", "call"} =>
       challenge[j.ref].state = "consented"
  /\ j.pc \in {"read", "write"} =>
       /\ j.to = "consented" => challenge[j.ref].state = "challenged"
       /\ j.to = "confirmed" => challenge[j.ref].state = "consented"
       /\ j.to = "failed" => applied[j.ref] = None \/ j.ref \in expired
  /\ j.pc \in {"write", "keyWrite"} => j.copy = challenge[j.ref]

(* ... and a change that was made has its challenge past the consent, and   *)
(* not failed while the continuation is valid.                              *)
Kept == \A r \in Refs : applied[r] # None =>
  /\ challenge[r] # None
  /\ challenge[r].state # "challenged"
  /\ challenge[r].state = "failed" => r \in expired

SerialInv ==
  ~overlapped =>
    /\ \A g, h \in Handlers : Busy(g) /\ Busy(h) => g = h
    /\ \A h \in Handlers : Alone(job[h])
    /\ Kept

LEMMA InvParts == ChallengeInv <=> StoreInv /\ JobsInv /\ RestInv
BY DEF ChallengeInv, StoreInv, JobsInv, RestInv, TypeOK, Issues

(* What no step takes back: what a continuation was issued for, what a      *)
(* challenge was opened with, consent, and a change that was made.          *)
Grows ==
  /\ \A r \in Refs : issued[r] # None => issued'[r] = issued[r]
  /\ \A r \in Refs : challenge[r] # None =>
       /\ challenge'[r] # None
       /\ challenge'[r].intent = challenge[r].intent
       /\ challenge'[r].required = challenge[r].required
  /\ consents \subseteq consents'
  /\ \A r \in Refs : applied[r] # None => applied'[r] # None

(* A sound job stays sound while the stores grow.                           *)
LEMMA SoundStays ==
  ASSUME Grows, NEW j \in Jobs, JobSound(j)
  PROVE  JobSound(j)'
<1>1. j.ref # None => j.ref \in Refs
  BY DEF Jobs
<1>2. j.pc \in {"write", "keyWrite"} => Bound(j.copy, j.ref)'
  BY <1>1 DEF Grows, JobSound, Bound, Confirming
<1> QED
  BY <1>1, <1>2 DEF Grows, JobSound, Confirming

(* A step that gives one handler a sound job keeps every job sound.         *)
LEMMA OneJobStep ==
  ASSUME JobsInv, Grows, NEW h \in Handlers, NEW j \in Jobs, JobSound(j)',
         job' = [job EXCEPT ![h] = j]
  PROVE  JobsInv'
<1>1. job' \in [Handlers -> Jobs]
  BY DEF JobsInv
<1>2. ASSUME NEW g \in Handlers PROVE JobSound(job[g])'
  <2>1. CASE g = h
    <3>1. job'[g] = j
      BY <2>1 DEF JobsInv
    <3> QED
      BY <3>1 DEF JobSound, Bound
  <2>2. CASE g # h
    <3>1. job'[g] = job[g] /\ job[g] \in Jobs /\ JobSound(job[g])
      BY <2>2 DEF JobsInv
    <3>2. JobSound(job[g])'
      <4> DEFINE k == job[g]
      <4>1. k \in Jobs /\ JobSound(k)
        BY <3>1
      <4> QED
        BY <3>1, <4>1, SoundStays DEF JobSound, Bound
    <3> QED
      BY <3>2
  <2> QED
    BY <2>1, <2>2
<1> QED
  BY <1>1, <1>2 DEF JobsInv

(* The ways a handler goes on.                                              *)
LEMMA EndsStep ==
  ASSUME JobsInv, Grows, NEW h \in Handlers, NEW a \in Answers, Ends(h, a)
  PROVE  JobsInv'
<1> DEFINE j == [IdleJob EXCEPT !.answer = a]
<1>1. j \in Jobs /\ j.pc = "idle"
  BY DEF Jobs, IdleJob, Steps, Answers
<1>2. JobSound(j)'
  BY <1>1 DEF JobSound, Confirming
<1>3. job' = [job EXCEPT ![h] = j]
  BY DEF Ends
<1> QED
  <2> HIDE DEF j
  <2> QED
    BY <1>1, <1>2, <1>3, OneJobStep

LEMMA JobType ==
  ASSUME JobsInv, NEW h \in Handlers
  PROVE  /\ job[h] \in Jobs
         /\ JobSound(job[h])
         /\ job[h].ref # None => job[h].ref \in Refs
         /\ job[h].intent # None => job[h].intent \in Intents
         /\ job[h].copy # None => job[h].copy \in Records
BY DEF JobsInv, Jobs

(* From one confirming step to the next, when nothing new is claimed.       *)
LEMMA GoStep ==
  ASSUME JobsInv, Grows, NEW h \in Handlers, NEW pc \in {"start", "get", "list", "consent", "keyRead"},
         Go(h, pc), Busy(h),
         pc # "start" => job[h].ref # None,
         pc \in {"list", "consent", "keyRead"} =>
           /\ challenge[job[h].ref] # None
           /\ job[h].intent = challenge[job[h].ref].intent,
         pc = "keyRead" => challenge[job[h].ref].required \in consents
  PROVE  JobsInv'
<1> DEFINE j == [job[h] EXCEPT !.pc = pc]
<1>1. /\ j \in Jobs /\ j.pc = pc
      /\ j.ref = job[h].ref /\ j.intent = job[h].intent
  BY JobType DEF Jobs, Steps
<1>2. job[h].intent # None
  BY JobType DEF JobSound, Busy
<1>3. JobSound(j)
  BY <1>1, <1>2 DEF JobSound, Confirming
<1>4. job' = [job EXCEPT ![h] = j]
  BY DEF Go
<1> QED
  <2> HIDE DEF j
  <2> QED
    BY <1>1, <1>3, <1>4, SoundStays, OneJobStep

(* A handler that sets out to advance the record to a state it may claim.   *)
LEMMA AdvancesStep ==
  ASSUME JobsInv, Grows, NEW h \in Handlers,
         NEW s \in {"consented", "confirmed", "failed"}, AdvancesTo(h, s),
         job[h].ref # None, Busy(h),
         challenge'[job[h].ref] # None,
         job[h].intent = challenge'[job[h].ref].intent,
         s # "failed" => challenge'[job[h].ref].required \in consents',
         s = "confirmed" => applied'[job[h].ref] # None
  PROVE  JobsInv'
<1>1. [job[h] EXCEPT !.pc = "read", !.to = s] \in Jobs
  BY JobType DEF Jobs, Steps, States
<1>2. PICK j \in Jobs : j = [job[h] EXCEPT !.pc = "read", !.to = s]
  BY <1>1
<1>3. /\ j.pc = "read" /\ j.to = s
      /\ j.ref = job[h].ref /\ j.intent = job[h].intent
  BY <1>2, JobType DEF Jobs
<1>4. job[h].intent # None
  BY JobType DEF JobSound, Busy
<1>5. JobSound(j)'
  BY <1>3, <1>4 DEF JobSound, Confirming
<1>6. job' = [job EXCEPT ![h] = j]
  BY <1>2 DEF AdvancesTo
<1> QED
  BY <1>5, <1>6, OneJobStep

(* A step that touches no store keeps their part of the invariant.          *)
LEMMA StoreSame ==
  ASSUME StoreInv, UNCHANGED <<challenge, issued, applied, consents>>
  PROVE  StoreInv' /\ Grows
BY DEF StoreInv, Grows, Bound, ConsentBehindChange, IntentBound

----------------------------------------------------------------------------
(* The first request.                                                       *)
LEMMA RequestKeepsInv ==
  ASSUME StoreInv, JobsInv, RestInv, NEW h \in Handlers,
         NEW r \in Refs \union {None}, NEW i \in Intents,
         MayCall(h), Begins(h, r, i),
         UNCHANGED <<store, backend, effective, expired, crashes>>
  PROVE  StoreInv' /\ JobsInv' /\ RestInv'
<1>1. StoreInv' /\ Grows
  BY StoreSame DEF store, backend
<1>2. RestInv'
  BY DEF RestInv, MayCall, Busy, backend
<1> DEFINE j == [IdleJob EXCEPT !.ref = r, !.intent = i,
                   !.pc = IF Disconnects(i) THEN "scope"
                          ELSE IF r = None THEN "start" ELSE "get"]
<1>3. /\ j \in Jobs /\ j.ref = r /\ j.intent = i
      /\ j.pc \in {"scope", "start", "get"}
      /\ j.pc = "get" => r # None
  BY DEF Jobs, IdleJob, Steps, Answers
<1>4. JobSound(j)'
  BY <1>3, NoneAssumption DEF JobSound, Confirming
<1>5. job' = [job EXCEPT ![h] = j]
  BY DEF Begins
<1>6. JobsInv'
  <2> HIDE DEF j
  <2> QED
    BY <1>1, <1>3, <1>4, <1>5, OneJobStep
<1> QED
  BY <1>1, <1>2, <1>6

LEMMA RestSame ==
  ASSUME RestInv, UNCHANGED <<initial, version>>, UNCHANGED others
  PROVE  RestInv'
BY DEF RestInv, others

LEMMA TakesType ==
  ASSUME RestInv, NEW i \in Intents, Fits(i), Takes(i)
  PROVE  version' \in 1..MaxVersion
BY BoundsAssumption DEF RestInv, Fits, Takes

(* Steps that read, or ask and are refused: only the handler moves on.      *)
LEMMA LocalStepsKeepInv ==
  ASSUME StoreInv, JobsInv, RestInv, NEW h \in Handlers,
         \/ Scope(h) \/ StartRefused(h) \/ Get(h) \/ List(h)
         \/ ConsentRefused(h) \/ AdvanceRead(h) \/ KeyRead(h)
         \/ CallRefused(h) \/ Unavailable(h)
  PROVE  StoreInv' /\ JobsInv' /\ RestInv'
<1>1. UNCHANGED <<store, backend, others>>
  BY DEF Scope, StartRefused, Get, List, ConsentRefused, AdvanceRead, KeyRead,
         CallRefused, Unavailable
<1>2. StoreInv' /\ Grows
  BY <1>1, StoreSame DEF store, backend
<1>3. RestInv'
  BY <1>1, RestSame DEF backend
<1>4. ASSUME Ends(h, "refused") \/ Ends(h, "retry") \/ Ends(h, "threw")
      PROVE  JobsInv'
  BY <1>2, <1>4, EndsStep DEF Answers
<1>5. ASSUME Scope(h) PROVE JobsInv'
  <2>1. CASE job[h].intent \in Taken
    BY <1>4, <1>5, <2>1 DEF Scope
  <2>2. CASE job[h].intent \notin Taken
    BY <1>2, <1>5, <2>2, GoStep DEF Scope, Busy
  <2> QED
    BY <2>1, <2>2
<1>6. ASSUME StartRefused(h) \/ ConsentRefused(h) \/ Unavailable(h) PROVE JobsInv'
  BY <1>4, <1>6 DEF StartRefused, ConsentRefused, Unavailable
<1>7. ASSUME Get(h) PROVE JobsInv'
  <2> DEFINE r == job[h].ref
             c == challenge[r]
  <2>1. r # None /\ r \in Refs
    BY <1>7, JobType DEF Get, JobSound
  <2>2. CASE Ends(h, "refused")
    BY <1>4, <2>2
  <2>3. CASE ~Ends(h, "refused")
    <3>1. /\ c # None /\ ~Terminal(c) /\ c.intent = job[h].intent
          /\ IF r \in expired THEN AdvancesTo(h, "failed")
             ELSE Go(h, IF c.state = "challenged" THEN "list" ELSE "keyRead")
      BY <1>7, <2>3 DEF Get
    <3>2. CASE r \in expired
      <4>1. AdvancesTo(h, "failed") /\ Busy(h)
        BY <1>7, <3>1, <3>2 DEF Get, Busy
      <4>2. challenge'[r] # None /\ job[h].intent = challenge'[r].intent
        BY <1>1, <3>1 DEF store
      <4> QED
        BY <1>2, <2>1, <4>1, <4>2, AdvancesStep
    <3>3. CASE r \notin expired /\ c.state = "challenged"
      <4>1. Go(h, "list") /\ Busy(h)
        BY <1>7, <3>1, <3>3 DEF Get, Busy
      <4> QED
        BY <1>2, <2>1, <3>1, <4>1, GoStep
    <3>4. CASE r \notin expired /\ c.state # "challenged"
      <4>1. Go(h, "keyRead") /\ Busy(h)
        BY <1>7, <3>1, <3>4 DEF Get, Busy
      <4>2. c.required \in consents
        <5>1. c \in Records /\ Bound(c, r)
          BY <2>1, <3>1 DEF StoreInv
        <5>2. c.state = "consented"
          BY <3>1, <3>4, <5>1 DEF Terminal, Records, States
        <5> QED
          BY <5>1, <5>2 DEF Bound
      <4> QED
        BY <1>2, <2>1, <3>1, <4>1, <4>2, GoStep
    <3> QED
      BY <3>2, <3>3, <3>4
  <2> QED
    BY <2>2, <2>3
<1>8. ASSUME List(h) PROVE JobsInv'
  <2>1. CASE Ends(h, "refused")
    BY <1>4, <2>1
  <2>2. CASE Go(h, "consent")
    <3>1. /\ Busy(h) /\ job[h].ref # None
          /\ challenge[job[h].ref] # None
          /\ job[h].intent = challenge[job[h].ref].intent
      BY <1>8, JobType DEF List, Busy, JobSound, Confirming
    <3> QED
      BY <1>2, <2>2, <3>1, GoStep
  <2> QED
    BY <1>8, <2>1, <2>2 DEF List
<1>9. ASSUME AdvanceRead(h) PROVE JobsInv'
  <2> DEFINE c == challenge[job[h].ref]
             j == [job[h] EXCEPT !.pc = "write", !.copy = c]
  <2>1. CASE Ends(h, "threw")
    BY <1>4, <2>1
  <2>2. CASE job' = [job EXCEPT ![h] = j]
    <3>1. /\ job[h].pc = "read" /\ job[h].ref \in Refs /\ c # None
          /\ job[h] \in Jobs /\ JobSound(job[h])
      BY <1>9, JobType DEF AdvanceRead, JobSound, Confirming
    <3>2. c \in Records /\ Bound(c, job[h].ref)
      BY <3>1 DEF StoreInv
    <3>3. /\ j \in Jobs /\ j.pc = "write" /\ j.copy = c /\ j.to = job[h].to
          /\ j.ref = job[h].ref /\ j.intent = job[h].intent
      BY <3>1, <3>2 DEF Jobs, Steps
    <3>4. JobSound(j)
      BY <3>1, <3>2, <3>3, NoneAssumption DEF JobSound, Confirming
    <3> QED
      <4> HIDE DEF j
      <4> QED
        BY <1>2, <2>2, <3>3, <3>4, SoundStays, OneJobStep
  <2> QED
    BY <1>9, <2>1, <2>2 DEF AdvanceRead
<1>10. ASSUME KeyRead(h) PROVE JobsInv'
  <2> DEFINE c == challenge[job[h].ref]
             j == [job[h] EXCEPT !.pc = "keyWrite", !.copy = c]
  <2>1. /\ job[h].pc = "keyRead" /\ job[h].ref \in Refs /\ c # None
        /\ job[h] \in Jobs /\ JobSound(job[h])
    BY <1>10, JobType DEF KeyRead, JobSound, Confirming
  <2>2. c \in Records /\ Bound(c, job[h].ref)
    BY <2>1 DEF StoreInv
  <2>3. /\ j \in Jobs /\ j.pc = "keyWrite" /\ j.copy = c
        /\ j.ref = job[h].ref /\ j.intent = job[h].intent
    BY <2>1, <2>2 DEF Jobs, Steps
  <2>4. JobSound(j)
    BY <2>1, <2>2, <2>3, NoneAssumption DEF JobSound, Confirming
  <2>5. job' = [job EXCEPT ![h] = j]
    BY <1>10 DEF KeyRead
  <2> QED
    <3> HIDE DEF j
    <3> QED
      BY <1>2, <2>3, <2>4, <2>5, SoundStays, OneJobStep
<1>11. ASSUME CallRefused(h) PROVE JobsInv'
  <2>1. /\ Busy(h) /\ job[h].ref # None /\ job[h].ref \in Refs
        /\ challenge[job[h].ref] # None
        /\ job[h].intent = challenge[job[h].ref].intent
    BY <1>11, JobType DEF CallRefused, Busy, JobSound, Confirming
  <2>2. AdvancesTo(h, "failed")
    BY <1>11 DEF CallRefused
  <2>3. challenge' = challenge
    BY <1>1 DEF store
  <2> QED
    BY <1>2, <2>1, <2>2, <2>3, AdvancesStep
<1> QED
  BY <1>2, <1>3, <1>5, <1>6, <1>7, <1>8, <1>9, <1>10, <1>11

----------------------------------------------------------------------------
(* Steps of the backend and of the store.                                   *)
LEMMA StartAcceptedKeepsInv ==
  ASSUME StoreInv, JobsInv, RestInv, NEW h \in Handlers, NEW lost \in BOOLEAN,
         StartAccepted(h, lost)
  PROVE  StoreInv' /\ JobsInv' /\ RestInv'
<1>1. StoreInv' /\ Grows
  BY StoreSame DEF StartAccepted, store
<1>2. JobsInv'
  BY <1>1, EndsStep DEF StartAccepted, Answers
<1>3. job[h].intent \in Intents
  BY JobType DEF StartAccepted, JobSound
<1>4. initial' \subseteq Intents /\ version' \in 1..MaxVersion
  BY <1>3, TakesType DEF StartAccepted, RestInv
<1> QED
  BY <1>1, <1>2, <1>4 DEF RestInv, StartAccepted, others

LEMMA StartChallengedKeepsInv ==
  ASSUME StoreInv, JobsInv, RestInv, NEW h \in Handlers, NEW r \in Refs,
         NEW lost \in BOOLEAN, StartChallenged(h, r, lost)
  PROVE  StoreInv' /\ JobsInv' /\ RestInv'
<1> DEFINE i == job[h].intent
           new == [intent |-> i, required |-> effective]
<1>1. job[h].pc = "start" /\ job[h] \in Jobs /\ i \in Intents
  BY JobType DEF StartChallenged, JobSound
<1>2. new \in Issues
  BY <1>1 DEF Issues, RestInv
<1>3. \/ issued[r] = None /\ issued' = [issued EXCEPT ![r] = new]
      \/ issued[r] # None /\ issued[r].intent = i /\ UNCHANGED issued
  BY DEF StartChallenged
<1>4. UNCHANGED <<challenge, applied, consents>>
  BY DEF StartChallenged, store
<1>5. /\ issued' \in [Refs -> Issues \union {None}]
      /\ issued'[r] # None /\ issued'[r].intent = i
      /\ \A s \in Refs : issued[s] # None => issued'[s] = issued[s]
  <2>1. new # None
    BY <1>2, NoneAssumption DEF Issues
  <2>2. new.intent = i
    OBVIOUS
  <2> HIDE DEF new, i
  <2> QED
    BY <1>2, <1>3, <2>1, <2>2 DEF StoreInv
<1>6. Grows
  BY <1>4, <1>5 DEF Grows
<1>7. StoreInv'
  BY <1>4, <1>5 DEF StoreInv, Bound, ConsentBehindChange, IntentBound
<1>8. RestInv'
  BY DEF StartChallenged, RestInv, others
<1>9. JobsInv'
  <2>1. CASE Ends(h, "retry") \/ Ends(h, "refused")
    BY <1>6, <2>1, EndsStep DEF Answers
  <2>2. CASE job' = [job EXCEPT ![h].pc = "open", ![h].ref = r]
    <3>1. [job[h] EXCEPT !.pc = "open", !.ref = r] \in Jobs
      BY <1>1 DEF Jobs, Steps
    <3>2. PICK j \in Jobs : j = [job[h] EXCEPT !.pc = "open", !.ref = r]
      BY <3>1
    <3>3. j.pc = "open" /\ j.ref = r /\ j.intent = i
      BY <1>1, <3>2 DEF Jobs
    <3>4. JobSound(j)'
      BY <1>1, <1>5, <3>3, NoneAssumption DEF JobSound, Confirming
    <3>5. job' = [job EXCEPT ![h] = j]
      BY <2>2, <3>2
    <3> QED
      BY <1>6, <3>4, <3>5, OneJobStep
  <2> QED
    BY <2>1, <2>2 DEF StartChallenged
<1> QED
  BY <1>7, <1>8, <1>9

(* The record a challenge opens with is the one its continuation names.     *)
LEMMA OpenKeepsInv ==
  ASSUME StoreInv, JobsInv, RestInv, NEW h \in Handlers, Open(h)
  PROVE  StoreInv' /\ JobsInv' /\ RestInv'
<1> DEFINE r == job[h].ref
           new == [state |-> "challenged", intent |-> job[h].intent,
                   required |-> issued[r].required]
<1>1. /\ r \in Refs /\ job[h].intent \in Intents
      /\ issued[r] # None /\ issued[r].intent = job[h].intent
  BY JobType DEF Open, JobSound
<1>2. issued[r] \in Issues
  BY <1>1 DEF StoreInv
<1>3. new \in Records /\ Bound(new, r)
  BY <1>1, <1>2 DEF Records, States, Issues, Bound
<1>4. /\ challenge' = [challenge EXCEPT ![r] =
                         IF challenge[r] = None THEN new ELSE challenge[r]]
      /\ UNCHANGED <<issued, applied, consents, initial, version>>
      /\ UNCHANGED others
  BY DEF Open, backend
<1>5. new # None
  BY <1>3, NoneAssumption
<1> HIDE DEF new
<1>6. Grows
  BY <1>1, <1>4 DEF Grows, StoreInv
<1>7. challenge' \in [Refs -> Records \union {None}]
  BY <1>1, <1>3, <1>4 DEF StoreInv
<1>8. \A s \in Refs : challenge'[s] # None => Bound(challenge[s], s)'
  <2> SUFFICES ASSUME NEW s \in Refs, challenge'[s] # None
               PROVE  Bound(challenge[s], s)'
    OBVIOUS
  <2>1. Bound(challenge'[s], s)
    <3>1. challenge'[s] = challenge[s] \/ (s = r /\ challenge'[s] = new)
      BY <1>1, <1>4 DEF StoreInv
    <3> QED
      BY <1>3, <3>1 DEF StoreInv
  <2> QED
    BY <1>4, <2>1 DEF Bound
<1>9. StoreInv'
  <2>1. /\ (issued \in [Refs -> Issues \union {None}])'
        /\ (applied \in [Refs -> Intents \union {None}])'
        /\ (consents \subseteq Disclosures)'
        /\ (\A s \in Refs : applied[s] # None => issued[s] # None)'
        /\ ConsentBehindChange' /\ IntentBound'
    BY <1>4 DEF StoreInv, ConsentBehindChange, IntentBound, Issues, Intents,
       Disclosures
  <2> QED
    BY <1>7, <1>8, <2>1 DEF StoreInv
<1>10. JobsInv'
  BY <1>6, EndsStep DEF Open, Answers
<1>11. RestInv'
  BY <1>4, RestSame
<1> QED
  BY <1>9, <1>10, <1>11

LEMMA ConsentRecordedKeepsInv ==
  ASSUME StoreInv, JobsInv, RestInv, NEW h \in Handlers, NEW lost \in BOOLEAN,
         ConsentRecorded(h, lost)
  PROVE  StoreInv' /\ JobsInv' /\ RestInv'
<1> DEFINE r == job[h].ref
<1>1. /\ job[h].pc = "consent" /\ r # None /\ r \in Refs
      /\ challenge[r] # None /\ job[h].intent = challenge[r].intent
  BY JobType DEF ConsentRecorded, JobSound, Confirming
<1>2. challenge[r].required \in Disclosures
  BY <1>1 DEF StoreInv, Records
<1>3. /\ UNCHANGED <<challenge, issued, applied, initial, version>>
      /\ UNCHANGED others
      /\ consents' = consents \union {challenge[r].required}
  BY DEF ConsentRecorded, store
<1>4. Grows
  BY <1>3 DEF Grows
<1>5. StoreInv'
  BY <1>2, <1>3 DEF StoreInv, Bound, ConsentBehindChange, IntentBound
<1>6. RestInv'
  BY <1>3, RestSame
<1>7. JobsInv'
  <2>1. CASE Ends(h, "retry")
    BY <1>4, <2>1, EndsStep DEF Answers
  <2>2. CASE AdvancesTo(h, "consented")
    BY <1>1, <1>3, <1>4, <2>2, AdvancesStep DEF Busy
  <2> QED
    BY <2>1, <2>2 DEF ConsentRecorded
<1> QED
  BY <1>5, <1>6, <1>7

(* Writing a bound copy back keeps the record bound.                        *)
LEMMA WriteBackKeepsStore ==
  ASSUME StoreInv, NEW r \in Refs, NEW c \in Records, Bound(c, r),
         challenge' = [challenge EXCEPT ![r] = c],
         UNCHANGED <<issued, applied, consents>>
  PROVE  StoreInv' /\ Grows
<1>1. c # None
  BY NoneAssumption
<1>2. StoreInv'
  BY <1>1 DEF StoreInv, Bound, ConsentBehindChange, IntentBound
<1>3. Grows
  BY <1>1 DEF StoreInv, Bound, Grows
<1> QED
  BY <1>2, <1>3

LEMMA AdvanceWriteKeepsInv ==
  ASSUME StoreInv, JobsInv, RestInv, NEW h \in Handlers, AdvanceWrite(h)
  PROVE  StoreInv' /\ JobsInv' /\ RestInv'
<1> DEFINE r == job[h].ref
           c == [job[h].copy EXCEPT !.state = job[h].to]
<1>1. /\ job[h].pc = "write" /\ r # None /\ r \in Refs /\ job[h] \in Jobs
      /\ challenge[r] # None /\ job[h].intent = challenge[r].intent
      /\ job[h].copy # None /\ job[h].copy \in Records
      /\ Bound(job[h].copy, r)
      /\ job[h].to \in {"consented", "confirmed", "failed"}
      /\ job[h].to # "failed" => challenge[r].required \in consents
      /\ job[h].to = "confirmed" => applied[r] # None
  BY JobType DEF AdvanceWrite, JobSound, Confirming
<1>2. Bound(challenge[r], r)
  BY <1>1 DEF StoreInv
<1>3. /\ c \in Records /\ c.state = job[h].to
      /\ c.intent = job[h].copy.intent /\ c.required = job[h].copy.required
  BY <1>1 DEF Records, States
<1>4. Bound(c, r)
  BY <1>1, <1>2, <1>3 DEF Bound
<1>5. /\ challenge' = [challenge EXCEPT ![r] = c]
      /\ UNCHANGED <<issued, applied, consents, initial, version>>
      /\ UNCHANGED others
  BY DEF AdvanceWrite, backend
<1>6. StoreInv' /\ Grows
  <2> HIDE DEF c
  <2> QED
    BY <1>1, <1>3, <1>4, <1>5, WriteBackKeepsStore
<1>7. RestInv'
  BY <1>5, RestSame
<1>8. JobsInv'
  <2>1. CASE Ends(h, "applied") \/ Ends(h, "refused")
    BY <1>6, <2>1, EndsStep DEF Answers
  <2>2. CASE /\ job[h].to = "consented"
             /\ job' = [job EXCEPT ![h].pc = "keyRead", ![h].copy = None,
                                   ![h].to = None]
    <3>1. [job[h] EXCEPT !.pc = "keyRead", !.copy = None, !.to = None] \in Jobs
      BY <1>1 DEF Jobs, Steps
    <3>2. PICK j \in Jobs :
            j = [job[h] EXCEPT !.pc = "keyRead", !.copy = None, !.to = None]
      BY <3>1
    <3>3. j.pc = "keyRead" /\ j.ref = r /\ j.intent = job[h].intent
      BY <1>1, <3>2 DEF Jobs
    <3>4. JobSound(j)
      <4>1. job[h].intent # None
        BY <1>1, JobType DEF JobSound
      <4> QED
        BY <1>1, <2>2, <3>3, <4>1 DEF JobSound, Confirming
    <3>5. job' = [job EXCEPT ![h] = j]
      BY <2>2, <3>2
    <3> QED
      BY <1>6, <3>4, <3>5, SoundStays, OneJobStep
  <2> QED
    BY <1>1, <2>1, <2>2 DEF AdvanceWrite
<1> QED
  BY <1>6, <1>7, <1>8

LEMMA KeyWriteKeepsInv ==
  ASSUME StoreInv, JobsInv, RestInv, NEW h \in Handlers, KeyWrite(h)
  PROVE  StoreInv' /\ JobsInv' /\ RestInv'
<1> DEFINE r == job[h].ref
<1>1. /\ job[h].pc = "keyWrite" /\ r # None /\ r \in Refs /\ job[h] \in Jobs
      /\ job[h].copy \in Records /\ Bound(job[h].copy, r)
      /\ JobSound(job[h])
  <2>1. job[h].pc = "keyWrite" /\ job[h] \in Jobs /\ JobSound(job[h])
    BY JobType DEF KeyWrite, JobsInv
  <2>2. r # None /\ job[h].copy # None /\ Bound(job[h].copy, r)
    BY <2>1 DEF JobSound, Confirming
  <2>3. r \in Refs /\ job[h].copy \in Records
    BY <2>1, <2>2 DEF Jobs
  <2> QED
    BY <2>1, <2>2, <2>3
<1>2. /\ challenge' = [challenge EXCEPT ![r] = job[h].copy]
      /\ UNCHANGED <<issued, applied, consents, initial, version>>
      /\ UNCHANGED others
  BY DEF KeyWrite, backend
<1>3. StoreInv' /\ Grows
  BY <1>1, <1>2, WriteBackKeepsStore
<1>4. RestInv'
  BY <1>2, RestSame
<1>5. [job[h] EXCEPT !.pc = "call", !.copy = None] \in Jobs
  BY <1>1 DEF Jobs, Steps
<1>6. PICK j \in Jobs : j = [job[h] EXCEPT !.pc = "call", !.copy = None]
  BY <1>5
<1>7. j.pc = "call" /\ j.ref = r /\ j.intent = job[h].intent
  BY <1>1, <1>6 DEF Jobs
<1>8. JobSound(j)
  BY <1>1, <1>7 DEF JobSound, Confirming
<1>9. job' = [job EXCEPT ![h] = j]
  BY <1>6 DEF KeyWrite
<1>10. JobsInv'
  BY <1>3, <1>8, <1>9, SoundStays, OneJobStep
<1> QED
  BY <1>3, <1>4, <1>10

(* The backend makes the change: the one challenged, with consent behind it. *)
LEMMA CallAcceptedKeepsInv ==
  ASSUME StoreInv, JobsInv, RestInv, NEW h \in Handlers, NEW lost \in BOOLEAN,
         CallAccepted(h, lost)
  PROVE  StoreInv' /\ JobsInv' /\ RestInv'
<1> DEFINE r == job[h].ref
           i == job[h].intent
<1>1. /\ job[h].pc = "call" /\ r # None /\ r \in Refs /\ i \in Intents
      /\ challenge[r] # None /\ i = challenge[r].intent
      /\ challenge[r].required \in consents
  BY JobType DEF CallAccepted, JobSound, Confirming
<1>2. /\ issued[r] # None
      /\ i = issued[r].intent /\ issued[r].required \in consents
  BY <1>1 DEF StoreInv, Bound
<1>3. /\ UNCHANGED <<challenge, issued, consents, initial>>
      /\ UNCHANGED others
      /\ \/ applied[r] # None /\ UNCHANGED <<applied, version>>
         \/ /\ Fits(i) /\ Takes(i)
            /\ applied[r] = None /\ applied' = [applied EXCEPT ![r] = i]
  BY DEF CallAccepted, store, KeyKnown
<1>4. i # None
  BY <1>1, NoneAssumption
<1>5. Grows /\ applied'[r] # None
  BY <1>1, <1>3, <1>4 DEF Grows, StoreInv
<1>6. StoreInv'
  BY <1>1, <1>2, <1>3 DEF StoreInv, Bound, ConsentBehindChange, IntentBound
<1>7. RestInv'
  BY <1>1, <1>3, TakesType DEF RestInv, others
<1>8. JobsInv'
  <2>1. CASE Ends(h, "retry")
    BY <1>5, <2>1, EndsStep DEF Answers
  <2>2. CASE AdvancesTo(h, "confirmed")
    BY <1>1, <1>3, <1>5, <2>2, AdvancesStep DEF Busy
  <2> QED
    BY <2>1, <2>2 DEF CallAccepted
<1> QED
  BY <1>6, <1>7, <1>8

(* What happens outside the requests, and a request that dies.              *)
LEMMA WorldKeepsInv ==
  ASSUME StoreInv, JobsInv, RestInv,
         \/ \E h \in Handlers : Crash(h)
         \/ \E r \in Refs : Expire(r)
         \/ Publish
         \/ UNCHANGED vars
  PROVE  StoreInv' /\ JobsInv' /\ RestInv'
<1>1. StoreInv' /\ Grows
  BY StoreSame DEF Crash, Expire, Publish, vars, store, backend
<1>2. RestInv'
  BY BoundsAssumption DEF RestInv, Crash, Expire, Publish, vars, backend, Disclosures
<1>3. ASSUME NEW h \in Handlers, Crash(h) PROVE JobsInv'
  <2>1. IdleJob \in Jobs /\ IdleJob.pc = "idle"
    BY DEF IdleJob, Jobs, Steps, Answers
  <2>2. JobSound(IdleJob)
    BY <2>1 DEF JobSound, Confirming
  <2> QED
    BY <1>1, <1>3, <2>1, <2>2, SoundStays, OneJobStep DEF Crash
<1>4. ASSUME UNCHANGED job PROVE JobsInv'
  <2>1. ASSUME NEW h \in Handlers PROVE JobSound(job[h])'
    <3>1. PICK j \in Jobs : j = job[h] /\ JobSound(j)
      BY JobType
    <3> QED
      BY <1>1, <1>4, <3>1, SoundStays DEF JobSound, Bound
  <2> QED
    BY <1>4, <2>1 DEF JobsInv
<1> QED
  BY <1>1, <1>2, <1>3, <1>4 DEF Expire, Publish, vars

----------------------------------------------------------------------------
(* The invariant, for every number of requests and continuations.           *)
THEOREM Invariance == Spec => []ChallengeInv
<1>1. Init => ChallengeInv
  <2> SUFFICES ASSUME Init PROVE ChallengeInv
    OBVIOUS
  <2>1. IdleJob \in Jobs /\ IdleJob.pc = "idle"
    BY DEF IdleJob, Jobs, Steps, Answers
  <2>2. JobSound(IdleJob)
    BY <2>1 DEF JobSound, Confirming
  <2>3. JobsInv
    BY <2>1, <2>2 DEF Init, JobsInv
  <2>4. StoreInv
    BY DEF Init, StoreInv, ConsentBehindChange, IntentBound
  <2>5. RestInv
    <3>1. 1 \in 1..MaxVersion /\ 1 \in 1..MaxDisclosure /\ 0 \in 0..MaxCrashes
      BY BoundsAssumption
    <3> QED
      BY <3>1 DEF Init, RestInv, Disclosures
  <2> QED
    BY <2>3, <2>4, <2>5, InvParts
<1>2. ChallengeInv /\ [Next]_vars => ChallengeInv'
  <2> SUFFICES ASSUME ChallengeInv, [Next]_vars
               PROVE  StoreInv' /\ JobsInv' /\ RestInv'
    BY InvParts DEF ChallengeInv, StoreInv, JobsInv, RestInv, TypeOK, Issues
  <2>1. StoreInv /\ JobsInv /\ RestInv
    BY InvParts
  <2>2. ASSUME NEW h \in Handlers, Works(h)
        PROVE  StoreInv' /\ JobsInv' /\ RestInv'
    BY <2>1, <2>2, LocalStepsKeepInv, StartAcceptedKeepsInv,
       StartChallengedKeepsInv, OpenKeepsInv, ConsentRecordedKeepsInv,
       AdvanceWriteKeepsInv, KeyWriteKeepsInv, CallAcceptedKeepsInv DEF Works
  <2>3. ASSUME NEW h \in Handlers, NEW i \in Intents,
               Start(h, i) \/ \E r \in Refs : Confirm(h, r, i)
        PROVE  StoreInv' /\ JobsInv' /\ RestInv'
    BY <2>1, <2>3, RequestKeepsInv DEF Start, Confirm
  <2> QED
    BY <2>1, <2>2, <2>3, WorldKeepsInv DEF Next
<1> QED
  BY <1>1, <1>2, PTL DEF Spec

(* The change made is the change challenged.                                *)
THEOREM ChangeIsBound == Spec => []IntentBound
<1>1. ChallengeInv => IntentBound
  BY DEF ChallengeInv
<1> QED
  BY <1>1, Invariance, PTL

(* Every change made on a confirmation has its consent.                     *)
THEOREM ChangeHasConsent == Spec => []ConsentBehindChange
<1>1. ChallengeInv => ConsentBehindChange
  BY DEF ChallengeInv
<1> QED
  BY <1>1, Invariance, PTL

(* A record says confirmed only of a change that was made.                  *)
THEOREM ConfirmationIsReal == Spec => []ConfirmedIsApplied
<1>1. ChallengeInv => ConfirmedIsApplied
  BY DEF ChallengeInv, ConfirmedIsApplied, Bound
<1> QED
  BY <1>1, Invariance, PTL

----------------------------------------------------------------------------
(* One request at a time.                                                   *)

(* What the ways of going on leave in the handler.                          *)
LEMMA EndsAt ==
  ASSUME JobsInv, NEW h \in Handlers, NEW a, Ends(h, a)
  PROVE  job'[h].pc = "idle" /\ job'[h].answer = a
BY DEF Ends, IdleJob, JobsInv

LEMMA GoAt ==
  ASSUME JobsInv, NEW h \in Handlers, NEW pc, Go(h, pc)
  PROVE  /\ job'[h].pc = pc /\ job'[h].ref = job[h].ref
         /\ job'[h].intent = job[h].intent
BY JobType DEF Go, JobsInv, Jobs

LEMMA AdvancesAt ==
  ASSUME JobsInv, NEW h \in Handlers, NEW s, AdvancesTo(h, s)
  PROVE  job'[h].pc = "read" /\ job'[h].to = s /\ job'[h].ref = job[h].ref
BY JobType DEF AdvancesTo, JobsInv, Jobs

(* A handler at rest, or before its challenge, has nothing to know.         *)
LEMMA AloneAtRest ==
  ASSUME NEW h \in Handlers, job'[h].pc \in {"idle", "get", "open"}
  PROVE  Alone(job[h])'
BY DEF Alone

LEMMA KeptSame ==
  ASSUME Kept, UNCHANGED <<challenge, applied>>, expired \subseteq expired'
  PROVE  Kept'
BY DEF Kept

LEMMA FirstRequestAlone ==
  ASSUME JobsInv, StoreInv, NEW h \in Handlers, Alone(job[h]), Kept,
         \/ Scope(h) \/ StartRefused(h) \/ Open(h)
         \/ \E lost \in BOOLEAN : \/ StartAccepted(h, lost)
                                  \/ \E r \in Refs : StartChallenged(h, r, lost)
  PROVE  Alone(job[h])' /\ Kept'
<1>1. job[h] \in Jobs /\ job \in [Handlers -> Jobs] /\ JobSound(job[h])
  BY JobType DEF JobsInv
<1>2. CASE Scope(h)
  <2>1. UNCHANGED <<challenge, applied, expired>>
    BY <1>2 DEF Scope, store, backend, others
  <2>2. CASE Ends(h, "refused")
    BY <2>1, <2>2, EndsAt, AloneAtRest, KeptSame
  <2>3. CASE Go(h, "start") /\ job[h].ref = None
    BY <2>1, <2>3, GoAt, KeptSame DEF Alone
  <2>4. CASE Go(h, "get")
    BY <2>1, <2>4, GoAt, AloneAtRest, KeptSame
  <2> QED
    BY <1>2, <2>2, <2>3, <2>4 DEF Scope
<1>3. CASE StartRefused(h) \/ \E lost \in BOOLEAN : StartAccepted(h, lost)
  <2>1. UNCHANGED <<challenge, applied, expired>>
    BY <1>3 DEF StartRefused, StartAccepted, store, backend, others
  <2>2. job'[h].pc = "idle"
    BY <1>3, EndsAt DEF StartRefused, StartAccepted
  <2> QED
    BY <2>1, <2>2, AloneAtRest, KeptSame
<1>4. ASSUME NEW lost \in BOOLEAN, NEW r \in Refs, StartChallenged(h, r, lost)
      PROVE  Alone(job[h])' /\ Kept'
  <2>1. UNCHANGED <<challenge, applied, expired>>
    BY <1>4 DEF StartChallenged, store, others
  <2>2. job'[h].pc \in {"idle", "open"}
    <3>1. job' = [job EXCEPT ![h].pc = "open", ![h].ref = r] => job'[h].pc = "open"
      BY <1>1 DEF Jobs
    <3> QED
      BY <1>4, <3>1, EndsAt DEF StartChallenged
  <2> QED
    BY <2>1, <2>2, AloneAtRest, KeptSame
<1>5. CASE Open(h)
  <2>1. /\ UNCHANGED <<applied, expired>>
        /\ \A r \in Refs : challenge[r] # None => challenge'[r] = challenge[r]
    BY <1>5 DEF Open, backend, others, StoreInv
  <2>2. Kept'
    BY <2>1 DEF Kept
  <2> QED
    BY <1>5, <2>2, EndsAt, AloneAtRest DEF Open
<1> QED
  BY <1>2, <1>3, <1>4, <1>5

(* The confirmation up to the consent.                                      *)
LEMMA ConsentAlone ==
  ASSUME JobsInv, StoreInv, NEW h \in Handlers, Alone(job[h]), Kept,
         \/ Get(h) \/ List(h) \/ ConsentRefused(h) \/ Unavailable(h)
         \/ \E lost \in BOOLEAN : ConsentRecorded(h, lost)
  PROVE  Alone(job[h])' /\ Kept'
<1>1. job[h] \in Jobs /\ job \in [Handlers -> Jobs] /\ JobSound(job[h])
  BY JobType DEF JobsInv
<1>2. UNCHANGED <<challenge, applied, expired>>
  BY DEF Get, List, ConsentRefused, Unavailable, ConsentRecorded, store,
     backend, others
<1>3. Kept'
  BY <1>2, KeptSame
<1>4. CASE Get(h)
  <2>1. job[h].ref \in Refs
    BY <1>1, <1>4, JobType DEF Get, JobSound
  <2>2. CASE Ends(h, "refused")
    BY <1>3, <2>2, EndsAt, AloneAtRest
  <2>3. CASE job[h].ref \in expired /\ AdvancesTo(h, "failed")
    BY <1>2, <1>3, <2>3, AdvancesAt DEF Alone
  <2>4. CASE /\ challenge[job[h].ref] # None /\ ~Terminal(challenge[job[h].ref])
             /\ Go(h, IF challenge[job[h].ref].state = "challenged" THEN "list"
                      ELSE "keyRead")
    <3>1. challenge[job[h].ref].state \in {"challenged", "consented"}
      BY <2>1, <2>4 DEF StoreInv, Records, States, Terminal
    <3> QED
      BY <1>2, <1>3, <2>4, <3>1, GoAt DEF Alone
  <2> QED
    BY <1>4, <2>2, <2>3, <2>4 DEF Get
<1>5. CASE List(h)
  <2>1. job[h].pc = "list" /\ (Go(h, "consent") \/ Ends(h, "refused"))
    BY <1>5 DEF List
  <2>2. CASE Go(h, "consent")
    BY <1>2, <1>3, <2>1, <2>2, GoAt DEF Alone
  <2> QED
    BY <1>3, <2>1, <2>2, EndsAt, AloneAtRest
<1>6. CASE ConsentRefused(h) \/ Unavailable(h)
  BY <1>3, <1>6, EndsAt, AloneAtRest DEF ConsentRefused, Unavailable
<1>7. ASSUME NEW lost \in BOOLEAN, ConsentRecorded(h, lost)
      PROVE  Alone(job[h])' /\ Kept'
  <2>1. job[h].pc = "consent" /\ (AdvancesTo(h, "consented") \/ Ends(h, "retry"))
    BY <1>7 DEF ConsentRecorded
  <2>2. CASE AdvancesTo(h, "consented")
    BY <1>2, <1>3, <2>1, <2>2, AdvancesAt DEF Alone
  <2> QED
    BY <1>3, <2>1, <2>2, EndsAt, AloneAtRest
<1> QED
  BY <1>4, <1>5, <1>6, <1>7

(* The writes: the record that is read is the record that is replaced.      *)
LEMMA WritesAlone ==
  ASSUME JobsInv, StoreInv, NEW h \in Handlers, Alone(job[h]), Kept,
         AdvanceRead(h) \/ AdvanceWrite(h) \/ KeyRead(h) \/ KeyWrite(h)
  PROVE  Alone(job[h])' /\ Kept'
<1>1. /\ job[h] \in Jobs /\ job \in [Handlers -> Jobs] /\ JobSound(job[h])
      /\ job[h].ref \in Refs /\ challenge[job[h].ref] # None
  BY JobType DEF JobsInv, AdvanceRead, AdvanceWrite, KeyRead, KeyWrite, JobSound,
     Confirming
<1>2. UNCHANGED <<applied, expired>>
  BY DEF AdvanceRead, AdvanceWrite, KeyRead, KeyWrite, backend, others
<1>3. CASE AdvanceRead(h)
  <2>1. challenge' = challenge /\ Kept'
    BY <1>2, <1>3, KeptSame DEF AdvanceRead, store
  <2>2. CASE Ends(h, "threw")
    BY <2>1, <2>2, EndsAt, AloneAtRest
  <2>3. CASE job' = [job EXCEPT ![h].pc = "write",
                                ![h].copy = challenge[job[h].ref]]
    <3>1. /\ job'[h].pc = "write" /\ job'[h].copy = challenge[job[h].ref]
          /\ job'[h].ref = job[h].ref /\ job'[h].to = job[h].to
      BY <1>1, <2>3 DEF Jobs
    <3> QED
      BY <1>2, <1>3, <2>1, <3>1 DEF Alone, AdvanceRead
  <2> QED
    BY <1>3, <2>2, <2>3 DEF AdvanceRead
<1>4. CASE AdvanceWrite(h)
  <2> DEFINE c == [job[h].copy EXCEPT !.state = job[h].to]
  <2>1. /\ job[h].pc = "write" /\ job[h].to \in {"consented", "confirmed", "failed"}
        /\ job[h].copy = challenge[job[h].ref] /\ job[h].copy \in Records
    BY <1>1, <1>4, JobType DEF AdvanceWrite, JobSound, Alone
  <2>2. c.state = job[h].to /\ c \in Records
    BY <2>1 DEF Records, States
  <2>3. challenge' = [challenge EXCEPT ![job[h].ref] = c]
    BY <1>4 DEF AdvanceWrite
  <2> HIDE DEF c
  <2>4. /\ challenge'[job[h].ref] = c /\ c # None
        /\ \A r \in Refs : r # job[h].ref => challenge'[r] = challenge[r]
    BY <1>1, <2>2, <2>3, NoneAssumption DEF StoreInv
  <2>5. Kept'
    BY <1>1, <1>2, <2>1, <2>2, <2>4 DEF Kept, Alone
  <2>6. CASE job[h].to = "consented"
    <3>1. job'[h].pc = "keyRead" /\ job'[h].ref = job[h].ref
      BY <1>1, <1>4, <2>6 DEF AdvanceWrite, Jobs
    <3> QED
      BY <2>2, <2>4, <2>5, <2>6, <3>1 DEF Alone
  <2>7. CASE job[h].to # "consented"
    BY <1>4, <2>1, <2>5, <2>7, EndsAt, AloneAtRest DEF AdvanceWrite
  <2> QED
    BY <2>6, <2>7
<1>5. CASE KeyRead(h)
  <2>1. challenge' = challenge /\ Kept'
    BY <1>2, <1>5, KeptSame DEF KeyRead, store
  <2>2. /\ job'[h].pc = "keyWrite" /\ job'[h].copy = challenge[job[h].ref]
        /\ job'[h].ref = job[h].ref /\ job[h].pc = "keyRead"
    BY <1>1, <1>5 DEF KeyRead, Jobs
  <2> QED
    BY <2>1, <2>2 DEF Alone
<1>6. CASE KeyWrite(h)
  <2>1. job[h].pc = "keyWrite" /\ job[h].copy = challenge[job[h].ref]
    BY <1>6 DEF KeyWrite, Alone
  <2>2. challenge' = challenge
    BY <1>1, <1>6, <2>1 DEF KeyWrite, StoreInv
  <2>3. job'[h].pc = "call" /\ job'[h].ref = job[h].ref
    BY <1>1, <1>6 DEF KeyWrite, Jobs
  <2> QED
    BY <1>2, <2>1, <2>2, <2>3, KeptSame DEF Alone
<1> QED
  BY <1>3, <1>4, <1>5, <1>6

(* The call: a change is made on a challenge that is consented.             *)
LEMMA CallAlone ==
  ASSUME JobsInv, StoreInv, NEW h \in Handlers, Alone(job[h]), Kept,
         CallRefused(h) \/ \E lost \in BOOLEAN : CallAccepted(h, lost)
  PROVE  Alone(job[h])' /\ Kept'
<1>1. /\ job[h] \in Jobs /\ job \in [Handlers -> Jobs]
      /\ job[h].ref \in Refs /\ challenge[job[h].ref] # None
      /\ challenge[job[h].ref].state = "consented"
  BY JobType DEF JobsInv, CallRefused, CallAccepted, JobSound, Confirming, Alone
<1>2. UNCHANGED <<challenge, expired>>
  BY DEF CallRefused, CallAccepted, store, backend, others
<1>3. CASE CallRefused(h)
  <2>1. applied' = applied /\ applied[job[h].ref] = None /\ AdvancesTo(h, "failed")
    BY <1>3 DEF CallRefused, KeyKnown, backend
  <2> QED
    BY <1>2, <2>1, KeptSame, AdvancesAt DEF Alone
<1>4. ASSUME NEW lost \in BOOLEAN, CallAccepted(h, lost)
      PROVE  Alone(job[h])' /\ Kept'
  <2>1. \A r \in Refs : r # job[h].ref => applied'[r] = applied[r]
    BY <1>1, <1>4 DEF CallAccepted, StoreInv
  <2>2. Kept'
    BY <1>1, <1>2, <2>1 DEF Kept
  <2>3. AdvancesTo(h, "confirmed") \/ Ends(h, "retry")
    BY <1>4 DEF CallAccepted
  <2> QED
    BY <1>1, <1>2, <2>2, <2>3, EndsAt, AloneAtRest, AdvancesAt DEF Alone
<1> QED
  BY <1>3, <1>4

LEMMA WorksAlone ==
  ASSUME JobsInv, StoreInv, NEW h \in Handlers, Alone(job[h]), Kept, Works(h)
  PROVE  Alone(job[h])' /\ Kept'
BY FirstRequestAlone, ConsentAlone, WritesAlone, CallAlone DEF Works

(* A step of one request is its own.                                        *)
LEMMA WorksIsOwn ==
  ASSUME JobsInv, NEW h \in Handlers, Works(h)
  PROVE  /\ Busy(h) /\ UNCHANGED <<overlapped, crashes>>
         /\ \A g \in Handlers : g # h => job'[g] = job[g]
<1>1. Busy(h) /\ UNCHANGED <<overlapped, crashes>>
  BY DEF Works, Busy, others, Scope, StartRefused, Open, StartAccepted,
     ConsentRecorded, CallAccepted, StartChallenged, Get, List, ConsentRefused,
     AdvanceRead, AdvanceWrite, KeyRead, KeyWrite, CallRefused, Unavailable
<1>2. \/ \E a \in Answers : Ends(h, a)
      \/ \E pc \in Steps : Go(h, pc)
      \/ \E s \in States : AdvancesTo(h, s)
      \/ \E r \in Refs : job' = [job EXCEPT ![h].pc = "open", ![h].ref = r]
      \/ job' = [job EXCEPT ![h].pc = "write", ![h].copy = challenge[job[h].ref]]
      \/ job' = [job EXCEPT ![h].pc = "keyRead", ![h].copy = None, ![h].to = None]
      \/ job' = [job EXCEPT ![h].pc = "keyWrite", ![h].copy = challenge[job[h].ref]]
      \/ job' = [job EXCEPT ![h].pc = "call", ![h].copy = None]
  <2>1. CASE Scope(h)
    BY <2>1 DEF Scope, Answers, Steps
  <2>2. CASE StartRefused(h) \/ Open(h) \/ ConsentRefused(h) \/ Unavailable(h)
    BY <2>2 DEF StartRefused, Open, ConsentRefused, Unavailable, Answers
  <2>3. ASSUME NEW lost \in BOOLEAN, StartAccepted(h, lost)
        PROVE  \E a \in Answers : Ends(h, a)
    BY <2>3 DEF StartAccepted, Answers
  <2>4. ASSUME NEW lost \in BOOLEAN, ConsentRecorded(h, lost) \/ CallAccepted(h, lost)
        PROVE  (\E a \in Answers : Ends(h, a)) \/ (\E s \in States : AdvancesTo(h, s))
    BY <2>4 DEF ConsentRecorded, CallAccepted, Answers, States
  <2>5. ASSUME NEW lost \in BOOLEAN, NEW r \in Refs, StartChallenged(h, r, lost)
        PROVE  \/ \E a \in Answers : Ends(h, a)
               \/ job' = [job EXCEPT ![h].pc = "open", ![h].ref = r]
    BY <2>5 DEF StartChallenged, Answers
  <2>6. CASE Get(h)
    BY <2>6 DEF Get, Answers, Steps, States
  <2>7. CASE List(h)
    BY <2>7 DEF List, Answers, Steps
  <2>8. CASE AdvanceRead(h) \/ AdvanceWrite(h)
    <3>1. AdvanceWrite(h) => job[h].to \in {"consented", "confirmed", "failed"}
      BY JobType DEF AdvanceWrite, JobSound
    <3> QED
      BY <2>8, <3>1 DEF AdvanceRead, AdvanceWrite, Answers
  <2>9. CASE KeyRead(h) \/ KeyWrite(h) \/ CallRefused(h)
    BY <2>9 DEF KeyRead, KeyWrite, CallRefused, States
  <2> QED
    BY <2>1, <2>2, <2>3, <2>4, <2>5, <2>6, <2>7, <2>8, <2>9 DEF Works
<1>3. \E j : job' = [job EXCEPT ![h] = j]
  <2>1. ASSUME NEW a, Ends(h, a) PROVE \E j : job' = [job EXCEPT ![h] = j]
    BY <2>1 DEF Ends
  <2> QED
    BY <1>2, <2>1 DEF Go, AdvancesTo
<1> QED
  BY <1>1, <1>3 DEF JobsInv

(* A request that is received when no other is under way is alone.          *)
LEMMA RequestIsOwn ==
  ASSUME JobsInv, NEW h \in Handlers, NEW r \in Refs \union {None},
         NEW i \in Intents, MayCall(h), Begins(h, r, i), ~overlapped'
  PROVE  /\ ~overlapped
         /\ \A g \in Handlers : ~Busy(g)
         /\ \A g \in Handlers : g # h => job'[g] = job[g]
         /\ job'[h].pc \in {"scope", "start", "get"} /\ job'[h].ref = r
         /\ job'[h].intent = i
         /\ job'[h].pc = "scope" => Disconnects(i)
         /\ job'[h].pc = "start" => r = None
BY DEF JobsInv, MayCall, Begins, Busy, IdleJob

LEMMA SerialKeeps ==
  ASSUME StoreInv, JobsInv, RestInv, SerialInv, [Next]_vars
  PROVE  SerialInv'
<1> SUFFICES ASSUME ~overlapped'
             PROVE  /\ \A g, h \in Handlers : Busy(g)' /\ Busy(h)' => g = h
                    /\ \A h \in Handlers : Alone(job[h])'
                    /\ Kept'
  BY DEF SerialInv, Busy
<1> DEFINE OneBusy == \A g, h \in Handlers : Busy(g) /\ Busy(h) => g = h
<1>1. ASSUME NEW h \in Handlers, Works(h)
      PROVE  OneBusy' /\ (\A g \in Handlers : Alone(job[g])') /\ Kept'
  <2>1. /\ Busy(h) /\ ~overlapped
        /\ \A g \in Handlers : g # h => job'[g] = job[g]
    BY <1>1, WorksIsOwn
  <2>2. OneBusy /\ Alone(job[h]) /\ Kept
    BY <2>1 DEF SerialInv
  <2>3. Alone(job[h])' /\ Kept'
    BY <1>1, <2>2, WorksAlone
  <2>4. \A g \in Handlers : g # h => job'[g].pc = "idle"
    BY <2>1, <2>2 DEF Busy
  <2> QED
    BY <2>3, <2>4, AloneAtRest DEF Busy
<1>2. ASSUME NEW h \in Handlers, NEW r \in Refs \union {None}, NEW i \in Intents,
             MayCall(h), Begins(h, r, i),
             UNCHANGED <<store, backend, effective, expired, crashes>>
      PROVE  OneBusy' /\ (\A g \in Handlers : Alone(job[g])') /\ Kept'
  <2>1. /\ ~overlapped
        /\ \A g \in Handlers : ~Busy(g)
        /\ \A g \in Handlers : g # h => job'[g] = job[g]
        /\ job'[h].pc \in {"scope", "start", "get"} /\ job'[h].ref = r
        /\ job'[h].intent = i
        /\ job'[h].pc = "scope" => Disconnects(i)
        /\ job'[h].pc = "start" => r = None
    BY <1>2, RequestIsOwn
  <2>2. Alone(job[h])'
    BY <2>1 DEF Alone
  <2>3. \A g \in Handlers : g # h => job'[g].pc = "idle"
    BY <2>1 DEF Busy
  <2>4. Kept'
    BY <1>2, <2>1, KeptSame DEF SerialInv, store, backend
  <2> QED
    BY <2>2, <2>3, <2>4, AloneAtRest DEF Busy
<1>3. ASSUME NEW h \in Handlers, Crash(h)
      PROVE  OneBusy' /\ (\A g \in Handlers : Alone(job[g])') /\ Kept'
  <2>1. UNCHANGED <<challenge, applied, expired, overlapped>>
    BY <1>3 DEF Crash, store, backend
  <2>2. /\ job'[h].pc = "idle"
        /\ \A g \in Handlers : g # h => job'[g] = job[g]
    BY <1>3 DEF Crash, IdleJob, JobsInv
  <2>3. \A g \in Handlers : g # h => Alone(job[g])'
    BY <2>1, <2>2 DEF SerialInv, Alone
  <2> QED
    BY <2>1, <2>2, <2>3, AloneAtRest, KeptSame DEF SerialInv, Busy
<1>4. ASSUME UNCHANGED <<challenge, applied, job, overlapped>>,
             expired \subseteq expired'
      PROVE  OneBusy' /\ (\A g \in Handlers : Alone(job[g])') /\ Kept'
  BY <1>4, KeptSame DEF SerialInv, Alone, Busy
<1> QED
  BY <1>1, <1>2, <1>3, <1>4
     DEF Next, Start, Confirm, Expire, Publish, vars, store, backend

(* With requests one at a time a handler knows its challenge.               *)
THEOREM Serial == Spec => []SerialInv
<1>1. Init => SerialInv
  BY DEF Init, SerialInv, Busy, Alone, Kept, IdleJob
<1>2. ChallengeInv /\ SerialInv /\ [Next]_vars => SerialInv'
  BY InvParts, SerialKeeps
<1> QED
  BY <1>1, <1>2, Invariance, PTL DEF Spec

(* A challenge that failed over a change that was made had run out.         *)
THEOREM FailureIsReal == Spec => []FailedNotApplied
<1>1. SerialInv => FailedNotApplied
  BY DEF SerialInv, Kept, FailedNotApplied
<1> QED
  BY <1>1, Serial, PTL

----------------------------------------------------------------------------
(* The confirmation of a change that was made, repeated.                    *)
Repeats(h) ==
  /\ Busy(h) /\ ~overlapped
  /\ job[h].ref # None /\ job[h].pc # "open"
  /\ job[h].intent = applied[job[h].ref] /\ ~Disconnects(applied[job[h].ref])
  /\ job[h].ref \notin expired /\ challenge[job[h].ref].state # "confirmed"

(* It finds the challenge consented, and is past scope check and consent.   *)
LEMMA RepeatFinds ==
  ASSUME StoreInv, JobsInv, SerialInv, NEW h \in Handlers, Repeats(h)
  PROVE  /\ job[h].ref \in Refs
         /\ challenge[job[h].ref] \in Records
         /\ challenge[job[h].ref].state = "consented"
         /\ challenge[job[h].ref].intent = job[h].intent
         /\ applied[job[h].ref] # None
         /\ job[h].pc \in {"get", "read", "write", "keyRead", "keyWrite", "call"}
         /\ job[h].pc \in {"read", "write"} => job[h].to = "confirmed"
<1> DEFINE r == job[h].ref
<1>1. r \in Refs /\ job[h] \in Jobs /\ job[h].intent # None
  BY JobType DEF Repeats, Busy, JobSound
<1>2. applied[r] # None /\ Alone(job[h]) /\ Kept
  BY <1>1 DEF Repeats, SerialInv
<1>3. /\ challenge[r] \in Records /\ challenge[r].state = "consented"
      /\ Bound(challenge[r], r) /\ applied[r] = issued[r].intent
  BY <1>1, <1>2 DEF Repeats, Kept, StoreInv, Records, States, IntentBound
<1>4. challenge[r].intent = job[h].intent
  BY <1>3 DEF Bound, Repeats
<1>5. job[h].pc \in {"get", "read", "write", "keyRead", "keyWrite", "call"}
  BY <1>1, <1>2, <1>3 DEF Alone, Repeats, Busy, Jobs, Steps
<1>6. job[h].pc \in {"read", "write"} => job[h].to = "confirmed"
  BY <1>1, <1>2, <1>3, JobType DEF Alone, Repeats, JobSound
<1> QED
  BY <1>1, <1>2, <1>3, <1>4, <1>5, <1>6

(* Its own steps end with the result, or with an answer to repeat on.       *)
LEMMA RepeatEnds ==
  ASSUME StoreInv, JobsInv, SerialInv, NEW h \in Handlers, Repeats(h),
         Works(h), job'[h].pc = "idle"
  PROVE  job'[h].answer \in {"applied", "retry"}
<1> DEFINE r == job[h].ref
<1>1. /\ challenge[r] \in Records /\ challenge[r] # None
      /\ challenge[r].state = "consented"
      /\ challenge[r].intent = job[h].intent
      /\ applied[r] # None /\ r \notin expired
      /\ job[h].pc \in {"get", "read", "write", "keyRead", "keyWrite", "call"}
      /\ job[h].pc \in {"read", "write"} => job[h].to = "confirmed"
  BY RepeatFinds, NoneAssumption DEF Repeats
<1>2. job[h] \in Jobs /\ job \in [Handlers -> Jobs]
  BY JobType DEF JobsInv
<1>3. ~Get(h)
  <2>1. Get(h) => Go(h, "keyRead")
    BY <1>1 DEF Get, Terminal
  <2> QED
    BY <2>1, GoAt
<1>4. ~AdvanceRead(h)
  <2>1. AdvanceRead(h) => job' = [job EXCEPT ![h].pc = "write",
                                             ![h].copy = challenge[r]]
    BY <1>1 DEF AdvanceRead, Follows
  <2> QED
    BY <1>2, <2>1 DEF Jobs
<1>5. AdvanceWrite(h) => job'[h].answer = "applied"
  BY <1>1, EndsAt DEF AdvanceWrite
<1>6. ~KeyRead(h) /\ ~KeyWrite(h)
  BY <1>2 DEF KeyRead, KeyWrite, Jobs
<1>7. ~CallRefused(h)
  BY <1>1 DEF CallRefused, KeyKnown
<1>8. \A lost \in BOOLEAN : CallAccepted(h, lost) => job'[h].answer = "retry"
  BY AdvancesAt, EndsAt DEF CallAccepted
<1>9. Unavailable(h) => job'[h].answer = "retry"
  BY EndsAt DEF Unavailable
<1> QED
  BY <1>1, <1>3, <1>4, <1>5, <1>6, <1>7, <1>8, <1>9
     DEF Works, Scope, StartRefused, Open, StartAccepted, ConsentRecorded,
         StartChallenged, List, ConsentRefused

(* Repeating a confirmation that took effect finds its result.              *)
THEOREM RepeatFindsResult == Spec => RetryFindsResult
<1>1. ASSUME StoreInv, JobsInv, RestInv, SerialInv, [Next]_vars,
             NEW h \in Handlers, Repeats(h), job'[h].pc = "idle",
             crashes' = crashes
      PROVE  job'[h].answer \in {"applied", "retry"}
  <2>1. Busy(h)
    BY <1>1 DEF Repeats
  <2>2. ASSUME NEW g \in Handlers, Works(g) PROVE g = h
    BY <1>1, <2>1, <2>2, WorksIsOwn DEF Busy
  <2>3. ASSUME NEW g \in Handlers PROVE ~Crash(g)
    BY <1>1, BoundsAssumption DEF Crash, RestInv
  <2>4. ASSUME NEW g \in Handlers, MayCall(g), NEW r, NEW i, Begins(g, r, i)
        PROVE  job'[h] = job[h]
    BY <2>1, <2>4 DEF MayCall, Begins, JobsInv
  <2>5. \E g \in Handlers : Works(g)
    BY <1>1, <2>1, <2>3, <2>4
       DEF Next, Start, Confirm, Expire, Publish, Busy, vars
  <2> QED
    BY <1>1, <2>2, <2>5, RepeatEnds
<1>2. ChallengeInv /\ SerialInv /\ [Next]_vars =>
      [\A h \in Handlers :
         LET r == job[h].ref IN
         /\ Busy(h) /\ job'[h].pc = "idle" /\ crashes' = crashes /\ ~overlapped
         /\ r # None /\ job[h].pc # "open"
         /\ job[h].intent = applied[r] /\ ~Disconnects(applied[r])
         /\ r \notin expired /\ challenge[r].state # "confirmed"
         => job'[h].answer \in {"applied", "retry"}]_vars
  BY <1>1, InvParts DEF Repeats
<1> QED
  BY <1>2, Invariance, Serial, PTL DEF Spec, RetryFindsResult
=============================================================================
