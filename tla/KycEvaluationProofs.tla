------------------------ MODULE KycEvaluationProofs ------------------------
(***************************************************************************)
(* Theorems of KycEvaluation for every number of handlers, keys,           *)
(* evaluations and events, with requests overlapping or not: type          *)
(* correctness; that the record never claims a decision the provider did   *)
(* not take; and that no step but the write-back of a record that changed  *)
(* since it was read loses an event, a conflict or a final verdict.        *)
(***************************************************************************)
EXTENDS KycEvaluation, TLAPS

(* The outcome of the transactional decision is one the marker may hold.   *)
LEMMA OutcomeType ==
  ASSUME NEW r \in Records, NEW j \in Jobs
  PROVE  DecidedOutcome(r, j) \in Outcomes
BY DEF DecidedOutcome, Outcomes

(* ReFi's state for any decision is one of the journey's states.           *)
LEMMA StateType ==
  ASSUME NEW d \in Decisions, NEW token \in BOOLEAN
  PROVE  refiState(d, token) \in States
BY DEF refiState, States, Decisions

(* The fresh record and the idle job are well formed.                      *)
LEMMA IdleType == freshKycEvaluation \in Records /\ IdleJob \in Jobs
BY DEF freshKycEvaluation, IdleJob, Records, Jobs, States, Steps

(* What a handler is about to write is written unchanged, then the handler *)
(* goes on with a well-formed job.                                         *)
LEMMA ContinueType ==
  ASSUME NEW j \in Jobs
  PROVE  Continue(j) \in Jobs /\ Continue(j).pc \in {"idle", "call"}
           /\ Continue(j).copy \in {j.copy, freshKycEvaluation}
BY IdleType DEF Continue, Jobs, Steps, IdleJob

(* The transactional decision keeps the record well formed.                *)
LEMMA DecidedType ==
  ASSUME NEW r \in Records, NEW j \in Jobs, j.decision \in Decisions,
         j.event \in Events
  PROVE  DecidedRecord(r, j, DecidedOutcome(r, j)) \in Records
<1>1. CASE DecidedOutcome(r, j) = "conflict_flagged"
  <2>1. j.decision \in Final
    BY <1>1 DEF DecidedOutcome, Decisions, Final
  <2> QED BY <1>1, <2>1 DEF DecidedRecord, Records
<1>2. CASE DecidedOutcome(r, j) = "applied"
  <2>1. refiState(j.decision, FALSE) \in States
    BY StateType
  <2>2. (j.decision \in Final) \in BOOLEAN
    OBVIOUS
  <2> QED BY <1>2, <2>1, <2>2 DEF DecidedRecord, Records
<1>3. CASE DecidedOutcome(r, j) \notin {"conflict_flagged", "applied"}
  BY <1>3 DEF DecidedRecord, Records
<1> QED BY <1>1, <1>2, <1>3

----------------------------------------------------------------------------
(* The part of the invariant that is about the handlers' jobs.             *)
JobInv == /\ job \in [Handlers -> Jobs]
          /\ \A h \in Handlers : Evidence(job[h].copy) /\ JobSound(job[h])

(* A step that gives one handler a sound job keeps every job sound.        *)
LEMMA OneJobStep ==
  ASSUME JobInv, UNCHANGED said, NEW h \in Handlers, NEW j \in Jobs,
         Evidence(j.copy), JobSound(j), job' = [job EXCEPT ![h] = j]
  PROVE  JobInv'
<1>1. job' \in [Handlers -> Jobs]
  BY DEF JobInv
<1>2. ASSUME NEW g \in Handlers
      PROVE  Evidence(job[g].copy)' /\ JobSound(job[g])'
  <2>1. CASE g = h
    <3>1. job'[g] = j
      BY <2>1 DEF JobInv
    <3> QED BY <3>1 DEF Evidence, JobSound
  <2>2. CASE g # h
    <3>1. job'[g] = job[g]
      BY <2>2 DEF JobInv
    <3> QED BY <3>1 DEF Evidence, JobSound, JobInv
  <2> QED BY <2>1, <2>2
<1> QED BY <1>1, <1>2 DEF JobInv

(* The idle job and the fresh record claim nothing.                        *)
LEMMA IdleSound == Evidence(freshKycEvaluation) /\ JobSound(IdleJob)
                     /\ IdleJob.copy = freshKycEvaluation
BY DEF Evidence, JobSound, freshKycEvaluation, IdleJob

(* A handler may always be handed a well-evidenced copy to write.          *)
LEMMA WriteNextStep ==
  ASSUME JobInv, UNCHANGED said, NEW h \in Handlers, NEW copy \in Records,
         NEW base \in Records, Evidence(copy), NEW then \in {"idle", "call"},
         WriteNext(h, base, copy, then)
  PROVE  JobInv'
<1> DEFINE j == [IdleJob EXCEPT !.pc = "put", !.user = TRUE, !.base = base,
                                !.copy = copy, !.then = then]
<1>1. j \in Jobs /\ j.pc = "put" /\ j.copy = copy
  BY DEF Jobs, IdleJob, Steps
<1>2. JobSound(j)
  BY <1>1 DEF JobSound
<1>3. job' = [job EXCEPT ![h] = j]
  BY DEF WriteNext
<1> QED
  <2> HIDE DEF j
  <2> QED BY <1>1, <1>2, <1>3, OneJobStep

(* A handler that goes on after its write keeps no unsound job.            *)
LEMMA ContinueStep ==
  ASSUME JobInv, UNCHANGED said, NEW h \in Handlers,
         job' = [job EXCEPT ![h] = Continue(@)]
  PROVE  JobInv'
<1>1. job[h] \in Jobs /\ Evidence(job[h].copy)
  BY DEF JobInv
<1>2. Continue(job[h]) \in Jobs /\ Evidence(Continue(job[h]).copy)
  BY <1>1, ContinueType, IdleSound
<1>3. JobSound(Continue(job[h]))
  BY <1>1, ContinueType DEF JobSound
<1>4. job' = [job EXCEPT ![h] = Continue(job[h])]
  BY DEF JobInv
<1> QED BY <1>2, <1>3, <1>4, OneJobStep

(* A handler that leaves applyFinalProviderDecision is idle or notes its   *)
(* reconciliation.                                                         *)
LEMMA FinishStep ==
  ASSUME JobInv, UNCHANGED said, NEW h \in Handlers, Finish(h)
  PROVE  JobInv'
<1> DEFINE j == IF job[h].user THEN [IdleJob EXCEPT !.pc = "note", !.user = TRUE]
                ELSE IdleJob
<1>1. j \in Jobs /\ j.copy = freshKycEvaluation /\ j.pc \in {"idle", "note"}
  BY DEF Jobs, IdleJob, Steps, freshKycEvaluation, Records, States
<1>2. JobSound(j) /\ Evidence(j.copy)
  BY <1>1, IdleSound DEF JobSound
<1>3. job' = [job EXCEPT ![h] = j]
  BY DEF Finish, JobInv
<1> QED
  <2> HIDE DEF j
  <2> QED BY <1>1, <1>2, <1>3, OneJobStep

----------------------------------------------------------------------------
(* The part that is about the stores and the provider.                     *)
StoreInv ==
  /\ rec \in Records /\ Evidence(rec)
  /\ indexed \subseteq Evals
  /\ marker \in [Events -> Outcomes \union {None}]
  /\ verdict \in [Evals -> Decisions \union {None}]
  /\ said \in [Evals -> SUBSET Decisions]
  /\ webhook \in [Webhooks -> [eval : Evals, decision : Decisions] \union {None}]
  /\ applied \in [Events -> 0..2]
  /\ overwritten \in BOOLEAN
  /\ overlaps \in 0..MaxOverlaps
  /\ crashes \in 0..MaxCrashes
  /\ decisions \in 0..MaxDecisions
  /\ deliveries \in 0..MaxDeliveries
  /\ ProviderSound

LEMMA InvParts == KycInv <=> StoreInv /\ JobInv
BY DEF KycInv, StoreInv, JobInv, TypeOK, EvidenceBacked

(* Nothing but a delivery counter need change for a step to keep StoreInv. *)
LEMMA StoreUnchanged ==
  ASSUME StoreInv, UNCHANGED <<rec, indexed, marker, verdict, said, webhook,
                               applied, overwritten, crashes, decisions>>,
         deliveries' \in 0..MaxDeliveries, overlaps' \in 0..MaxOverlaps
  PROVE  StoreInv'
BY DEF StoreInv, ProviderSound, Evidence

(* A request that may begin beside others keeps to the bound on them.      *)
LEMMA BesideBound ==
  ASSUME StoreInv, NEW others, Beside(others)
  PROVE  overlaps' \in 0..MaxOverlaps
<1>1. overlaps \in Nat /\ crashes \in Nat /\ overlaps \in 0..MaxOverlaps
  BY DEF StoreInv
<1>2. CASE others = {}
  BY <1>1, <1>2 DEF Beside
<1>3. CASE others # {}
  <2>1. overlaps + crashes < MaxOverlaps /\ overlaps' = overlaps + 1
    BY <1>3 DEF Beside
  <2> QED BY <1>1, <2>1, BoundsAssumption
<1> QED BY <1>2, <1>3

(* The user's requests: each hands itself a copy to write.                 *)
LEMMA UserCallsKeepInv ==
  ASSUME StoreInv, JobInv, NEW h \in Handlers
  PROVE  (\/ Start(h) \/ markDocvCaptured(h) \/ Reconcile(h)
          \/ \E k \in Keys : Evaluate(h, k)) => StoreInv' /\ JobInv'
<1>1. ASSUME Start(h) PROVE StoreInv' /\ JobInv'
  <2> DEFINE copy == [rec EXCEPT !.state = "in_progress"]
  <2>1. copy \in Records /\ Evidence(copy)
    BY DEF StoreInv, Records, States, Evidence
  <2>2. JobInv'
    <3>1. UNCHANGED said /\ WriteNext(h, rec, copy, "idle") /\ rec \in Records
      BY <1>1 DEF Start, provider, ghosts, StoreInv
    <3> HIDE DEF copy
    <3> QED BY <2>1, <3>1, WriteNextStep
  <2>3. StoreInv'
    <3>1. overlaps' \in 0..MaxOverlaps
      BY <1>1, BesideBound DEF Start, UserMayCall
    <3> QED BY <1>1, <3>1, StoreUnchanged DEF Start, provider, ghosts, StoreInv
  <2> QED BY <2>2, <2>3
<1>2. ASSUME markDocvCaptured(h) PROVE StoreInv' /\ JobInv'
  <2> DEFINE copy == [rec EXCEPT !.state = "under_review"]
  <2>1. copy \in Records /\ Evidence(copy)
    BY DEF StoreInv, Records, States, Evidence
  <2>2. JobInv'
    <3>1. UNCHANGED said /\ WriteNext(h, rec, copy, "idle") /\ rec \in Records
      BY <1>2 DEF markDocvCaptured, provider, ghosts, StoreInv
    <3> HIDE DEF copy
    <3> QED BY <2>1, <3>1, WriteNextStep
  <2>3. StoreInv'
    <3>1. overlaps' \in 0..MaxOverlaps
      BY <1>2, BesideBound DEF markDocvCaptured, UserMayCall
    <3> QED BY <1>2, <3>1, StoreUnchanged DEF markDocvCaptured, provider, ghosts, StoreInv
  <2> QED BY <2>2, <2>3
<1>3. ASSUME NEW k \in Keys, Evaluate(h, k) PROVE StoreInv' /\ JobInv'
  <2> DEFINE copy == [rec EXCEPT !.state = "in_progress", !.key = k,
                                 !.phase = "submitting"]
  <2>1. copy \in Records /\ Evidence(copy)
    BY DEF StoreInv, Records, States, Evidence
  <2>2. JobInv'
    <3>1. UNCHANGED said /\ WriteNext(h, rec, copy, "call") /\ rec \in Records
      BY <1>3 DEF Evaluate, provider, ghosts, StoreInv
    <3> HIDE DEF copy
    <3> QED BY <2>1, <3>1, WriteNextStep
  <2>3. StoreInv'
    <3>1. overlaps' \in 0..MaxOverlaps
      BY <1>3, BesideBound DEF Evaluate, UserMayCall
    <3> QED BY <1>3, <3>1, StoreUnchanged DEF Evaluate, provider, ghosts, StoreInv
  <2> QED BY <2>2, <2>3
<1>4. ASSUME Reconcile(h) PROVE StoreInv' /\ JobInv'
  <2> DEFINE j == [IdleJob EXCEPT !.pc = "get", !.user = TRUE,
                                  !.eval = rec.evalId]
  <2>1. j \in Jobs /\ j.pc = "get" /\ j.eval \in Evals
          /\ j.copy = freshKycEvaluation
    BY <1>4, IdleType DEF Reconcile, StoreInv, Records, Jobs, IdleJob, Steps
  <2>2. JobSound(j) /\ Evidence(j.copy)
    BY <2>1, IdleSound DEF JobSound
  <2>3. JobInv'
    <3>1. UNCHANGED said /\ job' = [job EXCEPT ![h] = j]
      BY <1>4 DEF Reconcile, provider, ghosts
    <3> HIDE DEF j
    <3> QED BY <2>1, <2>2, <3>1, OneJobStep
  <2>4. StoreInv'
    <3>1. overlaps' \in 0..MaxOverlaps
      BY <1>4, BesideBound DEF Reconcile, UserMayCall
    <3> QED BY <1>4, <3>1, StoreUnchanged DEF Reconcile, provider, ghosts, StoreInv
  <2> QED BY <2>3, <2>4
<1> QED BY <1>1, <1>2, <1>3, <1>4

(* A delivery takes what the provider announced.                           *)
LEMMA DeliverKeepsInv ==
  ASSUME StoreInv, JobInv, NEW h \in Handlers, NEW w \in Webhooks,
         DeliverWebhook(h, w)
  PROVE  StoreInv' /\ JobInv'
<1> DEFINE j == [IdleJob EXCEPT !.pc = "check", !.event = w,
                                !.eval = webhook[w].eval,
                                !.decision = webhook[w].decision]
<1>1. webhook[w].eval \in Evals /\ webhook[w].decision \in Decisions
        /\ webhook[w].decision \in said[webhook[w].eval]
  BY DEF DeliverWebhook, StoreInv, ProviderSound
<1>2. j \in Jobs /\ j.pc = "check" /\ j.eval = webhook[w].eval
        /\ j.decision = webhook[w].decision /\ j.event \in Events
        /\ j.copy = freshKycEvaluation
  BY <1>1, IdleType DEF Jobs, IdleJob, Steps, Events
<1>3. JobSound(j) /\ Evidence(j.copy)
  BY <1>1, <1>2, IdleSound DEF JobSound
<1>4. JobInv'
  <2>1. UNCHANGED said /\ job' = [job EXCEPT ![h] = j]
    BY DEF DeliverWebhook
  <2> HIDE DEF j
  <2> QED BY <1>2, <1>3, <2>1, OneJobStep
<1>5. StoreInv'
  <2>1. deliveries' \in 0..MaxDeliveries
    BY BoundsAssumption DEF DeliverWebhook, StoreInv
  <2>2. overlaps' \in 0..MaxOverlaps
    BY BesideBound DEF DeliverWebhook, DeliveryMayStart
  <2> QED BY <2>1, <2>2, StoreUnchanged DEF DeliverWebhook, ghosts
<1> QED BY <1>4, <1>5

(* The two writes of putKycEvaluation: the copy is evidenced already.      *)
LEMMA PutKeepsInv ==
  ASSUME StoreInv, JobInv, NEW h \in Handlers, PutRecord(h) \/ PutIndex(h)
  PROVE  StoreInv' /\ JobInv'
<1>1. CASE PutRecord(h)
  <2>1. job[h].copy \in Records /\ Evidence(job[h].copy) /\ job[h] \in Jobs
    BY DEF JobInv, Jobs
  <2>2. StoreInv'
    BY <1>1, <2>1 DEF PutRecord, provider, ghosts, StoreInv, ProviderSound, Evidence
  <2> DEFINE b == [job[h] EXCEPT !.base = freshKycEvaluation]
  <2>b. b \in Jobs /\ b.copy = job[h].copy
    BY <2>1, IdleType DEF Jobs
  <2>c. /\ UNCHANGED said
        /\ job' = [job EXCEPT ![h] = IF b.copy.evalId # None
                                     THEN [b EXCEPT !.pc = "index"]
                                     ELSE Continue(b)]
    BY <1>1 DEF PutRecord, provider, ghosts
  <2> HIDE DEF b
  <2>3. CASE b.copy.evalId = None
    <3>1. Continue(b) \in Jobs /\ Evidence(Continue(b).copy)
      BY <2>1, <2>b, ContinueType, IdleSound
    <3>2. JobSound(Continue(b))
      BY <2>b, ContinueType DEF JobSound
    <3>3. job' = [job EXCEPT ![h] = Continue(b)]
      BY <2>3, <2>c
    <3> QED BY <2>2, <2>c, <3>1, <3>2, <3>3, OneJobStep
  <2>4. CASE b.copy.evalId # None
    <3> DEFINE j == [b EXCEPT !.pc = "index"]
    <3>1. j \in Jobs /\ j.pc = "index" /\ j.copy = job[h].copy
      BY <2>b DEF Jobs, Steps
    <3>2. JobSound(j) /\ Evidence(j.copy)
      BY <3>1, <2>1, <2>4, <2>b DEF JobSound, Records
    <3>3. job' = [job EXCEPT ![h] = j]
      BY <2>4, <2>c
    <3>4. JobInv'
      <4> HIDE DEF j
      <4> QED BY <2>c, <3>1, <3>2, <3>3, OneJobStep
    <3> QED BY <2>2, <3>4
  <2> QED BY <2>3, <2>4
<1>2. CASE PutIndex(h)
  <2>1. job[h].copy.evalId \in Evals
    BY <1>2 DEF PutIndex, JobInv, JobSound
  <2>2. JobInv'
    BY <1>2, ContinueStep DEF PutIndex, provider, ghosts
  <2> QED
    <3>1. indexed' \subseteq Evals
      BY <1>2, <2>1 DEF PutIndex, StoreInv
    <3> QED BY <1>2, <2>2, <3>1
              DEF PutIndex, provider, ghosts, StoreInv, ProviderSound, Evidence
<1> QED BY <1>1, <1>2

(* A failed call writes the submitted copy back, an answered one merges    *)
(* the decision the provider has just taken.                               *)
LEMMA AnswerKeepsInv ==
  ASSUME StoreInv, JobInv, NEW h \in Handlers, SubmissionFails(h) \/ Responded(h)
  PROVE  StoreInv' /\ JobInv'
<1>1. job[h] \in Jobs /\ job[h].copy \in Records /\ Evidence(job[h].copy)
        /\ JobSound(job[h])
  BY DEF JobInv, Jobs
<1>2. StoreInv'
  BY StoreUnchanged DEF SubmissionFails, Responded, provider, ghosts, StoreInv
<1>3. CASE SubmissionFails(h)
  <2> DEFINE copy == [job[h].copy EXCEPT !.phase = "failed"]
  <2>1. copy \in Records /\ Evidence(copy)
    BY <1>1 DEF Records, Evidence
  <2>2. WriteNext(h, job[h].copy, copy, "idle") /\ UNCHANGED said
    BY <1>3 DEF SubmissionFails, provider, ghosts
  <2>3. JobInv'
    <3> HIDE DEF copy
    <3> QED BY <1>1, <2>1, <2>2, WriteNextStep
  <2> QED BY <1>2, <2>3
<1>4. CASE Responded(h)
  <2> DEFINE j == job[h]
  <2>1. j.eval \in Evals /\ j.decision \in said[j.eval] /\ j.decision \in Decisions
          /\ (j.token => j.decision = "review") /\ j.token \in BOOLEAN
    BY <1>1, <1>4 DEF Responded, JobSound, StoreInv, Jobs
  <2>2. AnsweredCopy(j) \in Records
    <3>1. refiState(j.decision, j.token) \in States
      BY <2>1, StateType
    <3>2. (j.decision \in Final) \in BOOLEAN
      OBVIOUS
    <3> QED BY <1>1, <2>1, <3>1, <3>2 DEF AnsweredCopy, Records
  <2>3. Evidence(AnsweredCopy(j))
    <3>1. /\ AnsweredCopy(j).state = refiState(j.decision, j.token)
          /\ AnsweredCopy(j).decision = j.decision
          /\ AnsweredCopy(j).evalId = j.eval
          /\ AnsweredCopy(j).final <=> j.decision \in Final
      BY <1>1 DEF AnsweredCopy, Records
    <3>2. /\ refiState(j.decision, j.token) = "passed" => j.decision = "accept"
          /\ refiState(j.decision, j.token) = "failed" => j.decision = "reject"
      BY <2>1 DEF refiState, Decisions
    <3> HIDE DEF j
    <3> QED BY <3>1, <3>2, <2>1, NoneAssumption DEF Evidence, Final
  <2>4. WriteNext(h, j.copy, AnsweredCopy(j), "idle") /\ UNCHANGED said
    BY <1>4 DEF Responded, provider, ghosts
  <2>5. JobInv'
    BY <1>1, <2>2, <2>3, <2>4, WriteNextStep
  <2> QED BY <1>2, <2>5
<1> QED BY <1>3, <1>4

(* A handler's job changed in some fields, its copy and slot kept: what    *)
(* remains to be shown is that the new fields are sound.                   *)
LEMMA GetKeepsInv ==
  ASSUME StoreInv, JobInv, NEW h \in Handlers,
         GetAnswered(h) \/ GetFails(h) \/ NoteReconcile(h)
  PROVE  StoreInv' /\ JobInv'
<1>1. job[h] \in Jobs /\ Evidence(job[h].copy) /\ JobSound(job[h])
  BY DEF JobInv
<1>2. StoreInv'
  BY StoreUnchanged DEF GetAnswered, GetFails, NoteReconcile, provider, ghosts, StoreInv
<1>3. ASSUME job' = [job EXCEPT ![h].pc = "note"], UNCHANGED said PROVE JobInv'
  <2> DEFINE j == [job[h] EXCEPT !.pc = "note"]
  <2>1. j \in Jobs /\ j.pc = "note" /\ j.copy = job[h].copy
    BY <1>1 DEF Jobs, Steps
  <2>2. JobSound(j) /\ Evidence(j.copy)
    BY <1>1, <2>1 DEF JobSound
  <2>3. job' = [job EXCEPT ![h] = j]
    BY <1>3
  <2> HIDE DEF j
  <2> QED BY <1>3, <2>1, <2>2, <2>3, OneJobStep
<1>4. CASE GetAnswered(h)
  <2> DEFINE e == job[h].eval
             d == verdict[e]
             j == [job[h] EXCEPT !.pc = "check", !.decision = d,
                                 !.event = <<e, d>>]
  <2>1. CASE d \in Final
    <3>1. e \in Evals
      BY <1>1, <1>4 DEF GetAnswered, JobSound
    <3>2. d \in said[e] /\ d \in Decisions
      BY <3>1, <2>1, NoneAssumption DEF StoreInv, ProviderSound, Final, Decisions
    <3>3. <<e, d>> \in Events
      BY <3>1, <2>1 DEF Events, Synthetic
    <3>4. j \in Jobs /\ j.pc = "check" /\ j.copy = job[h].copy /\ j.eval = e
            /\ j.decision = d /\ j.event = <<e, d>>
      <4> HIDE DEF d, e
      <4>0. e = job[h].eval
        BY DEF e
      <4> QED BY <1>1, <3>2, <3>3, <4>0 DEF Jobs, Steps
    <3>5. JobSound(j) /\ Evidence(j.copy)
      BY <1>1, <3>1, <3>2, <3>3, <3>4 DEF JobSound
    <3>6. job' = [job EXCEPT ![h] = j] /\ UNCHANGED said
      BY <1>4, <2>1 DEF GetAnswered, provider, ghosts
    <3>7. JobInv'
      <4> HIDE DEF j
      <4> QED BY <3>4, <3>5, <3>6, OneJobStep
    <3> QED BY <1>2, <3>7
  <2>2. CASE d \notin Final
    BY <1>2, <1>3, <1>4, <2>2 DEF GetAnswered, provider, ghosts
  <2> QED BY <2>1, <2>2
<1>5. CASE GetFails(h)
  BY <1>2, <1>3, <1>5 DEF GetFails, provider, ghosts
<1>6. CASE NoteReconcile(h)
  BY <1>2, <1>6, WriteNextStep DEF NoteReconcile, provider, ghosts, StoreInv
<1> QED BY <1>4, <1>5, <1>6

(* The marker fast path, the lookup and the marker: the record stays.      *)
LEMMA MarkerKeepsInv ==
  ASSUME StoreInv, JobInv, NEW h \in Handlers,
         CheckMarker(h) \/ Lookup(h) \/ Mark(h)
  PROVE  StoreInv' /\ JobInv'
<1>1. job[h] \in Jobs /\ Evidence(job[h].copy) /\ JobSound(job[h])
  BY DEF JobInv
<1>2. CASE CheckMarker(h)
  <2>1. StoreInv' /\ UNCHANGED said
    BY <1>2, StoreUnchanged DEF CheckMarker, provider, ghosts, StoreInv
  <2>2. CASE Finish(h)
    BY <2>1, <2>2, FinishStep
  <2>3. CASE job' = [job EXCEPT ![h].pc = "lookup"]
    <3> DEFINE j == [job[h] EXCEPT !.pc = "lookup"]
    <3>1. j \in Jobs /\ JobSound(j) /\ Evidence(j.copy)
      BY <1>1, <1>2 DEF CheckMarker, Jobs, Steps, JobSound
    <3>2. job' = [job EXCEPT ![h] = j]
      BY <2>3
    <3> HIDE DEF j
    <3> QED BY <2>1, <3>1, <3>2, OneJobStep
  <2> QED BY <1>2, <2>2, <2>3 DEF CheckMarker
<1>3. CASE Lookup(h)
  <2>1. StoreInv' /\ UNCHANGED said
    BY <1>3, StoreUnchanged DEF Lookup, provider, ghosts, StoreInv
  <2> DEFINE j == IF job[h].eval \in indexed THEN [job[h] EXCEPT !.pc = "apply"]
                  ELSE [job[h] EXCEPT !.pc = "mark",
                                      !.outcome = "unknown_evaluation"]
  <2>2. j \in Jobs /\ JobSound(j) /\ Evidence(j.copy)
    <3>1. CASE job[h].eval \in indexed
      BY <1>1, <1>3, <3>1 DEF Lookup, Jobs, Steps, JobSound
    <3>2. CASE job[h].eval \notin indexed
      <4>1. j = [job[h] EXCEPT !.pc = "mark", !.outcome = "unknown_evaluation"]
        BY <3>2
      <4> HIDE DEF j
      <4> QED BY <1>1, <1>3, <4>1 DEF Lookup, Jobs, Steps, Outcomes, JobSound
    <3> QED BY <3>1, <3>2
  <2>3. job' = [job EXCEPT ![h] = j]
    BY <1>3 DEF Lookup
  <2> HIDE DEF j
  <2> QED BY <2>1, <2>2, <2>3, OneJobStep
<1>4. CASE Mark(h)
  <2>1. JobInv'
    BY <1>4, FinishStep DEF Mark, provider, ghosts
  <2>2. job[h].event \in Events /\ job[h].outcome \in Outcomes
    BY <1>1, <1>4 DEF Mark, JobSound
  <2>3. marker' \in [Events -> Outcomes \union {None}]
    BY <1>4, <2>2 DEF Mark, StoreInv
  <2> QED BY <1>4, <2>1, <2>3
            DEF Mark, provider, ghosts, StoreInv, ProviderSound, Evidence
<1> QED BY <1>2, <1>3, <1>4

(* The transactional decision: the event concerns the record's own         *)
(* evaluation, and its decision was taken by the provider.                 *)
LEMMA ApplyKeepsInv ==
  ASSUME StoreInv, JobInv, NEW h \in Handlers, ApplyDecision(h)
  PROVE  StoreInv' /\ JobInv'
<1> DEFINE j == job[h]
           outcome == DecidedOutcome(rec, j)
<1>1. /\ j \in Jobs /\ Evidence(j.copy) /\ JobSound(j)
      /\ j.eval \in Evals /\ j.decision \in said[j.eval]
      /\ j.decision \in Decisions /\ j.event \in Events
  BY DEF JobInv, JobSound, ApplyDecision, StoreInv
<1>2. outcome \in Outcomes
  BY <1>1, OutcomeType DEF StoreInv
<1>3. rec' \in Records
  BY <1>1, DecidedType DEF ApplyDecision, StoreInv
<1>4. Evidence(rec)'
  <2>1. rec' = DecidedRecord(rec, j, outcome) /\ UNCHANGED said
    BY DEF ApplyDecision, provider, ghosts
  <2>2. CASE outcome = "applied"
    <3>1. rec.evalId = j.eval
      BY <2>2 DEF DecidedOutcome
    <3>2. /\ rec'.state = refiState(j.decision, FALSE)
          /\ rec'.decision = j.decision /\ rec'.evalId = j.eval
          /\ rec'.final <=> j.decision \in Final
      <4> HIDE DEF outcome, j
      <4> QED BY <2>1, <2>2, <3>1 DEF DecidedRecord, StoreInv, Records
    <3>3. /\ refiState(j.decision, FALSE) = "passed" => j.decision = "accept"
          /\ refiState(j.decision, FALSE) = "failed" => j.decision = "reject"
      BY <1>1 DEF refiState, Decisions
    <3> HIDE DEF j, outcome
    <3> QED BY <1>1, <2>1, <3>2, <3>3, NoneAssumption DEF Evidence, Final
  <2>3. CASE outcome # "applied"
    <3>1. /\ rec'.state = rec.state /\ rec'.decision = rec.decision
          /\ rec'.evalId = rec.evalId /\ rec'.final = rec.final
      <4> HIDE DEF outcome, j
      <4> QED BY <2>1, <2>3 DEF DecidedRecord, StoreInv, Records
    <3> QED BY <2>1, <3>1 DEF Evidence, StoreInv
  <2> QED BY <2>2, <2>3
<1>5. applied' \in [Events -> 0..2]
  BY <1>1 DEF ApplyDecision, StoreInv
<1>6. JobInv'
  <2> DEFINE jj == [job[h] EXCEPT !.pc = "mark", !.outcome = outcome]
  <2>1. jj \in Jobs /\ JobSound(jj) /\ Evidence(jj.copy)
    <3> HIDE DEF outcome
    <3> QED BY <1>1, <1>2 DEF ApplyDecision, Jobs, Steps, JobSound
  <2>2. job' = [job EXCEPT ![h] = jj] /\ UNCHANGED said
    BY DEF ApplyDecision, provider, ghosts
  <2> HIDE DEF jj
  <2> QED BY <2>1, <2>2, OneJobStep
<1>7. StoreInv'
  BY <1>3, <1>4, <1>5 DEF ApplyDecision, provider, ghosts, StoreInv, ProviderSound
<1> QED BY <1>6, <1>7

(* The provider's own steps only add to what it said.                      *)
LEMMA SaidGrows ==
  ASSUME NEW r \in Records, Evidence(r),
         \A e \in Evals : said[e] \subseteq said'[e]
  PROVE  Evidence(r)'
BY NoneAssumption DEF Evidence, Records

LEMMA ProviderKeepsInv ==
  ASSUME StoreInv, JobInv,
         \/ \E e \in Evals, d \in Decisions : Decide(e, d)
         \/ \E w \in Webhooks, e \in Evals : EmitWebhook(w, e)
  PROVE  StoreInv' /\ JobInv'
<1>1. ASSUME NEW e \in Evals, NEW d \in Decisions, Decide(e, d)
      PROVE  StoreInv' /\ JobInv'
  <2>1. \A x \in Evals : said[x] \subseteq said'[x] /\ said'[x] \in SUBSET Decisions
    BY <1>1 DEF Decide, ghosts, StoreInv
  <2>2. Evidence(rec)'
    BY <1>1, <2>1, SaidGrows DEF Decide, ghosts, StoreInv, Evidence
  <2>3. ProviderSound'
    <3>1. ASSUME NEW x \in Evals, verdict'[x] # None
          PROVE  verdict'[x] \in said'[x]
      BY <1>1, <3>1 DEF Decide, ghosts, StoreInv, ProviderSound
    <3>2. ASSUME NEW w \in Webhooks, webhook'[w] # None
          PROVE  webhook'[w].decision \in said'[webhook'[w].eval]
      <4>1. webhook'[w] = webhook[w] /\ webhook[w].eval \in Evals
              /\ webhook[w].decision \in said[webhook[w].eval]
        BY <1>1, <3>2 DEF Decide, ghosts, StoreInv, ProviderSound
      <4> QED BY <4>1, <2>1
    <3> QED BY <3>1, <3>2 DEF ProviderSound
  <2>4. StoreInv'
    <3>1. decisions' \in 0..MaxDecisions
      BY <1>1, BoundsAssumption DEF Decide, ghosts, StoreInv
    <3>2. said' \in [Evals -> SUBSET Decisions]
            /\ verdict' \in [Evals -> Decisions \union {None}]
      BY <1>1 DEF Decide, ghosts, StoreInv
    <3> QED BY <1>1, <2>2, <2>3, <3>1, <3>2 DEF Decide, ghosts, StoreInv
  <2>5. JobInv'
    <3>1. ASSUME NEW g \in Handlers
          PROVE  Evidence(job[g].copy)' /\ JobSound(job[g])'
      <4>1. job'[g] = job[g] /\ job[g] \in Jobs /\ job[g].copy \in Records
              /\ Evidence(job[g].copy) /\ JobSound(job[g])
        BY <1>1 DEF Decide, JobInv, Jobs
      <4>2. Evidence(job[g].copy)'
        BY <4>1, <2>1, SaidGrows DEF Evidence
      <4> QED BY <4>1, <4>2, <2>1 DEF JobSound
    <3> QED BY <1>1, <3>1 DEF JobInv, Decide
  <2> QED BY <2>4, <2>5
<1>2. ASSUME NEW w \in Webhooks, NEW e \in Evals, EmitWebhook(w, e)
      PROVE  StoreInv' /\ JobInv'
  <2>1. webhook' \in [Webhooks -> [eval : Evals, decision : Decisions] \union {None}]
    BY <1>2 DEF EmitWebhook, ghosts, StoreInv
  <2>2. ProviderSound'
    <3>1. ASSUME NEW x \in Webhooks, webhook'[x] # None
          PROVE  webhook'[x].decision \in said'[webhook'[x].eval]
      <4>1. CASE x = w
        BY <1>2, <4>1 DEF EmitWebhook, ghosts, StoreInv, ProviderSound
      <4>2. CASE x # w
        BY <1>2, <3>1, <4>2 DEF EmitWebhook, ghosts, StoreInv, ProviderSound
      <4> QED BY <4>1, <4>2
    <3> QED BY <1>2, <3>1 DEF EmitWebhook, ghosts, StoreInv, ProviderSound
  <2>3. StoreInv'
    BY <1>2, <2>1, <2>2 DEF EmitWebhook, ghosts, StoreInv, Evidence
  <2>4. JobInv'
    BY <1>2 DEF EmitWebhook, JobInv, JobSound, Evidence
  <2> QED BY <2>3, <2>4
<1> QED BY <1>1, <1>2

(* The answer of the provider to a submission: a new evaluation, in flight *)
(* to the handler that asked for it.                                       *)
LEMMA EvaluatesKeepsInv ==
  ASSUME StoreInv, JobInv, NEW h \in Handlers, NEW e \in Evals,
         NEW d \in Decisions, NEW token \in BOOLEAN,
         ProviderEvaluates(h, e, d, token)
  PROVE  StoreInv' /\ JobInv'
<1>1. /\ \A x \in Evals : said[x] \subseteq said'[x]
      /\ d \in said'[e]
      /\ said' \in [Evals -> SUBSET Decisions]
  BY DEF ProviderEvaluates, ghosts, StoreInv
<1>2. StoreInv'
  <2>1. Evidence(rec)'
    BY <1>1, SaidGrows DEF ProviderEvaluates, ghosts, StoreInv, Evidence
  <2>2. ProviderSound'
    <3>1. ASSUME NEW x \in Evals, verdict'[x] # None
          PROVE  verdict'[x] \in said'[x]
      BY <1>1, <3>1 DEF ProviderEvaluates, ghosts, StoreInv, ProviderSound
    <3>2. ASSUME NEW w \in Webhooks, webhook'[w] # None
          PROVE  webhook'[w].decision \in said'[webhook'[w].eval]
      <4>1. webhook'[w] = webhook[w] /\ webhook[w].eval \in Evals
              /\ webhook[w].decision \in said[webhook[w].eval]
        BY <3>2 DEF ProviderEvaluates, ghosts, StoreInv, ProviderSound
      <4> QED BY <4>1, <1>1
    <3> QED BY <3>1, <3>2 DEF ProviderSound
  <2>3. verdict' \in [Evals -> Decisions \union {None}]
    BY DEF ProviderEvaluates, ghosts, StoreInv
  <2> QED BY <1>1, <2>1, <2>2, <2>3 DEF ProviderEvaluates, ghosts, StoreInv
<1>3. JobInv'
  <2> DEFINE j == [job[h] EXCEPT !.pc = "response", !.eval = e,
                                 !.decision = d, !.token = token]
  <2>1. job[h] \in Jobs
    BY DEF JobInv
  <2>2. j \in Jobs /\ j.copy = job[h].copy /\ j.pc = "response" /\ j.eval = e
          /\ j.decision = d /\ j.token = token
    BY <2>1 DEF Jobs, Steps
  <2>3. job' = [job EXCEPT ![h] = j]
    BY DEF ProviderEvaluates
  <2>4. job' \in [Handlers -> Jobs]
    <3> HIDE DEF j
    <3> QED BY <2>2, <2>3 DEF JobInv
  <2>5. ASSUME NEW g \in Handlers
        PROVE  Evidence(job[g].copy)' /\ JobSound(job[g])'
    <3>1. job[g].copy \in Records /\ Evidence(job[g].copy) /\ JobSound(job[g])
            /\ job[g] \in Jobs
      BY DEF JobInv, Jobs
    <3>2. CASE g = h
      <4>1. job'[g] = j
        BY <2>3, <3>2 DEF JobInv
      <4>2. Evidence(job[g].copy)'
        <5> HIDE DEF j
        <5> QED BY <4>1, <2>2, <3>1, <3>2, <1>1, SaidGrows DEF Evidence
      <4>3. JobSound(job[g])'
        <5> HIDE DEF j
        <5> QED BY <4>1, <2>2, <1>1 DEF JobSound, ProviderEvaluates
      <4> QED BY <4>2, <4>3
    <3>3. CASE g # h
      <4>1. job'[g] = job[g]
        BY <2>3, <3>3 DEF JobInv
      <4>2. Evidence(job[g].copy)'
        BY <4>1, <3>1, <1>1, SaidGrows DEF Evidence
      <4> QED BY <4>1, <4>2, <3>1, <1>1 DEF JobSound
    <3> QED BY <3>2, <3>3
  <2> QED BY <2>4, <2>5 DEF JobInv
<1> QED BY <1>2, <1>3

(* A handler that dies leaves the stores as they are.                      *)
LEMMA CrashKeepsInv ==
  ASSUME StoreInv, JobInv, NEW h \in Handlers, Crash(h)
  PROVE  StoreInv' /\ JobInv'
<1>1. crashes' \in 0..MaxCrashes
  <2>1. overlaps \in Nat /\ crashes \in Nat /\ crashes \in 0..MaxCrashes
    BY DEF StoreInv
  <2>2. overlaps + crashes < MaxCrashes /\ crashes' = crashes + 1
    BY DEF Crash
  <2> QED BY <2>1, <2>2, BoundsAssumption
<1>2. StoreInv'
  BY <1>1 DEF Crash, provider, ghosts, StoreInv, ProviderSound, Evidence
<1>3. JobInv'
  BY IdleType, IdleSound, OneJobStep DEF Crash, provider, ghosts
<1> QED BY <1>2, <1>3

----------------------------------------------------------------------------
LEMMA InitInv == Init => KycInv
<1> SUFFICES ASSUME Init PROVE StoreInv /\ JobInv
  BY InvParts
<1>1. StoreInv
  <2>1. 0 \in 0..MaxOverlaps /\ 0 \in 0..MaxCrashes /\ 0 \in 0..MaxDecisions
          /\ 0 \in 0..MaxDeliveries /\ 0 \in 0..2
    BY BoundsAssumption
  <2>2. ProviderSound
    BY DEF Init, ProviderSound
  <2>3. rec \in Records /\ Evidence(rec) /\ indexed \subseteq Evals
    BY IdleType, IdleSound DEF Init
  <2>4. /\ marker \in [Events -> Outcomes \union {None}]
        /\ verdict \in [Evals -> Decisions \union {None}]
        /\ said \in [Evals -> SUBSET Decisions]
        /\ applied \in [Events -> 0..2]
    BY <2>1 DEF Init
  <2>5. webhook \in [Webhooks -> [eval : Evals, decision : Decisions] \union {None}]
    BY DEF Init
  <2>6. crashes \in 0..MaxCrashes /\ decisions \in 0..MaxDecisions
          /\ deliveries \in 0..MaxDeliveries /\ overlaps \in 0..MaxOverlaps
          /\ overwritten \in BOOLEAN
    BY <2>1 DEF Init
  <2> QED BY <2>2, <2>3, <2>4, <2>5, <2>6 DEF StoreInv
<1>2. JobInv
  <2>1. job \in [Handlers -> Jobs] /\ \A h \in Handlers : job[h] = IdleJob
    BY IdleType DEF Init
  <2>2. ASSUME NEW h \in Handlers
        PROVE  Evidence(job[h].copy) /\ JobSound(job[h])
    <3>1. job[h] = IdleJob
      BY <2>1
    <3>2. Evidence(IdleJob.copy) /\ JobSound(IdleJob)
      BY IdleSound
    <3> QED BY <3>1, <3>2
  <2> QED BY <2>1, <2>2 DEF JobInv
<1> QED BY <1>1, <1>2

LEMMA NextInv == KycInv /\ [Next]_vars => KycInv'
<1> SUFFICES ASSUME StoreInv, JobInv, [Next]_vars PROVE StoreInv' /\ JobInv'
  BY DEF KycInv, StoreInv, JobInv, TypeOK, EvidenceBacked
<1>1. ASSUME NEW h \in Handlers, Call(h) PROVE StoreInv' /\ JobInv'
  BY <1>1, UserCallsKeepInv, DeliverKeepsInv DEF Call
<1>2. ASSUME NEW h \in Handlers, Step(h) PROVE StoreInv' /\ JobInv'
  BY <1>2, PutKeepsInv, AnswerKeepsInv, GetKeepsInv, MarkerKeepsInv,
     ApplyKeepsInv, EvaluatesKeepsInv DEF Step
<1>3. ASSUME UNCHANGED vars PROVE StoreInv' /\ JobInv'
  BY <1>3 DEF vars, StoreInv, JobInv, ProviderSound, Evidence, JobSound
<1> QED BY <1>1, <1>2, <1>3, CrashKeepsInv, ProviderKeepsInv DEF Next

(* Every reachable state, whatever overlaps, keeps the inductive invariant *)
(* of the record, its copies in flight and the provider's announcements.   *)
THEOREM Invariant == Spec => []KycInv
<1> QED BY InitInv, NextInv, PTL DEF Spec

(* Type correctness of the record, the index, the markers and the jobs.    *)
THEOREM TypeCorrect == Spec => []TypeOK
<1>1. KycInv => TypeOK
  BY DEF KycInv
<1> QED BY <1>1, Invariant, PTL

(* The record (and every copy about to overwrite it) is "passed" only with *)
(* an ACCEPT the provider took on the evaluation the record names, and     *)
(* "failed" only with its REJECT, however handlers interleave or die.      *)
THEOREM PassedOnlyOnAccept == Spec => []EvidenceBacked
<1>1. KycInv => EvidenceBacked
  BY DEF KycInv
<1> QED BY <1>1, Invariant, PTL

----------------------------------------------------------------------------
(* Until a request writes back a record that has changed since it was read *)
(* (`overwritten`), every write of the record is a successor of what is    *)
(* there, and whatever an event did is listed on the record.               *)

Recorded == {"applied", "idempotent_same_result", "conflict_flagged"}

(* What no write may lose or turn back.                                     *)
Succeeds(s, r) ==
  /\ r.refs \subseteq s.refs
  /\ r.conflict # None => s.conflict # None
  /\ r.state = "passed" => s.state = "passed"
  /\ r.state = "failed" => s.state \in {"failed", "in_progress"}

(* A request writes a successor of the record its copy was built from, and *)
(* submits no copy of a decided journey.                                   *)
Orderly(j) ==
  /\ j.pc = "put" => Succeeds(j.copy, j.base)
  /\ j.pc \in {"call", "response"}
       \/ (j.pc \in {"put", "index"} /\ j.then = "call")
     => j.copy.state \notin Terminal

(* What an event did is listed on the record before its marker says so.    *)
Listed(j) ==
  /\ j.pc = "mark" /\ j.outcome \in Recorded => j.event \in rec.refs
  /\ j.pc = "mark" /\ j.outcome = "conflict_flagged" => rec.conflict # None
Counted ==
  \A ev \in Events : applied[ev] # 0 => applied[ev] = 1 /\ ev \in rec.refs

Kept == /\ Counted
        /\ \A h \in Handlers : Listed(job[h])
        /\ AuditMatchesRecord
JourneyInv == /\ \A h \in Handlers : Orderly(job[h])
              /\ ~overwritten => Kept

(* A step that hands one handler a new job and leaves the record, the      *)
(* markers and the count alone.                                            *)
LEMMA OwnStep ==
  ASSUME JobInv, JourneyInv,
         UNCHANGED <<rec, marker, applied, overwritten>>,
         NEW h \in Handlers, NEW j, job' = [job EXCEPT ![h] = j],
         Orderly(j), j.pc = "mark" => Listed(j)
  PROVE  JourneyInv'
<1>1. job'[h] = j /\ \A g \in Handlers : g # h => job'[g] = job[g]
  BY DEF JobInv
<1>2. ASSUME NEW g \in Handlers PROVE Orderly(job[g])'
  BY <1>1 DEF JourneyInv, Orderly
<1>3. ASSUME ~overwritten, NEW g \in Handlers PROVE Listed(job[g])'
  BY <1>1, <1>3 DEF JourneyInv, Kept, Listed
<1>4. ~overwritten => Counted' /\ AuditMatchesRecord'
  BY DEF JourneyInv, Kept, Counted, AuditMatchesRecord
<1> QED
  BY <1>2, <1>3, <1>4 DEF JourneyInv, Kept

LEMMA IdleOrderly == Orderly(IdleJob) /\ IdleJob.pc = "idle"
BY DEF Orderly, IdleJob

(* A handler hands itself a successor of what it read.                     *)
LEMMA WriteOrderly ==
  ASSUME JobInv, JourneyInv,
         UNCHANGED <<rec, marker, applied, overwritten>>,
         NEW h \in Handlers, NEW base \in Records, NEW copy \in Records,
         NEW then \in {"idle", "call"}, Succeeds(copy, base),
         then = "call" => copy.state \notin Terminal,
         WriteNext(h, base, copy, then)
  PROVE  JourneyInv'
<1> DEFINE j == [IdleJob EXCEPT !.pc = "put", !.user = TRUE, !.base = base,
                                !.copy = copy, !.then = then]
<1>1. /\ j.pc = "put" /\ j.copy = copy /\ j.base = base /\ j.then = then
  BY DEF IdleJob
<1>2. job' = [job EXCEPT ![h] = j]
  BY DEF WriteNext
<1> HIDE DEF j
<1>3. Orderly(j)
  BY <1>1 DEF Orderly
<1> QED
  BY <1>1, <1>2, <1>3, OwnStep

LEMMA ContinueOrderly ==
  ASSUME NEW j \in Jobs, j.then = "call" => j.copy.state \notin Terminal
  PROVE  Orderly(Continue(j)) /\ Continue(j).pc # "mark"
<1>1. CASE j.then = "idle"
  BY <1>1, IdleOrderly DEF Continue
<1>2. CASE j.then # "idle"
  <2>1. Continue(j).pc = "call" /\ Continue(j).copy = j.copy /\ j.then = "call"
    BY <1>2 DEF Continue, Jobs
  <2> QED
    BY <2>1 DEF Orderly
<1> QED
  BY <1>1, <1>2

(* The investor's requests, each begun beside whatever is under way.       *)
LEMMA UserCallOrderly ==
  ASSUME StoreInv, JobInv, JourneyInv, NEW h \in Handlers,
         \/ Start(h) \/ markDocvCaptured(h) \/ Reconcile(h)
         \/ \E k \in Keys : Evaluate(h, k)
  PROVE  JourneyInv'
<1>1. UNCHANGED <<rec, marker, applied, overwritten>> /\ rec \in Records
  BY DEF Start, markDocvCaptured, Reconcile, Evaluate, ghosts, StoreInv
<1>2. CASE Start(h)
  <2> DEFINE copy == [rec EXCEPT !.state = "in_progress"]
  <2>1. copy \in Records /\ Succeeds(copy, rec)
    BY <1>1, <1>2 DEF Start, Records, States, Succeeds
  <2>2. WriteNext(h, rec, copy, "idle")
    BY <1>2 DEF Start
  <2> HIDE DEF copy
  <2> QED
    BY <1>1, <2>1, <2>2, WriteOrderly
<1>3. CASE markDocvCaptured(h)
  <2> DEFINE copy == [rec EXCEPT !.state = "under_review"]
  <2>1. copy \in Records /\ Succeeds(copy, rec)
    BY <1>1, <1>3 DEF markDocvCaptured, Records, States, Succeeds
  <2>2. WriteNext(h, rec, copy, "idle")
    BY <1>3 DEF markDocvCaptured
  <2> HIDE DEF copy
  <2> QED
    BY <1>1, <2>1, <2>2, WriteOrderly
<1>4. ASSUME NEW k \in Keys, Evaluate(h, k) PROVE JourneyInv'
  <2> DEFINE copy == [rec EXCEPT !.state = "in_progress", !.key = k,
                                 !.phase = "submitting"]
  <2>1. copy \in Records /\ Succeeds(copy, rec) /\ copy.state \notin Terminal
    BY <1>1, <1>4 DEF Evaluate, MaySubmit, Records, States, Succeeds, Terminal
  <2>2. WriteNext(h, rec, copy, "call")
    BY <1>4 DEF Evaluate
  <2> HIDE DEF copy
  <2> QED
    BY <1>1, <2>1, <2>2, WriteOrderly
<1>5. CASE Reconcile(h)
  <2> DEFINE j == [IdleJob EXCEPT !.pc = "get", !.user = TRUE,
                                  !.eval = rec.evalId]
  <2>1. j.pc = "get"
    BY DEF IdleJob
  <2>2. job' = [job EXCEPT ![h] = j]
    BY <1>5 DEF Reconcile
  <2> HIDE DEF j
  <2>3. Orderly(j)
    BY <2>1 DEF Orderly
  <2> QED
    BY <1>1, <2>1, <2>2, <2>3, OwnStep
<1> QED
  BY <1>2, <1>3, <1>4, <1>5

LEMMA DeliverOrderly ==
  ASSUME JobInv, JourneyInv, NEW h \in Handlers, NEW w \in Webhooks,
         DeliverWebhook(h, w)
  PROVE  JourneyInv'
<1> DEFINE j == [IdleJob EXCEPT !.pc = "check", !.event = w,
                                !.eval = webhook[w].eval,
                                !.decision = webhook[w].decision]
<1>1. j.pc = "check"
  BY DEF IdleJob
<1>2. job' = [job EXCEPT ![h] = j]
  BY DEF DeliverWebhook
<1> HIDE DEF j
<1>3. Orderly(j)
  BY <1>1 DEF Orderly
<1>4. UNCHANGED <<rec, marker, applied, overwritten>>
  BY DEF DeliverWebhook, ghosts
<1> QED
  BY <1>1, <1>2, <1>3, <1>4, OwnStep

(* The steps of the investor's requests that leave the record alone.        *)
LEMMA RequestOrderly ==
  ASSUME StoreInv, JobInv, JourneyInv, NEW h \in Handlers,
         \/ PutIndex(h) \/ SubmissionFails(h) \/ Responded(h)
         \/ GetAnswered(h) \/ GetFails(h) \/ NoteReconcile(h)
         \/ \E e \in Evals, d \in Decisions, token \in BOOLEAN :
              ProviderEvaluates(h, e, d, token)
  PROVE  JourneyInv'
<1>1. /\ UNCHANGED <<rec, marker, applied, overwritten>>
      /\ job[h] \in Jobs /\ Orderly(job[h]) /\ JobSound(job[h])
      /\ rec \in Records /\ job[h].copy \in Records
  BY DEF JourneyInv, JobInv, Jobs, StoreInv, PutIndex, SubmissionFails, Responded,
     GetAnswered, GetFails, NoteReconcile, ProviderEvaluates, ghosts
<1>2. CASE PutIndex(h)
  <2>1. job' = [job EXCEPT ![h] = Continue(job[h])]
    BY <1>2 DEF PutIndex, JobInv
  <2>2. Orderly(Continue(job[h])) /\ Continue(job[h]).pc # "mark"
    BY <1>1, <1>2, ContinueOrderly DEF PutIndex, Orderly
  <2> QED
    BY <1>1, <2>1, <2>2, OwnStep
<1>3. CASE SubmissionFails(h)
  <2> DEFINE copy == [job[h].copy EXCEPT !.phase = "failed"]
  <2>1. copy \in Records /\ Succeeds(copy, job[h].copy)
    BY <1>1, <1>3 DEF SubmissionFails, Orderly, Records, Succeeds, Terminal
  <2>2. WriteNext(h, job[h].copy, copy, "idle")
    BY <1>3 DEF SubmissionFails
  <2> HIDE DEF copy
  <2> QED
    BY <1>1, <2>1, <2>2, WriteOrderly
<1>4. CASE Responded(h)
  <2>1. AnsweredCopy(job[h]) \in Records
          /\ Succeeds(AnsweredCopy(job[h]), job[h].copy)
    <3>1. /\ job[h].eval \in Evals /\ job[h].decision \in Decisions
          /\ job[h].token \in BOOLEAN /\ job[h].copy \in Records
          /\ job[h].copy.state \notin Terminal
      BY <1>1, <1>4 DEF Responded, JobSound, StoreInv, Jobs, Orderly
    <3>2. /\ refiState(job[h].decision, job[h].token) \in States
          /\ (job[h].decision \in Final) \in BOOLEAN
      BY <3>1, StateType
    <3> QED
      BY <3>1, <3>2 DEF AnsweredCopy, Records, Succeeds, Terminal
  <2> QED
    BY <1>1, <1>4, <2>1, WriteOrderly DEF Responded
<1>5. ASSUME job' = [job EXCEPT ![h].pc = "note"] PROVE JourneyInv'
  <2> DEFINE j == [job[h] EXCEPT !.pc = "note"]
  <2>1. j.pc = "note"
    BY <1>1 DEF Jobs
  <2>2. job' = [job EXCEPT ![h] = j]
    BY <1>5
  <2> HIDE DEF j
  <2>3. Orderly(j)
    BY <2>1 DEF Orderly
  <2> QED
    BY <1>1, <2>1, <2>2, <2>3, OwnStep
<1>6. CASE GetAnswered(h)
  <2> DEFINE e == job[h].eval
             d == verdict[e]
             j == [job[h] EXCEPT !.pc = "check", !.decision = d,
                                 !.event = <<e, d>>]
  <2>1. CASE d \notin Final
    BY <1>5, <1>6, <2>1 DEF GetAnswered
  <2>2. CASE d \in Final
    <3>1. j.pc = "check"
      BY <1>1 DEF Jobs
    <3>2. job' = [job EXCEPT ![h] = j]
      BY <1>6, <2>2 DEF GetAnswered
    <3> HIDE DEF j
    <3>3. Orderly(j)
      BY <3>1 DEF Orderly
    <3> QED
      BY <1>1, <3>1, <3>2, <3>3, OwnStep
  <2> QED
    BY <2>1, <2>2
<1>7. CASE GetFails(h)
  BY <1>5, <1>7 DEF GetFails
<1>8. CASE NoteReconcile(h)
  <2>1. Succeeds(rec, rec)
    BY DEF Succeeds
  <2> QED
    BY <1>1, <1>8, <2>1, WriteOrderly DEF NoteReconcile
<1>9. ASSUME NEW e \in Evals, NEW d \in Decisions, NEW token \in BOOLEAN,
             ProviderEvaluates(h, e, d, token)
      PROVE  JourneyInv'
  <2> DEFINE j == [job[h] EXCEPT !.pc = "response", !.eval = e,
                                 !.decision = d, !.token = token]
  <2>1. j.copy = job[h].copy /\ j.pc = "response"
    BY <1>1 DEF Jobs
  <2>2. job' = [job EXCEPT ![h] = j]
    BY <1>9 DEF ProviderEvaluates
  <2> HIDE DEF j
  <2>3. Orderly(j)
    BY <1>1, <1>9, <2>1 DEF Orderly, ProviderEvaluates
  <2> QED
    BY <1>1, <2>1, <2>2, <2>3, OwnStep
<1> QED
  BY <1>2, <1>3, <1>4, <1>6, <1>7, <1>8, <1>9

(* A handler that leaves applyFinalProviderDecision, at the marker fast    *)
(* path or after its marker.                                               *)
LEMMA FinishJob ==
  ASSUME JobInv, NEW h \in Handlers, Finish(h)
  PROVE  \E j : Orderly(j) /\ j.pc # "mark" /\ job' = [job EXCEPT ![h] = j]
<1> DEFINE j == IF job[h].user THEN [IdleJob EXCEPT !.pc = "note", !.user = TRUE]
                ELSE IdleJob
<1>1. j.pc \in {"note", "idle"}
  BY DEF IdleJob
<1>2. job' = [job EXCEPT ![h] = j]
  BY DEF Finish, JobInv
<1> HIDE DEF j
<1> QED
  BY <1>1, <1>2 DEF Orderly

LEMMA LookupOrderly ==
  ASSUME JobInv, JourneyInv, NEW h \in Handlers, CheckMarker(h) \/ Lookup(h)
  PROVE  JourneyInv'
<1>1. UNCHANGED <<rec, marker, applied, overwritten>> /\ job[h] \in Jobs
  BY DEF CheckMarker, Lookup, JobInv, ghosts
<1>2. ASSUME NEW j, job' = [job EXCEPT ![h] = j],
             \/ j.pc \in {"lookup", "apply"}
             \/ j.pc = "mark" /\ j.outcome = "unknown_evaluation"
      PROVE  JourneyInv'
  <2>1. Orderly(j) /\ (j.pc = "mark" => Listed(j))
    BY <1>2 DEF Orderly, Listed, Recorded
  <2> QED
    BY <1>1, <1>2, <2>1, OwnStep
<1>3. CASE Finish(h)
  BY <1>1, <1>3, FinishJob, OwnStep
<1>4. CASE job' = [job EXCEPT ![h].pc = "lookup"]
  <2> DEFINE j == [job[h] EXCEPT !.pc = "lookup"]
  <2>1. j.pc = "lookup"
    BY <1>1 DEF Jobs
  <2>2. job' = [job EXCEPT ![h] = j]
    BY <1>4
  <2> HIDE DEF j
  <2> QED
    BY <1>2, <2>1, <2>2
<1>5. CASE Lookup(h)
  <2>1. CASE job[h].eval \in indexed
    <3> DEFINE j == [job[h] EXCEPT !.pc = "apply"]
    <3>1. j.pc = "apply"
      BY <1>1 DEF Jobs
    <3>2. job' = [job EXCEPT ![h] = j]
      BY <1>5, <2>1 DEF Lookup, JobInv
    <3> HIDE DEF j
    <3> QED
      BY <1>2, <3>1, <3>2
  <2>2. CASE job[h].eval \notin indexed
    <3> DEFINE j == [job[h] EXCEPT !.pc = "mark",
                                   !.outcome = "unknown_evaluation"]
    <3>1. j.pc = "mark" /\ j.outcome = "unknown_evaluation"
      BY <1>1 DEF Jobs
    <3>2. job' = [job EXCEPT ![h] = j]
      BY <1>5, <2>2 DEF Lookup, JobInv
    <3> HIDE DEF j
    <3> QED
      BY <1>2, <3>1, <3>2
  <2> QED
    BY <2>1, <2>2
<1> QED
  BY <1>3, <1>4, <1>5 DEF CheckMarker

(* The marker says what the record already lists.                          *)
LEMMA MarkOrderly ==
  ASSUME StoreInv, JobInv, JourneyInv, NEW h \in Handlers, Mark(h)
  PROVE  JourneyInv'
<1>1. /\ UNCHANGED <<rec, applied, overwritten>>
      /\ job[h].pc = "mark" /\ job[h].event \in Events
  BY DEF Mark, JobInv, JobSound, ghosts
<1>2. PICK j : Orderly(j) /\ j.pc # "mark" /\ job' = [job EXCEPT ![h] = j]
  BY FinishJob DEF Mark
<1>3. job'[h] = j /\ \A g \in Handlers : g # h => job'[g] = job[g]
  BY <1>2 DEF JobInv
<1>4. ASSUME NEW g \in Handlers PROVE Orderly(job[g])'
  BY <1>2, <1>3 DEF JourneyInv, Orderly
<1>5. ASSUME ~overwritten PROVE Kept'
  <2>1. Kept /\ Listed(job[h])
    BY <1>5 DEF JourneyInv, Kept
  <2>2. AuditMatchesRecord'
    BY <1>1, <1>5, <2>1
       DEF Mark, Kept, AuditMatchesRecord, Listed, Recorded, StoreInv
  <2>3. ASSUME NEW g \in Handlers PROVE Listed(job[g])'
    BY <1>1, <1>2, <1>3, <2>1 DEF Kept, Listed
  <2>4. Counted'
    BY <1>1, <2>1 DEF Kept, Counted
  <2> QED
    BY <2>2, <2>3, <2>4 DEF Kept
<1> QED
  BY <1>1, <1>4, <1>5 DEF JourneyInv

(* The write of the record: a successor of what is there, unless the       *)
(* record has changed since the handler read it.                           *)
LEMMA PutOrderly ==
  ASSUME StoreInv, JobInv, JourneyInv, NEW h \in Handlers, PutRecord(h)
  PROVE  JourneyInv' /\ (~overwritten' => Succeeds(rec', rec))
<1> DEFINE b == [job[h] EXCEPT !.base = freshKycEvaluation]
<1>1. /\ job[h].pc = "put" /\ job[h] \in Jobs /\ Orderly(job[h])
      /\ rec' = job[h].copy /\ UNCHANGED <<marker, applied>>
      /\ ~overwritten' => ~overwritten /\ rec = job[h].base
  BY DEF PutRecord, JourneyInv, JobInv
<1>2. /\ b \in Jobs /\ b.copy = job[h].copy /\ b.then = job[h].then
      /\ b.then = "call" => b.copy.state \notin Terminal
  BY <1>1, IdleType DEF Jobs, Orderly
<1>3. job' = [job EXCEPT ![h] = IF b.copy.evalId # None
                                THEN [b EXCEPT !.pc = "index"] ELSE Continue(b)]
  BY DEF PutRecord
<1> HIDE DEF b
<1>4. ~overwritten' => Succeeds(rec', rec)
  BY <1>1 DEF Orderly
<1>5. /\ Orderly(job'[h]) /\ job'[h].pc # "mark"
      /\ \A g \in Handlers : g # h => job'[g] = job[g]
  <2>1. \A g \in Handlers : g # h => job'[g] = job[g]
    BY <1>3 DEF JobInv
  <2>2. CASE b.copy.evalId = None
    <3>1. job'[h] = Continue(b)
      BY <1>3, <2>2 DEF JobInv
    <3> QED
      BY <1>2, <2>1, <3>1, ContinueOrderly
  <2>3. CASE b.copy.evalId # None
    <3>1. job'[h].pc = "index" /\ job'[h].copy = b.copy /\ job'[h].then = b.then
      BY <1>2, <1>3, <2>3 DEF JobInv, Jobs
    <3> QED
      BY <1>2, <2>1, <3>1 DEF Orderly
  <2> QED
    BY <2>2, <2>3
<1>6. ASSUME NEW g \in Handlers PROVE Orderly(job[g])'
  BY <1>5 DEF JourneyInv, Orderly
<1>7. ASSUME ~overwritten' PROVE Kept'
  <2>1. Kept /\ Succeeds(rec', rec) /\ ~overwritten
    BY <1>1, <1>4, <1>7 DEF JourneyInv
  <2>2. ASSUME NEW g \in Handlers PROVE Listed(job[g])'
    BY <1>5, <2>1 DEF Kept, Listed, Succeeds
  <2>3. Counted' /\ AuditMatchesRecord'
    BY <1>1, <2>1 DEF Kept, Counted, AuditMatchesRecord, Succeeds
  <2> QED
    BY <2>2, <2>3 DEF Kept
<1> QED
  BY <1>4, <1>6, <1>7 DEF JourneyInv

(* The transactional decision only ever succeeds the record it reads.      *)
LEMMA ApplyOrderly ==
  ASSUME StoreInv, JobInv, JourneyInv, NEW h \in Handlers, ApplyDecision(h)
  PROVE  JourneyInv' /\ Succeeds(rec', rec)
<1> DEFINE j == job[h]
           outcome == DecidedOutcome(rec, j)
<1>1. /\ j \in Jobs /\ j.pc = "apply" /\ j.event \in Events
      /\ j.decision \in Decisions /\ rec \in Records
  BY DEF ApplyDecision, JobInv, JobSound, StoreInv
<1>2. /\ rec' = DecidedRecord(rec, j, outcome)
      /\ applied' = IF outcome = "applied" /\ applied[j.event] < 2
                    THEN [applied EXCEPT ![j.event] = @ + 1] ELSE applied
      /\ job' = [job EXCEPT ![h].pc = "mark", ![h].outcome = outcome]
      /\ marker' = marker /\ overwritten' = overwritten
  BY DEF ApplyDecision
<1>3. /\ outcome = "applied" => j.event \notin rec.refs /\ rec.state \notin Terminal
      /\ outcome \in Recorded => rec'.refs = rec.refs \union {j.event}
      /\ outcome \notin Recorded => rec' = rec
  <2>1. outcome = "applied" => j.event \notin rec.refs /\ rec.state \notin Terminal
    BY DEF DecidedOutcome
  <2> HIDE DEF outcome, j
  <2> QED
    BY <1>1, <1>2, <2>1 DEF DecidedRecord, Recorded, Records
<1>4. /\ outcome = "conflict_flagged" => rec'.conflict = j.decision
      /\ outcome # "conflict_flagged" => rec'.conflict = rec.conflict
      /\ outcome # "applied" => rec'.state = rec.state
  <2> HIDE DEF outcome, j
  <2> QED
    BY <1>1, <1>2 DEF DecidedRecord, Records
<1>5. j.decision # None
  BY <1>1, NoneAssumption
<1> HIDE DEF outcome
<1>6. Succeeds(rec', rec)
  BY <1>3, <1>4, <1>5 DEF Succeeds, Terminal
<1>7. ASSUME Counted PROVE Counted'
  <2>1. ASSUME NEW ev \in Events, applied'[ev] # 0
        PROVE  applied'[ev] = 1 /\ ev \in rec'.refs
    <3>1. CASE outcome = "applied" /\ ev = j.event
      <4>1. applied[ev] = 0
        BY <1>3, <1>7, <3>1 DEF Counted
      <4>2. applied' = [applied EXCEPT ![j.event] = @ + 1]
        BY <1>2, <3>1, <4>1
      <4>3. applied'[ev] = 1
        BY <1>1, <3>1, <4>1, <4>2 DEF StoreInv
      <4> QED
        BY <1>3, <3>1, <4>3 DEF Recorded
    <3>2. CASE ~(outcome = "applied" /\ ev = j.event)
      <4>1. applied'[ev] = applied[ev]
        BY <1>1, <1>2, <3>2 DEF StoreInv
      <4> QED
        BY <1>6, <1>7, <2>1, <4>1 DEF Counted, Succeeds
    <3> QED
      BY <3>1, <3>2
  <2> QED
    BY <2>1 DEF Counted
<1>8. /\ job'[h].pc = "mark" /\ job'[h].outcome = outcome
      /\ job'[h].event = j.event
      /\ \A g \in Handlers : g # h => job'[g] = job[g]
  BY <1>1, <1>2 DEF JobInv, Jobs
<1>9. ASSUME NEW g \in Handlers PROVE Orderly(job[g])'
  BY <1>8 DEF JourneyInv, Orderly
<1>10. ASSUME ~overwritten PROVE Kept'
  <2>1. Kept
    BY <1>10 DEF JourneyInv
  <2>2. AuditMatchesRecord'
    BY <1>2, <1>6, <1>10, <2>1 DEF Kept, AuditMatchesRecord, Succeeds
  <2>3. ASSUME NEW g \in Handlers PROVE Listed(job[g])'
    <3>1. CASE g = h
      BY <1>3, <1>4, <1>5, <1>8, <3>1 DEF Listed
    <3>2. CASE g # h
      BY <1>6, <1>8, <2>1, <3>2 DEF Kept, Listed, Succeeds
    <3> QED
      BY <3>1, <3>2
  <2> QED
    BY <1>7, <2>1, <2>2, <2>3 DEF Kept
<1> QED
  BY <1>2, <1>6, <1>9, <1>10 DEF JourneyInv

(* Every step: the invariant stays, and the record is succeeded unless a   *)
(* changed record was written over.                                        *)
LEMMA NextOrderly ==
  ASSUME StoreInv, JobInv, JourneyInv, [Next]_vars
  PROVE  JourneyInv' /\ (~overwritten' => Succeeds(rec', rec))
<1>1. Succeeds(rec, rec)
  BY DEF Succeeds
<1>2. ASSUME NEW h \in Handlers, Call(h)
      PROVE  JourneyInv' /\ Succeeds(rec', rec)
  <2>1. JourneyInv'
    BY <1>2, UserCallOrderly, DeliverOrderly DEF Call
  <2>2. rec' = rec
    BY <1>2 DEF Call, Start, markDocvCaptured, Reconcile, Evaluate, DeliverWebhook
  <2> QED
    BY <1>1, <2>1, <2>2
<1>3. ASSUME NEW h \in Handlers, Step(h)
      PROVE  JourneyInv' /\ (~overwritten' => Succeeds(rec', rec))
  <2>1. CASE PutRecord(h) \/ ApplyDecision(h)
    BY <2>1, PutOrderly, ApplyOrderly
  <2>2. CASE CheckMarker(h) \/ Lookup(h) \/ Mark(h)
    <3>1. rec' = rec
      BY <2>2 DEF CheckMarker, Lookup, Mark
    <3> QED
      BY <1>1, <2>2, <3>1, LookupOrderly, MarkOrderly
  <2>3. CASE ~(PutRecord(h) \/ ApplyDecision(h) \/ CheckMarker(h) \/ Lookup(h) \/ Mark(h))
    <3>1. \/ PutIndex(h) \/ SubmissionFails(h) \/ Responded(h)
          \/ GetAnswered(h) \/ GetFails(h) \/ NoteReconcile(h)
          \/ \E e \in Evals, d \in Decisions, token \in BOOLEAN :
               ProviderEvaluates(h, e, d, token)
      BY <1>3, <2>3 DEF Step
    <3>2. rec' = rec
      BY <3>1 DEF PutIndex, SubmissionFails, Responded, GetAnswered, GetFails,
         NoteReconcile, ProviderEvaluates
    <3> QED
      BY <1>1, <3>1, <3>2, RequestOrderly
  <2> QED
    BY <2>1, <2>2, <2>3
<1>4. ASSUME NEW h \in Handlers, Crash(h)
      PROVE  JourneyInv' /\ Succeeds(rec', rec)
  <2>1. JourneyInv'
    BY <1>4, IdleOrderly, OwnStep DEF Crash, ghosts
  <2>2. rec' = rec
    BY <1>4 DEF Crash
  <2> QED
    BY <1>1, <2>1, <2>2
<1>5. ASSUME UNCHANGED <<rec, marker, applied, overwritten, job>>
      PROVE  JourneyInv' /\ Succeeds(rec', rec)
  BY <1>1, <1>5 DEF JourneyInv, Kept, Orderly, Listed, Counted, AuditMatchesRecord
<1> QED
  BY <1>2, <1>3, <1>4, <1>5 DEF Next, Decide, EmitWebhook, vars, ghosts

(* Until a changed record is written over, what an event did is listed on  *)
(* the record; and every copy about to be written succeeds the record it   *)
(* was built from, in every reachable state, however requests overlap.     *)
THEOREM JourneyInvariant == Spec => []JourneyInv
<1>1. Init => JourneyInv
  <2> SUFFICES ASSUME Init PROVE JourneyInv
    OBVIOUS
  <2>1. \A h \in Handlers : job[h] = IdleJob
    BY DEF Init
  <2>2. \A h \in Handlers : Orderly(job[h]) /\ Listed(job[h])
    BY <2>1, IdleOrderly DEF Listed
  <2>3. Counted
    BY DEF Init, Counted
  <2>4. AuditMatchesRecord
    BY NoneAssumption DEF Init, AuditMatchesRecord, Outcomes
  <2> QED
    BY <2>2, <2>3, <2>4 DEF JourneyInv, Kept
<1>2. KycInv /\ JourneyInv /\ [Next]_vars => JourneyInv'
  BY NextOrderly, InvParts
<1> QED
  BY <1>1, <1>2, Invariant, PTL DEF Spec

(* One event changes the state at most once, however often it is delivered *)
(* and beside whatever requests, until a changed record is written over.   *)
THEOREM EventsApplyOnce == Spec => []ExactlyOnce
<1>1. JourneyInv => ExactlyOnce
  <2> SUFFICES ASSUME JourneyInv, ~overwritten, NEW ev \in Events
               PROVE  applied[ev] <= 1
    BY DEF ExactlyOnce
  <2>1. applied[ev] = 0 \/ applied[ev] = 1
    BY DEF JourneyInv, Kept, Counted
  <2> QED
    BY <2>1
<1> QED
  BY <1>1, JourneyInvariant, PTL

(* The marker of an event agrees with the record, until then.              *)
THEOREM AuditAgrees == Spec => []AuditMatchesRecord
<1>1. JourneyInv => AuditMatchesRecord
  BY DEF JourneyInv, Kept, AuditMatchesRecord
<1> QED
  BY <1>1, JourneyInvariant, PTL

(* A passed journey stays passed and a failed one is only reopened, at     *)
(* every step that does not write over a changed record.                   *)
THEOREM NoRegression == Spec => TerminalNeverRegresses
<1>1. KycInv /\ JourneyInv /\ [Next]_vars =>
        [ ~overwritten' =>
            /\ rec.state = "passed" => rec'.state = "passed"
            /\ rec.state = "failed" => rec'.state \in {"failed", "in_progress"} ]_vars
  BY NextOrderly, InvParts DEF Succeeds
<1> QED
  BY <1>1, Invariant, JourneyInvariant, PTL DEF Spec, TerminalNeverRegresses
=============================================================================
