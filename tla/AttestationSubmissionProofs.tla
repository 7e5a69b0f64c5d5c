-------------------- MODULE AttestationSubmissionProofs --------------------
(***************************************************************************)
(* The submission of attestations, for every number of decisions and of    *)
(* requests.  However they overlap and die, a record or the pointer never  *)
(* claims an answer the backend did not give.  Until one of them writes    *)
(* back what has changed since it was read (`raced`), a decision the       *)
(* backend may hold is recorded as submitted, the pointer keeps up with    *)
(* the acknowledged decisions, and the whole implements SubmissionChain.   *)
(***************************************************************************)
EXTENDS AttestationSubmission, TLAPS

(* The state s of decision d is one the backend's answers account for.     *)
Answered(s, d) == /\ s = "acknowledged" => held[d] # None
                  /\ s = "rejected" => d \in refused

Advancing == {"read", "write"}
Calling == {"call", "noteRead", "noteWrite"}

(* What a handler may rely on: its decision is opened, and the state it is *)
(* about to write is accounted for.                                        *)
JobSound(j) ==
  /\ j.pc # "idle" => j.d \in Decisions
  /\ j.pc \in Advancing \union Calling => record[j.d] # None
  /\ j.pc \in Advancing => /\ j.to \in States /\ Answered(j.to, j.d)
                           /\ j.mine \in Records
  /\ j.pc = "write" => j.copy \in Records /\ j.to \in Follows(j.copy.state)
  /\ j.pc = "call" => j.kyc \in Verdicts /\ j.mine \in Records
  /\ j.pc = "noteWrite" => j.copy \in Records /\ j.copy.state = "submitted"
  /\ j.pc \in Pointing => held[j.d] # None

InputsInv == /\ version \in 0..MaxSeq
             /\ kyc \in Verdicts \union {None}
StoreInv ==
  /\ record \in [Decisions -> Records \union {None}]
  /\ latest \in 0..MaxSeq
  /\ held \in [Decisions -> Verdicts \union {None}]
  /\ refused \subseteq Decisions
  /\ \A d \in Decisions : record[d] # None => Answered(record[d].state, d)
  /\ latest # 0 => held[latest] # None
JobsInv == /\ job \in [Handlers -> Jobs]
           /\ \A h \in Handlers : JobSound(job[h])
AnswerInv == consented \in BOOLEAN /\ InputsInv /\ StoreInv /\ JobsInv

(* The ghosts and the counters keep their types.                           *)
CountInv == /\ raced \in BOOLEAN /\ orphaned \subseteq Decisions
            /\ overlaps \in 0..MaxOverlaps /\ crashes \in 0..MaxCrashes

(* Until a changed record or pointer is written over, a call with what     *)
(* came of it is recorded as submitted or further, and an acknowledged     *)
(* decision ahead of the pointer is being pointed to, or was left by a     *)
(* request that died.  The pointer is only ever written forward of what    *)
(* was read of it.                                                         *)
In(d, S) == record[d] # None /\ record[d].state \in S
Visible(d) == In(d, {"submitted", "acknowledged", "rejected"})
Ahead(d) == In(d, {"acknowledged"}) /\ latest < d
PointsTo(j, d) == j.pc \in Pointing /\ j.d = d
Forward(j) == j.pc = "pointWrite" => j.seen < j.d

HeldVisible == \A d \in Decisions : held[d] # None => Visible(d)
CallsVisible == \A h \in Handlers : job[h].pc = "call" => Visible(job[h].d)
AheadPointed == \A d \in Decisions : Ahead(d) =>
  d \in orphaned \/ \E h \in Handlers : PointsTo(job[h], d)
Kept == HeldVisible /\ CallsVisible /\ AheadPointed
OrderInv == /\ \A h \in Handlers : Forward(job[h])
            /\ ~raced => Kept

----------------------------------------------------------------------------
(* What no step takes back.                                                *)
Grows == /\ \A d \in Decisions : record[d] # None => record'[d] # None
         /\ \A d \in Decisions : held[d] # None => held'[d] # None
         /\ refused \subseteq refused'

LEMMA SoundStays ==
  ASSUME Grows, NEW j \in Jobs, JobSound(j)
  PROVE  JobSound(j)'
<1>1. j.pc \in Advancing \union Calling \union Pointing => j.d \in Decisions
  BY DEF JobSound, Advancing, Calling, Pointing
<1>2. \A s : j.d \in Decisions /\ Answered(s, j.d) => Answered(s, j.d)'
  BY DEF Answered, Grows
<1> QED
  BY <1>1, <1>2 DEF JobSound, Grows, Follows

LEMMA IdleSound == IdleJob \in Jobs /\ IdleJob.pc = "idle" /\ JobSound(IdleJob)
BY MaxSeqAssumption DEF IdleJob, Jobs, Steps, JobSound, Advancing, Calling, Pointing

LEMMA OnlySound ==
  ASSUME NEW d \in Decisions, NEW pc \in Steps
  PROVE  \E j \in Jobs : j = [Only(d) EXCEPT !.pc = pc] /\ j.pc = pc /\ j.d = d
<1>1. PICK i \in Jobs : i = IdleJob
  BY IdleSound
<1>2. PICK j : j = [i EXCEPT !.d = d, !.pc = pc]
  OBVIOUS
<1>3. j \in Jobs /\ j.pc = pc /\ j.d = d
  BY <1>2 DEF Jobs
<1>4. j = [Only(d) EXCEPT !.pc = pc]
  BY <1>1, <1>2 DEF Only, Jobs
<1> QED
  BY <1>3, <1>4

LEMMA JobFacts ==
  ASSUME AnswerInv, NEW h \in Handlers
  PROVE  job[h] \in Jobs /\ JobSound(job[h]) /\ job \in [Handlers -> Jobs]
BY DEF AnswerInv, JobsInv

(* A step gives one handler another sound job.                             *)
LEMMA OneJobStep ==
  ASSUME AnswerInv, consented' \in BOOLEAN, InputsInv', StoreInv', Grows,
         NEW h \in Handlers, NEW j \in Jobs, JobSound(j)',
         job' = [job EXCEPT ![h] = j]
  PROVE  AnswerInv'
<1>1. job' \in [Handlers -> Jobs]
  BY DEF AnswerInv, JobsInv
<1>2. ASSUME NEW g \in Handlers PROVE JobSound(job[g])'
  <2>1. CASE g = h
    <3>1. job'[g] = j
      BY <2>1 DEF AnswerInv, JobsInv
    <3> QED
      BY <3>1 DEF JobSound
  <2>2. CASE g # h
    <3>1. PICK k \in Jobs : k = job[g] /\ JobSound(k)
      BY DEF AnswerInv, JobsInv
    <3>2. job'[g] = k /\ JobSound(k)'
      BY <2>2, <3>1, SoundStays DEF AnswerInv, JobsInv
    <3> QED
      BY <3>2 DEF JobSound
  <2> QED
    BY <2>1, <2>2
<1> QED
  BY <1>1, <1>2 DEF AnswerInv, JobsInv

LEMMA EndsStep ==
  ASSUME AnswerInv, consented' \in BOOLEAN, InputsInv', StoreInv', Grows,
         NEW h \in Handlers, Ends(h)
  PROVE  AnswerInv'
<1>1. PICK j \in Jobs : j = IdleJob
  BY IdleSound
<1>2. JobSound(j)'
  BY <1>1, IdleSound DEF JobSound, Advancing, Calling, Pointing
<1> QED
  BY <1>1, <1>2, OneJobStep DEF Ends

LEMMA StoreSame ==
  ASSUME AnswerInv, UNCHANGED <<record, latest, held, refused>>
  PROVE  StoreInv' /\ Grows
BY DEF AnswerInv, StoreInv, Grows, Answered

LEMMA InputsSame ==
  ASSUME AnswerInv, UNCHANGED inputs
  PROVE  consented' \in BOOLEAN /\ InputsInv'
BY DEF AnswerInv, InputsInv, inputs

(* Onwards ends, advances towards a state that claims no answer, or calls  *)
(* the backend from a submitted record and with a verdict.                 *)
LEMMA OnwardsShape ==
  ASSUME NEW j \in Jobs, j.mine \in Records, j.d \in Decisions
  PROVE  /\ Onwards(j) \in Jobs
         /\ Onwards(j).pc \in {"idle", "read", "call"}
         /\ Onwards(j).pc # "idle" => Onwards(j).d = j.d /\ Onwards(j).mine = j.mine
         /\ Onwards(j).pc = "read" =>
              Onwards(j).to \in {"consent_accepted", "blocked",
                                 "attestation_constructed", "submitted"}
         /\ Onwards(j).pc = "call" =>
              j.mine.state = "submitted" /\ Onwards(j).kyc \in Verdicts
<1>1. \A t \in States : /\ Advance(j, t) \in Jobs /\ Advance(j, t).pc = "read"
                        /\ Advance(j, t).to = t /\ Advance(j, t).d = j.d
                        /\ Advance(j, t).mine = j.mine
  BY DEF Advance, Jobs, Steps
<1>2. LET c == [j EXCEPT !.pc = "call"]
      IN  /\ c \in Jobs /\ c.pc = "call" /\ c.d = j.d /\ c.mine = j.mine
          /\ c.kyc = j.kyc
  BY DEF Jobs, Steps
<1>3. j.kyc # None => j.kyc \in Verdicts
  BY DEF Jobs
<1>4. {"consent_accepted", "blocked", "attestation_constructed", "submitted"}
        \subseteq States
  BY DEF States
<1>5. \/ Onwards(j) = IdleJob
      \/ \E t \in {"consent_accepted", "blocked", "attestation_constructed",
                   "submitted"} : Onwards(j) = Advance(j, t)
      \/ /\ Onwards(j) = [j EXCEPT !.pc = "call"] /\ j.mine.state = "submitted"
         /\ j.kyc # None
  BY DEF Onwards
<1>6. CASE Onwards(j) = IdleJob
  BY <1>6, IdleSound
<1>7. ASSUME NEW t \in {"consent_accepted", "blocked", "attestation_constructed",
                        "submitted"}, Onwards(j) = Advance(j, t)
      PROVE  /\ Onwards(j) \in Jobs /\ Onwards(j).pc = "read"
             /\ Onwards(j).d = j.d /\ Onwards(j).mine = j.mine
             /\ Onwards(j).to = t
  BY <1>1, <1>4, <1>7
<1>8. CASE /\ Onwards(j) = [j EXCEPT !.pc = "call"] /\ j.mine.state = "submitted"
           /\ j.kyc # None
  BY <1>2, <1>3, <1>8
<1> QED
  BY <1>5, <1>6, <1>7, <1>8

(* Going on from a record just opened or written.                          *)
LEMMA OnwardsSound ==
  ASSUME NEW j \in Jobs, j.mine \in Records, j.d \in Decisions, record'[j.d] # None
  PROVE  \E k \in Jobs : k = Onwards(j) /\ JobSound(k)'
<1>1. PICK k \in Jobs : k = Onwards(j)
  BY OnwardsShape
<1>2. /\ k.pc \in {"idle", "read", "call"}
      /\ k.pc # "idle" => k.d = j.d /\ k.mine = j.mine
      /\ k.pc = "read" => k.to \in {"consent_accepted", "blocked",
                                    "attestation_constructed", "submitted"}
      /\ k.pc = "call" => k.kyc \in Verdicts
  BY <1>1, OnwardsShape
<1>3. JobSound(k)'
  BY <1>2 DEF JobSound, Advancing, Calling, Pointing, Answered, States
<1> QED
  BY <1>1, <1>3

----------------------------------------------------------------------------
(* The soundness of answers, action by action.                             *)
LEMMA PostKeeps ==
  ASSUME AnswerInv, NEW h \in Handlers, Post(h)
  PROVE  AnswerInv'
<1>1. version \in Decisions
  BY DEF Post, AnswerInv, InputsInv, Decisions
<1>2. PICK j \in Jobs : j = [IdleJob EXCEPT !.pc = "evidence", !.d = version]
  BY <1>1, IdleSound DEF Jobs, Steps
<1>3. j.pc = "evidence" /\ j.d = version
  BY <1>2 DEF IdleJob
<1>4. StoreInv' /\ Grows /\ consented' \in BOOLEAN /\ InputsInv'
  BY StoreSame, InputsSame DEF Post, backend
<1>5. JobSound(j)'
  BY <1>1, <1>3 DEF JobSound, Advancing, Calling, Pointing
<1> QED
  BY <1>2, <1>4, <1>5, OneJobStep DEF Post

LEMMA ReadEvidenceKeeps ==
  ASSUME AnswerInv, NEW h \in Handlers, ReadEvidence(h)
  PROVE  AnswerInv'
<1>1. job[h] \in Jobs /\ job[h].d \in Decisions /\ job \in [Handlers -> Jobs]
  BY JobFacts DEF ReadEvidence, JobSound
<1>2. StoreInv' /\ Grows /\ consented' \in BOOLEAN /\ InputsInv'
  BY StoreSame, InputsSame DEF ReadEvidence, backend
<1>3. kyc \in Verdicts \union {None}
  BY DEF AnswerInv, InputsInv
<1>4. PICK j \in Jobs : j = [job[h] EXCEPT !.pc = "list", !.kyc = kyc]
  BY <1>1, <1>3 DEF Jobs, Steps
<1>5. j.pc = "list" /\ j.d = job[h].d
  BY <1>1, <1>4 DEF Jobs
<1>6. JobSound(j)'
  BY <1>1, <1>5 DEF JobSound, Advancing, Calling, Pointing
<1>7. job' = [job EXCEPT ![h] = j]
  BY <1>1, <1>4 DEF ReadEvidence
<1> QED
  BY <1>2, <1>6, <1>7, OneJobStep

LEMMA ListKeeps ==
  ASSUME AnswerInv, NEW h \in Handlers, List(h)
  PROVE  AnswerInv'
<1>1. job[h] \in Jobs /\ job[h].d \in Decisions /\ job \in [Handlers -> Jobs]
  BY JobFacts DEF List, JobSound
<1>2. StoreInv' /\ Grows /\ consented' \in BOOLEAN /\ InputsInv'
  BY StoreSame, InputsSame DEF List, backend
<1>3. PICK t \in {"consent_accepted", None} :
        job' = [job EXCEPT ![h].pc = "open", ![h].to = t]
  BY DEF List
<1>4. PICK j \in Jobs : j = [job[h] EXCEPT !.pc = "open", !.to = t]
  BY <1>1 DEF Jobs, Steps, States
<1>5. j.pc = "open" /\ j.d = job[h].d
  BY <1>1, <1>4 DEF Jobs
<1>6. JobSound(j)'
  BY <1>1, <1>5 DEF JobSound, Advancing, Calling, Pointing
<1>7. job' = [job EXCEPT ![h] = j]
  BY <1>1, <1>3, <1>4
<1> QED
  BY <1>2, <1>6, <1>7, OneJobStep

(* The record is created only where there is none.                         *)
LEMMA OpenKeeps ==
  ASSUME AnswerInv, NEW h \in Handlers, Open(h)
  PROVE  AnswerInv'
<1> DEFINE d0 == job[h].d
           r == IF record[d0] = None THEN Opened ELSE record[d0]
           k == [job[h] EXCEPT !.mine = r, !.to = None]
<1>1. job[h] \in Jobs /\ d0 \in Decisions /\ job \in [Handlers -> Jobs]
  BY JobFacts DEF Open, JobSound
<1>2. Opened \in Records /\ Opened.state = "disclosure_delivered"
  BY DEF Opened, Records, States
<1>3. r \in Records /\ r # None /\ Answered(r.state, d0)
  BY <1>1, <1>2, NoneAssumption DEF AnswerInv, StoreInv, Answered
<1>4. record' = [record EXCEPT ![d0] = r] /\ UNCHANGED <<latest, held, refused>>
  BY DEF Open, backend
<1>5. StoreInv' /\ Grows
  BY <1>1, <1>3, <1>4 DEF AnswerInv, StoreInv, Grows, Answered
<1>6. consented' \in BOOLEAN /\ InputsInv'
  BY InputsSame DEF Open
<1>7. k \in Jobs /\ k.mine = r /\ k.d = d0
  BY <1>1, <1>3 DEF Jobs
<1>8. record'[d0] # None
  BY <1>1, <1>3, <1>4 DEF AnswerInv, StoreInv
<1>9. PICK j \in Jobs : j \in {IdleJob, Onwards(k)} /\ job' = [job EXCEPT ![h] = j]
                          /\ JobSound(j)'
  <2>1. \E i \in Jobs : i = Onwards(k) /\ JobSound(i)'
    BY <1>1, <1>3, <1>7, <1>8, OnwardsSound
  <2>2. \E i \in Jobs : i = IdleJob /\ JobSound(i)'
    <3>1. PICK i \in Jobs : i = IdleJob
      BY IdleSound
    <3> QED
      BY <3>1, IdleSound DEF JobSound, Advancing, Calling, Pointing
  <2>3. job' = [job EXCEPT ![h] = IdleJob] \/ job' = [job EXCEPT ![h] = Onwards(k)]
    BY DEF Open
  <2> QED
    BY <2>1, <2>2, <2>3
<1> QED
  BY <1>5, <1>6, <1>9, OneJobStep

LEMMA AdvanceReadKeeps ==
  ASSUME AnswerInv, NEW h \in Handlers, AdvanceRead(h)
  PROVE  AnswerInv'
<1>1. /\ job[h] \in Jobs /\ JobSound(job[h]) /\ job \in [Handlers -> Jobs]
      /\ job[h].pc = "read" /\ job[h].d \in Decisions
      /\ record[job[h].d] # None
  BY JobFacts DEF AdvanceRead, JobSound, Advancing
<1>2. record[job[h].d] \in Records
  BY <1>1 DEF AnswerInv, StoreInv
<1>3. StoreInv' /\ Grows /\ consented' \in BOOLEAN /\ InputsInv'
  BY StoreSame, InputsSame DEF AdvanceRead, backend
<1>4. CASE job[h].to \in Follows(record[job[h].d].state)
  <2>1. PICK j \in Jobs : j = [job[h] EXCEPT !.pc = "write", !.copy = record[job[h].d]]
    BY <1>1, <1>2 DEF Jobs, Steps
  <2>2. /\ j.pc = "write" /\ j.copy = record[job[h].d] /\ j.d = job[h].d
        /\ j.to = job[h].to /\ j.mine = job[h].mine
    BY <1>1, <2>1 DEF Jobs
  <2>3. UNCHANGED <<record, held, refused>>
    BY DEF AdvanceRead, backend
  <2>4. JobSound(j)'
    BY <1>1, <1>2, <1>4, <2>2, <2>3 DEF JobSound, Advancing, Calling, Pointing, Answered, Follows
  <2>5. job' = [job EXCEPT ![h] = j]
    BY <1>1, <1>4, <2>1 DEF AdvanceRead
  <2> QED
    BY <1>3, <2>4, <2>5, OneJobStep
<1>5. CASE job[h].to \notin Follows(record[job[h].d].state)
  BY <1>3, <1>5, EndsStep DEF AdvanceRead
<1> QED
  BY <1>4, <1>5

(* The record advanced to an accounted state is accounted for.             *)
LEMMA AdvancedFacts ==
  ASSUME NEW j \in Jobs, j.to \in States, j.mine \in Records, j.copy \in Records
  PROVE  Advanced(j) \in Records /\ Advanced(j).state = j.to /\ Advanced(j) # None
<1>1. Key(j) \in Verdicts \union {None} /\ j.kyc \in Verdicts \union {None}
  BY DEF Key, Records, Jobs
<1>2. Advanced(j) \in Records /\ Advanced(j).state = j.to
  BY <1>1 DEF Advanced, Records
<1> QED
  BY <1>2, NoneAssumption

LEMMA AdvanceWriteKeeps ==
  ASSUME AnswerInv, NEW h \in Handlers, AdvanceWrite(h)
  PROVE  AnswerInv'
<1> DEFINE d0 == job[h].d
           r == Advanced(job[h])
           k == [job[h] EXCEPT !.mine = r, !.copy = None, !.to = None]
<1>1. /\ job[h] \in Jobs /\ d0 \in Decisions /\ job \in [Handlers -> Jobs]
      /\ job[h].to \in States /\ Answered(job[h].to, d0)
      /\ job[h].mine \in Records /\ job[h].copy \in Records
  BY JobFacts DEF AdvanceWrite, JobSound, Advancing
<1>2. r \in Records /\ r.state = job[h].to /\ r # None
  BY <1>1, AdvancedFacts
<1>3. record' = [record EXCEPT ![d0] = r] /\ UNCHANGED <<latest, held, refused>>
  BY DEF AdvanceWrite, backend
<1>4. StoreInv' /\ Grows /\ record'[d0] # None
  BY <1>1, <1>2, <1>3 DEF AnswerInv, StoreInv, Grows, Answered
<1>5. consented' \in BOOLEAN /\ InputsInv'
  BY InputsSame DEF AdvanceWrite
<1>6. k \in Jobs /\ k.mine = r /\ k.d = d0
  BY <1>1, <1>2 DEF Jobs
<1>7. PICK i \in Jobs : i = Onwards(k) /\ JobSound(i)'
  BY <1>1, <1>2, <1>4, <1>6, OnwardsSound
<1>8. CASE job[h].to = "acknowledged"
  <2>1. PICK j \in Jobs : /\ j = [Only(d0) EXCEPT !.pc = "pointRead"]
                          /\ j.pc = "pointRead" /\ j.d = d0
    BY <1>1, OnlySound DEF Steps
  <2>2. j.pc = "pointRead" /\ j.d = d0
    BY <2>1
  <2>3. JobSound(j)'
    BY <1>1, <1>3, <1>8, <2>2 DEF JobSound, Advancing, Calling, Pointing, Answered
  <2>4. job' = [job EXCEPT ![h] = j]
    BY <1>8, <2>1 DEF AdvanceWrite
  <2> QED
    BY <1>4, <1>5, <2>3, <2>4, OneJobStep
<1>9. CASE job[h].to # "acknowledged"
  <2>1. Ends(h) \/ job' = [job EXCEPT ![h] = i]
    BY <1>7, <1>9 DEF AdvanceWrite, Ends
  <2> QED
    BY <1>4, <1>5, <1>7, <2>1, OneJobStep, EndsStep
<1> QED
  BY <1>8, <1>9

(* The calls: an answer is what puts "acknowledged" or "rejected" in the   *)
(* handler's hands.                                                        *)
LEMMA CallFacts ==
  ASSUME AnswerInv, NEW h \in Handlers, job[h].pc = "call"
  PROVE  /\ job[h] \in Jobs /\ job[h].d \in Decisions /\ job \in [Handlers -> Jobs]
         /\ record[job[h].d] # None /\ job[h].mine \in Records
         /\ job[h].kyc \in Verdicts /\ job[h].kyc # None
<1>1. /\ job[h] \in Jobs /\ JobSound(job[h]) /\ job \in [Handlers -> Jobs]
  BY JobFacts
<1>2. job[h].kyc \in Verdicts => job[h].kyc # None
  BY NoneAssumption
<1> QED
  BY <1>1, <1>2 DEF JobSound, Calling

LEMMA AcceptsFacts ==
  ASSUME AnswerInv, NEW h \in Handlers, job[h].pc = "call",
         Accepts(h) \/ held' = held, UNCHANGED <<record, latest, refused>>
  PROVE  StoreInv' /\ Grows /\ (Accepts(h) => held'[job[h].d] # None)
<1>1. job[h].d \in Decisions /\ job[h].kyc \in Verdicts /\ job[h].kyc # None
  BY CallFacts
<1>2. held \in [Decisions -> Verdicts \union {None}]
  BY DEF AnswerInv, StoreInv
<1>3. /\ held' \in [Decisions -> Verdicts \union {None}]
      /\ \A d \in Decisions : held[d] # None => held'[d] # None
      /\ Accepts(h) => held'[job[h].d] # None
  BY <1>1, <1>2 DEF Accepts
<1>4. latest # 0 => latest \in Decisions
  BY DEF AnswerInv, StoreInv, Decisions
<1> QED
  BY <1>3, <1>4 DEF AnswerInv, StoreInv, Grows, Answered

LEMMA CallKeeps ==
  ASSUME AnswerInv, NEW h \in Handlers,
         CallAccepted(h) \/ CallRefused(h) \/ CallLost(h)
  PROVE  AnswerInv'
<1>1. /\ job[h] \in Jobs /\ job[h].d \in Decisions /\ job \in [Handlers -> Jobs]
      /\ record[job[h].d] # None /\ job[h].mine \in Records
      /\ job[h].pc = "call"
  BY CallFacts DEF CallAccepted, CallRefused, CallLost
<1>2. consented' \in BOOLEAN /\ InputsInv'
  BY InputsSame DEF CallAccepted, CallRefused, CallLost
<1>3. \A t \in States : LET j == Advance(job[h], t) IN
        /\ j \in Jobs /\ j.pc = "read" /\ j.to = t /\ j.d = job[h].d
        /\ j.mine = job[h].mine
  BY <1>1 DEF Advance, Jobs, Steps
<1>4. CASE CallAccepted(h)
  <2>1. StoreInv' /\ Grows /\ held'[job[h].d] # None
    BY <1>1, <1>4, AcceptsFacts DEF CallAccepted
  <2>2. PICK j \in Jobs : /\ j = Advance(job[h], "acknowledged") /\ j.pc = "read"
                          /\ j.to = "acknowledged" /\ j.d = job[h].d
                          /\ j.mine = job[h].mine
    BY <1>3 DEF States
  <2>3. job' = [job EXCEPT ![h] = j] /\ record' = record
    BY <1>4, <2>2 DEF CallAccepted
  <2>4. JobSound(j)'
    BY <1>1, <2>1, <2>2, <2>3 DEF JobSound, Advancing, Calling, Pointing, Answered, States
  <2> QED
    BY <1>2, <2>1, <2>3, <2>4, OneJobStep
<1>5. CASE CallRefused(h)
  <2>1. refused' = refused \union {job[h].d} /\ UNCHANGED <<record, latest, held>>
    BY <1>5 DEF CallRefused
  <2>2. StoreInv' /\ Grows
    BY <1>1, <2>1 DEF AnswerInv, StoreInv, Grows, Answered
  <2>3. PICK j \in Jobs : /\ j = Advance(job[h], "rejected") /\ j.pc = "read"
                          /\ j.to = "rejected" /\ j.d = job[h].d
                          /\ j.mine = job[h].mine
    BY <1>3 DEF States
  <2>4. job' = [job EXCEPT ![h] = j]
    BY <1>5, <2>3 DEF CallRefused
  <2>5. JobSound(j)'
    BY <1>1, <2>1, <2>3 DEF JobSound, Advancing, Calling, Pointing, Answered, States
  <2> QED
    BY <1>2, <2>2, <2>4, <2>5, OneJobStep
<1>6. CASE CallLost(h)
  <2>1. StoreInv' /\ Grows /\ UNCHANGED record
    BY <1>1, <1>6, AcceptsFacts DEF CallLost
  <2>2. PICK j \in Jobs : /\ j = [Only(job[h].d) EXCEPT !.pc = "noteRead"]
                          /\ j.pc = "noteRead" /\ j.d = job[h].d
    BY <1>1, OnlySound DEF Steps
  <2>3. j.pc = "noteRead" /\ j.d = job[h].d
    BY <2>2
  <2>4. job' = [job EXCEPT ![h] = j]
    BY <1>1, <1>6, <2>2 DEF CallLost
  <2>5. JobSound(j)'
    BY <1>1, <2>1, <2>3 DEF JobSound, Advancing, Calling, Pointing
  <2> QED
    BY <1>2, <2>1, <2>4, <2>5, OneJobStep
<1> QED
  BY <1>4, <1>5, <1>6

(* A lost answer is noted on a record that stays submitted.                *)
LEMMA NoteKeeps ==
  ASSUME AnswerInv, NEW h \in Handlers, NoteRead(h) \/ NoteWrite(h)
  PROVE  AnswerInv'
<1>1. /\ job[h] \in Jobs /\ JobSound(job[h]) /\ job \in [Handlers -> Jobs]
      /\ job[h].d \in Decisions /\ record[job[h].d] # None
  BY JobFacts DEF NoteRead, NoteWrite, JobSound, Calling
<1>2. record[job[h].d] \in Records
  BY <1>1 DEF AnswerInv, StoreInv
<1>3. consented' \in BOOLEAN /\ InputsInv'
  BY InputsSame DEF NoteRead, NoteWrite
<1>4. CASE NoteRead(h)
  <2>1. StoreInv' /\ Grows /\ UNCHANGED record
    BY <1>4, StoreSame DEF NoteRead, backend
  <2>2. CASE record[job[h].d].state = "submitted"
    <3>1. PICK j \in Jobs : j = [job[h] EXCEPT !.pc = "noteWrite", !.copy = record[job[h].d]]
      BY <1>1, <1>2 DEF Jobs, Steps
    <3>2. j.pc = "noteWrite" /\ j.copy = record[job[h].d] /\ j.d = job[h].d
      BY <1>1, <3>1 DEF Jobs
    <3>3. job' = [job EXCEPT ![h] = j]
      BY <1>1, <1>4, <2>2, <3>1 DEF NoteRead
    <3>4. JobSound(j)'
      BY <1>1, <1>2, <2>1, <2>2, <3>2 DEF JobSound, Advancing, Calling, Pointing
    <3> QED
      BY <1>3, <2>1, <3>3, <3>4, OneJobStep
  <2>3. CASE record[job[h].d].state # "submitted"
    BY <1>3, <1>4, <2>1, <2>3, EndsStep DEF NoteRead
  <2> QED
    BY <2>2, <2>3
<1>5. CASE NoteWrite(h)
  <2>1. /\ record' = [record EXCEPT ![job[h].d] = job[h].copy]
        /\ job[h].copy \in Records /\ job[h].copy.state = "submitted"
        /\ UNCHANGED <<latest, held, refused>> /\ Ends(h)
    BY <1>1, <1>5 DEF NoteWrite, JobSound, backend
  <2>2. job[h].copy # None
    BY <2>1, NoneAssumption
  <2>3. StoreInv' /\ Grows
    BY <1>1, <2>1, <2>2 DEF AnswerInv, StoreInv, Grows, Answered
  <2> QED
    BY <1>3, <2>1, <2>3, EndsStep
<1> QED
  BY <1>4, <1>5

LEMMA PointKeeps ==
  ASSUME AnswerInv, NEW h \in Handlers, PointRead(h) \/ PointWrite(h)
  PROVE  AnswerInv'
<1>1. /\ job[h] \in Jobs /\ job \in [Handlers -> Jobs]
      /\ job[h].d \in Decisions /\ held[job[h].d] # None
  BY JobFacts DEF PointRead, PointWrite, JobSound, Pointing
<1>2. consented' \in BOOLEAN /\ InputsInv'
  BY InputsSame DEF PointRead, PointWrite
<1>3. CASE PointRead(h)
  <2>1. StoreInv' /\ Grows /\ UNCHANGED held
    BY <1>3, StoreSame DEF PointRead, backend
  <2>2. CASE job' = [job EXCEPT ![h].pc = "pointWrite", ![h].seen = latest]
    <3>0. latest \in 0..MaxSeq
      BY DEF AnswerInv, StoreInv
    <3>1. PICK j \in Jobs : j = [job[h] EXCEPT !.pc = "pointWrite", !.seen = latest]
      BY <1>1, <3>0 DEF Jobs, Steps
    <3>2. j.pc = "pointWrite" /\ j.d = job[h].d
      BY <1>1, <3>1 DEF Jobs
    <3>3. job' = [job EXCEPT ![h] = j]
      BY <1>1, <2>2, <3>1
    <3>4. JobSound(j)'
      BY <1>1, <2>1, <3>2 DEF JobSound, Advancing, Calling, Pointing
    <3> QED
      BY <1>2, <2>1, <3>3, <3>4, OneJobStep
  <2>3. CASE Ends(h)
    BY <1>2, <2>1, <2>3, EndsStep
  <2> QED
    BY <1>3, <2>2, <2>3 DEF PointRead
<1>4. CASE PointWrite(h)
  <2>1. latest' = job[h].d /\ UNCHANGED <<record, held, refused>> /\ Ends(h)
    BY <1>4 DEF PointWrite, backend
  <2>2. StoreInv' /\ Grows
    <3>1. latest' \in 0..MaxSeq /\ held'[latest'] # None
      BY <1>1, <2>1, MaxSeqAssumption DEF Decisions
    <3> QED
      BY <2>1, <3>1 DEF AnswerInv, StoreInv, Grows, Answered
  <2> QED
    BY <1>2, <2>1, <2>2, EndsStep
<1> QED
  BY <1>3, <1>4

LEMMA StepKeeps ==
  ASSUME AnswerInv, NEW h \in Handlers, Step(h)
  PROVE  AnswerInv'
<1>1. CASE ListFails(h)
  <2>1. StoreInv' /\ Grows /\ consented' \in BOOLEAN /\ InputsInv'
    BY <1>1, StoreSame, InputsSame DEF ListFails, backend
  <2> QED
    BY <1>1, <2>1, EndsStep DEF ListFails
<1> QED
  BY <1>1, ReadEvidenceKeeps, ListKeeps, OpenKeeps, AdvanceReadKeeps, AdvanceWriteKeeps, CallKeeps,
     NoteKeeps, PointKeeps DEF Step

LEMMA CrashKeeps ==
  ASSUME AnswerInv, NEW h \in Handlers, Crash(h)
  PROVE  AnswerInv'
<1>1. StoreInv' /\ Grows /\ consented' \in BOOLEAN /\ Ends(h)
  BY StoreSame DEF Crash, backend, inputs, AnswerInv
<1>2. InputsInv'
  BY DEF Crash, inputs, AnswerInv, InputsInv
<1> QED
  BY <1>1, <1>2, EndsStep

(* The decisions taken meanwhile, the verdict and the disclosures.         *)
LEMMA WorldKeeps ==
  ASSUME AnswerInv,
         SubmitAnswers \/ KycChanges \/ ConsentChanges \/ UNCHANGED vars
  PROVE  AnswerInv'
<1>1. UNCHANGED <<record, latest, held, refused, job>>
  BY DEF SubmitAnswers, KycChanges, ConsentChanges, vars, backend
<1>2. StoreInv' /\ JobsInv'
  BY <1>1, StoreSame DEF AnswerInv, JobsInv, JobSound, Answered
<1>3. InputsInv'
  BY <1>1, MaxSeqAssumption DEF SubmitAnswers, KycChanges, ConsentChanges, vars,
     AnswerInv, InputsInv
<1>4. consented' \in BOOLEAN
  BY Zenon DEF SubmitAnswers, KycChanges, ConsentChanges, vars, AnswerInv
<1> QED
  BY <1>2, <1>3, <1>4 DEF AnswerInv

LEMMA Initially == Init => AnswerInv
<1> SUFFICES ASSUME Init PROVE AnswerInv
  OBVIOUS
<1>1. JobsInv
  BY IdleSound DEF Init, JobsInv
<1>2. InputsInv
  BY MaxSeqAssumption DEF Init, InputsInv
<1>3. StoreInv
  BY MaxSeqAssumption DEF Init, StoreInv
<1> QED
  BY <1>1, <1>2, <1>3 DEF AnswerInv, Init

LEMMA Inductive == AnswerInv /\ [Next]_vars => AnswerInv'
BY PostKeeps, StepKeeps, CrashKeeps, WorldKeeps DEF Next

THEOREM Invariance == Spec => []AnswerInv
BY Initially, Inductive, PTL DEF Spec

(* The ghosts and the counters.                                            *)
LEMMA CountKeeps == AnswerInv /\ CountInv /\ [Next]_vars => CountInv'
<1> SUFFICES ASSUME AnswerInv, CountInv, [Next]_vars PROVE CountInv'
  OBVIOUS
<1>1. raced' \in BOOLEAN
  BY DEF CountInv, Next, SubmitAnswers, KycChanges, ConsentChanges, Post, Step,
     Crash, ReadEvidence, ListFails, List, Open, AdvanceRead, AdvanceWrite,
     CallAccepted, CallRefused, CallLost, NoteRead, NoteWrite, Overwrites,
     PointRead, PointWrite, ghosts, vars
<1>2. ASSUME NEW h \in Handlers, Crash(h)
      PROVE  orphaned' \subseteq Decisions /\ overlaps' \in 0..MaxOverlaps
               /\ crashes' \in 0..MaxCrashes
  <2>1. job[h].pc \in Pointing => job[h].d \in Decisions
    BY JobFacts DEF JobSound, Pointing
  <2>2. orphaned' \subseteq Decisions /\ overlaps' = overlaps
    BY <1>2, <2>1 DEF Crash, CountInv
  <2>3. overlaps + crashes < MaxCrashes /\ crashes' = crashes + 1
    BY <1>2 DEF Crash
  <2>4. overlaps \in Nat /\ crashes \in Nat
    BY DEF CountInv
  <2> QED
    BY <2>2, <2>3, <2>4, BoundsAssumption DEF CountInv
<1>3. ASSUME NEW h \in Handlers, Post(h)
      PROVE  orphaned' \subseteq Decisions /\ overlaps' \in 0..MaxOverlaps
               /\ crashes' \in 0..MaxCrashes
  <2>1. UNCHANGED <<orphaned, crashes>>
    BY <1>3 DEF Post, ghosts
  <2>2. \/ overlaps + crashes < MaxOverlaps /\ overlaps' = overlaps + 1
        \/ overlaps' = overlaps
    BY <1>3 DEF Post
  <2>3. overlaps \in Nat /\ crashes \in Nat
    BY DEF CountInv
  <2> QED
    BY <2>1, <2>2, <2>3, BoundsAssumption DEF CountInv
<1>4. ASSUME UNCHANGED <<orphaned, overlaps, crashes>>
      PROVE  orphaned' \subseteq Decisions /\ overlaps' \in 0..MaxOverlaps
               /\ crashes' \in 0..MaxCrashes
  BY <1>4 DEF CountInv
<1>5. ASSUME NEW h \in Handlers, Step(h) PROVE UNCHANGED <<orphaned, overlaps, crashes>>
  BY <1>5 DEF Step, ReadEvidence, ListFails, List, Open, AdvanceRead, AdvanceWrite,
     CallAccepted, CallRefused, CallLost, NoteRead, NoteWrite, PointRead, PointWrite,
     ghosts
<1> QED
  BY <1>1, <1>2, <1>3, <1>4, <1>5
     DEF CountInv, Next, SubmitAnswers, KycChanges, ConsentChanges, ghosts, vars

(* Every variable keeps its type.                                          *)
THEOREM Typing == Spec => []TypeOK
<1>1. AnswerInv /\ CountInv => TypeOK
  BY DEF AnswerInv, InputsInv, StoreInv, JobsInv, CountInv, TypeOK
<1>2. Init => CountInv
  <2> SUFFICES ASSUME Init PROVE CountInv
    OBVIOUS
  <2>1. raced \in BOOLEAN
    BY Zenon DEF Init
  <2>2. overlaps = 0 /\ crashes = 0 /\ orphaned = {}
    BY DEF Init
  <2> QED
    BY <2>1, <2>2, BoundsAssumption DEF CountInv
<1> QED
  BY <1>1, <1>2, CountKeeps, Invariance, PTL DEF Spec

(* Whatever overlaps and dies, for every number of decisions and requests: *)
(* no answer is relabelled (attestation-submission.ts entity, 20-23).      *)
THEOREM NoAnswerIsRelabelled == Spec => []AnswersNotRelabelled
<1>1. AnswerInv => AnswersNotRelabelled
  <2>1. \A d \in Decisions : State(d) \in {"acknowledged", "rejected"}
                               => record[d] # None /\ record[d].state = State(d)
    BY NoneAssumption DEF State, States
  <2> QED
    BY <2>1 DEF AnswerInv, StoreInv, Answered, AnswersNotRelabelled
<1> QED
  BY <1>1, Invariance, PTL

----------------------------------------------------------------------------
(* Calls recorded and the pointer kept up, action by action.               *)

(* What a step of h that writes over nothing changed may do.               *)
InOrder(h) ==
  /\ \A g \in Handlers : g # h => job'[g] = job[g]
  /\ \A d \in Decisions : Visible(d) => Visible(d)'
  /\ \A d \in Decisions : held'[d] # None => held[d] # None \/ Visible(d)
  /\ job'[h].pc = "call" => Visible(job[h].d)'
  /\ \A d \in Decisions : Ahead(d)' =>
       \/ PointsTo(job[h], d)'
       \/ Ahead(d) /\ (PointsTo(job[h], d) => d \in orphaned')
  /\ orphaned \subseteq orphaned'

LEMMA InOrderKeeps ==
  ASSUME AnswerInv, Kept, NEW h \in Handlers, InOrder(h)
  PROVE  Kept'
<1>1. HeldVisible'
  BY DEF Kept, HeldVisible, InOrder
<1>2. CallsVisible'
  <2> SUFFICES ASSUME NEW g \in Handlers, job'[g].pc = "call"
               PROVE  Visible(job[g].d)'
    BY DEF CallsVisible
  <2>1. CASE g = h
    BY <2>1 DEF InOrder
  <2>2. CASE g # h
    <3>1. job'[g] = job[g]
      BY <2>2 DEF InOrder
    <3>2. PICK d \in Decisions : d = job[g].d /\ Visible(d)
      BY <3>1, JobFacts DEF JobSound, Kept, CallsVisible
    <3>3. Visible(d)' /\ d = job'[g].d
      BY <3>1, <3>2 DEF InOrder
    <3> QED
      BY <3>3 DEF Visible, In
  <2> QED
    BY <2>1, <2>2
<1>3. AheadPointed'
  <2> SUFFICES ASSUME NEW d \in Decisions, Ahead(d)', d \notin orphaned'
               PROVE  \E g \in Handlers : PointsTo(job[g], d)'
    BY DEF AheadPointed
  <2>1. CASE PointsTo(job[h], d)'
    BY <2>1
  <2>2. CASE Ahead(d) /\ (PointsTo(job[h], d) => d \in orphaned')
    <3>1. PICK g \in Handlers : PointsTo(job[g], d)
      BY <2>2 DEF Kept, AheadPointed, InOrder
    <3>2. job'[g] = job[g]
      BY <2>2, <3>1 DEF InOrder
    <3> QED
      BY <3>1, <3>2 DEF PointsTo
  <2> QED
    BY <2>1, <2>2 DEF InOrder
<1> QED
  BY <1>1, <1>2, <1>3 DEF Kept

(* A step belongs to one handler.                                          *)
LEMMA StepIsOwn ==
  ASSUME AnswerInv, NEW h \in Handlers, Step(h) \/ Post(h) \/ Crash(h)
  PROVE  \A g \in Handlers : g # h => job'[g] = job[g]
<1>1. job \in [Handlers -> Jobs]
  BY DEF AnswerInv, JobsInv
<1>2. CASE Ends(h)
  BY <1>1, <1>2 DEF Ends
<1>3. CASE ReadEvidence(h) \/ List(h) \/ AdvanceRead(h) \/ NoteRead(h) \/ PointRead(h)
  BY <1>1, <1>2, <1>3 DEF ReadEvidence, List, AdvanceRead, NoteRead, PointRead
<1>4. CASE Open(h) \/ AdvanceWrite(h)
  BY <1>1, <1>4 DEF Open, AdvanceWrite
<1>5. CASE CallAccepted(h) \/ CallRefused(h) \/ CallLost(h) \/ Post(h)
  BY <1>1, <1>5 DEF CallAccepted, CallRefused, CallLost, Post
<1>6. CASE ListFails(h) \/ NoteWrite(h) \/ PointWrite(h) \/ Crash(h)
  BY <1>2, <1>6 DEF ListFails, NoteWrite, PointWrite, Crash
<1> QED
  BY <1>3, <1>4, <1>5, <1>6 DEF Step

(* One that leaves the records, the pointer and the backend alone.         *)
LEMMA QuietStep ==
  ASSUME NEW h \in Handlers, \A g \in Handlers : g # h => job'[g] = job[g],
         UNCHANGED <<record, held, latest, orphaned>>,
         job[h].pc \notin Pointing, job'[h].pc # "call"
  PROVE  InOrder(h)
BY DEF InOrder, Visible, In, Ahead, PointsTo

LEMMA QuietInOrder ==
  ASSUME AnswerInv, NEW h \in Handlers,
         \/ Post(h) \/ ReadEvidence(h) \/ ListFails(h) \/ List(h)
         \/ AdvanceRead(h) \/ NoteRead(h)
  PROVE  InOrder(h)
<1>1. \A g \in Handlers : g # h => job'[g] = job[g]
  BY StepIsOwn DEF Step
<1>2. UNCHANGED <<record, held, latest, orphaned>>
  BY DEF Post, ReadEvidence, ListFails, List, AdvanceRead, NoteRead, backend, ghosts
<1>3. job[h].pc \in {"idle", "evidence", "list", "read", "noteRead"}
  BY DEF Post, Busy, ReadEvidence, ListFails, List, AdvanceRead, NoteRead
<1>4. job[h] \in Jobs /\ job \in [Handlers -> Jobs]
  BY JobFacts
<1>5. job'[h].pc # "call"
  <2>1. CASE Post(h)
    <3>1. job'[h] = [IdleJob EXCEPT !.pc = "evidence", !.d = version]
      BY <1>4, <2>1 DEF Post
    <3> QED
      BY <3>1 DEF IdleJob
  <2>2. CASE Ends(h)
    BY <1>4, <2>2, IdleSound DEF Ends
  <2>3. CASE ReadEvidence(h) \/ ListFails(h) \/ List(h) \/ AdvanceRead(h) \/ NoteRead(h)
    BY <1>4, <2>2, <2>3 DEF ReadEvidence, ListFails, List, AdvanceRead, NoteRead, Jobs
  <2> QED
    BY <2>1, <2>3
<1> QED
  BY <1>1, <1>2, <1>3, <1>5, QuietStep DEF Pointing

LEMMA CrashInOrder ==
  ASSUME AnswerInv, NEW h \in Handlers, Crash(h)
  PROVE  InOrder(h)
<1>1. \A g \in Handlers : g # h => job'[g] = job[g]
  BY StepIsOwn
<1>2. UNCHANGED <<record, held, latest>>
  BY DEF Crash, backend
<1>3. orphaned \subseteq orphaned' /\ (job[h].pc \in Pointing => job[h].d \in orphaned')
  BY DEF Crash
<1>4. job'[h].pc # "call"
  BY JobFacts, IdleSound DEF Crash, Ends
<1> QED
  BY <1>1, <1>2, <1>3, <1>4 DEF InOrder, Visible, In, Ahead, PointsTo

LEMMA OpenInOrder ==
  ASSUME AnswerInv, NEW h \in Handlers, Open(h)
  PROVE  InOrder(h)
<1> DEFINE d0 == job[h].d
           r == IF record[d0] = None THEN Opened ELSE record[d0]
           k == [job[h] EXCEPT !.mine = r, !.to = None]
<1>1. /\ job[h] \in Jobs /\ d0 \in Decisions /\ job \in [Handlers -> Jobs]
      /\ job[h].pc = "open"
      /\ record \in [Decisions -> Records \union {None}]
  BY JobFacts DEF Open, JobSound, AnswerInv, StoreInv
<1>2. /\ Opened \in Records /\ Opened.state = "disclosure_delivered"
      /\ Opened # None
  BY NoneAssumption DEF Opened, Records, States
<1>3. r \in Records /\ r # None
  BY <1>1, <1>2
<1>4. k \in Jobs /\ k.mine = r /\ k.d = d0
  BY <1>1, <1>3 DEF Jobs
<1>5. /\ record' = [record EXCEPT ![d0] = r] /\ UNCHANGED <<latest, held, orphaned>>
      /\ job'[h] \in {IdleJob, Onwards(k)}
  BY <1>1 DEF Open, backend, ghosts
<1>6. /\ record'[d0] = r
      /\ \A d \in Decisions : record[d] # None => record'[d] = record[d]
      /\ \A d \in Decisions : record'[d] # None =>
           record'[d] = record[d] \/ record'[d].state = "disclosure_delivered"
  BY <1>1, <1>2, <1>5
<1>7. \A d \in Decisions : Visible(d) => Visible(d)'
  BY <1>6 DEF Visible, In
<1>8. \A d \in Decisions : Ahead(d)' => Ahead(d)
  BY <1>5, <1>6 DEF Ahead, In
<1>9. job'[h].pc = "call" => job'[h].d = d0 /\ r.state = "submitted"
  <2> HIDE DEF r, k
  <2>1. Onwards(k).pc = "call" => Onwards(k).d = d0 /\ r.state = "submitted"
    BY <1>1, <1>3, <1>4, OnwardsShape
  <2>2. job'[h] = IdleJob => job'[h].pc = "idle"
    BY IdleSound
  <2>3. job'[h] = Onwards(k) => (job'[h].pc = "call" => job'[h].d = d0 /\ r.state = "submitted")
    BY <2>1
  <2> QED
    BY <1>5, <2>2, <2>3
<1>10. job'[h].pc = "call" => Visible(job[h].d)'
  BY <1>3, <1>6, <1>9 DEF Visible, In
<1>11. \A d \in Decisions : ~PointsTo(job[h], d)
  BY <1>1 DEF PointsTo, Pointing
<1>12. \A g \in Handlers : g # h => job'[g] = job[g]
  BY StepIsOwn DEF Step
<1> QED
  BY <1>5, <1>7, <1>8, <1>10, <1>11, <1>12 DEF InOrder

(* What is written follows what is there: a submitted record only gives    *)
(* way to its answer.                                                      *)
LEMMA AdvanceWriteInOrder ==
  ASSUME AnswerInv, NEW h \in Handlers, AdvanceWrite(h), ~raced'
  PROVE  InOrder(h)
<1> DEFINE d0 == job[h].d
           r == Advanced(job[h])
           k == [job[h] EXCEPT !.mine = r, !.copy = None, !.to = None]
<1>1. /\ job[h] \in Jobs /\ d0 \in Decisions /\ job \in [Handlers -> Jobs]
      /\ job[h].pc = "write" /\ job[h].to \in States
      /\ job[h].mine \in Records /\ job[h].copy \in Records
      /\ record[d0] # None /\ job[h].to \in Follows(job[h].copy.state)
      /\ record \in [Decisions -> Records \union {None}]
  BY JobFacts DEF AdvanceWrite, JobSound, Advancing, AnswerInv, StoreInv
<1>2. r \in Records /\ r.state = job[h].to /\ r # None
  BY <1>1, AdvancedFacts
<1>3. /\ record' = [record EXCEPT ![d0] = r] /\ UNCHANGED <<latest, held, orphaned>>
      /\ record[d0] = job[h].copy
  BY DEF AdvanceWrite, backend
<1>4. job[h].to \in Follows(record[d0].state)
  BY <1>1, <1>3
<1>5. record'[d0] = r /\ \A d \in Decisions : d # d0 => record'[d] = record[d]
  BY <1>1, <1>3
<1>6. ASSUME NEW d \in Decisions, Visible(d) PROVE Visible(d)'
  <2>1. CASE d = d0
    <3>1. \A t : t \in {"submitted", "acknowledged", "rejected"}
                 => Follows(t) \subseteq {"acknowledged", "rejected"}
      BY DEF Follows
    <3>2. job[h].to \in {"acknowledged", "rejected"}
      BY <1>4, <1>6, <2>1, <3>1 DEF Visible, In
    <3> QED
      BY <1>2, <1>5, <2>1, <3>2 DEF Visible, In
  <2>2. CASE d # d0
    BY <1>5, <1>6, <2>2 DEF Visible, In
  <2> QED
    BY <2>1, <2>2
<1>7. k \in Jobs /\ k.mine = r /\ k.d = d0
  BY <1>1, <1>2 DEF Jobs
<1>8. \A d \in Decisions : Ahead(d)' => Ahead(d) \/ (d = d0 /\ r.state = "acknowledged")
  BY <1>3, <1>5 DEF Ahead, In
<1>9. \A d \in Decisions : ~PointsTo(job[h], d)
  BY <1>1 DEF PointsTo, Pointing
<1>10. \A g \in Handlers : g # h => job'[g] = job[g]
  BY StepIsOwn DEF Step
<1>11. CASE job[h].to = "acknowledged"
  <2>1. job'[h] = [Only(d0) EXCEPT !.pc = "pointRead"]
    BY <1>1, <1>11 DEF AdvanceWrite
  <2>2. job'[h].pc = "pointRead" /\ job'[h].d = d0
    <3>1. PICK d \in Decisions : d = d0
      BY <1>1
    <3>2. PICK j \in Jobs : /\ j = [Only(d) EXCEPT !.pc = "pointRead"]
                            /\ j.pc = "pointRead" /\ j.d = d
      BY OnlySound DEF Steps
    <3>3. job'[h] = j
      BY <2>1, <3>1, <3>2
    <3> QED
      BY <3>1, <3>2, <3>3
  <2>3. PointsTo(job[h], d0)'
    BY <2>2 DEF PointsTo, Pointing
  <2> QED
    BY <1>3, <1>6, <1>8, <1>9, <1>10, <2>2, <2>3 DEF InOrder, PointsTo
<1>12. CASE job[h].to # "acknowledged"
  <2>1. job'[h] \in {IdleJob, Onwards(k)}
    BY <1>1, <1>12 DEF AdvanceWrite
  <2>2. job'[h].pc = "call" => r.state = "submitted"
    <3>1. Onwards(k).pc = "call" => r.state = "submitted"
      BY <1>1, <1>2, <1>7, OnwardsShape
    <3> QED
      BY <2>1, <3>1, IdleSound
  <2>3. job'[h].pc = "call" => Visible(job[h].d)'
    <3>1. PICK d : d = d0
      OBVIOUS
    <3>2. PICK q : q = r /\ record'[d] = q /\ q # None
      BY <1>2, <1>5, <3>1
    <3>3. job'[h].pc = "call" => q.state = "submitted"
      BY <2>2, <3>2
    <3>4. Onwards(k).pc = "call" => Onwards(k).d = d
      BY <1>1, <1>2, <1>7, <3>1, OnwardsShape
    <3>5. job'[h].pc = "call" => job'[h].d = d
      BY <2>1, <3>4, IdleSound
    <3> QED
      BY ONLY <3>2, <3>3, <3>5 DEF Visible, In
  <2> QED
    BY <1>2, <1>3, <1>6, <1>8, <1>9, <1>10, <1>12, <2>3 DEF InOrder
<1> QED
  BY <1>11, <1>12

LEMMA CallInOrder ==
  ASSUME AnswerInv, Kept, NEW h \in Handlers,
         CallAccepted(h) \/ CallRefused(h) \/ CallLost(h)
  PROVE  InOrder(h)
<1>1. /\ job[h] \in Jobs /\ job \in [Handlers -> Jobs]
      /\ job[h].pc = "call" /\ job[h].d \in Decisions
      /\ UNCHANGED <<record, latest, orphaned>>
      /\ held \in [Decisions -> Verdicts \union {None}]
  BY JobFacts DEF CallAccepted, CallRefused, CallLost, JobSound, AnswerInv, StoreInv,
     ghosts
<1>2. job'[h].pc # "call"
  <2>1. \A t : Advance(job[h], t).pc = "read"
    BY <1>1 DEF Advance, Jobs
  <2>2. [Only(job[h].d) EXCEPT !.pc = "noteRead"].pc = "noteRead"
    BY <1>1, OnlySound DEF Steps
  <2>3. \/ \E t : job'[h] = Advance(job[h], t)
        \/ job'[h] = [Only(job[h].d) EXCEPT !.pc = "noteRead"]
    BY <1>1 DEF CallAccepted, CallRefused, CallLost
  <2> QED
    BY <2>1, <2>2, <2>3
<1>3. \A d \in Decisions : held'[d] = held[d] \/ d = job[h].d
  BY <1>1 DEF CallAccepted, CallRefused, CallLost, Accepts
<1>4. Visible(job[h].d)
  BY <1>1 DEF Kept, CallsVisible
<1>5. \A g \in Handlers : g # h => job'[g] = job[g]
  BY StepIsOwn DEF Step
<1> QED
  BY <1>1, <1>2, <1>3, <1>4, <1>5 DEF InOrder, Visible, In, Ahead, PointsTo, Pointing

LEMMA NoteWriteInOrder ==
  ASSUME AnswerInv, NEW h \in Handlers, NoteWrite(h), ~raced'
  PROVE  InOrder(h) /\ record' = record
<1>1. /\ job[h] \in Jobs /\ job \in [Handlers -> Jobs] /\ job[h].d \in Decisions
      /\ record \in [Decisions -> Records \union {None}]
  BY JobFacts DEF NoteWrite, JobSound, AnswerInv, StoreInv
<1>2. record' = record
  BY <1>1 DEF NoteWrite, Overwrites
<1>3. job'[h].pc # "call"
  BY <1>1, IdleSound DEF NoteWrite, Ends
<1>4. \A g \in Handlers : g # h => job'[g] = job[g]
  BY StepIsOwn DEF Step
<1> QED
  BY <1>2, <1>3, <1>4, QuietStep DEF NoteWrite, Pointing, backend

(* A pointer read as far as the decision is left, else it is written; what *)
(* was read of it still stands, so it moves ahead.                         *)
LEMMA PointReadInOrder ==
  ASSUME AnswerInv, NEW h \in Handlers, PointRead(h)
  PROVE  InOrder(h) /\ Forward(job[h])'
<1>1. /\ job[h] \in Jobs /\ job \in [Handlers -> Jobs] /\ job[h].d \in Decisions
      /\ UNCHANGED <<record, held, latest, orphaned>> /\ latest \in 0..MaxSeq
      /\ job[h].pc = "pointRead"
  BY JobFacts DEF PointRead, JobSound, AnswerInv, StoreInv, backend, ghosts
<1>2. job[h].d \in Nat /\ latest \in Nat
  BY <1>1 DEF Decisions
<1>3. \A g \in Handlers : g # h => job'[g] = job[g]
  BY StepIsOwn DEF Step
<1>4. CASE latest >= job[h].d
  <2>1. job'[h] = IdleJob
    BY <1>1, <1>4 DEF PointRead, Ends
  <2>2. \A d \in Decisions : Ahead(d) => ~PointsTo(job[h], d)
    BY <1>2, <1>4 DEF PointsTo, Ahead
  <2> QED
    BY <1>1, <1>3, <2>1, <2>2, IdleSound DEF InOrder, Forward, Visible, In, Ahead
<1>5. CASE ~(latest >= job[h].d)
  <2>1. job'[h].pc = "pointWrite" /\ job'[h].d = job[h].d /\ job'[h].seen = latest
    BY <1>1, <1>5 DEF PointRead, Jobs
  <2>2. Forward(job[h])'
    BY <1>2, <1>5, <2>1 DEF Forward
  <2>3. \A d \in Decisions : PointsTo(job[h], d) => PointsTo(job[h], d)'
    BY <2>1 DEF PointsTo, Pointing
  <2> QED
    BY <1>1, <1>3, <2>1, <2>2, <2>3 DEF InOrder, Visible, In, Ahead
<1> QED
  BY <1>4, <1>5

LEMMA PointWriteInOrder ==
  ASSUME AnswerInv, NEW h \in Handlers, Forward(job[h]), PointWrite(h), ~raced'
  PROVE  InOrder(h)
<1>1. /\ job[h] \in Jobs /\ job \in [Handlers -> Jobs] /\ job[h].d \in Decisions
      /\ UNCHANGED <<record, held, orphaned>> /\ latest \in 0..MaxSeq
      /\ job[h].pc = "pointWrite" /\ latest = job[h].seen
  BY JobFacts DEF PointWrite, JobSound, AnswerInv, StoreInv, backend
<1>2. job[h].d \in Nat /\ latest \in Nat
  BY <1>1 DEF Decisions
<1>3. job'[h] = IdleJob /\ latest' = job[h].d /\ latest < job[h].d
  BY <1>1 DEF PointWrite, Ends, Forward
<1>4. \A d \in Decisions : Ahead(d)' => Ahead(d) /\ ~PointsTo(job[h], d)
  <2> SUFFICES ASSUME NEW d \in Decisions, Ahead(d)'
               PROVE  Ahead(d) /\ ~PointsTo(job[h], d)
    OBVIOUS
  <2>1. job[h].d < d /\ In(d, {"acknowledged"})
    BY <1>1, <1>3 DEF Ahead, In
  <2>2. d \in Nat
    BY DEF Decisions
  <2> QED
    BY <1>2, <1>3, <2>1, <2>2 DEF Ahead, PointsTo
<1>5. \A g \in Handlers : g # h => job'[g] = job[g]
  BY StepIsOwn DEF Step
<1> QED
  BY <1>1, <1>3, <1>4, <1>5, IdleSound DEF InOrder, Visible, In

(* Only the reading of the pointer leads to its writing.                   *)
LEMMA NotPointing ==
  ASSUME AnswerInv, NEW h \in Handlers, Step(h) \/ Post(h) \/ Crash(h), ~PointRead(h)
  PROVE  job'[h].pc # "pointWrite"
<1>1. job[h] \in Jobs /\ job \in [Handlers -> Jobs]
  BY JobFacts
<1>2. CASE Ends(h)
  BY <1>1, <1>2, IdleSound DEF Ends
<1>3. CASE Post(h)
  <2>1. job'[h] = [IdleJob EXCEPT !.pc = "evidence", !.d = version]
    BY <1>1, <1>3 DEF Post
  <2> QED
    BY <2>1 DEF IdleJob
<1>4. CASE ReadEvidence(h) \/ List(h) \/ AdvanceRead(h) \/ NoteRead(h)
  BY <1>1, <1>2, <1>4 DEF ReadEvidence, List, AdvanceRead, NoteRead, Jobs
<1>5. CASE Open(h)
  <2> DEFINE d0 == job[h].d
             r == IF record[d0] = None THEN Opened ELSE record[d0]
             k == [job[h] EXCEPT !.mine = r, !.to = None]
  <2>1. d0 \in Decisions /\ record \in [Decisions -> Records \union {None}]
    BY <1>5, JobFacts DEF Open, JobSound, AnswerInv, StoreInv
  <2>2. r \in Records
    BY <2>1 DEF Opened, Records, States
  <2>3. k \in Jobs /\ k.mine = r /\ k.d = d0
    BY <1>1, <2>2 DEF Jobs
  <2>4. Onwards(k).pc \in {"idle", "read", "call"}
    BY <2>1, <2>2, <2>3, OnwardsShape
  <2>5. job'[h] \in {IdleJob, Onwards(k)}
    BY <1>1, <1>5 DEF Open
  <2> QED
    BY <2>4, <2>5, IdleSound
<1>6. CASE AdvanceWrite(h)
  <2> DEFINE r == Advanced(job[h])
             k == [job[h] EXCEPT !.mine = r, !.copy = None, !.to = None]
  <2>1. /\ job[h].d \in Decisions /\ job[h].to \in States
        /\ job[h].mine \in Records /\ job[h].copy \in Records
    BY <1>6, JobFacts DEF AdvanceWrite, JobSound, Advancing
  <2>2. r \in Records
    BY <1>1, <2>1, AdvancedFacts
  <2>3. k \in Jobs /\ k.mine = r /\ k.d = job[h].d
    BY <1>1, <2>2 DEF Jobs
  <2>4. Onwards(k).pc \in {"idle", "read", "call"}
    BY <2>1, <2>2, <2>3, OnwardsShape
  <2>5. [Only(job[h].d) EXCEPT !.pc = "pointRead"].pc = "pointRead"
    BY <2>1, OnlySound DEF Steps
  <2>6. job'[h] \in {IdleJob, Onwards(k), [Only(job[h].d) EXCEPT !.pc = "pointRead"]}
    BY <1>1, <1>6 DEF AdvanceWrite
  <2> QED
    BY <2>4, <2>5, <2>6, IdleSound
<1>7. CASE CallAccepted(h) \/ CallRefused(h) \/ CallLost(h)
  <2>1. \A t : Advance(job[h], t).pc = "read"
    BY <1>1 DEF Advance, Jobs
  <2>2. job[h].d \in Decisions
    BY <1>7, JobFacts DEF CallAccepted, CallRefused, CallLost, JobSound
  <2>3. [Only(job[h].d) EXCEPT !.pc = "noteRead"].pc = "noteRead"
    BY <2>2, OnlySound DEF Steps
  <2>4. \/ \E t : job'[h] = Advance(job[h], t)
        \/ job'[h] = [Only(job[h].d) EXCEPT !.pc = "noteRead"]
    BY <1>1, <1>7 DEF CallAccepted, CallRefused, CallLost
  <2> QED
    BY <2>1, <2>3, <2>4
<1>8. CASE ListFails(h) \/ NoteWrite(h) \/ PointWrite(h) \/ Crash(h)
  BY <1>2, <1>8 DEF ListFails, NoteWrite, PointWrite, Crash
<1> QED
  BY <1>3, <1>4, <1>5, <1>6, <1>7, <1>8 DEF Step

LEMMA OrderKeeps == AnswerInv /\ OrderInv /\ [Next]_vars => OrderInv'
<1> SUFFICES ASSUME AnswerInv, OrderInv, [Next]_vars PROVE OrderInv'
  OBVIOUS
<1>1. ASSUME NEW h \in Handlers, Step(h) \/ Post(h) \/ Crash(h) PROVE OrderInv'
  <2>1. \A g \in Handlers : g # h => job'[g] = job[g]
    BY <1>1, StepIsOwn
  <2>2. Forward(job[h])'
    <3>1. CASE PointRead(h)
      BY <3>1, PointReadInOrder
    <3>2. CASE ~PointRead(h)
      <4>1. job'[h].pc # "pointWrite"
        BY <1>1, <3>2, NotPointing
      <4> QED
        BY <4>1 DEF Forward
    <3> QED
      BY <3>1, <3>2
  <2>3. \A g \in Handlers : Forward(job[g])'
    BY <2>1, <2>2 DEF OrderInv, Forward
  <2>4. ASSUME ~raced' PROVE Kept'
    <3>1. ~raced
      BY <1>1, <2>4 DEF Step, Post, Crash, ReadEvidence, ListFails, List, Open,
         AdvanceRead, AdvanceWrite, CallAccepted, CallRefused, CallLost, NoteRead,
         NoteWrite, Overwrites, PointRead, PointWrite, ghosts
    <3>2. Kept /\ Forward(job[h])
      BY <3>1 DEF OrderInv
    <3>3. InOrder(h)
      BY <1>1, <2>4, <3>2, QuietInOrder, CrashInOrder, OpenInOrder,
         AdvanceWriteInOrder, CallInOrder, NoteWriteInOrder, PointReadInOrder,
         PointWriteInOrder DEF Step
    <3> QED
      BY <3>2, <3>3, InOrderKeeps
  <2> QED
    BY <2>3, <2>4 DEF OrderInv
<1>2. ASSUME UNCHANGED <<record, held, latest, job, raced, orphaned>> PROVE OrderInv'
  BY <1>2 DEF OrderInv, Forward, Kept, HeldVisible, CallsVisible, AheadPointed,
     Visible, In, Ahead, PointsTo
<1>3. ASSUME SubmitAnswers \/ KycChanges \/ ConsentChanges \/ UNCHANGED vars
      PROVE  UNCHANGED <<record, held, latest, job, raced, orphaned>>
  BY <1>3 DEF SubmitAnswers, KycChanges, ConsentChanges, vars, backend, ghosts
<1> QED
  BY <1>1, <1>2, <1>3 DEF Next

THEOREM OrderInvariant == Spec => []OrderInv
<1>1. Init => OrderInv
  <2> SUFFICES ASSUME Init PROVE OrderInv
    OBVIOUS
  <2>1. \A h \in Handlers : job[h].pc = "idle"
    BY IdleSound DEF Init
  <2>2. \A d \in Decisions : record[d] = None /\ held[d] = None
    BY DEF Init
  <2> QED
    BY <2>1, <2>2 DEF OrderInv, Forward, Kept, HeldVisible, CallsVisible,
       AheadPointed, Ahead, In
<1> QED
  BY <1>1, OrderKeeps, Invariance, PTL DEF Spec

(* However requests overlap and die, and until one writes back what has    *)
(* changed since it was read: a decision the backend may hold, or a call   *)
(* under way, is recorded as submitted first (entity, 15-17).              *)
THEOREM CallsAreRecorded == Spec => []InFlightVisible
<1>1. AnswerInv /\ OrderInv => InFlightVisible
  <2> SUFFICES ASSUME AnswerInv, OrderInv, ~raced, NEW d \in Decisions,
                      \/ held[d] # None
                      \/ \E h \in Handlers : job[h].d = d /\ job[h].pc = "call"
               PROVE  State(d) \in {"submitted", "acknowledged", "rejected"}
    BY DEF InFlightVisible
  <2>1. Visible(d)
    BY DEF OrderInv, Kept, HeldVisible, CallsVisible
  <2> QED
    BY <2>1 DEF Visible, In, State
<1> QED
  BY <1>1, Invariance, OrderInvariant, PTL

(* ... and the late answer of an older decision never leaves the pointer   *)
(* behind the newest acknowledged one, but for the moment before it is     *)
(* written and for a request that died in that moment (entity, 93-97).     *)
THEOREM PointerKeepsUp == Spec => []PointerIsNewest
<1>1. AnswerInv /\ OrderInv => PointerIsNewest
  <2> SUFFICES ASSUME AnswerInv, OrderInv, ~raced,
                      NEW d \in Decisions, State(d) = "acknowledged"
               PROVE  \/ latest >= d \/ d \in orphaned
                      \/ \E h \in Handlers : job[h].d = d /\ job[h].pc \in Pointing
    BY DEF PointerIsNewest
  <2>1. In(d, {"acknowledged"})
    BY NoneAssumption DEF State, States, In
  <2>2. latest \in Nat /\ d \in Nat
    BY DEF AnswerInv, StoreInv, Decisions
  <2>3. CASE Ahead(d)
    BY <2>3 DEF OrderInv, Kept, AheadPointed, PointsTo
  <2>4. CASE ~Ahead(d)
    BY <2>1, <2>2, <2>4 DEF Ahead
  <2> QED
    BY <2>3, <2>4
<1> QED
  BY <1>1, Invariance, OrderInvariant, PTL
----------------------------------------------------------------------------
(* The chain: what the code does to the record and the backend, decision   *)
(* by decision, is a step of SubmissionChain or none.                      *)
Abstract == [d \in Decisions |-> IF record[d] = None THEN "absent"
                                 ELSE record[d].state]
Holding == {d \in Decisions : held[d] # None}

(* The record of d0 replaced by r moves the chain to the state of r.       *)
LEMMA RecordMoves ==
  ASSUME AnswerInv, NEW d0 \in Decisions, NEW r \in Records,
         record' = [record EXCEPT ![d0] = r], UNCHANGED <<held, refused>>,
         NEW from, Abstract[d0] = from
  PROVE  Chain!Moves(d0, from, r.state)
<1>1. record \in [Decisions -> Records \union {None}] /\ r # None
  BY NoneAssumption DEF AnswerInv, StoreInv
<1>2. \A d \in Decisions : d # d0 => record'[d] = record[d]
  BY <1>1
<1>3. record'[d0] = r
  BY <1>1
<1>4. Abstract' = [Abstract EXCEPT ![d0] = r.state]
  BY <1>1, <1>2, <1>3 DEF Abstract
<1> QED
  BY <1>4 DEF Chain!Moves, Abstract

LEMMA OpenRefines ==
  ASSUME AnswerInv, NEW h \in Handlers, Open(h)
  PROVE  [Chain!Next]_(Chain!vars)
<1> PICK d0 \in Decisions : d0 = job[h].d
  BY JobFacts DEF Open, JobSound
<1>1. /\ UNCHANGED <<held, refused>>
      /\ record \in [Decisions -> Records \union {None}]
      /\ Opened \in Records /\ Opened.state = "disclosure_delivered"
  BY DEF Open, AnswerInv, StoreInv, Opened, Records, States, backend
<1>2. CASE record[d0] = None
  <2>1. record' = [record EXCEPT ![d0] = Opened] /\ Abstract[d0] = "absent"
    BY <1>1, <1>2 DEF Open, Abstract
  <2>2. Chain!Open(d0)
    BY <1>1, <2>1, RecordMoves DEF Chain!Open
  <2> QED
    BY <2>2 DEF Chain!Next
<1>3. CASE record[d0] # None
  BY <1>1, <1>3 DEF Open, Chain!vars
<1> QED
  BY <1>2, <1>3

LEMMA WriteRefines ==
  ASSUME AnswerInv, NEW h \in Handlers, AdvanceWrite(h), ~raced'
  PROVE  [Chain!Next]_(Chain!vars)
<1> PICK d0 \in Decisions : d0 = job[h].d
  BY JobFacts DEF AdvanceWrite, JobSound
<1>1. /\ job[h] \in Jobs /\ job[h].pc = "write"
      /\ job[h].to \in States /\ Answered(job[h].to, d0)
      /\ job[h].mine \in Records /\ job[h].copy \in Records
      /\ record[d0] # None /\ job[h].to \in Follows(job[h].copy.state)
  BY JobFacts DEF AdvanceWrite, JobSound, Advancing
<1>2. PICK r \in Records : r = Advanced(job[h]) /\ r.state = job[h].to
  BY <1>1, AdvancedFacts
<1>3. PICK from : from = record[d0].state /\ r.state \in Follows(from)
  BY <1>1, <1>2 DEF AdvanceWrite
<1>4. Abstract[d0] = from
  BY <1>1, <1>3 DEF Abstract
<1>5. Chain!Moves(d0, from, r.state)
  BY <1>2, <1>4, RecordMoves DEF AdvanceWrite, backend
<1>6. \/ from = "disclosure_delivered" /\ r.state \in {"consent_accepted", "blocked"}
      \/ from = "consent_accepted" /\ r.state \in {"attestation_constructed", "blocked"}
      \/ from = "attestation_constructed" /\ r.state \in {"submitted", "blocked"}
      \/ from = "submitted" /\ r.state \in {"acknowledged", "rejected"}
  BY <1>3 DEF Follows
<1>7. r.state = "acknowledged" => d0 \in Holding
  BY <1>1, <1>2 DEF Answered, Holding
<1>8. r.state = "rejected" => d0 \in refused
  BY <1>1, <1>2 DEF Answered
<1>9. \/ Chain!Proceed(d0) \/ Chain!Block(d0)
      \/ Chain!Acknowledge(d0) \/ Chain!Reject(d0)
  BY <1>5, <1>6, <1>7, <1>8
  DEF Chain!Proceed, Chain!Block, Chain!Acknowledge, Chain!Reject, Holding
<1> QED
  BY <1>9 DEF Chain!Next

LEMMA CallRefines ==
  ASSUME AnswerInv, Kept, NEW h \in Handlers,
         CallAccepted(h) \/ CallRefused(h) \/ CallLost(h)
  PROVE  [Chain!Next]_(Chain!vars)
<1> PICK d0 \in Decisions : d0 = job[h].d
  BY JobFacts DEF CallAccepted, CallRefused, CallLost, JobSound
<1>1. /\ job[h].pc = "call" /\ record' = record
      /\ job[h].kyc \in Verdicts
      /\ held \in [Decisions -> Verdicts \union {None}]
  BY JobFacts DEF CallAccepted, CallRefused, CallLost, JobSound, AnswerInv, StoreInv
<1>2. /\ Abstract[d0] \in {"submitted", "acknowledged", "rejected"}
      /\ Abstract' = Abstract
  BY <1>1 DEF Kept, CallsVisible, Visible, In, Abstract
<1>3. CASE Accepts(h) /\ UNCHANGED refused
  <2>1. held'[d0] # None /\ \A d \in Decisions : d # d0 => held'[d] = held[d]
    BY <1>1, <1>3, NoneAssumption DEF Accepts
  <2>2. Holding' = Holding \union {d0}
    BY <1>1, <2>1 DEF Holding
  <2>3. Chain!Accept(d0)
    BY <1>2, <1>3, <2>2 DEF Chain!Accept, Chain!Asked, Abstract, Holding
  <2> QED
    BY <2>3 DEF Chain!Next
<1>4. CASE UNCHANGED <<held, refused>>
  BY <1>1, <1>4 DEF Chain!vars
<1>5. CASE CallRefused(h)
  <2>1. Chain!Refuse(d0)
    BY <1>2, <1>5 DEF CallRefused, Chain!Refuse, Chain!Asked, Abstract
  <2> QED
    BY <2>1 DEF Chain!Next
<1> QED
  BY <1>3, <1>4, <1>5 DEF CallAccepted, CallLost

LEMMA StepRefines ==
  ASSUME AnswerInv, OrderInv, [Next]_vars, ~raced'
  PROVE  [Chain!Next]_(Chain!vars)
<1>1. ASSUME NEW h \in Handlers, Open(h) PROVE [Chain!Next]_(Chain!vars)
  BY <1>1, OpenRefines
<1>2. ASSUME NEW h \in Handlers, AdvanceWrite(h) PROVE [Chain!Next]_(Chain!vars)
  BY <1>2, WriteRefines
<1>3. ASSUME NEW h \in Handlers, CallAccepted(h) \/ CallRefused(h) \/ CallLost(h)
      PROVE  [Chain!Next]_(Chain!vars)
  <2>1. ~raced
    BY <1>3 DEF CallAccepted, CallRefused, CallLost, ghosts
  <2> QED
    BY <1>3, <2>1, CallRefines DEF OrderInv
<1>4. ASSUME NEW h \in Handlers, NoteWrite(h) PROVE UNCHANGED <<record, held, refused>>
  BY <1>4, NoteWriteInOrder DEF NoteWrite, backend
<1>5. ASSUME NEW h \in Handlers,
             \/ Post(h) \/ Crash(h) \/ ReadEvidence(h) \/ ListFails(h) \/ List(h)
             \/ AdvanceRead(h) \/ NoteRead(h) \/ PointRead(h) \/ PointWrite(h)
      PROVE  UNCHANGED <<record, held, refused>>
  BY <1>5 DEF Post, Crash, ReadEvidence, ListFails, List, AdvanceRead, NoteRead,
     PointRead, PointWrite, backend
<1>6. ASSUME SubmitAnswers \/ KycChanges \/ ConsentChanges \/ UNCHANGED vars
      PROVE  UNCHANGED <<record, held, refused>>
  BY <1>6 DEF SubmitAnswers, KycChanges, ConsentChanges, vars, backend
<1>7. UNCHANGED <<record, held, refused>> => UNCHANGED Chain!vars
  BY DEF Chain!vars
<1> QED
  BY <1>1, <1>2, <1>3, <1>4, <1>5, <1>6, <1>7 DEF Next, Step

(* However requests overlap and die, every step up to the first that       *)
(* writes back what has changed since it was read is a step of the chain   *)
(* or none: the states come in order, the backend is only called for a     *)
(* decision recorded as submitted, and the answer recorded was given       *)
(* (entity, 1-28 and 43-54).                                               *)
THEOREM Refinement == Spec => ImplementsChain
<1>1. Init => Chain!Init
  BY DEF Init, Chain!Init
<1>2. AnswerInv /\ OrderInv /\ [Next]_vars => [Chain!Next \/ raced']_(Chain!vars)
  BY StepRefines
<1> QED
  BY <1>1, <1>2, Invariance, OrderInvariant, PTL DEF Spec, ImplementsChain
=============================================================================
