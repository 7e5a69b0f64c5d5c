----------------------- MODULE AttestationSubmission -----------------------
(***************************************************************************)
(* Submission of the compliance attestation of an investor's decisions     *)
(*   apps/web/src/lib/compliance/attestation-submission.ts                  *)
(*   apps/web/src/lib/prototype-store/entities/attestation-submission.ts    *)
(*   apps/web/app/api/v1/investor/profile/v2/attestation/route.ts           *)
(* The chain disclosure -> consent -> constructed -> submitted ->          *)
(* acknowledged is one request that reads and writes the stored record at  *)
(* every step; requests may overlap, die half-way and be repeated, and the *)
(* backend's answer may be lost.                                           *)
(*                                                                         *)
(* Abstracted: a decision is its sequence number (the profile version),    *)
(* which fixes its attestation id; the evidence of a body is the KYC       *)
(* verdict in it, the one part of it that can change for a given decision; *)
(* the idempotency key is a hash of id and evidence, so it is named by the *)
(* evidence it was computed from.                                          *)
(***************************************************************************)
EXTENDS Naturals, FiniteSets

CONSTANTS
  Handlers,    \* slots for requests served concurrently
  MaxSeq,      \* how many decisions the investor may take
  None,
  MaxOverlaps, \* a request may begin beside another as long as fewer than this
               \* many have done so or died
  MaxCrashes   \* ... and may die, likewise

Verdicts == {"passed", "failed"}

ASSUME MaxSeqAssumption == MaxSeq \in Nat
ASSUME BoundsAssumption == MaxOverlaps \in Nat /\ MaxCrashes \in Nat

VARIABLES
  version,    \* latest profile version: the decision a request submits
  kyc,        \* the trusted KYC verdict, None when there is none to attest
  consented,  \* every effective disclosure has an active receipt
  record,     \* attestation-submissions, by decision
  latest,     \* attestation-latest-decisions: the pointer, 0 when absent
  held,       \* backend: the body it holds for each decision
  refused,    \* backend: decisions it answered with a semantic refusal
  raced,      \* ghost: a request wrote back what had changed since it was read
  orphaned,   \* ghost: decisions acknowledged by a request that then died
  job, overlaps, crashes

vars == <<version, kyc, consented, record, latest, held, refused, raced, orphaned,
          job, overlaps, crashes>>
inputs == <<version, kyc, consented>>
backend == <<held, refused>>
ghosts == <<raced, orphaned>>

Decisions == 1..MaxSeq
States == {"disclosure_delivered", "consent_accepted", "attestation_constructed",
           "submitted", "acknowledged", "blocked", "rejected"}
Follows(s) ==
  CASE s = "disclosure_delivered" -> {"consent_accepted", "blocked"}
    [] s = "consent_accepted" -> {"attestation_constructed", "blocked"}
    [] s = "attestation_constructed" -> {"submitted", "blocked"}
    [] s = "submitted" -> {"acknowledged", "rejected"}
    [] OTHER -> {}

Records == [state : States, evidence : Verdicts \union {None},
            key : Verdicts \union {None}]

ASSUME NoneAssumption ==
  /\ None \notin States \union Verdicts
  /\ None \notin Decisions
  /\ None \notin Records

Opened == [state |-> "disclosure_delivered", evidence |-> None, key |-> None]

Steps == {"idle", "evidence", "list", "open", "read", "write", "call", "noteRead",
          "noteWrite", "pointRead", "pointWrite"}
Jobs == [pc : Steps, d : Decisions \union {None}, kyc : Verdicts \union {None},
         mine : Records \union {None},  \* the record as this handler last had it
         copy : Records \union {None},  \* the record as advance or note read it
         to : States \union {None},
         seen : 0..MaxSeq]             \* the pointer as this handler read it
IdleJob == [pc |-> "idle", d |-> None, kyc |-> None, mine |-> None,
            copy |-> None, to |-> None, seen |-> 0]

TypeOK ==
  /\ version \in 0..MaxSeq
  /\ kyc \in Verdicts \union {None}
  /\ consented \in BOOLEAN
  /\ record \in [Decisions -> Records \union {None}]
  /\ latest \in 0..MaxSeq
  /\ held \in [Decisions -> Verdicts \union {None}]
  /\ refused \subseteq Decisions
  /\ raced \in BOOLEAN
  /\ orphaned \subseteq Decisions
  /\ job \in [Handlers -> Jobs]
  /\ overlaps \in 0..MaxOverlaps
  /\ crashes \in 0..MaxCrashes

Init ==
  /\ version = 0
  /\ kyc = None
  /\ consented = FALSE
  /\ record = [d \in Decisions |-> None]
  /\ latest = 0
  /\ held = [d \in Decisions |-> None]
  /\ refused = {}
  /\ raced = FALSE
  /\ orphaned = {}
  /\ job = [h \in Handlers |-> IdleJob]
  /\ overlaps = 0
  /\ crashes = 0

----------------------------------------------------------------------------
(* What the investor, the verification and the disclosures do *)

(* A version of the answers and its assessment are stored; a request that  *)
(* finds the one without the other ends at once.                           *)
SubmitAnswers ==
  /\ version < MaxSeq
  /\ version' = version + 1
  /\ UNCHANGED <<kyc, consented, record, latest, backend, ghosts, job, overlaps, crashes>>

(* kycEvidenceForAttestation: only a final verdict is evidence; a failed   *)
(* verification may be reopened, a passed one stays.                       *)
KycChanges ==
  /\ \/ kyc = None /\ kyc' \in Verdicts
     \/ kyc = "failed" /\ kyc' = None
  /\ UNCHANGED <<version, consented, record, latest, backend, ghosts, job,
                 overlaps, crashes>>

(* The investor accepts what is missing; a new disclosure takes effect.    *)
ConsentChanges ==
  /\ consented' = ~consented
  /\ UNCHANGED <<version, kyc, record, latest, backend, ghosts, job, overlaps, crashes>>

----------------------------------------------------------------------------
Busy(h) == job[h].pc # "idle"
Ends(h) == job' = [job EXCEPT ![h] = IdleJob]
Only(d) == [IdleJob EXCEPT !.d = d]

(* Slots are alike: a request takes one that is free.                      *)
Post(h) ==
  /\ ~Busy(h)
  /\ h = CHOOSE g \in Handlers : ~Busy(g)
  /\ version > 0
  /\ IF \E g \in Handlers : Busy(g)
     THEN overlaps + crashes < MaxOverlaps /\ overlaps' = overlaps + 1
     ELSE overlaps' = overlaps
  /\ job' = [job EXCEPT ![h] = [IdleJob EXCEPT !.pc = "evidence", !.d = version]]
  /\ UNCHANGED <<inputs, record, latest, backend, ghosts, crashes>>

(* The verdict is read after the version, and may be newer than it.        *)
ReadEvidence(h) ==
  /\ job[h].pc = "evidence"
  /\ job' = [job EXCEPT ![h].pc = "list", ![h].kyc = kyc]
  /\ UNCHANGED <<inputs, record, latest, backend, ghosts, overlaps, crashes>>

(* listEffectiveDisclosures and listConsents may fail: nothing is recorded.*)
ListFails(h) ==
  /\ job[h].pc = "list"
  /\ Ends(h)
  /\ UNCHANGED <<inputs, record, latest, backend, ghosts, overlaps, crashes>>

(* openAttestationSubmission creates the record once; the request goes on  *)
(* only if the consents it has listed are complete.                        *)
AdvanceForgetsAnswer(j, to) ==
  IF to \in {"acknowledged", "rejected"} THEN IdleJob
  ELSE [j EXCEPT !.pc = "read", !.to = to]
Advance(j, to) == [j EXCEPT !.pc = "read", !.to = to]

Onwards(j) ==
  LET s == j.mine.state IN
  CASE s = "disclosure_delivered" -> Advance(j, "consent_accepted")
    [] s # "disclosure_delivered" /\ j.kyc = None ->
         IF s = "blocked" THEN IdleJob ELSE Advance(j, "blocked")
    [] s = "consent_accepted" /\ j.kyc # None ->
         Advance(j, "attestation_constructed")
    [] s = "attestation_constructed" /\ j.kyc # None -> Advance(j, "submitted")
    [] s = "submitted" /\ j.kyc # None -> [j EXCEPT !.pc = "call"]
    [] OTHER -> IdleJob

List(h) ==
  /\ job[h].pc = "list"
  /\ job' = [job EXCEPT ![h].pc = "open",
                        ![h].to = IF consented THEN "consent_accepted" ELSE None]
  /\ UNCHANGED <<inputs, record, latest, backend, ghosts, overlaps, crashes>>

Open(h) ==
  /\ job[h].pc = "open"
  /\ LET d == job[h].d
         r == IF record[d] = None THEN Opened ELSE record[d]
     IN /\ record' = [record EXCEPT ![d] = r]
        /\ job' = [job EXCEPT ![h] =
             IF r.state \in {"acknowledged", "rejected"} \/ @.to = None
             THEN IdleJob
             ELSE Onwards([@ EXCEPT !.mine = r, !.to = None])]
  /\ UNCHANGED <<inputs, latest, backend, ghosts, overlaps, crashes>>

(* advanceAttestationSubmission: read, check the transition (or throw),    *)
(* write the whole record.                                                 *)
AdvanceRead(h) ==
  /\ job[h].pc = "read"
  /\ LET r == record[job[h].d] IN
     IF job[h].to \in Follows(r.state)
     THEN job' = [job EXCEPT ![h].pc = "write", ![h].copy = r]
     ELSE Ends(h)
  /\ UNCHANGED <<inputs, record, latest, backend, ghosts, overlaps, crashes>>

Key(j) == IF j.mine.key = None THEN j.kyc ELSE j.mine.key

Advanced(j) ==
  [j.copy EXCEPT !.state = j.to,
                 !.evidence = IF j.to = "attestation_constructed" THEN j.kyc
                              ELSE @,
                 !.key = IF j.to = "submitted" THEN Key(j) ELSE @]

AdvanceWrite(h) ==
  /\ job[h].pc = "write"
  /\ LET j == job[h]
         r == Advanced(j)
         k == [j EXCEPT !.mine = r, !.copy = None, !.to = None]
     IN /\ record' = [record EXCEPT ![j.d] = r]
        /\ raced' = (raced \/ record[j.d] # j.copy)
        /\ job' = [job EXCEPT ![h] =
             CASE j.to = "acknowledged" -> [Only(j.d) EXCEPT !.pc = "pointRead"]
               [] j.to \in {"blocked", "rejected"} -> IdleJob
               [] OTHER -> Onwards(k)]
  /\ UNCHANGED <<inputs, latest, backend, orphaned, overlaps, crashes>>

----------------------------------------------------------------------------
(* createComplianceProfileAttestation *)

(* The backend keeps one body per attestation id and answers its replay.   *)
Accepts(h) ==
  /\ held[job[h].d] \in {None, job[h].kyc}
  /\ held' = [held EXCEPT ![job[h].d] = job[h].kyc]

CallAccepted(h) ==
  /\ job[h].pc = "call"
  /\ Accepts(h)
  /\ job' = [job EXCEPT ![h] = Advance(@, "acknowledged")]
  /\ UNCHANGED <<inputs, record, latest, refused, ghosts, overlaps, crashes>>

CallRefused(h) ==
  /\ job[h].pc = "call"
  /\ refused' = refused \union {job[h].d}
  /\ job' = [job EXCEPT ![h] = Advance(@, "rejected")]
  /\ UNCHANGED <<inputs, record, latest, held, ghosts, overlaps, crashes>>

(* 429, 5xx, transport failure, deadline: applied by the backend or not.   *)
CallLostTakenAsDone(h) ==
  /\ job[h].pc = "call"
  /\ Accepts(h) \/ held' = held
  /\ job' = [job EXCEPT ![h] = Advance(@, "acknowledged")]
  /\ UNCHANGED <<inputs, record, latest, refused, ghosts, overlaps, crashes>>

CallLost(h) ==
  /\ job[h].pc = "call"
  /\ Accepts(h) \/ held' = held
  /\ job' = [job EXCEPT ![h] = [Only(@.d) EXCEPT !.pc = "noteRead"]]
  /\ UNCHANGED <<inputs, record, latest, refused, ghosts, overlaps, crashes>>

(* noteRetryableAnswer: the record stays submitted.                        *)
NoteRead(h) ==
  /\ job[h].pc = "noteRead"
  /\ IF record[job[h].d].state = "submitted"
     THEN job' = [job EXCEPT ![h].pc = "noteWrite", ![h].copy = record[job[h].d]]
     ELSE Ends(h)
  /\ UNCHANGED <<inputs, record, latest, backend, ghosts, overlaps, crashes>>

Overwrites(h) == raced' = (raced \/ record[job[h].d] # job[h].copy)

NoteWriteReopens(h) ==
  /\ job[h].pc = "noteWrite"
  /\ record' = [record EXCEPT ![job[h].d].state = "attestation_constructed"]
  /\ Overwrites(h)
  /\ Ends(h)
  /\ UNCHANGED <<inputs, latest, backend, orphaned, overlaps, crashes>>

NoteWrite(h) ==
  /\ job[h].pc = "noteWrite"
  /\ record' = [record EXCEPT ![job[h].d] = job[h].copy]
  /\ Overwrites(h)
  /\ Ends(h)
  /\ UNCHANGED <<inputs, latest, backend, orphaned, overlaps, crashes>>

(* recordAcknowledgedDecision: read the pointer, then write it.  Mutant:   *)
(* the late answer of an older decision is not turned away.                *)
PointReadUnguarded(h) ==
  /\ job[h].pc = "pointRead"
  /\ job' = [job EXCEPT ![h].pc = "pointWrite", ![h].seen = latest]
  /\ UNCHANGED <<inputs, record, latest, backend, ghosts, overlaps, crashes>>

PointRead(h) ==
  /\ job[h].pc = "pointRead"
  /\ IF latest >= job[h].d THEN Ends(h)
     ELSE job' = [job EXCEPT ![h].pc = "pointWrite", ![h].seen = latest]
  /\ UNCHANGED <<inputs, record, latest, backend, ghosts, overlaps, crashes>>

PointWrite(h) ==
  /\ job[h].pc = "pointWrite"
  /\ latest' = job[h].d
  /\ raced' = (raced \/ latest # job[h].seen)
  /\ Ends(h)
  /\ UNCHANGED <<inputs, record, backend, orphaned, overlaps, crashes>>

(* The instance dies, or a store access throws: the rest never happens.    *)
Pointing == {"pointRead", "pointWrite"}
Crash(h) ==
  /\ Busy(h)
  /\ overlaps + crashes < MaxCrashes
  /\ crashes' = crashes + 1
  /\ orphaned' = IF job[h].pc \in Pointing THEN orphaned \union {job[h].d}
                 ELSE orphaned
  /\ Ends(h)
  /\ UNCHANGED <<inputs, record, latest, backend, raced, overlaps>>

Step(h) ==
  \/ ReadEvidence(h) \/ ListFails(h) \/ List(h) \/ Open(h)
  \/ AdvanceRead(h) \/ AdvanceWrite(h)
  \/ CallAccepted(h) \/ CallRefused(h) \/ CallLost(h)
  \/ NoteRead(h) \/ NoteWrite(h) \/ PointRead(h) \/ PointWrite(h)

Next ==
  \/ SubmitAnswers \/ KycChanges \/ ConsentChanges
  \/ \E h \in Handlers : Post(h) \/ Step(h) \/ Crash(h)

Spec == Init /\ [][Next]_vars

(* A request once begun runs on.  The client tries again for as long as    *)
(* the record is open, and neither the listing nor the call fails for ever.*)
FairSpec ==
  /\ Spec
  /\ \A h \in Handlers : WF_vars(Step(h))
  /\ WF_vars(\E h \in Handlers : Post(h))
  /\ SF_vars(\E h \in Handlers : List(h))
  /\ SF_vars(\E h \in Handlers : CallAccepted(h) \/ CallRefused(h))

----------------------------------------------------------------------------
(* Properties *)

State(d) == IF record[d] = None THEN None ELSE record[d].state

(* Whatever overlaps, the pointer and an acknowledged record name a        *)
(* decision the backend holds, and a rejected record one it refused: no    *)
(* answer is relabelled (attestation-submission.ts entity, 20-23).         *)
AnswersNotRelabelled ==
  /\ \A d \in Decisions :
       /\ State(d) = "acknowledged" => held[d] # None
       /\ State(d) = "rejected" => d \in refused
  /\ latest # 0 => held[latest] # None

(* The three that follow hold however requests overlap and die, until one  *)
(* of them writes back a record, or the pointer, that has changed since it *)
(* was read: the store is read and written, not updated (entity, 209, 233, *)
(* 279).  A decision the backend holds, or a call under way, is recorded   *)
(* as submitted or further (entity, 15-17).                                *)
InFlightVisible ==
  ~raced => \A d \in Decisions :
    (held[d] # None \/ \E h \in Handlers : job[h].d = d /\ job[h].pc = "call")
      => State(d) \in {"submitted", "acknowledged", "rejected"}

(* ... the pointer is at the newest acknowledged decision: the late answer *)
(* of an older one never moves it back, and one it is behind is about to   *)
(* be pointed to, or was acknowledged by a request that died before it did *)
(* (entity, 93-97 and 225).                                                *)
PointerIsNewest ==
  ~raced => \A d \in Decisions : State(d) = "acknowledged" =>
    \/ latest >= d
    \/ d \in orphaned
    \/ \E h \in Handlers : job[h].d = d /\ job[h].pc \in Pointing

(* A submitted decision is recovered by the retries, beside each other and *)
(* wherever one dies: it ends acknowledged or rejected, unless a newer     *)
(* decision, a reopened verification or a new disclosure stops them        *)
(* (attestation-submission.ts:29-34).                                      *)
SubmittedIsAnswered ==
  \A d \in Decisions :
    State(d) = "submitted" ~>
      \/ State(d) \in {"acknowledged", "rejected"}
      \/ version # d \/ kyc = None \/ ~consented
      \/ raced

(* ... and the requests, the record they rewrite and the backend implement *)
(* the chain the entity promises, step by step.                            *)
Chain == INSTANCE SubmissionChain WITH
  state <- [d \in Decisions |-> IF record[d] = None THEN "absent"
                                ELSE record[d].state],
  held <- {d \in Decisions : held[d] # None}
ImplementsChain == Chain!Init /\ [][Chain!Next \/ raced']_(Chain!vars)
=============================================================================
