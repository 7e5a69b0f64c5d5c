--------------------------- MODULE KycEvaluation ---------------------------
(***************************************************************************)
(* One investor's identity verification: the durable evaluation record,    *)
(* the provider-evaluation index, the webhook event markers, and every     *)
(* request handler that reads or writes them                               *)
(*   apps/web/src/lib/prototype-store/entities/kyc-evaluation.ts            *)
(*   apps/web/src/lib/kyc/socure/adapter.ts                                 *)
(* together with the verification provider as that code uses it.           *)
(*                                                                         *)
(* A handler (one HTTP request served by one instance) owns a slot and     *)
(* runs as a sequence of steps, one per store access or provider call, so  *)
(* that any two handlers may interleave at every await.  The user's own    *)
(* requests rewrite the whole record from the copy they read; only         *)
(* applyFinalProviderDecision decides inside the store's transaction.      *)
(*                                                                         *)
(* Abstracted: personal data, timestamps, the audit history, the backoff   *)
(* clock of reconcile (a reconcile that is not due changes nothing), and   *)
(* the customer-defined request id, which is one-to-one with the provider  *)
(* evaluation it opened.                                                   *)
(***************************************************************************)
EXTENDS Naturals

CONSTANTS
  Handlers,    \* slots for requests served concurrently
  Keys,        \* submission keys the investor's browser makes up
  Evals,       \* provider evaluation ids
  Webhooks,    \* provider event ids
  None,        \* "no value": null, absent
  MaxOverlaps, \* a request may begin beside one of the investor's as long as
               \* fewer than this many have done so or died
  MaxCrashes,  \* a handler may die as long as fewer than this many have done so
  MaxDecisions, \* how many times the provider may decide or change its mind
  MaxDeliveries \* how many deliveries the provider makes, repeats included

ASSUME HandlersAssumption == Handlers # {}
ASSUME BoundsAssumption ==
  /\ MaxOverlaps \in Nat /\ MaxCrashes \in Nat
  /\ MaxDecisions \in Nat /\ MaxDeliveries \in Nat

VARIABLES
  rec,      \* the investor's evaluation record
  indexed,  \* provider evaluations findable by findAuthIdByProviderEvaluation
  marker,   \* webhook-events store: the outcome noted for an event
  job,      \* what each handler slot is doing
  verdict,  \* provider: its present decision on each evaluation
  said,     \* provider: every decision it ever took on each evaluation
  webhook,  \* provider: the evaluation and decision each event announces
  applied,  \* ghost: how often an event changed the record's state
  overwritten, \* ghost: a request wrote back a record that had changed since
  overlaps, crashes, decisions, deliveries   \* counted up to their bounds

vars == <<rec, indexed, marker, job, verdict, said, webhook, applied,
          overwritten, overlaps, crashes, decisions, deliveries>>
ghosts == <<applied, overwritten>>
provider == <<verdict, said, webhook, decisions, deliveries>>

----------------------------------------------------------------------------
(* Data *)

States == {"not_started", "in_progress", "additional_info_required",
           "under_review", "passed", "failed"}
Terminal == {"passed", "failed"}
Decisions == {"accept", "reject", "review"}
Final == {"accept", "reject"}
Outcomes == {"applied", "duplicate_event", "unknown_evaluation",
             "evaluation_mismatch", "idempotent_same_result",
             "conflict_flagged", "stale_ignored"}

ASSUME NoneAssumption ==
  None \notin Keys \union Evals \union Webhooks \union Decisions \union Outcomes

(* Events are what the provider sends and the synthetic ids reconcile      *)
(* builds from the evaluation and its final decision.                      *)
Synthetic == Evals \X Final
Events == Webhooks \union Synthetic

Records == [state    : States,
            key      : Keys \union {None},
            phase    : {None, "submitting", "answered", "failed"},
            docv     : BOOLEAN,
            evalId   : Evals \union {None},
            decision : Decisions \union {None},
            final    : BOOLEAN,
            refs     : SUBSET Events,
            conflict : Final \union {None}]

freshKycEvaluation ==
  [state |-> "not_started", key |-> None, phase |-> None, docv |-> FALSE,
   evalId |-> None, decision |-> None, final |-> FALSE, refs |-> {},
   conflict |-> None]

(* Mapping of a decision to ReFi's state.  A synchronous REVIEW asks for   *)
(* document capture only when the response carries a capture token; a      *)
(* REVIEW by webhook never does.                                           *)
refiState(decision, token) ==
  CASE decision = "accept" -> "passed"
    [] decision = "reject" -> "failed"
    [] decision = "review" /\ token -> "additional_info_required"
    [] OTHER -> "under_review"

Steps == {"idle", "put", "index", "call", "response", "get", "check",
          "lookup", "apply", "mark", "note"}

IdleJob == [pc |-> "idle", user |-> FALSE, copy |-> freshKycEvaluation,
            base |-> freshKycEvaluation, then |-> "idle", eval |-> None,
            decision |-> None, token |-> FALSE, event |-> None, outcome |-> None]

Jobs == [pc : Steps, user : BOOLEAN, copy : Records,
         base : Records,   \* the record as it was when `copy` was built from it
         then : {"idle", "call"}, eval : Evals \union {None},
         decision : Decisions \union {None}, token : BOOLEAN,
         event : Events \union {None}, outcome : Outcomes \union {None}]

TypeOK ==
  /\ rec \in Records
  /\ indexed \subseteq Evals
  /\ marker \in [Events -> Outcomes \union {None}]
  /\ job \in [Handlers -> Jobs]
  /\ verdict \in [Evals -> Decisions \union {None}]
  /\ said \in [Evals -> SUBSET Decisions]
  /\ webhook \in [Webhooks -> [eval : Evals, decision : Decisions] \union {None}]
  /\ applied \in [Events -> 0..2]
  /\ overwritten \in BOOLEAN
  /\ overlaps \in 0..MaxOverlaps
  /\ crashes \in 0..MaxCrashes
  /\ decisions \in 0..MaxDecisions
  /\ deliveries \in 0..MaxDeliveries

Init ==
  /\ rec = freshKycEvaluation
  /\ indexed = {}
  /\ marker = [ev \in Events |-> None]
  /\ job = [h \in Handlers |-> IdleJob]
  /\ verdict = [e \in Evals |-> None]
  /\ said = [e \in Evals |-> {}]
  /\ webhook = [w \in Webhooks |-> None]
  /\ applied = [ev \in Events |-> 0]
  /\ overwritten = FALSE
  /\ overlaps = 0
  /\ crashes = 0
  /\ decisions = 0
  /\ deliveries = 0

----------------------------------------------------------------------------
(* Handlers *)

Idle(h) == job[h].pc = "idle"
Beside(others) ==
  IF others = {} THEN UNCHANGED overlaps
  ELSE overlaps + crashes < MaxOverlaps /\ overlaps' = overlaps + 1
UserMayCall(h) == Idle(h) /\ Beside({g \in Handlers : ~Idle(g)})
DeliveryMayStart(h) ==
  Idle(h) /\ Beside({g \in Handlers : ~Idle(g) /\ job[g].user})

(* A handler that has built `copy` from the record `base` writes it with   *)
(* putKycEvaluation, and goes on at `then`.                                *)
WriteNext(h, base, copy, then) ==
  job' = [job EXCEPT ![h] = [IdleJob EXCEPT !.pc = "put", !.user = TRUE,
                             !.base = base, !.copy = copy, !.then = then]]

(* start: the journey (re)opens; anything but a fresh or failed record is  *)
(* left as it is.                                                          *)
Start(h) ==
  /\ UserMayCall(h)
  /\ rec.state \in {"not_started", "failed"}
  /\ WriteNext(h, rec, [rec EXCEPT !.state = "in_progress"], "idle")
  /\ UNCHANGED <<rec, indexed, marker, provider, ghosts, crashes>>

(* Mutant: evaluate forgets that a passed journey is over.                 *)
MaySubmitAfterPass(r, k) ==
  /\ r.key = k => r.phase \notin {"submitting", "answered"}
  /\ ~(r.evalId # None /\ ~r.final /\ r.state # "failed")

(* evaluate: the guards of its early returns, on the copy just read.       *)
MaySubmit(r, k) ==
  /\ r.state # "passed"
  /\ r.key = k => r.phase \notin {"submitting", "answered"}
  /\ ~(r.evalId # None /\ ~r.final /\ r.state # "failed")

Evaluate(h, k) ==
  /\ UserMayCall(h)
  /\ MaySubmit(rec, k)
  /\ WriteNext(h, rec, [rec EXCEPT !.state = "in_progress", !.key = k,
                              !.phase = "submitting"], "call")
  /\ UNCHANGED <<rec, indexed, marker, provider, ghosts, crashes>>

Continue(j) ==
  IF j.then = "idle" THEN IdleJob ELSE [j EXCEPT !.pc = j.then, !.then = "idle"]

(* putKycEvaluation writes the record first and the index entry after it.  *)
PutRecord(h) ==
  /\ job[h].pc = "put"
  /\ rec' = job[h].copy
  /\ overwritten' = (overwritten \/ rec # job[h].base)
  /\ LET j == [job[h] EXCEPT !.base = freshKycEvaluation]
     IN job' = [job EXCEPT ![h] =
          IF j.copy.evalId # None THEN [j EXCEPT !.pc = "index"] ELSE Continue(j)]
  /\ UNCHANGED <<indexed, marker, provider, applied, crashes, overlaps>>

(* Mutant: the index entry is never written.                               *)
PutIndexSkipped(h) ==
  /\ job[h].pc = "index"
  /\ job' = [job EXCEPT ![h] = Continue(@)]
  /\ UNCHANGED <<rec, indexed, marker, provider, ghosts, crashes, overlaps>>

PutIndex(h) ==
  /\ job[h].pc = "index"
  /\ indexed' = indexed \union {job[h].copy.evalId}
  /\ job' = [job EXCEPT ![h] = Continue(@)]
  /\ UNCHANGED <<rec, marker, provider, ghosts, crashes, overlaps>>

(* The provider opens one evaluation per POST and answers with its first   *)
(* decision; the answer is then in flight to the handler.                  *)
ProviderEvaluates(h, e, d, token) ==
  /\ job[h].pc = "call"
  /\ verdict[e] = None
  /\ token => d = "review"
  /\ verdict' = [verdict EXCEPT ![e] = d]
  /\ said' = [said EXCEPT ![e] = @ \union {d}]
  /\ job' = [job EXCEPT ![h].pc = "response", ![h].eval = e,
                        ![h].decision = d, ![h].token = token]
  /\ UNCHANGED <<rec, indexed, marker, webhook, decisions, deliveries, ghosts,
                 crashes, overlaps>>

(* failed: the call was refused, or its answer was lost or unusable.  The  *)
(* copy that was submitted is written back with the phase only.            *)
SubmissionFails(h) ==
  /\ job[h].pc \in {"call", "response"}
  /\ WriteNext(h, job[h].copy, [job[h].copy EXCEPT !.phase = "failed"], "idle")
  /\ UNCHANGED <<rec, indexed, marker, provider, ghosts, crashes, overlaps>>


(* The answer of the provider, merged into the copy that was submitted.    *)
AnsweredCopy(j) ==
  [j.copy EXCEPT !.state = refiState(j.decision, j.token),
                 !.phase = "answered", !.docv = j.token,
                 !.evalId = j.eval, !.decision = j.decision,
                 !.final = j.decision \in Final]

Responded(h) ==
  /\ job[h].pc = "response"
  /\ WriteNext(h, job[h].copy, AnsweredCopy(job[h]), "idle")
  /\ UNCHANGED <<rec, indexed, marker, provider, ghosts, crashes, overlaps>>

markDocvCaptured(h) ==
  /\ UserMayCall(h)
  /\ rec.state = "additional_info_required" /\ rec.docv
  /\ WriteNext(h, rec, [rec EXCEPT !.state = "under_review"], "idle")
  /\ UNCHANGED <<rec, indexed, marker, provider, ghosts, crashes>>

(* reconcile: GET the evaluation of the record just read; a final answer   *)
(* goes through the webhook path under a synthetic event id; every outcome *)
(* ends in a note that re-reads the record and writes it back.             *)
Reconcile(h) ==
  /\ UserMayCall(h)
  /\ rec.state \notin Terminal
  /\ rec.evalId # None
  /\ job' = [job EXCEPT ![h] = [IdleJob EXCEPT !.pc = "get", !.user = TRUE,
                                               !.eval = rec.evalId]]
  /\ UNCHANGED <<rec, indexed, marker, provider, ghosts, crashes>>

GetAnswered(h) ==
  /\ job[h].pc = "get"
  /\ LET e == job[h].eval
         d == verdict[e]
     IN IF d \in Final
        THEN job' = [job EXCEPT ![h].pc = "check", ![h].decision = d,
                                ![h].event = <<e, d>>]
        ELSE job' = [job EXCEPT ![h].pc = "note"]
  /\ UNCHANGED <<rec, indexed, marker, provider, ghosts, crashes, overlaps>>

GetFails(h) ==
  /\ job[h].pc = "get"
  /\ job' = [job EXCEPT ![h].pc = "note"]
  /\ UNCHANGED <<rec, indexed, marker, provider, ghosts, crashes, overlaps>>

NoteReconcile(h) ==
  /\ job[h].pc = "note"
  /\ WriteNext(h, rec, rec, "idle")
  /\ UNCHANGED <<rec, indexed, marker, provider, ghosts, crashes, overlaps>>

(* The provider delivers an event, possibly again, possibly late.          *)
DeliverWebhook(h, w) ==
  /\ DeliveryMayStart(h)
  /\ webhook[w] # None
  /\ deliveries < MaxDeliveries
  /\ deliveries' = deliveries + 1
  /\ job' = [job EXCEPT ![h] =
       [IdleJob EXCEPT !.pc = "check", !.event = w, !.eval = webhook[w].eval,
                       !.decision = webhook[w].decision]]
  /\ UNCHANGED <<rec, indexed, marker, verdict, said, webhook, decisions,
                 ghosts, crashes>>

(* applyFinalProviderDecision: marker fast path, index lookup, the         *)
(* transactional decision, the marker.  A reconcile then notes itself.     *)
Finish(h) ==
  job' = [job EXCEPT ![h] =
            IF @.user THEN [IdleJob EXCEPT !.pc = "note", !.user = TRUE]
            ELSE IdleJob]

CheckMarker(h) ==
  /\ job[h].pc = "check"
  /\ IF marker[job[h].event] # None
     THEN Finish(h)
     ELSE job' = [job EXCEPT ![h].pc = "lookup"]
  /\ UNCHANGED <<rec, indexed, marker, provider, ghosts, crashes, overlaps>>

Lookup(h) ==
  /\ job[h].pc = "lookup"
  /\ job' = [job EXCEPT ![h] =
       IF @.eval \in indexed THEN [@ EXCEPT !.pc = "apply"]
       ELSE [@ EXCEPT !.pc = "mark", !.outcome = "unknown_evaluation"]]
  /\ UNCHANGED <<rec, indexed, marker, provider, ghosts, crashes, overlaps>>

SameResult(r, d) == \/ r.state = "passed" /\ d = "accept"
                    \/ r.state = "failed" /\ d = "reject"

(* Mutants of the decision: it forgets which evaluation the record is at,  *)
(* which events it has seen, or that a review may come late.               *)
DecidedOutcomeAnyEval(r, j) ==
  CASE j.event \in r.refs -> "duplicate_event"
    [] j.event \notin r.refs /\ r.state \notin Terminal -> "applied"
    [] OTHER -> IF SameResult(r, j.decision) THEN "idempotent_same_result"
                ELSE "conflict_flagged"
DecidedOutcomeForgetful(r, j) ==
  CASE r.evalId # j.eval -> "evaluation_mismatch"
    [] r.evalId = j.eval /\ r.state \notin Terminal -> "applied"
    [] OTHER -> IF SameResult(r, j.decision) THEN "idempotent_same_result"
                ELSE IF j.decision = "review" THEN "stale_ignored"
                ELSE "conflict_flagged"

DecidedOutcome(r, j) ==
  CASE r.evalId # j.eval -> "evaluation_mismatch"
    [] r.evalId = j.eval /\ j.event \in r.refs -> "duplicate_event"
    [] OTHER -> IF r.state \notin Terminal THEN "applied"
                ELSE IF SameResult(r, j.decision) THEN "idempotent_same_result"
                ELSE IF j.decision = "review" THEN "stale_ignored"
                ELSE "conflict_flagged"

(* Mutant: a confirming event is not recorded on the record.               *)
DecidedRecordUnlisted(r, j, outcome) ==
  CASE outcome = "conflict_flagged" ->
         [r EXCEPT !.refs = @ \union {j.event}, !.conflict = j.decision]
    [] outcome = "applied" ->
         [r EXCEPT !.state = refiState(j.decision, FALSE),
                   !.decision = j.decision, !.final = j.decision \in Final,
                   !.refs = @ \union {j.event}]
    [] OTHER -> r

DecidedRecord(r, j, outcome) ==
  CASE outcome = "idempotent_same_result" ->
         [r EXCEPT !.refs = @ \union {j.event}]
    [] outcome = "conflict_flagged" ->
         [r EXCEPT !.refs = @ \union {j.event}, !.conflict = j.decision]
    [] outcome = "applied" ->
         [r EXCEPT !.state = refiState(j.decision, FALSE),
                   !.decision = j.decision, !.final = j.decision \in Final,
                   !.refs = @ \union {j.event}]
    [] OTHER -> r

ApplyDecision(h) ==
  /\ job[h].pc = "apply"
  /\ LET j == job[h]
         outcome == DecidedOutcome(rec, j)
     IN /\ rec' = DecidedRecord(rec, j, outcome)
        /\ applied' = IF outcome = "applied" /\ applied[j.event] < 2
                      THEN [applied EXCEPT ![j.event] = @ + 1] ELSE applied
        /\ job' = [job EXCEPT ![h].pc = "mark", ![h].outcome = outcome]
  /\ UNCHANGED <<indexed, marker, provider, crashes, overwritten, overlaps>>

(* note puts the marker whatever is there; only a duplicate writes it if   *)
(* absent.                                                                 *)
Mark(h) ==
  /\ job[h].pc = "mark"
  /\ marker' = [marker EXCEPT ![job[h].event] =
       IF job[h].outcome = "duplicate_event" /\ @ # None THEN @
       ELSE job[h].outcome]
  /\ Finish(h)
  /\ UNCHANGED <<rec, indexed, provider, ghosts, crashes, overlaps>>

(* The instance serving a request dies: the rest of its steps never run.   *)
Crash(h) ==
  /\ ~Idle(h)
  /\ overlaps + crashes < MaxCrashes
  /\ crashes' = crashes + 1
  /\ job' = [job EXCEPT ![h] = IdleJob]
  /\ UNCHANGED <<rec, indexed, marker, provider, ghosts, overlaps>>

----------------------------------------------------------------------------
(* The provider, outside this repository *)

(* A reviewer at the provider decides an evaluation, or changes a decision *)
(* already taken (the case the code flags as a conflict).                  *)
Decide(e, d) ==
  /\ verdict[e] # None /\ verdict[e] # d
  /\ d \in Final
  /\ decisions < MaxDecisions
  /\ decisions' = decisions + 1
  /\ verdict' = [verdict EXCEPT ![e] = d]
  /\ said' = [said EXCEPT ![e] = @ \union {d}]
  /\ UNCHANGED <<rec, indexed, marker, job, webhook, deliveries, ghosts,
                 crashes, overlaps>>

EmitWebhook(w, e) ==
  /\ webhook[w] = None
  /\ verdict[e] # None
  /\ webhook' = [webhook EXCEPT ![w] = [eval |-> e, decision |-> verdict[e]]]
  /\ UNCHANGED <<rec, indexed, marker, job, verdict, said, decisions,
                 deliveries, ghosts, crashes, overlaps>>

----------------------------------------------------------------------------
(* Steps a handler owes once it has begun. *)
Step(h) ==
  \/ PutRecord(h) \/ PutIndex(h)
  \/ \E e \in Evals, d \in Decisions, token \in BOOLEAN :
       ProviderEvaluates(h, e, d, token)
  \/ SubmissionFails(h) \/ Responded(h)
  \/ GetAnswered(h) \/ GetFails(h) \/ NoteReconcile(h)
  \/ CheckMarker(h) \/ Lookup(h) \/ ApplyDecision(h) \/ Mark(h)

(* Requests that arrive. *)
Call(h) ==
  \/ Start(h) \/ markDocvCaptured(h) \/ Reconcile(h)
  \/ \E k \in Keys : Evaluate(h, k)
  \/ \E w \in Webhooks : DeliverWebhook(h, w)

Next ==
  \/ \E h \in Handlers : Call(h) \/ Step(h) \/ Crash(h)
  \/ \E e \in Evals, d \in Decisions : Decide(e, d)
  \/ \E w \in Webhooks, e \in Evals : EmitWebhook(w, e)

Spec == Init /\ [][Next]_vars

(* A request once begun runs on (every provider call has a timeout).  The  *)
(* page calls reconcile on each visit while the journey is open, and the   *)
(* provider does not refuse the GET for ever.                              *)
Fairness ==
  /\ \A h \in Handlers : WF_vars(Step(h))
  /\ SF_vars(\E h \in Handlers : Reconcile(h))
  /\ SF_vars(\E h \in Handlers : GetAnswered(h))

FairSpec == Spec /\ Fairness

----------------------------------------------------------------------------
(* Properties *)

(* A decision the record carries was taken by the provider, on the very    *)
(* evaluation the record names; a terminal state has that evidence and a   *)
(* final mark.  Holds for the stored record and for every copy a handler   *)
(* is about to write back, however requests overlap: "passed" never comes  *)
(* from anything but the provider's ACCEPT (kyc-evaluation.ts:221-362,     *)
(* adapter.ts:283-330).                                                    *)
Evidence(r) ==
  /\ r.decision # None => r.evalId # None /\ r.decision \in said[r.evalId]
  /\ r.final => r.decision \in Final
  /\ r.state = "passed" => r.final /\ r.decision = "accept"
  /\ r.state = "failed" => r.final /\ r.decision = "reject"
EvidenceBacked == Evidence(rec) /\ \A h \in Handlers : Evidence(job[h].copy)

(* What makes EvidenceBacked inductive: the provider stands by what it     *)
(* said, the events it sent announce what it said, and a handler that is   *)
(* to merge or apply a decision holds one the provider took.               *)
ProviderSound ==
  /\ \A e \in Evals : verdict[e] # None => verdict[e] \in said[e]
  /\ \A w \in Webhooks : webhook[w] # None =>
       webhook[w].decision \in said[webhook[w].eval]

JobSound(j) ==
  /\ j.pc = "index" => j.copy.evalId \in Evals
  /\ j.pc = "get" => j.eval \in Evals
  /\ j.pc \in {"response", "check", "lookup", "apply", "mark"} =>
       j.eval \in Evals /\ j.decision \in said[j.eval]
  /\ j.pc = "response" => (j.token => j.decision = "review")
  /\ j.pc \in {"check", "lookup", "apply", "mark"} => j.event \in Events
  /\ j.pc = "mark" => j.outcome \in Outcomes

KycInv == TypeOK /\ EvidenceBacked /\ ProviderSound
            /\ \A h \in Handlers : JobSound(job[h])

(* Until a request writes back a record that has changed since it was      *)
(* read: one event changes the state at most once, however often and       *)
(* concurrently it is delivered, beside which requests of the investor,    *)
(* and wherever a delivery dies ("exactly-once effect",                    *)
(* kyc-evaluation.ts:10-17).                                               *)
ExactlyOnce == ~overwritten => \A ev \in Events : applied[ev] <= 1

(* ... the audit marker agrees with the record: an event marked as applied,*)
(* confirmed or conflicting is listed on the record, and a conflict it     *)
(* reported is still flagged there.                                        *)
AuditMatchesRecord ==
  ~overwritten => \A ev \in Events :
    /\ marker[ev] \in {"applied", "idempotent_same_result", "conflict_flagged"}
         => ev \in rec.refs
    /\ marker[ev] = "conflict_flagged" => rec.conflict # None

(* ... a passed journey never leaves "passed", and a failed one is only    *)
(* reopened by the investor, never turned into a pass by a late delivery   *)
(* (kyc-evaluation.ts:14-17).                                              *)
TerminalNeverRegresses ==
  [][ ~overwritten' =>
        /\ rec.state = "passed" => rec'.state = "passed"
        /\ rec.state = "failed" => rec'.state \in {"failed", "in_progress"} ]_vars

(* The reconciliation path recovers a lost webhook: once the provider has  *)
(* accepted the evaluation the record waits for, the journey passes unless *)
(* the provider or the investor moves on (provider.ts:108-112).            *)
Awaited(e) == rec.evalId = e /\ verdict[e] = "accept" /\ rec.state \notin Terminal
Settled(e) == rec.state \in Terminal \/ rec.evalId # e \/ verdict[e] # "accept"
MissedWebhookRecovered == \A e \in Evals : Awaited(e) ~> Settled(e)
=============================================================================
