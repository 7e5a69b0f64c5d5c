------------------------ MODULE AcknowledgmentChallenge ------------------------
(***************************************************************************)
(* Changes the backend answers with 409 ACKNOWLEDGMENT_REQUIRED: a          *)
(* preference change or a brokerage disconnect, the challenge retained for  *)
(* it, and the investor's confirmation                                      *)
(*   apps/web/src/lib/prototype-store/entities/acknowledgment-challenge.ts  *)
(*   apps/web/src/lib/investor-api/preference-confirmation.ts               *)
(*   apps/web/src/lib/investor-api/acknowledgment.ts                        *)
(*   apps/web/src/lib/investor-api/disclosure-consent.ts                    *)
(*   apps/web/src/lib/investor-api/brokerage-maintenance.ts                 *)
(* Every store access and backend call of a request is a step; requests     *)
(* overlap, die half-way and are repeated, and answers are lost.            *)
(*                                                                         *)
(* Abstracted: a change is known by what it sets and the version it expects *)
(* (a disconnect expects none); the two idempotency keys are hashes of the  *)
(* change and of the change with its continuation, so they are named by     *)
(* these.  The backend repeats what it answered to a key it has applied.    *)
(***************************************************************************)
EXTENDS Naturals

CONSTANTS
  Handlers,       \* slots for requests served concurrently
  Refs,           \* continuation refs the backend may issue
  Patches,        \* preference values an investor may ask for
  Connections,    \* brokerage connections
  MaxVersion,     \* bound: preference versions
  MaxDisclosure,  \* bound: versions of the disclosure
  MaxCrashes,     \* bound: handlers that die half-way
  None

ASSUME BoundsAssumption ==
  MaxVersion \in Nat \ {0} /\ MaxDisclosure \in Nat \ {0} /\ MaxCrashes \in Nat
ASSUME KindsAssumption == Patches \intersect Connections = {}

VARIABLES
  challenge,     \* acknowledgment-challenges, by continuation ref
  issued,        \* backend: the change and disclosure behind each ref
  initial,       \* backend: changes it applied under their initial key
  applied,       \* backend: the change it applied under each confirmation
  version,       \* backend: version of the preferences
  effective,     \* backend: version of the disclosure in force
  consents,      \* backend: disclosure versions with an active consent
  expired,       \* continuations past expires_at
  job,
  overlapped,    \* ghost: two requests have been under way together
  crashes

vars == <<challenge, issued, initial, applied, version, effective, consents,
          expired, job, overlapped, crashes>>

Intents == [what : Patches, version : 1..MaxVersion]
             \union [what : Connections, version : {0}]
Disclosures == 1..MaxDisclosure
States == {"challenged", "consented", "confirmed", "failed"}
Follows(s) == CASE s = "challenged" -> {"consented", "failed"}
                [] s = "consented" -> {"confirmed", "failed"}
                [] OTHER -> {}
Records == [state : States, intent : Intents, required : Disclosures]

ASSUME NoneAssumption ==
  None \notin STRING /\ None \notin Refs /\ None \notin Intents
  /\ None \notin Records
  /\ None \notin [intent : Intents, required : Disclosures]

Steps == {"idle", "scope", "start", "open", "get", "list", "consent", "read",
          "write", "keyRead", "keyWrite", "call"}
Answers == {None, "applied", "challenge", "refused", "retry", "threw"}
Jobs == [pc : Steps, ref : Refs \union {None}, intent : Intents \union {None},
         copy : Records \union {None}, to : States \union {None},
         answer : Answers]
IdleJob == [pc |-> "idle", ref |-> None, intent |-> None, copy |-> None,
            to |-> None, answer |-> None]

TypeOK ==
  /\ challenge \in [Refs -> Records \union {None}]
  /\ issued \in [Refs -> [intent : Intents, required : Disclosures]
                           \union {None}]
  /\ initial \subseteq Intents
  /\ applied \in [Refs -> Intents \union {None}]
  /\ version \in 1..MaxVersion
  /\ effective \in Disclosures
  /\ consents \subseteq Disclosures
  /\ expired \subseteq Refs
  /\ job \in [Handlers -> Jobs]
  /\ overlapped \in BOOLEAN
  /\ crashes \in 0..MaxCrashes

Init ==
  /\ challenge = [r \in Refs |-> None]
  /\ issued = [r \in Refs |-> None]
  /\ initial = {}
  /\ applied = [r \in Refs |-> None]
  /\ version = 1
  /\ effective = 1
  /\ consents = {}
  /\ expired = {}
  /\ job = [h \in Handlers |-> IdleJob]
  /\ overlapped = FALSE
  /\ crashes = 0

store == <<challenge>>
backend == <<issued, initial, applied, version, consents>>
others == <<effective, expired, overlapped, crashes>>

----------------------------------------------------------------------------
Busy(h) == job[h].pc # "idle"
MayCall(h) ==
  /\ ~Busy(h)
  /\ overlapped' = (overlapped \/ \E g \in Handlers : Busy(g))

Go(h, pc) == job' = [job EXCEPT ![h].pc = pc]
Ends(h, a) == job' = [job EXCEPT ![h] = [IdleJob EXCEPT !.answer = a]]
AdvancesTo(h, s) == job' = [job EXCEPT ![h].pc = "read", ![h].to = s]

Disconnects(i) == i.what \in Connections
Begins(h, r, i) ==
  job' = [job EXCEPT ![h] = [IdleJob EXCEPT !.ref = r, !.intent = i,
            !.pc = IF Disconnects(i) THEN "scope"
                   ELSE IF r = None THEN "start" ELSE "get"]]

(* What the backend has taken, under either key.                            *)
Taken == initial \union {applied[r] : r \in Refs}

(* If-Match on the version, and a connection that is still connected.       *)
Fits(i) == IF Disconnects(i) THEN i \notin Taken
           ELSE i.version = version /\ version < MaxVersion
Takes(i) == version' = IF Disconnects(i) THEN version ELSE version + 1

----------------------------------------------------------------------------
(* The first request: PATCH preferences, or DELETE of the connection *)

(* startPreferenceChange, disconnectBrokerageConnection *)
Start(h, i) ==
  /\ MayCall(h)
  /\ Begins(h, None, i)
  /\ UNCHANGED <<store, backend, effective, expired, crashes>>

(* assertConnectionInScope: a disconnected connection is terminal.          *)
Scope(h) ==
  /\ job[h].pc = "scope"
  /\ IF job[h].intent \in Taken THEN Ends(h, "refused")
     ELSE Go(h, IF job[h].ref = None THEN "start" ELSE "get")
  /\ UNCHANGED <<store, backend, others>>

StartAccepted(h, lost) ==
  /\ job[h].pc = "start"
  /\ LET i == job[h].intent IN
     \/ i \in initial /\ UNCHANGED <<initial, version>>
     \/ Fits(i) /\ initial' = initial \union {i} /\ Takes(i)
  /\ Ends(h, IF lost THEN "retry" ELSE "applied")
  /\ UNCHANGED <<store, issued, applied, consents, others>>

(* 409 ACKNOWLEDGMENT_REQUIRED: a new continuation, or the one this key was *)
(* answered with before; the BFF opens a challenge only while it is valid.  *)
StartChallenged(h, r, lost) ==
  /\ job[h].pc = "start"
  /\ LET i == job[h].intent IN
     \/ /\ issued[r] = None
        /\ Fits(i) /\ i \notin initial
        /\ issued' = [issued EXCEPT ![r] = [intent |-> i,
                                            required |-> effective]]
     \/ /\ issued[r] # None
        /\ issued[r].intent = i
        /\ UNCHANGED issued
  /\ IF lost THEN Ends(h, "retry")
     ELSE IF r \in expired THEN Ends(h, "refused")
     ELSE job' = [job EXCEPT ![h].pc = "open", ![h].ref = r]
  /\ UNCHANGED <<store, initial, applied, version, consents, others>>

StartRefused(h) ==
  /\ job[h].pc = "start"
  /\ job[h].intent \notin initial
  /\ Ends(h, "refused")
  /\ UNCHANGED <<store, backend, others>>

(* openAcknowledgmentChallenge: whoever comes first creates the record.     *)
Open(h) ==
  /\ job[h].pc = "open"
  /\ LET r == job[h].ref IN
     challenge' = [challenge EXCEPT ![r] =
       IF @ = None THEN [state |-> "challenged", intent |-> job[h].intent,
                         required |-> issued[r].required]
       ELSE @]
  /\ Ends(h, "challenge")
  /\ UNCHANGED <<backend, others>>

----------------------------------------------------------------------------
(* The confirmation: confirmPreferenceChange, confirmBrokerageDisconnect *)

Confirm(h, r, i) ==
  /\ MayCall(h)
  /\ Begins(h, r, i)
  /\ UNCHANGED <<store, backend, effective, expired, crashes>>

Terminal(c) == c.state \in {"confirmed", "failed"}

GetAnyIntent(h) ==      \* mutant: the change confirmed is not compared
  /\ job[h].pc = "get"
  /\ LET r == job[h].ref
         c == challenge[r]
     IN IF c = None THEN Ends(h, "refused")
        ELSE IF Terminal(c) THEN Ends(h, "refused")
        ELSE IF r \in expired THEN AdvancesTo(h, "failed")
        ELSE Go(h, IF c.state = "challenged" THEN "list" ELSE "keyRead")
  /\ UNCHANGED <<store, backend, others>>

Get(h) ==
  /\ job[h].pc = "get"
  /\ LET r == job[h].ref
         c == challenge[r]
     IN CASE c = None \/ (c # None /\ Terminal(c)) -> Ends(h, "refused")
          [] c # None /\ ~Terminal(c) /\ c.intent # job[h].intent ->
               Ends(h, "refused")
          [] c # None /\ ~Terminal(c) /\ c.intent = job[h].intent ->
               IF r \in expired THEN AdvancesTo(h, "failed")
               ELSE Go(h, IF c.state = "challenged" THEN "list" ELSE "keyRead")
  /\ UNCHANGED <<store, backend, others>>

(* acknowledgeDisclosure reads the effective disclosures, then records the  *)
(* consent; the backend takes consent to what is in force only.             *)
List(h) ==
  /\ job[h].pc = "list"
  /\ IF challenge[job[h].ref].required = effective
     THEN Go(h, "consent") ELSE Ends(h, "refused")
  /\ UNCHANGED <<store, backend, others>>

ConsentRecorded(h, lost) ==
  /\ job[h].pc = "consent"
  /\ challenge[job[h].ref].required \in consents \union {effective}
  /\ consents' = consents \union {challenge[job[h].ref].required}
  /\ IF lost THEN Ends(h, "retry") ELSE AdvancesTo(h, "consented")
  /\ UNCHANGED <<store, issued, initial, applied, version, others>>

ConsentSkipped(h) ==    \* mutant: the challenge goes on without the receipt
  /\ job[h].pc = "consent"
  /\ AdvancesTo(h, "consented")
  /\ UNCHANGED <<store, backend, others>>
ConsentRefused(h) ==
  /\ job[h].pc = "consent"
  /\ Ends(h, "refused")
  /\ UNCHANGED <<store, backend, others>>

(* advanceAcknowledgmentChallenge: the state is checked on the copy read.   *)
AdvanceRead(h) ==
  /\ job[h].pc = "read"
  /\ LET c == challenge[job[h].ref] IN
     IF job[h].to \in Follows(c.state)
     THEN job' = [job EXCEPT ![h].pc = "write", ![h].copy = c]
     ELSE Ends(h, "threw")
  /\ UNCHANGED <<store, backend, others>>

AdvanceWrite(h) ==
  /\ job[h].pc = "write"
  /\ challenge' = [challenge EXCEPT ![job[h].ref] =
                     [job[h].copy EXCEPT !.state = job[h].to]]
  /\ CASE job[h].to = "consented" ->
            job' = [job EXCEPT ![h].pc = "keyRead", ![h].copy = None,
                               ![h].to = None]
       [] job[h].to = "confirmed" -> Ends(h, "applied")
       [] job[h].to = "failed" -> Ends(h, "refused")
  /\ UNCHANGED <<backend, others>>

(* setConfirmKey writes the record back as it was read, with the key.       *)
KeyRead(h) ==
  /\ job[h].pc = "keyRead"
  /\ job' = [job EXCEPT ![h].pc = "keyWrite",
                        ![h].copy = challenge[job[h].ref]]
  /\ UNCHANGED <<store, backend, others>>

KeyWrite(h) ==
  /\ job[h].pc = "keyWrite"
  /\ challenge' = [challenge EXCEPT ![job[h].ref] = job[h].copy]
  /\ job' = [job EXCEPT ![h].pc = "call", ![h].copy = None]
  /\ UNCHANGED <<backend, others>>

(* The confirmation key is computed from the change, its continuation and   *)
(* its consent receipt, so a repeated confirmation comes under the same key *)
(* and the backend answers what it answered then.                           *)
FreshKey(r) == FALSE    \* mutant: a new key for every attempt
KeyKnown(r) == applied[r] # None

(* The change again, with the continuation, under the confirmation key.     *)
CallAccepted(h, lost) ==
  /\ job[h].pc = "call"
  /\ LET r == job[h].ref
         i == job[h].intent
     IN \/ KeyKnown(r) /\ UNCHANGED <<applied, version>>
        \/ /\ ~KeyKnown(r)
           /\ Fits(i)
           /\ applied' = [applied EXCEPT ![r] = i] /\ Takes(i)
  /\ IF lost THEN Ends(h, "retry") ELSE AdvancesTo(h, "confirmed")
  /\ UNCHANGED <<store, issued, initial, consents, others>>

(* A definitive refusal ends the challenge.                                 *)
CallRefused(h) ==
  /\ job[h].pc = "call"
  /\ ~KeyKnown(job[h].ref)
  /\ AdvancesTo(h, "failed")
  /\ UNCHANGED <<store, backend, others>>

UnavailableDone(h) ==   \* mutant: no answer is taken for an accepted change
  /\ job[h].pc \in {"scope", "start", "list", "consent", "call"}
  /\ IF job[h].pc = "call" THEN AdvancesTo(h, "confirmed") ELSE Ends(h, "retry")
  /\ UNCHANGED <<store, backend, others>>
UnavailableFailed(h) == \* mutant: 503 is partitioned as a definitive answer
  /\ job[h].pc \in {"scope", "start", "list", "consent", "call"}
  /\ IF job[h].pc = "call" THEN AdvancesTo(h, "failed") ELSE Ends(h, "retry")
  /\ UNCHANGED <<store, backend, others>>

(* 429, 5xx, or no answer at all: the challenge stays as it is.             *)
Unavailable(h) ==
  /\ job[h].pc \in {"scope", "start", "list", "consent", "call"}
  /\ Ends(h, "retry")
  /\ UNCHANGED <<store, backend, others>>

----------------------------------------------------------------------------
Expire(r) ==
  /\ issued[r] # None
  /\ expired' = expired \union {r}
  /\ UNCHANGED <<store, backend, effective, job, overlapped, crashes>>

Publish ==
  /\ effective < MaxDisclosure
  /\ effective' = effective + 1
  /\ UNCHANGED <<store, backend, expired, job, overlapped, crashes>>

Crash(h) ==
  /\ Busy(h)
  /\ crashes < MaxCrashes
  /\ crashes' = crashes + 1
  /\ job' = [job EXCEPT ![h] = IdleJob]
  /\ UNCHANGED <<store, backend, effective, expired, overlapped>>

Works(h) ==
  \/ Scope(h) \/ StartRefused(h) \/ Open(h)
  \/ \E lost \in BOOLEAN : \/ StartAccepted(h, lost) \/ ConsentRecorded(h, lost)
                           \/ CallAccepted(h, lost)
                           \/ \E r \in Refs : StartChallenged(h, r, lost)
  \/ Get(h) \/ List(h) \/ ConsentRefused(h) \/ AdvanceRead(h) \/ AdvanceWrite(h)
  \/ KeyRead(h) \/ KeyWrite(h) \/ CallRefused(h) \/ Unavailable(h)

Next ==
  \/ \E h \in Handlers :
       \/ \E i \in Intents : Start(h, i) \/ \E r \in Refs : Confirm(h, r, i)
       \/ Works(h) \/ Crash(h)
  \/ \E r \in Refs : Expire(r)
  \/ Publish

Spec == Init /\ [][Next]_vars

----------------------------------------------------------------------------
(* A change the backend made on a confirmation has behind it the investor's *)
(* consent to exactly the disclosure version its continuation named         *)
(* (acknowledgment.ts 13-17), however confirmations race and the disclosure *)
(* is replaced.                                                             *)
ConsentBehindChange ==
  \A r \in Refs : applied[r] # None => issued[r].required \in consents

(* What is changed is what the investor asked for when the challenge was    *)
(* opened, never what a confirmation request says (preference-              *)
(* confirmation.ts 4-6).                                                    *)
IntentBound ==
  \A r \in Refs : applied[r] # None => applied[r] = issued[r].intent

(* The record says confirmed only of a change the backend made.             *)
ConfirmedIsApplied ==
  \A r \in Refs : challenge[r] # None =>
    (challenge[r].state = "confirmed" => applied[r] # None)

(* With requests one at a time: a challenge is closed as failed over a      *)
(* change that was made only when the continuation ran out before the       *)
(* investor came back for the lost answer.                                  *)
FailedNotApplied ==
  ~overlapped => \A r \in Refs : challenge[r] # None =>
    (challenge[r].state = "failed" /\ applied[r] # None => r \in expired)

(* With requests one at a time: repeating the confirmation of a preference  *)
(* change that was made, while the continuation is valid, is answered with  *)
(* the result or can be repeated again ("identical recovery", preference-   *)
(* confirmation.ts 327); it never meets a refusal or a version conflict.    *)
RetryFindsResult ==
  [][\A h \in Handlers :
       LET r == job[h].ref IN
       /\ Busy(h) /\ job'[h].pc = "idle" /\ crashes' = crashes /\ ~overlapped
       /\ r # None /\ job[h].pc # "open"
       /\ job[h].intent = applied[r] /\ ~Disconnects(applied[r])
       /\ r \notin expired /\ challenge[r].state # "confirmed"
       => job'[h].answer \in {"applied", "retry"}]_vars

----------------------------------------------------------------------------
(* The inductive invariant behind the first three, with requests            *)
(* overlapping or not.  A record always carries the change and disclosure   *)
(* its continuation was issued for, and so does every copy a handler may    *)
(* write back; whoever is past the consent has it recorded.                 *)
Bound(c, r) ==
  /\ issued[r] # None
  /\ c.intent = issued[r].intent /\ c.required = issued[r].required
  /\ c.state \in {"consented", "confirmed"} => c.required \in consents
  /\ c.state = "confirmed" => applied[r] # None

Confirming == {"list", "consent", "read", "write", "keyRead", "keyWrite", "call"}

JobSound(j) ==
  /\ j.pc # "idle" => j.intent # None
  /\ j.pc \in Confirming \union {"open", "get"} => j.ref # None
  /\ j.pc = "open" => /\ issued[j.ref] # None
                      /\ j.intent = issued[j.ref].intent
  /\ j.pc \in Confirming => /\ challenge[j.ref] # None
                            /\ j.intent = challenge[j.ref].intent
  /\ j.pc \in {"write", "keyWrite"} => j.copy # None /\ Bound(j.copy, j.ref)
  /\ j.pc \in {"read", "write"} =>
       /\ j.to \in {"consented", "confirmed", "failed"}
       /\ j.to \in {"consented", "confirmed"} =>
            challenge[j.ref].required \in consents
       /\ j.to = "confirmed" => applied[j.ref] # None
  /\ j.pc \in {"keyRead", "keyWrite", "call"} =>
       challenge[j.ref].required \in consents

ChallengeInv ==
  /\ TypeOK
  /\ \A r \in Refs : challenge[r] # None => Bound(challenge[r], r)
  /\ \A h \in Handlers : JobSound(job[h])
  /\ ConsentBehindChange
  /\ \A r \in Refs : applied[r] # None => issued[r] # None
  /\ IntentBound
=============================================================================
