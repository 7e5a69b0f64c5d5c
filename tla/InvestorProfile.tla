---------------------------- MODULE InvestorProfile ----------------------------
(***************************************************************************)
(* The questionnaire of the investor profile: autosaved drafts, their       *)
(* resumption, and the submission that appends an immutable version         *)
(*   apps/web/src/lib/prototype-store/entities/investor-profile-v2.ts       *)
(*   apps/web/app/api/v1/investor/profile/v2/route.ts                       *)
(*   apps/web/app/api/v1/investor/profile/v2/draft/route.ts                 *)
(* for one identity, before and after an account is linked to it, in one    *)
(* server process (the critical section is in-process, and the code says    *)
(* so).  Every store access is a step, except the two reads at the head of  *)
(* the critical section, between which nothing else may write.              *)
(*                                                                         *)
(* Abstracted: the answers saved in a draft are known by their revision.    *)
(* The network delays, loses and reorders autosaves as it likes: any of     *)
(* them may arrive at any time.                                             *)
(***************************************************************************)
EXTENDS Naturals, Sequences

CONSTANTS
  Handlers,      \* slots for requests served concurrently
  Sessions,      \* draft sessions, one for each run of the wizard
  Answers,       \* complete questionnaires that may be submitted
  MaxRevision,   \* bound: autosaves of a session
  MaxVersion,    \* bound: submitted versions
  MaxRestarts,   \* bound: restarts of the server process
  None

ASSUME BoundsAssumption ==
  MaxRevision \in Nat \ {0} /\ MaxVersion \in Nat \ {0} /\ MaxRestarts \in Nat

VARIABLES
  draft,         \* investor-profile-drafts-v2, by scope
  answers,       \* investor-profile-answers-v2, by version
  assessed,      \* investor-profile-assessments-v2, by version
  linked,        \* the identity has its account
  job,
  queue,         \* withDraftLock: who holds the section, and who waits for it
  closed,        \* ghost: sessions both of whose tombstones were written
  straddled,     \* ghost: a request was under way when the account was linked
  restarts

vars == <<draft, answers, assessed, linked, job, queue, closed, straddled,
          restarts>>

Scopes == {"account", "preaccount"}
Revisions == 1..MaxRevision
Versions == 1..MaxVersion

Drafts == [kind : {"draft"}, session : Sessions, revision : Revisions]
Tombstones == [kind : {"closed"}, sessions : SUBSET Sessions]
Stored == Drafts \union Tombstones \union {None}

ASSUME NoneAssumption ==
  /\ None \notin Sessions /\ None \notin Answers /\ None \notin Revisions
  /\ None \notin Drafts /\ None \notin Tombstones

Steps == {"idle", "parse", "wait", "save", "list", "append", "assess", "close",
          "buryOwn", "buryShared"}
InSection == {"save", "close", "buryOwn", "buryShared"}
Jobs == [pc : Steps, scope : Scopes, session : Sessions \union {None},
         revision : Revisions \union {None}, own : Stored, shared : Stored,
         form : Answers \union {None}, version : Nat]
IdleJob == [pc |-> "idle", scope |-> "preaccount", session |-> None,
            revision |-> None, own |-> None, shared |-> None, form |-> None,
            version |-> 0]

TypeOK ==
  /\ draft \in [Scopes -> Stored]
  /\ answers \in [Versions -> Answers \union {None}]
  /\ assessed \in [Versions -> Answers \union {None}]
  /\ linked \in BOOLEAN /\ straddled \in BOOLEAN
  /\ job \in [Handlers -> Jobs]
  /\ queue \in Seq(Handlers)
  /\ closed \subseteq Sessions
  /\ restarts \in 0..MaxRestarts

Init ==
  /\ draft = [s \in Scopes |-> None]
  /\ answers = [v \in Versions |-> None]
  /\ assessed = [v \in Versions |-> None]
  /\ linked = FALSE
  /\ job = [h \in Handlers |-> IdleJob]
  /\ queue = <<>>
  /\ closed = {}
  /\ straddled = FALSE
  /\ restarts = 0

profile == <<answers, assessed>>
rest == <<linked, straddled, restarts>>

----------------------------------------------------------------------------
Busy(h) == job[h].pc # "idle"
Go(h, pc) == job' = [job EXCEPT ![h].pc = pc]
Ends(h) == job' = [job EXCEPT ![h] = IdleJob]

(* getAuthContext: the scope is the account linked when the request comes.  *)
MyScope == IF linked THEN "account" ELSE "preaccount"

Active(d) == d # None /\ d.kind = "draft"
Buried(d) == d # None /\ d.kind = "closed"
ClosedFor(d, s) == Buried(d) /\ s \in d.sessions
Names(d) == IF d = None THEN {}
            ELSE IF d.kind = "draft" THEN {d.session} ELSE d.sessions

(* What saveProfileDraftV2 decides of a save, from the record of its own    *)
(* scope and, for an account, from the preaccount record.                   *)
MaySaveAnySession(own, shared, s, n) == \* mutant: takeover is not refused
  /\ ~ClosedFor(own, s) /\ ~ClosedFor(shared, s)
  /\ Active(own) /\ own.session = s => own.revision < n
MaySaveClosed(own, shared, s, n) ==      \* mutant: tombstones are ignored
  /\ Active(own) => own.session = s /\ own.revision < n
  /\ own = None /\ Active(shared) => shared.session = s
MaySave(own, shared, s, n) ==
  /\ ~ClosedFor(own, s) /\ ~ClosedFor(shared, s)
  /\ Active(own) => own.session = s /\ own.revision < n
  /\ own = None /\ Active(shared) => shared.session = s

(* What getProfileDraftV2 shows an investor of that scope.                  *)
View(scope) ==
  IF Active(draft[scope]) THEN draft[scope]
  ELSE IF scope = "account" /\ draft[scope] = None
            /\ Active(draft["preaccount"])
       THEN draft["preaccount"] ELSE None

----------------------------------------------------------------------------
(* The critical section, one at a time in the order of arrival *)

Holds(h) == queue # <<>> /\ Head(queue) = h

EnterUnlocked(h) ==     \* mutant: nobody waits
  /\ job[h].pc = "wait"
  /\ job' = [job EXCEPT ![h].pc = IF job[h].revision # None THEN "save"
                                  ELSE "close",
                        ![h].own = draft[job[h].scope],
                        ![h].shared = draft["preaccount"]]
  /\ UNCHANGED <<draft, profile, queue, closed, rest>>

(* Its turn has come: it reads the record of its scope and, for an account, *)
(* the preaccount record.                                                   *)
Enter(h) ==
  /\ job[h].pc = "wait"
  /\ Holds(h)
  /\ job' = [job EXCEPT ![h].pc = IF job[h].revision # None THEN "save"
                                  ELSE "close",
                        ![h].own = draft[job[h].scope],
                        ![h].shared = draft["preaccount"]]
  /\ UNCHANGED <<draft, profile, queue, closed, rest>>

Leave(h) == Ends(h) /\ queue' = IF Holds(h) THEN Tail(queue) ELSE queue

----------------------------------------------------------------------------
(* POST draft: an autosave arrives, and is parsed before it asks for its turn *)

Autosave(h, s, n) ==
  /\ ~Busy(h)
  /\ job' = [job EXCEPT ![h] = [IdleJob EXCEPT !.pc = "parse",
               !.scope = MyScope, !.session = s, !.revision = n]]
  /\ UNCHANGED <<draft, profile, queue, closed, rest>>

Parse(h) ==
  /\ job[h].pc = "parse"
  /\ Go(h, "wait")
  /\ queue' = Append(queue, h)
  /\ UNCHANGED <<draft, profile, closed, rest>>

Save(h) ==
  /\ job[h].pc = "save"
  /\ LET j == job[h] IN
     IF MaySave(j.own, j.shared, j.session, j.revision)
     THEN draft' = [draft EXCEPT ![j.scope] =
                      [kind |-> "draft", session |-> j.session,
                       revision |-> j.revision]]
     ELSE UNCHANGED draft
  /\ Leave(h)
  /\ UNCHANGED <<profile, closed, rest>>

----------------------------------------------------------------------------
(* POST profile: the questionnaire is submitted from an account.  The page  *)
(* names its session, which is only added to what the server finds active.  *)

Submit(h, form, hint) ==
  /\ ~Busy(h)
  /\ linked
  /\ job' = [job EXCEPT ![h] = [IdleJob EXCEPT !.pc = "list",
               !.scope = "account", !.session = hint, !.form = form]]
  /\ UNCHANGED <<draft, profile, queue, closed, rest>>

Taken == {v \in Versions : answers[v] # None}
IsLatest(n) == n \in Taken \union {0} /\ \A v \in Taken : v <= n

(* latestProfileVersion; beyond the bound a submission finds its version    *)
(* taken.                                                                   *)
ListVersions(h) ==
  /\ job[h].pc = "list"
  /\ \E n \in 0..MaxVersion :
       /\ IsLatest(n)
       /\ job' = [job EXCEPT ![h].pc = "append",
                    ![h].version = IF n < MaxVersion THEN n + 1 ELSE n]
  /\ UNCHANGED <<draft, profile, queue, closed, rest>>

(* putIfAbsent: a concurrent submission may have taken the version.         *)
AppendAnswers(h) ==
  /\ job[h].pc = "append"
  /\ IF answers[job[h].version] = None
     THEN /\ answers' = [answers EXCEPT ![job[h].version] = job[h].form]
          /\ Go(h, "assess")
     ELSE Ends(h) /\ UNCHANGED answers
  /\ UNCHANGED <<draft, assessed, queue, closed, rest>>

(* appendProfileAssessment: an assessment on record is kept.                *)
Assess(h) ==
  /\ job[h].pc = "assess"
  /\ assessed' = [assessed EXCEPT ![job[h].version] =
                    IF @ = None THEN job[h].form ELSE @]
  /\ Go(h, "wait")
  /\ queue' = Append(queue, h)
  /\ UNCHANGED <<draft, answers, closed, rest>>

ToClose(h) == Names(job[h].own) \union Names(job[h].shared)
                \union ({job[h].session} \ {None})
Tombstone(names) == [kind |-> "closed", sessions |-> names]

(* closeProfileDraftsV2: nothing to close, or a tombstone in both scopes    *)
Close(h) ==
  /\ job[h].pc = "close"
  /\ IF ToClose(h) = {} THEN Leave(h)
     ELSE Go(h, "buryOwn") /\ UNCHANGED queue
  /\ UNCHANGED <<draft, profile, closed, rest>>

BurySharedFirst(h) ==   \* mutant: the scopes are written in the other order
  /\ job[h].pc = "buryOwn"
  /\ draft' = [draft EXCEPT !["preaccount"] = Tombstone(ToClose(h))]
  /\ Go(h, "buryShared")
  /\ UNCHANGED <<profile, queue, closed, rest>>
BuryOwn(h) ==
  /\ job[h].pc = "buryOwn"
  /\ draft' = [draft EXCEPT !["account"] = Tombstone(ToClose(h))]
  /\ Go(h, "buryShared")
  /\ UNCHANGED <<profile, queue, closed, rest>>

BuryShared(h) ==
  /\ job[h].pc = "buryShared"
  /\ draft' = [draft EXCEPT !["preaccount"] = Tombstone(ToClose(h))]
  /\ closed' = closed \union ToClose(h)
  /\ Leave(h)
  /\ UNCHANGED <<profile, rest>>

----------------------------------------------------------------------------
(* A store access throws: the request is answered 500, and the critical     *)
(* section is released on the way out.                                      *)
FailsHolding(h) ==      \* mutant: the section is not released
  /\ Busy(h)
  /\ job[h].pc # "wait" \/ Holds(h)
  /\ Ends(h)
  /\ UNCHANGED <<draft, profile, queue, closed, rest>>
Fails(h) ==
  /\ Busy(h)
  /\ job[h].pc # "wait" \/ Holds(h)
  /\ Leave(h)
  /\ UNCHANGED <<draft, profile, closed, rest>>

(* The process restarts: requests and critical section are gone.            *)
Restart ==
  /\ restarts < MaxRestarts
  /\ restarts' = restarts + 1
  /\ job' = [h \in Handlers |-> IdleJob]
  /\ queue' = <<>>
  /\ UNCHANGED <<draft, profile, closed, linked, straddled>>

(* linkAuthToAccount: onboarding links the account.                         *)
Link ==
  /\ ~linked
  /\ linked' = TRUE
  /\ straddled' = (straddled \/ \E h \in Handlers : Busy(h))
  /\ UNCHANGED <<draft, profile, job, queue, closed, restarts>>

Works(h) ==
  \/ Parse(h) \/ Enter(h) \/ Save(h)
  \/ ListVersions(h) \/ AppendAnswers(h) \/ Assess(h) \/ Close(h) \/ BuryOwn(h) \/ BuryShared(h)

Next ==
  \/ \E h \in Handlers :
       \/ \E s \in Sessions :
            \/ \E n \in Revisions : Autosave(h, s, n)
            \/ \E form \in Answers : Submit(h, form, s)
       \/ \E form \in Answers : Submit(h, form, None)
       \/ Works(h) \/ Fails(h)
  \/ Restart
  \/ Link

Spec == Init /\ [][Next]_vars

----------------------------------------------------------------------------
(* A submission is final: no draft of a session it closed is ever stored    *)
(* again, however late the autosave (investor-profile-v2.ts 192-198);       *)
(* unless a request of the unlinked identity outlived the linking.          *)
Finality ==
  ~straddled => \A s \in closed, scope \in Scopes :
                  Active(draft[scope]) => draft[scope].session # s

(* The wizard can always go on.  What the resume shows can be continued at  *)
(* the next revision, and if it shows nothing a session nobody has used can *)
(* start (184-190), also when a submission died between its two tombstones. *)
WizardNeverStuck ==
  LET own == draft[MyScope]
      shared == draft["preaccount"]
      v == View(MyScope)
  IN /\ v # None => MaySave(own, shared, v.session, v.revision + 1)
     /\ v = None => \A s \in Sessions :
          s \notin Names(own) \union Names(shared) => MaySave(own, shared, s, 1)

(* In its scope a draft only gives way to a newer revision of the same      *)
(* session or to a tombstone, however autosaves overtake one another        *)
(* (173-181).                                                               *)
NewerWins ==
  [][\A scope \in Scopes : Active(draft[scope]) =>
       \/ draft'[scope] = draft[scope]
       \/ Buried(draft'[scope])
       \/ /\ draft'[scope].session = draft[scope].session
          /\ draft'[scope].revision > draft[scope].revision]_vars

(* The session an investor would resume is not replaced by another: it      *)
(* stays, or a submission closes it (184-190).                              *)
NoTakeover ==
  [][View(MyScope) # None =>
       \/ View(MyScope)' = None
       \/ View(MyScope)'.session = View(MyScope).session]_vars

(* What was submitted is history: versions are contiguous, and neither a    *)
(* version nor its assessment is written twice (85-113, 122-147).           *)
HistoryFixed ==
  [][\A v \in Versions :
       /\ answers[v] # None => answers'[v] = answers[v]
       /\ assessed[v] # None => assessed'[v] = assessed[v]
       /\ answers'[v] # None => \A u \in 1..v : answers'[u] # None]_vars

(* The critical section is passed on whatever fails in it: a request that   *)
(* has been answered neither holds it nor waits for it, so nobody waits for *)
(* it in vain (255-279).                                                    *)
SectionPassedOn ==
  \A i \in 1..Len(queue) :
    /\ job[queue[i]].pc \in {"wait"} \union IF i = 1 THEN InSection ELSE {}
    /\ \A k \in 1..Len(queue) : queue[k] = queue[i] => k = i

----------------------------------------------------------------------------
(* The inductive invariant.  Whoever is in the critical section decides on  *)
(* the records as they are; a draft the account shows is in no preaccount   *)
(* tombstone; and that tombstone names everything ever closed.              *)
JobSound(h) ==
  LET j == job[h] IN
  /\ j.pc \in InSection => /\ Holds(h)
                           /\ j.shared = draft["preaccount"]
                           /\ j.pc # "buryShared" => j.own = draft[j.scope]
  /\ j.pc = "buryShared" => Buried(draft["account"])
  /\ Busy(h) => IF linked /\ ~straddled THEN j.scope = "account"
                ELSE j.scope = "account" => linked
  /\ Busy(h) /\ j.revision # None => /\ j.pc \in {"parse", "wait", "save"}
                                     /\ j.session # None
  /\ Busy(h) /\ j.revision = None => /\ j.pc \notin {"parse", "save"} /\ j.scope = "account"
                                     /\ j.form # None
  /\ j.pc \in {"append", "assess"} => j.version \in Versions
  /\ j.pc = "append" => \A u \in 1..(j.version - 1) : answers[u] # None

ProfileInv ==
  /\ TypeOK
  /\ SectionPassedOn
  /\ \A h \in Handlers : JobSound(h)
  /\ Active(draft["account"]) =>
       ~ClosedFor(draft["preaccount"], draft["account"].session)
  /\ ~straddled /\ closed # {} =>
       linked /\ Buried(draft["preaccount"])
       /\ closed \subseteq draft["preaccount"].sessions
  /\ \A v \in Versions : answers[v] # None => \A u \in 1..v : answers[u] # None
=============================================================================
