------------------------- MODULE InvestorProfileProofs -------------------------
(***************************************************************************)
(* For any number of requests, sessions and versions: the critical section  *)
(* is exclusive and passed on, a submission is final, the wizard can always *)
(* go on, newer drafts win, and submitted versions are history.             *)
(***************************************************************************)
EXTENDS InvestorProfile, TLAPS

Queued == {"wait"} \union InSection
JobsSound == \A h \in Handlers : JobSound(h)
DraftIsOpen == Active(draft["account"]) =>
                 ~ClosedFor(draft["preaccount"], draft["account"].session)
ClosedIsBuried == ~straddled /\ closed # {} =>
                    linked /\ Buried(draft["preaccount"])
                    /\ closed \subseteq draft["preaccount"].sessions
Contiguous ==
  \A v \in Versions : answers[v] # None => \A u \in 1..v : answers[u] # None

LEMMA InvParts ==
  ProfileInv <=> /\ TypeOK /\ SectionPassedOn /\ JobsSound
                 /\ DraftIsOpen /\ ClosedIsBuried /\ Contiguous
BY DEF ProfileInv, JobsSound, DraftIsOpen, ClosedIsBuried, Contiguous

(* Who neither waits nor is inside is not in the queue.                     *)
LEMMA NotQueued ==
  ASSUME TypeOK, SectionPassedOn, NEW h \in Handlers, job[h].pc \notin Queued
  PROVE  /\ ~Holds(h)
         /\ \A i \in 1..Len(queue) : queue[i] # h
BY DEF TypeOK, SectionPassedOn, Queued, Holds

(* The head of the queue is one handler.                                    *)
LEMMA OneHolds ==
  ASSUME NEW g \in Handlers, NEW h \in Handlers, Holds(g), Holds(h)
  PROVE  g = h
BY DEF Holds

(* How a step of h may change its place in the queue.                       *)
KeepsPlace(h, j) ==
  /\ queue' = queue
  /\ j.pc \in InSection => Holds(h)
  /\ job[h].pc \in Queued => j.pc \in InSection
  /\ j.pc # "wait"
Joins(h, j) == /\ queue' = Append(queue, h)
               /\ job[h].pc \notin Queued /\ j.pc = "wait"
Departs(h, j) == queue' = Tail(queue) /\ Holds(h) /\ j.pc = "idle"
Moves(h, j) == KeepsPlace(h, j) \/ Joins(h, j) \/ Departs(h, j)

LEMMA QueueStep ==
  ASSUME TypeOK, SectionPassedOn, NEW h \in Handlers, NEW j \in Jobs,
         job' = [job EXCEPT ![h] = j], Moves(h, j)
  PROVE  SectionPassedOn' /\ queue' \in Seq(Handlers)
<1>1. \A g \in Handlers : job'[g] = IF g = h THEN j ELSE job[g]
  BY DEF TypeOK
<1>2. CASE KeepsPlace(h, j)
  <2>1. ASSUME NEW i \in 1..Len(queue)
        PROVE  job'[queue[i]].pc \in
                 {"wait"} \union IF i = 1 THEN InSection ELSE {}
    <3>1. CASE queue[i] # h
      BY <1>1, <2>1, <3>1 DEF TypeOK, SectionPassedOn
    <3>2. CASE queue[i] = h
      <4>1. job[h].pc \in Queued
        BY <2>1, <3>2 DEF SectionPassedOn, Queued
      <4>2. j.pc \in InSection /\ Holds(h)
        BY <1>2, <4>1 DEF KeepsPlace
      <4>3. i = 1
        BY <2>1, <3>2, <4>2 DEF SectionPassedOn, Holds, TypeOK
      <4> QED
        BY <1>1, <3>2, <4>2, <4>3
    <3> QED
      BY <3>1, <3>2
  <2> QED
    BY <1>2, <2>1 DEF KeepsPlace, SectionPassedOn, TypeOK
<1>3. CASE Joins(h, j)
  <2>1. \A i \in 1..Len(queue) : queue[i] # h
    BY <1>3, NotQueued DEF Joins
  <2>2. /\ queue' \in Seq(Handlers) /\ Len(queue') = Len(queue) + 1
        /\ Len(queue) \in Nat
        /\ \A i \in 1..Len(queue) : queue'[i] = queue[i]
        /\ queue'[Len(queue) + 1] = h
    BY <1>3 DEF Joins, TypeOK
  <2>3. ASSUME NEW i \in 1..Len(queue')
        PROVE  job'[queue'[i]].pc \in
                 {"wait"} \union IF i = 1 THEN InSection ELSE {}
    <3>1. CASE i \in 1..Len(queue)
      BY <1>1, <2>1, <2>2, <3>1 DEF TypeOK, SectionPassedOn
    <3>2. CASE i = Len(queue) + 1
      BY <1>1, <1>3, <2>2, <3>2 DEF Joins
    <3> QED
      BY <2>2, <2>3, <3>1, <3>2
  <2>4. \A i, k \in 1..Len(queue') : queue'[k] = queue'[i] => k = i
    <3> SUFFICES ASSUME NEW i \in 1..Len(queue'), NEW k \in 1..Len(queue'),
                        queue'[k] = queue'[i]
                 PROVE  k = i
      OBVIOUS
    <3>1. /\ i \in 1..Len(queue) \/ i = Len(queue) + 1
          /\ k \in 1..Len(queue) \/ k = Len(queue) + 1
      BY <2>2
    <3>2. CASE i \in 1..Len(queue) /\ k \in 1..Len(queue)
      BY <2>2, <3>2 DEF SectionPassedOn
    <3>3. CASE i = Len(queue) + 1 \/ k = Len(queue) + 1
      BY <2>1, <2>2, <3>1, <3>3
    <3> QED
      BY <3>1, <3>2, <3>3
  <2> QED
    BY <2>2, <2>3, <2>4 DEF SectionPassedOn
<1>4. CASE Departs(h, j)
  <2>1. queue \in Seq(Handlers) /\ queue # <<>> /\ queue[1] = h
    BY <1>4 DEF Departs, Holds, TypeOK
  <2>2. /\ queue' \in Seq(Handlers) /\ Len(queue') = Len(queue) - 1
        /\ \A i \in 1..Len(queue') : queue'[i] = queue[i + 1]
    BY <1>4, <2>1 DEF Departs
  <2>3. ASSUME NEW i \in 1..Len(queue')
        PROVE  job'[queue'[i]].pc = "wait" /\ queue'[i] # h
    <3>1. i + 1 \in 1..Len(queue) /\ i + 1 # 1 /\ 1 \in 1..Len(queue)
      BY <2>1, <2>2, <2>3
    <3>2. queue[i + 1] # h /\ job[queue[i + 1]].pc = "wait"
      BY <2>1, <3>1 DEF SectionPassedOn
    <3>3. queue[i + 1] \in Handlers
      BY <2>1, <3>1
    <3> QED
      BY <1>1, <2>2, <3>2, <3>3
  <2>4. \A i, k \in 1..Len(queue') : queue'[k] = queue'[i] => k = i
    <3> SUFFICES ASSUME NEW i \in 1..Len(queue'), NEW k \in 1..Len(queue'),
                        queue'[k] = queue'[i]
                 PROVE  k = i
      OBVIOUS
    <3>1. i + 1 \in 1..Len(queue) /\ k + 1 \in 1..Len(queue)
          /\ queue[k + 1] = queue[i + 1]
      BY <2>1, <2>2
    <3> QED
      BY <2>1, <2>2, <3>1 DEF SectionPassedOn
  <2> QED
    BY <2>2, <2>3, <2>4 DEF SectionPassedOn
<1> QED
  BY <1>2, <1>3, <1>4 DEF Moves

(* Records grow, and only the holder of the section writes drafts.          *)
Grows(h) ==
  /\ draft' = draft \/ job[h].pc \in InSection
  /\ \A v \in Versions : answers[v] # None => answers'[v] # None

LEMMA OthersSound ==
  ASSUME TypeOK, SectionPassedOn, JobsSound, NEW h \in Handlers, NEW j \in Jobs,
         job' = [job EXCEPT ![h] = j], Moves(h, j), Grows(h),
         UNCHANGED <<linked, straddled>>,
         NEW g \in Handlers, g # h
  PROVE  JobSound(g)'
<1>1. job'[g] = job[g] /\ JobSound(g) /\ job[g] \in Jobs
  BY DEF TypeOK, JobsSound
<1>2. job[g].pc \in InSection => Holds(g) /\ ~Holds(h)
  BY <1>1, OneHolds DEF JobSound
<1>3. job[h].pc \in InSection => Holds(h)
  BY DEF JobsSound, JobSound
<1>4. job[g].pc \in InSection => draft' = draft /\ Holds(g)'
  <2> HAVE job[g].pc \in InSection
  <2>1. draft' = draft
    BY <1>2, <1>3 DEF Grows
  <2>2. CASE queue' = queue
    BY <1>2, <2>1, <2>2 DEF Holds
  <2>3. CASE queue' = Append(queue, h)
    <3>1. queue \in Seq(Handlers) /\ queue # <<>> /\ Head(queue) = g
      BY <1>2 DEF Holds, TypeOK
    <3> QED
      BY <2>1, <2>3, <3>1 DEF Holds
  <2> QED
    BY <1>2, <2>2, <2>3 DEF Moves, KeepsPlace, Joins, Departs
<1>5. job[g].pc = "buryShared" => Buried(draft["account"])'
  BY <1>1, <1>4 DEF JobSound, InSection, Buried
<1>6. job[g].pc = "append" =>
        \A u \in 1..(job[g].version - 1) : answers'[u] # None
  <2> HAVE job[g].pc = "append"
  <2>1. job[g].version \in Versions
    BY <1>1 DEF JobSound
  <2>2. \A u \in 1..(job[g].version - 1) : u \in Versions
    BY <2>1, BoundsAssumption DEF Versions
  <2> QED
    BY <1>1, <2>2 DEF JobSound, Grows
<1> QED
  BY <1>1, <1>4, <1>5, <1>6 DEF JobSound, Busy, InSection

(* What is left to show of a step of one handler.                           *)
LEMMA OneJobStep ==
  ASSUME ProfileInv, NEW h \in Handlers, NEW j \in Jobs,
         job' = [job EXCEPT ![h] = j], Moves(h, j), Grows(h), UNCHANGED rest,
         draft' \in [Scopes -> Stored],
         answers' \in [Versions -> Answers \union {None}],
         assessed' \in [Versions -> Answers \union {None}],
         closed' \subseteq Sessions,
         JobSound(h)', DraftIsOpen', ClosedIsBuried', Contiguous'
  PROVE  ProfileInv'
<1>1. TypeOK /\ SectionPassedOn /\ JobsSound
  BY InvParts
<1>2. SectionPassedOn' /\ queue' \in Seq(Handlers)
  BY <1>1, QueueStep
<1>3. job' \in [Handlers -> Jobs]
  BY <1>1 DEF TypeOK
<1>4. TypeOK'
  BY <1>1, <1>2, <1>3 DEF TypeOK, rest
<1>5. JobsSound'
  BY <1>1, OthersSound DEF JobsSound, rest
<1> QED
  BY <1>2, <1>4, <1>5 DEF ProfileInv, JobsSound, DraftIsOpen, ClosedIsBuried,
     Contiguous

----------------------------------------------------------------------------
LEMMA JobType ==
  ASSUME TypeOK, NEW h \in Handlers
  PROVE  /\ job[h] \in Jobs
         /\ job[h].scope \in Scopes
         /\ job[h].session \in Sessions \union {None}
         /\ job[h].revision \in Revisions \union {None}
         /\ job[h].own \in Stored /\ job[h].shared \in Stored
         /\ job[h].form \in Answers \union {None}
         /\ job[h].version \in Nat
BY DEF TypeOK, Jobs

LEMMA IdleJobType == IdleJob \in Jobs /\ IdleJob.pc = "idle"
BY DEF IdleJob, Jobs, Steps, Scopes, Stored

(* A step that leaves the stores alone.                                     *)
LEMMA StoresStay ==
  ASSUME ProfileInv, UNCHANGED <<draft, profile, closed, rest>>
  PROVE  /\ draft' \in [Scopes -> Stored]
         /\ answers' \in [Versions -> Answers \union {None}]
         /\ assessed' \in [Versions -> Answers \union {None}]
         /\ closed' \subseteq Sessions
         /\ DraftIsOpen' /\ ClosedIsBuried' /\ Contiguous'
         /\ \A h \in Handlers : Grows(h)
         /\ UNCHANGED rest
<1>1. TypeOK /\ DraftIsOpen /\ ClosedIsBuried /\ Contiguous
  BY InvParts
<1>2. UNCHANGED <<draft, answers, assessed, closed, linked, straddled>>
  BY DEF profile, rest
<1>3. DraftIsOpen' /\ ClosedIsBuried' /\ Contiguous'
  BY <1>1, <1>2 DEF DraftIsOpen, ClosedIsBuried, Contiguous, Active, ClosedFor,
     Buried
<1> QED
  BY <1>1, <1>2, <1>3 DEF TypeOK, Grows

(* The request is answered, and leaves the section if it was inside.        *)
LEMMA LeaveStep ==
  ASSUME ProfileInv, NEW h \in Handlers, job[h].pc # "wait" \/ Holds(h),
         Leave(h), Grows(h), UNCHANGED rest,
         draft' \in [Scopes -> Stored],
         answers' \in [Versions -> Answers \union {None}],
         assessed' \in [Versions -> Answers \union {None}],
         closed' \subseteq Sessions,
         DraftIsOpen', ClosedIsBuried', Contiguous'
  PROVE  ProfileInv'
<1>1. TypeOK /\ SectionPassedOn /\ JobsSound
  BY InvParts
<1>2. PICK j \in Jobs : j = IdleJob
  BY IdleJobType
<1>3. job' = [job EXCEPT ![h] = j] /\ j.pc = "idle"
  BY <1>2, IdleJobType DEF Leave, Ends
<1>4. Moves(h, j)
  <2>1. CASE Holds(h)
    BY <1>3, <2>1 DEF Leave, Moves, Departs
  <2>2. CASE ~Holds(h)
    <3>1. job[h].pc \notin Queued
      BY <1>1, <2>2 DEF JobsSound, JobSound, Queued
    <3> QED
      BY <1>3, <2>2, <3>1 DEF Leave, Moves, KeepsPlace, InSection
  <2> QED
    BY <2>1, <2>2
<1>5. job'[h] = j
  BY <1>1, <1>3 DEF TypeOK
<1>6. JobSound(h)'
  BY <1>3, <1>5 DEF JobSound, Busy, InSection
<1> QED
  BY <1>3, <1>4, <1>6, OneJobStep

(* The answered request that changed no store.                              *)
LEMMA LeaveOnly ==
  ASSUME ProfileInv, NEW h \in Handlers, job[h].pc # "wait" \/ Holds(h),
         Leave(h), UNCHANGED <<draft, profile, closed, rest>>
  PROVE  ProfileInv'
<1>1. /\ draft' \in [Scopes -> Stored]
      /\ answers' \in [Versions -> Answers \union {None}]
      /\ assessed' \in [Versions -> Answers \union {None}]
      /\ closed' \subseteq Sessions
      /\ DraftIsOpen' /\ ClosedIsBuried' /\ Contiguous'
      /\ Grows(h) /\ UNCHANGED rest
  BY StoresStay
<1> QED
  BY <1>1, LeaveStep

(* A step of one job that changes no store.                                 *)
LEMMA JobOnly ==
  ASSUME ProfileInv, NEW h \in Handlers, NEW j \in Jobs,
         job' = [job EXCEPT ![h] = j], Moves(h, j), JobSound(h)',
         UNCHANGED <<draft, profile, closed, rest>>
  PROVE  ProfileInv'
<1>1. /\ draft' \in [Scopes -> Stored]
      /\ answers' \in [Versions -> Answers \union {None}]
      /\ assessed' \in [Versions -> Answers \union {None}]
      /\ closed' \subseteq Sessions
      /\ DraftIsOpen' /\ ClosedIsBuried' /\ Contiguous'
      /\ Grows(h) /\ UNCHANGED rest
  BY StoresStay
<1> QED
  BY <1>1, OneJobStep

----------------------------------------------------------------------------
LEMMA RequestKeepsInv ==
  ASSUME ProfileInv, NEW h \in Handlers,
         \/ \E s \in Sessions, n \in Revisions : Autosave(h, s, n)
         \/ \E form \in Answers, hint \in Sessions \union {None} :
              Submit(h, form, hint)
  PROVE  ProfileInv'
<1>1. TypeOK /\ job[h].pc = "idle"
  BY InvParts DEF Autosave, Submit, Busy
<1>2. UNCHANGED <<draft, profile, queue, closed, rest>>
  BY DEF Autosave, Submit
<1>3. CASE \E s \in Sessions, n \in Revisions : Autosave(h, s, n)
  <2>1. PICK s \in Sessions, n \in Revisions : Autosave(h, s, n)
    BY <1>3
  <2>2. [IdleJob EXCEPT !.pc = "parse", !.scope = MyScope, !.session = s,
                        !.revision = n] \in Jobs
    BY DEF IdleJob, Jobs, Steps, MyScope, Scopes, Stored
  <2>3. PICK j \in Jobs : j = [IdleJob EXCEPT !.pc = "parse",
                !.scope = MyScope, !.session = s, !.revision = n]
    BY <2>2
  <2>4. /\ j.pc = "parse" /\ j.scope = MyScope /\ j.session = s
        /\ j.revision = n
    BY <2>3 DEF IdleJob
  <2>5. job' = [job EXCEPT ![h] = j]
    BY <2>1, <2>3 DEF Autosave
  <2>6. Moves(h, j)
    BY <1>1, <1>2, <2>4 DEF Moves, KeepsPlace, Queued, InSection
  <2>7. job'[h] = j
    BY <1>1, <2>5 DEF TypeOK
  <2>8. JobSound(h)'
    BY <1>2, <2>4, <2>7, NoneAssumption DEF JobSound, Busy, InSection, MyScope,
       rest
  <2> QED
    BY <1>2, <2>5, <2>6, <2>8, JobOnly
<1>4. CASE \E form \in Answers, hint \in Sessions \union {None} :
             Submit(h, form, hint)
  <2>1. PICK form \in Answers, hint \in Sessions \union {None} :
               Submit(h, form, hint)
    BY <1>4
  <2>2. [IdleJob EXCEPT !.pc = "list", !.scope = "account", !.session = hint,
                        !.form = form] \in Jobs
    BY DEF IdleJob, Jobs, Steps, Scopes, Stored
  <2>3. PICK j \in Jobs : j = [IdleJob EXCEPT !.pc = "list",
                !.scope = "account", !.session = hint, !.form = form]
    BY <2>2
  <2>4. /\ j.pc = "list" /\ j.scope = "account" /\ j.form = form
        /\ j.revision = None
    BY <2>3 DEF IdleJob
  <2>5. job' = [job EXCEPT ![h] = j]
    BY <2>1, <2>3 DEF Submit
  <2>6. Moves(h, j)
    BY <1>1, <1>2, <2>4 DEF Moves, KeepsPlace, Queued, InSection
  <2>7. job'[h] = j /\ linked' = TRUE
    BY <1>1, <1>2, <2>1, <2>5 DEF TypeOK, Submit, rest
  <2>8. JobSound(h)'
    BY <2>4, <2>7, NoneAssumption DEF JobSound, Busy, InSection
  <2> QED
    BY <1>2, <2>5, <2>6, <2>8, JobOnly
<1> QED
  BY <1>3, <1>4

LEMMA ParseKeepsInv ==
  ASSUME ProfileInv, NEW h \in Handlers, Parse(h)
  PROVE  ProfileInv'
<1>1. /\ TypeOK /\ JobSound(h) /\ job[h] \in Jobs /\ job[h].pc = "parse"
      /\ UNCHANGED <<draft, profile, closed, rest>>
  BY JobType DEF Parse, ProfileInv
<1>2. [job[h] EXCEPT !.pc = "wait"] \in Jobs
  BY <1>1 DEF Jobs, Steps
<1>3. PICK j \in Jobs : j = [job[h] EXCEPT !.pc = "wait"]
  BY <1>2
<1>4. /\ j.pc = "wait" /\ j.scope = job[h].scope
      /\ j.session = job[h].session /\ j.revision = job[h].revision
  BY <1>1, <1>3 DEF Jobs
<1>5. job' = [job EXCEPT ![h] = j]
  BY <1>3 DEF Parse, Go
<1>6. Moves(h, j)
  BY <1>1, <1>4 DEF Parse, Moves, Joins, Queued, InSection
<1>7. job'[h] = j
  BY <1>1, <1>5 DEF TypeOK
<1>8. JobSound(h)'
  BY <1>1, <1>4, <1>7 DEF JobSound, Busy, InSection, rest
<1> QED
  BY <1>1, <1>5, <1>6, <1>8, JobOnly

LEMMA EnterKeepsInv ==
  ASSUME ProfileInv, NEW h \in Handlers, Enter(h)
  PROVE  ProfileInv'
<1>1. /\ TypeOK /\ JobSound(h) /\ job[h] \in Jobs /\ job[h].pc = "wait"
      /\ UNCHANGED <<draft, profile, closed, rest>>
      /\ Holds(h) /\ queue' = queue
  BY JobType DEF Enter, ProfileInv
<1>2. PICK p \in {"save", "close"} :
         p = IF job[h].revision # None THEN "save" ELSE "close"
  OBVIOUS
<1>3. PICK own \in Stored : own = draft[job[h].scope]
  BY <1>1, JobType DEF TypeOK
<1>4. PICK shared \in Stored : shared = draft["preaccount"]
  BY <1>1 DEF TypeOK, Scopes
<1>5. [job[h] EXCEPT !.pc = p, !.own = own, !.shared = shared] \in Jobs
  BY <1>1 DEF Jobs, Steps
<1>6. PICK j \in Jobs :
         j = [job[h] EXCEPT !.pc = p, !.own = own, !.shared = shared]
  BY <1>5
<1>7. /\ j.pc = p /\ j.own = own /\ j.shared = shared
      /\ j.scope = job[h].scope /\ j.form = job[h].form
      /\ j.session = job[h].session /\ j.revision = job[h].revision
  BY <1>1, <1>6 DEF Jobs
<1>8. job' = [job EXCEPT ![h] = j]
  BY <1>2, <1>3, <1>4, <1>6 DEF Enter
<1>9. Moves(h, j)
  BY <1>1, <1>2, <1>7 DEF Moves, KeepsPlace, InSection
<1>10. job'[h] = j
  BY <1>1, <1>8 DEF TypeOK
<1>11. JobSound(h)'
  <2>1. /\ draft' = draft /\ Holds(h)' /\ UNCHANGED <<linked, straddled>>
    BY <1>1 DEF rest, Holds
  <2>2. j.own = draft'[j.scope] /\ j.shared = draft'["preaccount"]
    BY <1>3, <1>4, <1>7, <2>1
  <2> QED
    BY <1>1, <1>2, <1>7, <1>10, <2>1, <2>2 DEF JobSound, Busy, InSection
<1> QED
  BY <1>1, <1>8, <1>9, <1>11, JobOnly

LEMMA CloseKeepsInv ==
  ASSUME ProfileInv, NEW h \in Handlers, Close(h)
  PROVE  ProfileInv'
<1>1. /\ TypeOK /\ JobSound(h) /\ job[h] \in Jobs /\ job[h].pc = "close"
      /\ UNCHANGED <<draft, profile, closed, rest>>
  BY JobType DEF Close, ProfileInv
<1>2. CASE Leave(h)
  BY <1>1, <1>2, LeaveOnly
<1>3. CASE Go(h, "buryOwn") /\ UNCHANGED queue
  <2>1. [job[h] EXCEPT !.pc = "buryOwn"] \in Jobs
    BY <1>1 DEF Jobs, Steps
  <2>2. PICK j \in Jobs : j = [job[h] EXCEPT !.pc = "buryOwn"]
    BY <2>1
  <2>3. /\ j.pc = "buryOwn" /\ j.scope = job[h].scope /\ j.form = job[h].form
        /\ j.session = job[h].session /\ j.revision = job[h].revision
        /\ j.own = job[h].own /\ j.shared = job[h].shared
    BY <1>1, <2>2 DEF Jobs
  <2>4. job' = [job EXCEPT ![h] = j]
    BY <1>3, <2>2 DEF Go
  <2>5. Moves(h, j)
    BY <1>1, <1>3, <2>3 DEF Moves, KeepsPlace, InSection, JobSound
  <2>6. job'[h] = j
    BY <1>1, <2>4 DEF TypeOK
  <2>7. JobSound(h)'
    BY <1>1, <1>3, <2>3, <2>6 DEF JobSound, Busy, InSection, Holds, rest
  <2> QED
    BY <1>1, <2>4, <2>5, <2>7, JobOnly
<1> QED
  BY <1>2, <1>3 DEF Close

LEMMA SaveKeepsInv ==
  ASSUME ProfileInv, NEW h \in Handlers, Save(h)
  PROVE  ProfileInv'
<1>1. /\ TypeOK /\ JobSound(h) /\ DraftIsOpen /\ ClosedIsBuried /\ Contiguous
      /\ job[h].pc = "save" /\ Leave(h)
      /\ UNCHANGED <<answers, assessed, closed, linked, straddled>>
      /\ UNCHANGED <<profile, closed, rest>>
  BY InvParts DEF Save, JobsSound, profile, rest
<1>2. /\ Holds(h) /\ job[h].shared = draft["preaccount"]
      /\ job[h].session \in Sessions /\ job[h].revision \in Revisions
      /\ job[h].scope \in Scopes
      /\ linked /\ ~straddled => job[h].scope = "account"
  BY <1>1, JobType DEF JobSound, InSection, Busy
<1>3. CASE ~MaySave(job[h].own, job[h].shared, job[h].session,
                    job[h].revision)
  <2>1. draft' = draft
    BY <1>3 DEF Save
  <2> QED
    BY <1>1, <2>1, LeaveOnly
<1>4. CASE MaySave(job[h].own, job[h].shared, job[h].session, job[h].revision)
  <2>1. [kind |-> "draft", session |-> job[h].session,
         revision |-> job[h].revision] \in Drafts
    BY <1>2 DEF Drafts
  <2>2. PICK d \in Drafts :
          d = [kind |-> "draft", session |-> job[h].session,
               revision |-> job[h].revision]
    BY <2>1
  <2>3. d.kind = "draft" /\ d.session = job[h].session /\ d # None
        /\ d \in Stored
    BY <2>2, NoneAssumption DEF Stored
  <2>4. draft' = [draft EXCEPT ![job[h].scope] = d]
    BY <1>4, <2>2 DEF Save
  <2>5. draft' \in [Scopes -> Stored]
    BY <1>1, <2>3, <2>4 DEF TypeOK
  <2>6. \A scope \in Scopes : draft'[scope] =
          IF scope = job[h].scope THEN d ELSE draft[scope]
    BY <1>1, <2>4 DEF TypeOK
  <2>7. "account" \in Scopes /\ "preaccount" \in Scopes
    BY DEF Scopes
  <2>8. ~ClosedFor(draft["preaccount"], job[h].session)
    BY <1>2, <1>4 DEF MaySave
  <2>9. DraftIsOpen'
    <3>1. CASE job[h].scope = "account"
      BY <2>3, <2>6, <2>7, <2>8, <3>1 DEF DraftIsOpen, ClosedFor, Buried
    <3>2. CASE job[h].scope = "preaccount"
      BY <2>3, <2>6, <2>7, <3>2 DEF DraftIsOpen, ClosedFor, Buried
    <3> QED
      BY <1>2, <3>1, <3>2 DEF Scopes
  <2>10. ClosedIsBuried'
    <3> SUFFICES ASSUME ~straddled, closed # {}
                 PROVE  linked /\ Buried(draft'["preaccount"])
                        /\ closed \subseteq draft'["preaccount"].sessions
      BY <1>1 DEF ClosedIsBuried, Buried
    <3>1. linked /\ Buried(draft["preaccount"])
          /\ closed \subseteq draft["preaccount"].sessions
      BY <1>1 DEF ClosedIsBuried
    <3>2. draft'["preaccount"] = draft["preaccount"]
      BY <1>2, <2>6, <2>7, <3>1
    <3> QED
      BY <3>1, <3>2
  <2>11. Contiguous' /\ Grows(h) /\ UNCHANGED rest
    BY <1>1 DEF Contiguous, Grows, InSection
  <2> QED
    BY <1>1, <2>5, <2>9, <2>10, <2>11, LeaveStep DEF TypeOK
<1> QED
  BY <1>3, <1>4

LEMMA ListKeepsInv ==
  ASSUME ProfileInv, NEW h \in Handlers, ListVersions(h)
  PROVE  ProfileInv'
<1>1. /\ TypeOK /\ JobSound(h) /\ job[h] \in Jobs /\ job[h].pc = "list"
      /\ Contiguous /\ UNCHANGED <<draft, profile, queue, closed, rest>>
      /\ UNCHANGED <<draft, answers, linked, straddled>>
  BY InvParts, JobType DEF ListVersions, JobsSound, profile, rest
<1>2. PICK n \in 0..MaxVersion :
         /\ IsLatest(n)
         /\ job' = [job EXCEPT ![h].pc = "append",
                      ![h].version = IF n < MaxVersion THEN n + 1 ELSE n]
  BY DEF ListVersions
<1>3. PICK m \in Versions : m = IF n < MaxVersion THEN n + 1 ELSE n
  BY <1>2, BoundsAssumption DEF Versions
<1>4. \A u \in 1..(m - 1) : answers[u] # None
  <2> TAKE u \in 1..(m - 1)
  <2>1. n \in Taken /\ u \in 1..n
    BY <1>2, <1>3, BoundsAssumption DEF IsLatest, Versions, Taken
  <2> QED
    BY <1>1, <2>1 DEF Taken, Contiguous
<1>5. [job[h] EXCEPT !.pc = "append", !.version = m] \in Jobs
  <2>1. m \in Nat
    BY BoundsAssumption DEF Versions
  <2> QED
    BY <1>1, <2>1 DEF Jobs, Steps
<1>6. PICK j \in Jobs : j = [job[h] EXCEPT !.pc = "append", !.version = m]
  BY <1>5
<1>7. /\ j.pc = "append" /\ j.version = m /\ j.scope = job[h].scope
      /\ j.session = job[h].session /\ j.revision = job[h].revision
      /\ j.form = job[h].form
  BY <1>1, <1>6 DEF Jobs
<1>8. job' = [job EXCEPT ![h] = j]
  BY <1>2, <1>3, <1>6
<1>9. Moves(h, j)
  BY <1>1, <1>7 DEF Moves, KeepsPlace, InSection, Queued
<1>10. job'[h] = j
  BY <1>1, <1>8 DEF TypeOK
<1>11. JobSound(h)'
  BY <1>1, <1>4, <1>7, <1>10 DEF JobSound, Busy, InSection
<1> QED
  BY <1>1, <1>8, <1>9, <1>11, JobOnly

LEMMA AppendKeepsInv ==
  ASSUME ProfileInv, NEW h \in Handlers, AppendAnswers(h)
  PROVE  ProfileInv'
<1>1. /\ TypeOK /\ SectionPassedOn /\ JobSound(h) /\ job[h] \in Jobs
      /\ DraftIsOpen /\ ClosedIsBuried /\ Contiguous /\ job[h].pc = "append"
      /\ UNCHANGED <<draft, assessed, queue, closed, rest>>
      /\ UNCHANGED <<linked, straddled>>
  BY InvParts, JobType DEF AppendAnswers, JobsSound, rest
<1>2. /\ job[h].version \in Versions
      /\ \A u \in 1..(job[h].version - 1) : answers[u] # None
      /\ job[h].revision = None /\ job[h].scope = "account"
      /\ job[h].form \in Answers /\ job[h].form # None
      /\ linked
  BY <1>1, JobType, NoneAssumption DEF JobSound, Busy
<1>3. CASE answers[job[h].version] # None
  <2>1. Ends(h) /\ answers' = answers
    BY <1>3 DEF AppendAnswers
  <2>2. ~Holds(h)
    BY <1>1, NotQueued DEF Queued, InSection
  <2>3. Leave(h) /\ UNCHANGED <<draft, profile, closed, rest>>
    BY <1>1, <2>1, <2>2 DEF Leave, profile
  <2> QED
    BY <1>1, <2>3, LeaveOnly
<1>4. CASE answers[job[h].version] = None
  <2>1. /\ answers' = [answers EXCEPT ![job[h].version] = job[h].form]
        /\ Go(h, "assess")
    BY <1>4 DEF AppendAnswers
  <2>2. answers' \in [Versions -> Answers \union {None}]
    BY <1>1, <1>2, <2>1 DEF TypeOK
  <2>3. \A v \in Versions :
          answers'[v] = IF v = job[h].version THEN job[h].form ELSE answers[v]
    BY <1>1, <1>2, <2>1 DEF TypeOK
  <2>4. Contiguous'
    <3> SUFFICES ASSUME NEW v \in Versions, answers'[v] # None,
                        NEW u \in 1..v
                 PROVE  answers'[u] # None
      BY DEF Contiguous
    <3>1. u \in Versions
      BY BoundsAssumption DEF Versions
    <3>2. CASE v = job[h].version
      <4>1. u = v \/ u \in 1..(v - 1)
        BY DEF Versions
      <4> QED
        BY <1>2, <2>3, <3>1, <3>2, <4>1
    <3>3. CASE v # job[h].version
      BY <1>1, <1>2, <2>3, <3>1, <3>3 DEF Contiguous
    <3> QED
      BY <3>2, <3>3
  <2>5. Grows(h)
    BY <1>1, <1>2, <2>3 DEF Grows
  <2>6. [job[h] EXCEPT !.pc = "assess"] \in Jobs
    BY <1>1 DEF Jobs, Steps
  <2>7. PICK j \in Jobs : j = [job[h] EXCEPT !.pc = "assess"]
    BY <2>6
  <2>8. /\ j.pc = "assess" /\ j.scope = job[h].scope
        /\ j.session = job[h].session /\ j.revision = job[h].revision
        /\ j.form = job[h].form /\ j.version = job[h].version
    BY <1>1, <2>7 DEF Jobs
  <2>9. job' = [job EXCEPT ![h] = j]
    BY <2>1, <2>7 DEF Go
  <2>10. Moves(h, j)
    BY <1>1, <2>8 DEF Moves, KeepsPlace, InSection, Queued
  <2>11. job'[h] = j
    BY <1>1, <2>9 DEF TypeOK
  <2>12. JobSound(h)'
    BY <1>1, <1>2, <2>8, <2>11 DEF JobSound, Busy, InSection
  <2>13. DraftIsOpen' /\ ClosedIsBuried'
    BY <1>1 DEF DraftIsOpen, ClosedIsBuried, Active, ClosedFor, Buried
  <2> QED
    BY <1>1, <2>2, <2>4, <2>5, <2>9, <2>10, <2>12, <2>13, OneJobStep
       DEF TypeOK
<1> QED
  BY <1>3, <1>4

LEMMA AssessKeepsInv ==
  ASSUME ProfileInv, NEW h \in Handlers, Assess(h)
  PROVE  ProfileInv'
<1>1. /\ TypeOK /\ JobSound(h) /\ job[h] \in Jobs /\ DraftIsOpen
      /\ ClosedIsBuried /\ Contiguous /\ job[h].pc = "assess"
      /\ UNCHANGED <<draft, answers, closed, rest>>
      /\ UNCHANGED <<linked, straddled>>
      /\ queue' = Append(queue, h)
  BY InvParts, JobType DEF Assess, JobsSound, rest
<1>2. /\ job[h].version \in Versions
      /\ job[h].revision = None /\ job[h].scope = "account"
      /\ job[h].form \in Answers /\ job[h].form # None
      /\ linked
  BY <1>1, JobType, NoneAssumption DEF JobSound, Busy
<1>3. assessed' \in [Versions -> Answers \union {None}]
  BY <1>1, <1>2 DEF Assess, TypeOK
<1>4. [job[h] EXCEPT !.pc = "wait"] \in Jobs
  BY <1>1 DEF Jobs, Steps
<1>5. PICK j \in Jobs : j = [job[h] EXCEPT !.pc = "wait"]
  BY <1>4
<1>6. /\ j.pc = "wait" /\ j.scope = job[h].scope
      /\ j.session = job[h].session /\ j.revision = job[h].revision
      /\ j.form = job[h].form
  BY <1>1, <1>5 DEF Jobs
<1>7. job' = [job EXCEPT ![h] = j]
  BY <1>5 DEF Assess, Go
<1>8. Moves(h, j)
  BY <1>1, <1>6 DEF Moves, Joins, InSection, Queued
<1>9. job'[h] = j
  BY <1>1, <1>7 DEF TypeOK
<1>10. JobSound(h)'
  BY <1>1, <1>2, <1>6, <1>9 DEF JobSound, Busy, InSection
<1>11. DraftIsOpen' /\ ClosedIsBuried' /\ Contiguous' /\ Grows(h)
  BY <1>1 DEF DraftIsOpen, ClosedIsBuried, Contiguous, Grows, Active,
     ClosedFor, Buried
<1> QED
  BY <1>1, <1>3, <1>7, <1>8, <1>10, <1>11, OneJobStep DEF TypeOK

----------------------------------------------------------------------------
LEMMA ToCloseType ==
  ASSUME TypeOK, NEW h \in Handlers
  PROVE  /\ ToClose(h) \subseteq Sessions
         /\ Tombstone(ToClose(h)) \in Tombstones
         /\ Names(job[h].own) \union Names(job[h].shared) \subseteq ToClose(h)
<1>1. ASSUME NEW d \in Stored
      PROVE  Names(d) \subseteq Sessions
  BY NoneAssumption DEF Stored, Names, Drafts, Tombstones
<1>2. Names(job[h].own) \subseteq Sessions
      /\ Names(job[h].shared) \subseteq Sessions
  BY <1>1, JobType
<1>3. ToClose(h) \subseteq Sessions
  BY <1>2, JobType DEF ToClose
<1> QED
  BY <1>3 DEF ToClose, Tombstone, Tombstones

LEMMA BuryOwnKeepsInv ==
  ASSUME ProfileInv, NEW h \in Handlers, BuryOwn(h)
  PROVE  ProfileInv'
<1>1. /\ TypeOK /\ JobSound(h) /\ job[h] \in Jobs /\ DraftIsOpen
      /\ ClosedIsBuried /\ Contiguous /\ job[h].pc = "buryOwn"
      /\ UNCHANGED <<answers, assessed, closed, linked, straddled>>
      /\ UNCHANGED rest /\ queue' = queue /\ Holds(h)
  BY InvParts, JobType DEF BuryOwn, JobsSound, JobSound, InSection, profile, rest
<1>2. PICK d \in Tombstones : d = Tombstone(ToClose(h))
  BY <1>1, ToCloseType
<1>3. draft' = [draft EXCEPT !["account"] = d]
  BY <1>2 DEF BuryOwn
<1>4. d \in Stored /\ d.kind = "closed" /\ d # None
  BY NoneAssumption DEF Stored, Tombstones
<1>5. /\ draft' \in [Scopes -> Stored]
      /\ draft'["account"] = d /\ draft'["preaccount"] = draft["preaccount"]
  BY <1>1, <1>3, <1>4 DEF TypeOK, Scopes
<1>6. [job[h] EXCEPT !.pc = "buryShared"] \in Jobs
  BY <1>1 DEF Jobs, Steps
<1>7. PICK j \in Jobs : j = [job[h] EXCEPT !.pc = "buryShared"]
  BY <1>6
<1>8. /\ j.pc = "buryShared" /\ j.scope = job[h].scope
      /\ j.session = job[h].session /\ j.revision = job[h].revision
      /\ j.form = job[h].form /\ j.shared = job[h].shared
  BY <1>1, <1>7 DEF Jobs
<1>9. job' = [job EXCEPT ![h] = j]
  BY <1>7 DEF BuryOwn, Go
<1>10. Moves(h, j)
  BY <1>1, <1>8 DEF Moves, KeepsPlace, InSection
<1>11. job'[h] = j
  BY <1>1, <1>9 DEF TypeOK
<1>12. JobSound(h)'
  <2>1. Holds(h)' /\ Buried(draft["account"])'
    BY <1>1, <1>4, <1>5 DEF Holds, Buried
  <2> QED
    BY <1>1, <1>5, <1>8, <1>11, <2>1 DEF JobSound, Busy, InSection
<1>13. DraftIsOpen' /\ ClosedIsBuried' /\ Contiguous' /\ Grows(h)
  BY <1>1, <1>4, <1>5 DEF DraftIsOpen, ClosedIsBuried, Contiguous, Grows,
     Active, Buried, InSection
<1> QED
  BY <1>1, <1>5, <1>9, <1>10, <1>12, <1>13, OneJobStep DEF TypeOK

LEMMA BurySharedKeepsInv ==
  ASSUME ProfileInv, NEW h \in Handlers, BuryShared(h)
  PROVE  ProfileInv'
<1>1. /\ TypeOK /\ JobSound(h) /\ job[h] \in Jobs /\ DraftIsOpen
      /\ ClosedIsBuried /\ Contiguous /\ job[h].pc = "buryShared"
      /\ UNCHANGED <<answers, assessed, linked, straddled>>
      /\ UNCHANGED rest /\ Leave(h)
      /\ closed' = closed \union ToClose(h)
  BY InvParts, JobType DEF BuryShared, JobsSound, profile, rest
<1>2. /\ job[h].shared = draft["preaccount"] /\ Buried(draft["account"])
      /\ job[h].scope = "account"
      /\ linked
  <2>1. job[h].revision = None
    BY <1>1 DEF JobSound, Busy
  <2> QED
    BY <1>1, <2>1 DEF JobSound, InSection, Busy
<1>3. PICK d \in Tombstones : d = Tombstone(ToClose(h))
  BY <1>1, ToCloseType
<1>4. draft' = [draft EXCEPT !["preaccount"] = d]
  BY <1>3 DEF BuryShared
<1>5. d \in Stored /\ d.kind = "closed" /\ d # None /\ d.sessions = ToClose(h)
  BY <1>3, NoneAssumption DEF Stored, Tombstones, Tombstone
<1>6. /\ draft' \in [Scopes -> Stored]
      /\ draft'["account"] = draft["account"] /\ draft'["preaccount"] = d
  BY <1>1, <1>4, <1>5 DEF TypeOK, Scopes
<1>7. closed' \subseteq Sessions
  BY <1>1, ToCloseType DEF TypeOK
<1>8. DraftIsOpen'
  BY <1>2, <1>6 DEF DraftIsOpen, Active, Buried
<1>9. ClosedIsBuried'
  <2>1. ~straddled => closed \subseteq ToClose(h)
    <3> HAVE ~straddled
    <3>1. CASE closed = {}
      BY <3>1
    <3>2. CASE closed # {}
      <4>1. Buried(draft["preaccount"])
            /\ closed \subseteq draft["preaccount"].sessions
        BY <1>1, <3>2 DEF ClosedIsBuried
      <4>2. Names(job[h].shared) = draft["preaccount"].sessions
        BY <1>2, <4>1 DEF Names, Buried
      <4> QED
        BY <1>1, <4>1, <4>2, ToCloseType
    <3> QED
      BY <3>1, <3>2
  <2> QED
    BY <1>1, <1>2, <1>5, <1>6, <2>1 DEF ClosedIsBuried, Buried
<1>10. Contiguous' /\ Grows(h)
  BY <1>1 DEF Contiguous, Grows, InSection
<1> QED
  BY <1>1, <1>6, <1>7, <1>8, <1>9, <1>10, LeaveStep DEF TypeOK

LEMMA FailsKeepsInv ==
  ASSUME ProfileInv, NEW h \in Handlers, Fails(h)
  PROVE  ProfileInv'
BY LeaveOnly DEF Fails

LEMMA RestartKeepsInv ==
  ASSUME ProfileInv, Restart
  PROVE  ProfileInv'
<1>1. /\ TypeOK /\ DraftIsOpen /\ ClosedIsBuried /\ Contiguous
      /\ UNCHANGED <<draft, answers, assessed, closed, linked, straddled>>
      /\ queue' = <<>> /\ restarts' \in 0..MaxRestarts
      /\ job' = [h \in Handlers |-> IdleJob]
  BY InvParts, BoundsAssumption DEF Restart, profile, TypeOK
<1>2. TypeOK'
  BY <1>1, IdleJobType DEF TypeOK
<1>3. SectionPassedOn'
  BY <1>1 DEF SectionPassedOn
<1>4. ASSUME NEW h \in Handlers
      PROVE  JobSound(h)'
  <2>1. job'[h].pc = "idle"
    BY <1>1, IdleJobType
  <2> QED
    BY <2>1 DEF JobSound, Busy, InSection
<1>5. DraftIsOpen' /\ ClosedIsBuried' /\ Contiguous'
  BY <1>1 DEF DraftIsOpen, ClosedIsBuried, Contiguous, Active, ClosedFor,
     Buried
<1> QED
  BY <1>2, <1>3, <1>4, <1>5 DEF ProfileInv, DraftIsOpen, ClosedIsBuried,
     Contiguous

LEMMA LinkKeepsInv ==
  ASSUME ProfileInv, Link
  PROVE  ProfileInv'
<1>1. /\ TypeOK /\ SectionPassedOn /\ JobsSound /\ DraftIsOpen
      /\ ClosedIsBuried /\ Contiguous /\ ~linked
      /\ UNCHANGED <<draft, answers, assessed, job, queue, closed, restarts>>
      /\ linked' = TRUE
      /\ straddled' = (straddled \/ \E h \in Handlers : Busy(h))
  BY InvParts DEF Link, profile
<1>2. TypeOK'
  BY <1>1 DEF TypeOK
<1>3. SectionPassedOn'
  BY <1>1 DEF SectionPassedOn
<1>4. ASSUME NEW h \in Handlers
      PROVE  JobSound(h)'
  <2>1. JobSound(h) /\ (Busy(h) => straddled')
    BY <1>1 DEF JobsSound
  <2> QED
    BY <1>1, <2>1 DEF JobSound, Busy, InSection, Holds, Buried
<1>5. DraftIsOpen' /\ ClosedIsBuried' /\ Contiguous'
  BY <1>1 DEF DraftIsOpen, ClosedIsBuried, Contiguous, Active, ClosedFor,
     Buried
<1> QED
  BY <1>2, <1>3, <1>4, <1>5 DEF ProfileInv, DraftIsOpen, ClosedIsBuried,
     Contiguous

----------------------------------------------------------------------------
LEMMA InitInv == Init => ProfileInv
<1> SUFFICES ASSUME Init PROVE ProfileInv
  OBVIOUS
<1>1. TypeOK
  <2>1. PICK idle \in Jobs : idle = IdleJob
    BY IdleJobType
  <2>2. /\ draft \in [Scopes -> Stored] /\ job \in [Handlers -> Jobs]
        /\ answers \in [Versions -> Answers \union {None}]
        /\ assessed \in [Versions -> Answers \union {None}]
    BY <2>1 DEF Init, Stored
  <2>3. queue \in Seq(Handlers) /\ restarts \in 0..MaxRestarts
    BY BoundsAssumption DEF Init
  <2> QED
    BY <2>2, <2>3 DEF Init, TypeOK
<1>2. SectionPassedOn
  BY DEF Init, SectionPassedOn
<1>3. ASSUME NEW h \in Handlers
      PROVE  JobSound(h)
  <2>1. job[h].pc = "idle"
    BY IdleJobType DEF Init
  <2> QED
    BY <2>1 DEF JobSound, Busy, InSection
<1>4. draft["account"] = None /\ closed = {}
  BY DEF Init, Scopes
<1>5. \A v \in Versions : answers[v] = None
  BY DEF Init
<1> QED
  BY <1>1, <1>2, <1>3, <1>4, <1>5 DEF ProfileInv, Active

LEMMA NextInv == ProfileInv /\ [Next]_vars => ProfileInv'
<1> SUFFICES ASSUME ProfileInv, [Next]_vars PROVE ProfileInv'
  OBVIOUS
<1>1. CASE UNCHANGED vars
  <2>1. UNCHANGED <<draft, answers, assessed, linked, job, queue, closed,
                    straddled, restarts>>
    BY <1>1 DEF vars
  <2>2. TypeOK' /\ SectionPassedOn'
    BY <2>1 DEF ProfileInv, TypeOK, SectionPassedOn
  <2>3. ASSUME NEW h \in Handlers
        PROVE  JobSound(h)'
    <3>1. JobSound(h)
      BY DEF ProfileInv
    <3> QED
      BY <2>1, <3>1 DEF JobSound, Holds, Busy, Buried
  <2>4. DraftIsOpen' /\ ClosedIsBuried' /\ Contiguous'
    BY <2>1, InvParts DEF DraftIsOpen, ClosedIsBuried, Contiguous, Active,
       ClosedFor, Buried
  <2> QED
    BY <2>2, <2>3, <2>4 DEF ProfileInv, DraftIsOpen, ClosedIsBuried,
       Contiguous
<1>2. CASE Restart
  BY <1>2, RestartKeepsInv
<1>3. CASE Link
  BY <1>3, LinkKeepsInv
<1>4. ASSUME NEW h \in Handlers,
             \/ \E s \in Sessions :
                  \/ \E n \in Revisions : Autosave(h, s, n)
                  \/ \E form \in Answers : Submit(h, form, s)
             \/ \E form \in Answers : Submit(h, form, None)
             \/ Works(h) \/ Fails(h)
      PROVE  ProfileInv'
  <2>1. CASE \/ \E s \in Sessions :
                  \/ \E n \in Revisions : Autosave(h, s, n)
                  \/ \E form \in Answers : Submit(h, form, s)
             \/ \E form \in Answers : Submit(h, form, None)
    BY <2>1, RequestKeepsInv
  <2>2. CASE Fails(h)
    BY <2>2, FailsKeepsInv
  <2>3. CASE Works(h)
    BY <2>3, ParseKeepsInv, EnterKeepsInv, SaveKeepsInv, ListKeepsInv,
       AppendKeepsInv, AssessKeepsInv, CloseKeepsInv, BuryOwnKeepsInv,
       BurySharedKeepsInv DEF Works
  <2> QED
    BY <1>4, <2>1, <2>2, <2>3
<1> QED
  BY <1>1, <1>2, <1>3, <1>4 DEF Next

(* The state of drafts, versions and critical section stays consistent, for *)
(* any number of requests, failures and restarts.                           *)
THEOREM Invariance == Spec => []ProfileInv
<1>1. Init => ProfileInv
  BY InitInv
<1>2. ProfileInv /\ [Next]_vars => ProfileInv'
  BY NextInv
<1> QED
  BY <1>1, <1>2, PTL DEF Spec

(* Every variable keeps to its type.                                        *)
THEOREM TypeCorrect == Spec => []TypeOK
<1>1. ProfileInv => TypeOK
  BY DEF ProfileInv
<1> QED
  BY <1>1, Invariance, PTL

(* A request that has been answered neither holds the critical section nor  *)
(* waits for it, whatever failed inside.                                    *)
THEOREM NobodyWaitsInVain == Spec => []SectionPassedOn
<1>1. ProfileInv => SectionPassedOn
  BY DEF ProfileInv
<1> QED
  BY <1>1, Invariance, PTL

(* No draft of a session closed by a submission is ever stored again.       *)
THEOREM SubmissionIsFinal == Spec => []Finality
<1>1. ProfileInv => Finality
  <2> SUFFICES ASSUME ProfileInv, ~straddled, NEW s \in closed,
                      NEW scope \in Scopes, Active(draft[scope])
               PROVE  draft[scope].session # s
    BY DEF Finality
  <2>1. Buried(draft["preaccount"]) /\ s \in draft["preaccount"].sessions
    BY InvParts DEF ClosedIsBuried
  <2>2. scope = "account"
    BY <2>1 DEF Scopes, Active, Buried
  <2> QED
    BY <2>1, <2>2, InvParts DEF DraftIsOpen, ClosedFor
<1> QED
  BY <1>1, Invariance, PTL

(* What the wizard resumes can be continued, and otherwise a new session    *)
(* can start.                                                               *)
THEOREM WizardGoesOn == Spec => []WizardNeverStuck
<1>1. ProfileInv => WizardNeverStuck
  <2> SUFFICES ASSUME ProfileInv PROVE WizardNeverStuck
    OBVIOUS
  <2> DEFINE own == draft[MyScope]
             shared == draft["preaccount"]
             v == View(MyScope)
  <2>1. TypeOK /\ DraftIsOpen
    BY InvParts
  <2>2. own \in Stored /\ shared \in Stored
    BY <2>1 DEF TypeOK, MyScope, Scopes
  <2>3. v # None =>
          /\ v \in Drafts
          /\ v = own \/ (own = None /\ v = shared)
          /\ Active(v) /\ ~ClosedFor(shared, v.session)
    <3>1. CASE linked
      BY <2>1, <2>2, <3>1 DEF MyScope, View, Active, DraftIsOpen, ClosedFor,
         Buried, Stored, Tombstones
    <3>2. CASE ~linked
      BY <2>1, <2>2, <3>2 DEF MyScope, View, Active, ClosedFor, Buried, Stored,
         Tombstones
    <3> QED
      BY <3>1, <3>2
  <2>4. v # None => v.revision + 1 > v.revision
    <3> HAVE v # None
    <3>1. v.revision \in Nat
      BY <2>3 DEF Drafts, Revisions
    <3> QED
      BY <3>1
  <2>5. v # None => MaySave(own, shared, v.session, v.revision + 1)
    BY <2>3, <2>4 DEF MaySave, Active, ClosedFor, Buried
  <2>6. v = None => ~Active(own) /\ (own = None => ~Active(shared))
    BY DEF View, MyScope, Active
  <2>7. ASSUME v = None, NEW s \in Sessions,
               s \notin Names(own) \union Names(shared)
        PROVE  MaySave(own, shared, s, 1)
    <3>1. ~ClosedFor(own, s) /\ ~ClosedFor(shared, s)
      BY <2>7 DEF ClosedFor, Buried, Names
    <3> QED
      BY <2>6, <2>7, <3>1 DEF MaySave
  <2> QED
    BY <2>5, <2>7 DEF WizardNeverStuck
<1> QED
  BY <1>1, Invariance, PTL

----------------------------------------------------------------------------
(* What one step does to the drafts.                                        *)
LEMMA DraftStep ==
  ASSUME ProfileInv, [Next]_vars
  PROVE  \/ draft' = draft
         \/ \E h \in Handlers : Save(h) \/ BuryOwn(h) \/ BuryShared(h)
BY DEF Next, Works, Autosave, Submit, Fails, Restart, Link, Parse, Enter,
   ListVersions, AppendAnswers, Assess, Close, vars

(* Of the drafts of one session, the newest stays.                          *)
THEOREM NewestDraftStays == Spec => NewerWins
<1> DEFINE Body == \A scope \in Scopes : Active(draft[scope]) =>
             \/ draft'[scope] = draft[scope]
             \/ Buried(draft'[scope])
             \/ /\ draft'[scope].session = draft[scope].session
                /\ draft'[scope].revision > draft[scope].revision
<1>1. ProfileInv /\ [Next]_vars => [Body]_vars
  <2> SUFFICES ASSUME ProfileInv, [Next]_vars, NEW scope \in Scopes,
                      Active(draft[scope]), draft' # draft
               PROVE  \/ draft'[scope] = draft[scope]
                      \/ Buried(draft'[scope])
                      \/ /\ draft'[scope].session = draft[scope].session
                         /\ draft'[scope].revision > draft[scope].revision
    OBVIOUS
  <2>1. PICK h \in Handlers : Save(h) \/ BuryOwn(h) \/ BuryShared(h)
    BY DraftStep
  <2>2. TypeOK /\ JobSound(h) /\ job[h] \in Jobs
    BY JobType DEF ProfileInv
  <2>3. CASE BuryOwn(h) \/ BuryShared(h)
    <3>1. Buried(Tombstone(ToClose(h)))
      BY <2>2, ToCloseType, NoneAssumption DEF Buried, Tombstone, Tombstones
    <3> QED
      BY <2>2, <2>3, <3>1 DEF BuryOwn, BuryShared, TypeOK
  <2>4. CASE Save(h)
    <3>1. /\ job[h].own = draft[job[h].scope]
          /\ job[h].scope \in Scopes /\ job[h].revision \in Revisions
      BY <2>2, <2>4, JobType DEF Save, JobSound, InSection, Busy
    <3>2. MaySave(job[h].own, job[h].shared, job[h].session, job[h].revision)
      BY <2>4 DEF Save
    <3>3. draft' = [draft EXCEPT ![job[h].scope] =
              [kind |-> "draft", session |-> job[h].session,
               revision |-> job[h].revision]]
      BY <2>4, <3>2 DEF Save
    <3>4. CASE scope # job[h].scope
      BY <2>2, <3>3, <3>4 DEF TypeOK
    <3>5. CASE scope = job[h].scope
      <4>1. draft[scope].session = job[h].session
            /\ draft[scope].revision < job[h].revision
        BY <3>1, <3>2, <3>5 DEF MaySave
      <4>2. draft'[scope].session = job[h].session
            /\ draft'[scope].revision = job[h].revision
        BY <2>2, <3>3, <3>5 DEF TypeOK
      <4>3. draft[scope].revision \in Nat /\ job[h].revision \in Nat
        BY <2>2, <3>1 DEF TypeOK, Active, Stored, Drafts, Tombstones, Revisions
      <4> QED
        BY <4>1, <4>2, <4>3
    <3> QED
      BY <3>4, <3>5
  <2> QED
    BY <2>1, <2>3, <2>4
<1> QED
  BY <1>1, Invariance, PTL DEF Spec, NewerWins

(* Submitted versions and their assessments are never rewritten, and their  *)
(* numbers leave no gap.                                                    *)
THEOREM VersionsAreHistory == Spec => HistoryFixed
<1> DEFINE Body == \A v \in Versions :
             /\ answers[v] # None => answers'[v] = answers[v]
             /\ assessed[v] # None => assessed'[v] = assessed[v]
             /\ answers'[v] # None => \A u \in 1..v : answers'[u] # None
<1>1. ProfileInv /\ ProfileInv' /\ [Next]_vars => [Body]_vars
  <2> SUFFICES ASSUME ProfileInv, ProfileInv', [Next]_vars, NEW v \in Versions
               PROVE  /\ answers[v] # None => answers'[v] = answers[v]
                      /\ assessed[v] # None => assessed'[v] = assessed[v]
                      /\ answers'[v] # None =>
                           \A u \in 1..v : answers'[u] # None
    OBVIOUS
  <2>1. answers'[v] # None => \A u \in 1..v : answers'[u] # None
    BY DEF ProfileInv
  <2>2. TypeOK
    BY DEF ProfileInv
  <2>3. \/ UNCHANGED <<answers, assessed>>
        \/ \E h \in Handlers : AppendAnswers(h) \/ Assess(h)
    BY DEF Next, Works, Autosave, Submit, Fails, Restart, Link, Parse, Enter,
       Save, ListVersions, Close, BuryOwn, BuryShared, vars, profile
  <2>4. CASE \E h \in Handlers : AppendAnswers(h)
    BY <2>1, <2>2, <2>4 DEF AppendAnswers, TypeOK
  <2>5. CASE \E h \in Handlers : Assess(h)
    BY <2>1, <2>2, <2>5 DEF Assess, TypeOK
  <2> QED
    BY <2>1, <2>3, <2>4, <2>5
<1> QED
  BY <1>1, Invariance, PTL DEF Spec, HistoryFixed

----------------------------------------------------------------------------
(* Before the account is linked nothing is stored in its scope.             *)
AccountUnused == ~linked => draft["account"] = None

LEMMA AccountUnusedInv == Spec => []AccountUnused
<1>1. Init => AccountUnused
  BY DEF Init, AccountUnused, Scopes
<1>2. ProfileInv /\ AccountUnused /\ [Next]_vars => AccountUnused'
  <2> SUFFICES ASSUME ProfileInv, AccountUnused, [Next]_vars, ~linked'
               PROVE  draft'["account"] = None
    BY DEF AccountUnused
  <2>1. ~linked /\ draft["account"] = None
    <3>1. linked' = linked \/ linked' = TRUE
      BY DEF Next, Works, Autosave, Submit, Fails, Restart, Link, Parse, Enter,
         Save, ListVersions, AppendAnswers, Assess, Close, BuryOwn, BuryShared,
         vars, rest
    <3>2. ~linked
      BY <3>1, Zenon
    <3> QED
      BY <3>2 DEF AccountUnused
  <2>2. CASE draft' = draft
    BY <2>1, <2>2
  <2>3. ASSUME NEW h \in Handlers, Save(h) \/ BuryOwn(h) \/ BuryShared(h)
        PROVE  draft'["account"] = None
    <3>1. TypeOK /\ JobSound(h) /\ job[h].scope \in Scopes
      BY JobType DEF ProfileInv
    <3>2. Save(h) /\ job[h].scope # "account"
      <4>1. job[h].scope # "account"
        BY <2>1, <2>3, <3>1 DEF Save, BuryOwn, BuryShared, JobSound, Busy
      <4>2. Save(h)
        BY <2>3, <3>1, <4>1 DEF BuryOwn, BuryShared, JobSound, Busy
      <4> QED
        BY <4>1, <4>2
    <3> QED
      BY <2>1, <3>1, <3>2 DEF Save, TypeOK, Scopes
  <2> QED
    BY <2>2, <2>3, DraftStep
<1> QED
  BY <1>1, <1>2, Invariance, PTL DEF Spec

(* The session an investor would resume is never replaced by another.       *)
THEOREM NobodyTakesOver == Spec => NoTakeover
<1> DEFINE Body == View(MyScope) # None =>
             \/ View(MyScope)' = None
             \/ View(MyScope)'.session = View(MyScope).session
<1>1. ProfileInv /\ AccountUnused /\ [Next]_vars => [Body]_vars
  <2> SUFFICES ASSUME ProfileInv, AccountUnused, [Next]_vars,
                      View(MyScope) # None, View(MyScope)' # None
               PROVE  View(MyScope)'.session = View(MyScope).session
    OBVIOUS
  <2> DEFINE acc == draft["account"]
             pre == draft["preaccount"]
  <2>1. TypeOK
    BY DEF ProfileInv
  <2>2. /\ linked' = linked \/ Link
        /\ Link => draft' = draft /\ ~linked /\ linked'
    BY DEF Next, Works, Autosave, Submit, Fails, Restart, Parse, Enter, Save,
       ListVersions, AppendAnswers, Assess, Close, BuryOwn, BuryShared, vars,
       rest, Link
  <2>3. CASE draft' = draft
    <3>1. CASE linked' = linked
      BY <2>3, <3>1 DEF View, MyScope, Active
    <3>2. CASE Link
      <4>1. acc = None /\ View(MyScope) = pre /\ Active(pre)
        BY <2>2, <3>2 DEF AccountUnused, View, MyScope, Active
      <4>2. View(MyScope)' = pre
        BY <2>2, <2>3, <3>2, <4>1 DEF View, MyScope, Active
      <4> QED
        BY <4>1, <4>2
    <3> QED
      BY <2>2, <3>1, <3>2
  <2>4. ASSUME NEW h \in Handlers, Save(h) \/ BuryOwn(h) \/ BuryShared(h),
               draft' # draft
        PROVE  View(MyScope)'.session = View(MyScope).session
    <3>1. JobSound(h) /\ job[h] \in Jobs /\ job[h].scope \in Scopes
      BY <2>1, JobType DEF ProfileInv
    <3>2. linked' = linked
      BY <2>2, <2>4
    <3>3. CASE BuryOwn(h) \/ BuryShared(h)
      <4>1. PICK d : d = Tombstone(ToClose(h)) /\ d.kind = "closed" /\ d # None
        BY <2>1, ToCloseType, NoneAssumption DEF Tombstone, Tombstones
      <4>2. linked
        BY <3>1, <3>3 DEF BuryOwn, BuryShared, JobSound, Busy
      <4>3. Buried(draft'["account"])
        <5>1. CASE BuryOwn(h)
          BY <2>1, <4>1, <5>1 DEF BuryOwn, TypeOK, Scopes, Buried
        <5>2. CASE BuryShared(h)
          BY <2>1, <3>1, <4>1, <5>2 DEF BuryShared, TypeOK, Scopes, Buried,
             JobSound
        <5> QED
          BY <3>3, <5>1, <5>2
      <4>4. View(MyScope)' = None
        BY <3>2, <4>2, <4>3 DEF View, MyScope, Active, Buried
      <4> QED
        BY <4>4
    <3>4. CASE Save(h)
      <4> DEFINE j == job[h]
      <4>1. /\ j.shared = pre /\ j.own = draft[j.scope]
            /\ j.session \in Sessions /\ j.revision \in Revisions
            /\ j.scope = "account" => linked
        <5>1. /\ j.pc = "save" /\ j.session \in Sessions \union {None}
              /\ j.revision \in Revisions \union {None}
          BY <2>1, <3>4, JobType DEF Save
        <5>2. j.revision # None
          BY <3>1, <5>1 DEF JobSound, Busy
        <5> QED
          BY <3>1, <5>1, <5>2 DEF JobSound, InSection, Busy
      <4>2. MaySave(j.own, j.shared, j.session, j.revision)
        BY <2>4, <3>4 DEF Save
      <4>3. PICK d : /\ d = [kind |-> "draft", session |-> j.session,
                             revision |-> j.revision]
                     /\ draft' = [draft EXCEPT ![j.scope] = d]
        BY <3>4, <4>2 DEF Save
      <4>4. d \in Drafts
        BY <4>1, <4>3 DEF Drafts
      <4>5. Active(d) /\ d.session = j.session
        BY <4>3, <4>4, NoneAssumption DEF Active
      <4>6. \A scope \in Scopes :
              draft'[scope] = IF scope = j.scope THEN d ELSE draft[scope]
        BY <2>1, <4>3 DEF TypeOK
      <4>7. CASE j.scope = "account"
        <5>1. draft'["account"] = d /\ linked
          BY <4>1, <4>6, <4>7 DEF Scopes
        <5>2. View(MyScope)' = d
          BY <3>2, <4>5, <5>1 DEF View, MyScope, Active
        <5>3. View(MyScope).session = j.session
          BY <4>1, <4>2, <4>7, <5>1 DEF View, MyScope, MaySave
        <5> QED
          BY <4>5, <5>2, <5>3
      <4>8. CASE j.scope = "preaccount"
        <5>1. draft'["preaccount"] = d /\ draft'["account"] = acc
              /\ (Active(pre) => pre.session = j.session)
          BY <4>1, <4>2, <4>6, <4>8 DEF Scopes, MaySave
        <5>2. CASE linked
          <6>1. CASE Active(acc)
            BY <3>2, <5>1, <5>2, <6>1 DEF View, MyScope, Active
          <6>2. CASE ~Active(acc)
            <7>1. acc = None /\ Active(pre) /\ View(MyScope) = pre
              BY <5>2, <6>2 DEF View, MyScope
            <7>2. View(MyScope)' = d
              BY <3>2, <4>5, <5>1, <5>2, <7>1 DEF View, MyScope, Active
            <7> QED
              BY <4>5, <5>1, <7>1, <7>2
          <6> QED
            BY <6>1, <6>2
        <5>3. CASE ~linked
          <6>1. Active(pre) /\ View(MyScope) = pre
            BY <5>3 DEF View, MyScope
          <6>2. View(MyScope)' = d
            BY <3>2, <4>5, <5>1, <5>3 DEF View, MyScope, Active
          <6> QED
            BY <4>5, <5>1, <6>1, <6>2
        <5> QED
          BY <5>2, <5>3
      <4> QED
        BY <3>1, <4>7, <4>8 DEF Scopes
    <3> QED
      BY <2>4, <3>3, <3>4
  <2> QED
    BY <2>3, <2>4, DraftStep
<1> QED
  BY <1>1, Invariance, AccountUnusedInv, PTL DEF Spec, NoTakeover
=============================================================================
