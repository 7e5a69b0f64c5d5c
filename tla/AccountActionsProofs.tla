------------------------ MODULE AccountActionsProofs ------------------------
(***************************************************************************)
(* For any number of requests, handlers, accounts and failures: what the   *)
(* investor is told and what is recorded agree with what the backend keeps,*)
(* and nothing gets past the scope, the release stage and the              *)
(* authorization.                                                          *)
(***************************************************************************)
EXTENDS AccountActions, TLAPS

Past(pc) == pc \in {"authorization", "connection", "call"}
Made(i) == {k \in kept : k.by = i}
Receipted(i) == {r \in receipts : r.id = i}

(* Nothing is known of a request before it is sent.                        *)
Unsent ==
  \A i \in Ids : request[i] = None =>
    told[i] = None /\ i \notin cut /\ Receipted(i) = {} /\ Made(i) = {}

Alone ==
  \A g, h \in Handlers :
    job[g].pc # "idle" /\ job[h].pc # "idle" /\ job[g].id = job[h].id => g = h

(* A request being served has no answer and no receipt; until its handler  *)
(* concludes the backend keeps nothing of it; past the scope check its     *)
(* account is the session's and its stage allows it, and an economic call  *)
(* follows an authorization.                                               *)
Serving(j) ==
  j.pc # "idle" =>
    /\ j.id \in Ids /\ request[j.id] # None
    /\ told[j.id] = None /\ Receipted(j.id) = {}
    /\ authorized => j.id \in cleared
    /\ j.pc # "receipt" => j.id \notin cut /\ Made(j.id) = {}
    /\ Past(j.pc) =>
         /\ j.account \in Scope(session.claim, session.owned)
         /\ Permitted(request[j.id].action, stage)
    /\ j.pc = "connection" => request[j.id].action \notin ECONOMIC_ACTIONS
    /\ (j.pc = "call" /\ request[j.id].action \in ECONOMIC_ACTIONS)
         => j.id \in cleared
    /\ j.pc = "receipt" =>
         /\ j.outcome \in Outcomes
         /\ Made(j.id) # {} => j.outcome = "ok" \/ (j.outcome = "blocked" /\ j.id \in cut)
         /\ j.outcome = "ok" => \E k \in kept : k.key.input = request[j.id]

(* What the backend keeps was made by the request it answers, in the       *)
(* session's account, past the gates, and once for its key.                *)
KeptSound(k) ==
  /\ request[k.by] = k.key.input
  /\ k.key.account \in Scope(session.claim, session.owned)
  /\ Permitted(k.key.input.action, stage)
  /\ k.key.input.action \in ECONOMIC_ACTIONS => k.by \in cleared
  /\ k.key.input.action # "syncBrokerConnection" => k.key.minute = 0
Results ==
  /\ \A k \in kept : KeptSound(k)
  /\ \A k1, k2 \in kept : k1.key = k2.key => k1.by = k2.by

ActionInv ==
  /\ TypeOK /\ Unsent /\ Alone
  /\ \A h \in Handlers : Serving(job[h])
  /\ Results /\ ReceiptAgrees /\ AnswersAreTrue

USE DEF Ids

(* The scope is one account of the user's, or none.                        *)
LEMMA ScopeOne ==
  ASSUME NEW c, NEW accounts, NEW a \in Scope(c, accounts)
  PROVE  a \in accounts /\ \A b \in Scope(c, accounts) : b = a
BY DEF Scope

LEMMA RefusalIsOutcome ==
  ASSUME NEW action, NEW e
  PROVE  /\ Refusal(action, e) \in Outcomes \ {"ok"}
         /\ Refusal(action, "transport") = "blocked"
BY DEF Refusal, Outcomes

(* A step of a handler that waits for its next call: only its own place    *)
(* changes.                                                                *)
LEMMA MoveSound ==
  ASSUME ActionInv, NEW h \in Handlers, job[h].pc # "idle",
         job' = [job EXCEPT ![h] = job'[h]],
         job'[h] \in Jobs, job'[h].pc # "idle", job'[h].id = job[h].id,
         Serving(job[h])',
         troubles' \in 0..MaxTroubles, events' = events,
         UNCHANGED <<server, account, kept, minute, request, told, receipts, ghosts>>
  PROVE  ActionInv'
<1> USE DEF server, account, ghosts
<1>1. TypeOK'
  BY DEF ActionInv, TypeOK
<1>2. Unsent'
  BY DEF ActionInv, Unsent, Receipted, Made
<1>3. \A g \in Handlers : job'[g].pc # "idle" <=> job[g].pc # "idle"
  BY DEF ActionInv, TypeOK
<1>4. \A g \in Handlers : job'[g].id = job[g].id
  BY DEF ActionInv, TypeOK
<1>5. Alone'
  BY <1>3, <1>4 DEF ActionInv, Alone
<1>6. \A g \in Handlers : Serving(job[g])'
  <2> SUFFICES ASSUME NEW g \in Handlers, g # h
               PROVE  Serving(job[g])'
    OBVIOUS
  <2>1. job'[g] = job[g]
    BY DEF ActionInv, TypeOK
  <2> QED
    BY <2>1 DEF ActionInv, Serving, Receipted, Made, Past
<1>7. Results'
  BY DEF ActionInv, Results, KeptSound
<1>8. Served' = Served
  BY <1>3, <1>4 DEF Served
<1>9. ReceiptAgrees'
  BY <1>8 DEF ActionInv, ReceiptAgrees
<1>10. AnswersAreTrue'
  BY DEF ActionInv, AnswersAreTrue
<1> QED
  BY <1>1, <1>2, <1>5, <1>6, <1>7, <1>9, <1>10 DEF ActionInv

(* A request whose handler is through with it: its answer, receipt and     *)
(* ghost are its own, and they agree.                                      *)
LEMMA EndSound ==
  ASSUME ActionInv, NEW h \in Handlers, job[h].pc # "idle",
         job' = [job EXCEPT ![h] = Idle],
         told' \in [Ids -> Answers \union {None}],
         \A i \in Ids : i # job[h].id => told'[i] = told[i],
         receipts' \subseteq [id : Ids, outcome : Outcomes],
         receipts \subseteq receipts',
         \A r \in receipts' : r \in receipts \/ r.id = job[h].id,
         cut \subseteq cut', cut' \subseteq cut \union {job[h].id},
         told'[job[h].id] \in Outcomes =>
           {r \in receipts' : r.id = job[h].id} = {[id |-> job[h].id, outcome |-> told'[job[h].id]]},
         told'[job[h].id] \in {"turned_away", "internal"} =>
           {r \in receipts' : r.id = job[h].id} = {},
         Made(job[h].id) # {} =>
           /\ job[h].id \in cut' \/ [id |-> job[h].id, outcome |-> "ok"] \in receipts'
           /\ told'[job[h].id] \notin {"rejected", "turned_away"},
         \A r \in receipts' : r \notin receipts /\ r.outcome = "ok" =>
           \E k \in kept : k.key.input = request[r.id],
         troubles' \in 0..MaxTroubles, events' = events,
         UNCHANGED <<server, account, kept, minute, request, cleared>>
  PROVE  ActionInv'
<1> USE DEF server, account
<1> DEFINE i0 == job[h].id
<1>0. i0 \in Ids /\ request[i0] # None
  BY DEF ActionInv, Serving
<1>1. TypeOK'
  <2>1. job' \in [Handlers -> Jobs]
    <3>1. Idle \in Jobs
      BY BoundsAssumption DEF Idle, Jobs, Steps
    <3> QED
      BY <3>1 DEF ActionInv, TypeOK
  <2> QED
    BY <1>0, <2>1 DEF ActionInv, TypeOK
<1>2. \A i \in Ids : i # i0 => Receipted(i)' = Receipted(i)
  BY DEF Receipted
<1>3. \A i : Made(i)' = Made(i)
  BY DEF Made
<1>4. Unsent'
  BY <1>0, <1>2, <1>3 DEF ActionInv, Unsent
<1>5. \A g \in Handlers : job'[g] = IF g = h THEN Idle ELSE job[g]
  BY DEF ActionInv, TypeOK
<1>6. Idle.pc = "idle"
  BY DEF Idle
<1>7. Alone'
  BY <1>5, <1>6 DEF ActionInv, Alone
<1>8. \A g \in Handlers : Serving(job[g])'
  <2>0. Serving(job[h])'
    <3>1. (job[h].pc = "idle")'
      BY <1>5, <1>6
    <3> QED
      BY <3>1 DEF Serving
  <2> SUFFICES ASSUME NEW g \in Handlers, g # h
               PROVE  Serving(job[g])'
    BY <2>0
  <2>1. job'[g] = job[g]
    BY <1>5
  <2> CASE job[g].pc = "idle"
    BY <2>1 DEF Serving
  <2> CASE job[g].pc # "idle"
    <3>2. Serving(job[g])
      BY DEF ActionInv
    <3>3. job[g].id \in Ids /\ job[g].id # i0
      BY <3>2 DEF ActionInv, Alone, Serving
    <3>4. /\ told'[job[g].id] = told[job[g].id]
          /\ Receipted(job[g].id)' = Receipted(job[g].id)
          /\ Made(job[g].id)' = Made(job[g].id)
          /\ job[g].id \in cut' <=> job[g].id \in cut
      BY <1>2, <1>3, <3>3
    <3>5. UNCHANGED <<authorized, cleared, session, stage, request, kept>>
      OBVIOUS
    <3> QED
      BY <2>1, <3>2, <3>4, <3>5 DEF Serving, Past, Receipted, Made
  <2> QED
    OBVIOUS
<1>9. Results'
  BY DEF ActionInv, Results, KeptSound
<1>10. \A i : i # i0 => (i \in Served' <=> i \in Served)
  BY <1>5, <1>6 DEF Served
<1>11. ReceiptAgrees'
  <2>1. ASSUME NEW i \in Ids
        PROVE  /\ told'[i] \in Outcomes => Receipted(i)' = {[id |-> i, outcome |-> told'[i]]}
               /\ told'[i] \in {"turned_away", "internal"} => Receipted(i)' = {}
    <3>1. CASE i = i0
      BY <3>1 DEF Receipted
    <3>2. CASE i # i0
      <4>1. told'[i] = told[i] /\ Receipted(i)' = Receipted(i)
        BY <1>2, <3>2
      <4>2. /\ told[i] \in Outcomes => Receipted(i) = {[id |-> i, outcome |-> told[i]]}
            /\ told[i] \in {"turned_away", "internal"} => Receipted(i) = {}
        BY DEF ActionInv, ReceiptAgrees, Receipted
      <4> QED
        BY <4>1, <4>2
    <3> QED
      BY <3>1, <3>2
  <2>2. ASSUME NEW k \in kept
        PROVE  k.by \in (Served \union cut)' \/ [id |-> k.by, outcome |-> "ok"] \in receipts'
    <3>1. CASE k.by = i0
      <4>1. Made(i0) # {}
        BY <3>1 DEF Made
      <4> QED
        BY <3>1, <4>1
    <3>2. CASE k.by # i0
      BY <1>10, <3>2 DEF ActionInv, ReceiptAgrees
    <3> QED
      BY <3>1, <3>2
  <2> QED
    BY <2>1, <2>2 DEF ReceiptAgrees, Receipted
<1>12. AnswersAreTrue'
  <2>1. ASSUME NEW k \in kept
        PROVE  told'[k.by] \notin {"rejected", "turned_away"}
    <3>1. CASE k.by = i0
      BY <3>1 DEF Made
    <3>2. CASE k.by # i0
      <4>1. k.by \in Ids
        BY DEF ActionInv, TypeOK
      <4> QED
        BY <3>2, <4>1 DEF ActionInv, AnswersAreTrue
    <3> QED
      BY <3>1, <3>2
  <2>2. \A r \in receipts' : r.outcome = "ok" =>
          \E k \in kept : k.key.input = request[r.id]
    BY DEF ActionInv, AnswersAreTrue
  <2> QED
    BY <2>1, <2>2 DEF AnswersAreTrue
<1> QED
  BY <1>1, <1>4, <1>7, <1>8, <1>9, <1>11, <1>12 DEF ActionInv

(* What the actions of a serving handler start from.                       *)
LEMMA ServedFacts ==
  ASSUME ActionInv, NEW h \in Handlers, job[h].pc # "idle"
  PROVE  /\ job[h] \in Jobs /\ job[h].id \in Ids
         /\ In(h) \in Inputs /\ In(h).action \in Asked
         /\ Serving(job[h])
<1>1. job[h] \in Jobs /\ Serving(job[h])
  BY DEF ActionInv, TypeOK
<1>2. job[h].id \in Ids /\ In(h) \in Inputs
  BY <1>1 DEF Serving, In, ActionInv, TypeOK
<1> QED
  BY <1>1, <1>2 DEF Inputs

LEMMA ConcludesSound ==
  ASSUME ActionInv, NEW h \in Handlers, NEW outcome \in Outcomes \ {"ok"},
         job[h].pc \notin {"idle", "receipt"}, Concludes(h, outcome),
         Smoothly \/ Trouble,
         UNCHANGED <<server, account, kept, minute, request, told, receipts, ghosts>>
  PROVE  ActionInv'
<1> USE DEF server, account, ghosts
<1>1. job[h] \in Jobs /\ Serving(job[h])
  BY ServedFacts
<1>2. job'[h] = [job[h] EXCEPT !.pc = "receipt", !.outcome = outcome]
  BY DEF Concludes, ActionInv, TypeOK
<1>3. /\ job'[h] \in Jobs /\ job'[h].pc = "receipt"
      /\ job'[h].id = job[h].id /\ job'[h].outcome = outcome
  BY <1>1, <1>2 DEF Jobs, Steps, Outcomes
<1>4. job' = [job EXCEPT ![h] = job'[h]]
  BY DEF Concludes, ActionInv, TypeOK
<1>5. Serving(job[h])'
  BY <1>1, <1>3 DEF Serving, Receipted, Made, Past
<1>6. troubles' \in 0..MaxTroubles /\ events' = events
  BY BoundsAssumption DEF Smoothly, Trouble, counts, ActionInv, TypeOK
<1> QED
  BY <1>3, <1>4, <1>5, <1>6, MoveSound

(* On to the next call, with the same account.                             *)
LEMMA GoesSound ==
  ASSUME ActionInv, NEW h \in Handlers, Past(job[h].pc), Goes(h, "call"),
         In(h).action \in ECONOMIC_ACTIONS => authorized,
         Smoothly,
         UNCHANGED <<server, account, kept, minute, request, told, receipts, ghosts>>
  PROVE  ActionInv'
<1> USE DEF server, account, ghosts
<1>1. job[h] \in Jobs /\ Serving(job[h])
  BY ServedFacts DEF Past
<1>2. job'[h] = [job[h] EXCEPT !.pc = "call"]
  BY DEF Goes, ActionInv, TypeOK
<1>3. /\ job'[h] \in Jobs /\ job'[h].pc = "call"
      /\ job'[h].id = job[h].id /\ job'[h].account = job[h].account
  BY <1>1, <1>2 DEF Jobs, Steps
<1>4. job' = [job EXCEPT ![h] = job'[h]]
  BY DEF Goes, ActionInv, TypeOK
<1>5. Serving(job[h])'
  BY <1>1, <1>3 DEF Serving, Receipted, Made, Past, In
<1>6. troubles' \in 0..MaxTroubles /\ events' = events
  BY DEF Smoothly, counts, ActionInv, TypeOK
<1> QED
  BY <1>3, <1>4, <1>5, <1>6, MoveSound DEF Past

LEMMA EnterSound ==
  ASSUME ActionInv, NEW h \in Handlers, Enter(h)
  PROVE  ActionInv'
<1> USE DEF Enter
<1>1. CASE Refused(h)
  BY <1>1, ConcludesSound DEF Refused, Outcomes
<1>2. CASE Permitted(In(h).action, stage) /\ Scoped(h)
  <2>1. CASE Concludes(h, "blocked") /\ (Smoothly \/ Trouble)
    BY <2>1, ConcludesSound DEF Outcomes
  <2>2. ASSUME NEW a \in Scope(session.claim, session.owned),
               job' = [job EXCEPT ![h].pc = AfterScope(In(h).action),
                                  ![h].account = a],
               Smoothly
        PROVE  ActionInv'
    <3> USE DEF server, account, ghosts
    <3>1. job[h] \in Jobs /\ Serving(job[h])
      BY ServedFacts
    <3>2. job'[h] = [job[h] EXCEPT !.pc = AfterScope(In(h).action), !.account = a]
      BY <2>2 DEF ActionInv, TypeOK
    <3>3. a \in Accounts
      <4>1. session.owned \subseteq Accounts
        BY SessionsAssumption DEF ActionInv, TypeOK
      <4> QED
        BY <4>1, ScopeOne
    <3>4. /\ AfterScope(In(h).action) \in {"authorization", "connection", "call"}
          /\ AfterScope(In(h).action) # "authorization"
               => In(h).action \notin ECONOMIC_ACTIONS
      BY DEF AfterScope, ECONOMIC_ACTIONS, Maintenance
    <3>5. /\ job'[h] \in Jobs /\ job'[h].pc = AfterScope(In(h).action)
          /\ job'[h].id = job[h].id /\ job'[h].account = a
      BY <3>1, <3>2, <3>3, <3>4 DEF Jobs, Steps
    <3>6. job' = [job EXCEPT ![h] = job'[h]]
      BY <2>2 DEF ActionInv, TypeOK
    <3>7. Serving(job[h])'
      BY <1>2, <3>1, <3>4, <3>5 DEF Serving, Receipted, Made, Past, In
    <3>8. troubles' \in 0..MaxTroubles /\ events' = events
      BY <2>2 DEF Smoothly, counts, ActionInv, TypeOK
    <3> QED
      BY <3>4, <3>5, <3>6, <3>7, <3>8, MoveSound
  <2> QED
    BY <1>2, <2>1, <2>2 DEF Scoped
<1> QED
  BY <1>1, <1>2

LEMMA ReadAuthorizationSound ==
  ASSUME ActionInv, NEW h \in Handlers, ReadAuthorization(h)
  PROVE  ActionInv'
<1>1. CASE authorized /\ Goes(h, "call") /\ Smoothly
  BY <1>1, GoesSound DEF ReadAuthorization, Past
<1>2. CASE ~authorized /\ Concludes(h, "blocked") /\ Smoothly
  BY <1>2, ConcludesSound DEF ReadAuthorization, Outcomes
<1>3. CASE \E e \in Errors : Concludes(h, Refusal(In(h).action, e)) /\ Trouble
  BY <1>3, ConcludesSound, RefusalIsOutcome DEF ReadAuthorization
<1> QED
  BY <1>1, <1>2, <1>3 DEF ReadAuthorization

LEMMA CallRefusedSound ==
  ASSUME ActionInv, NEW h \in Handlers, CallRefused(h)
  PROVE  ActionInv'
BY ConcludesSound, RefusalIsOutcome DEF CallRefused

LEMMA ReadConnectionSound ==
  ASSUME ActionInv, NEW h \in Handlers, ReadConnection(h)
  PROVE  ActionInv'
<1>1. CASE Usable(In(h)) /\ Goes(h, "call") /\ Smoothly
  <2>1. In(h).action \notin ECONOMIC_ACTIONS
    BY ServedFacts DEF ReadConnection, Serving, In
  <2> QED
    BY <1>1, <2>1, GoesSound DEF ReadConnection, Past
<1>2. CASE ~Usable(In(h)) /\ Concludes(h, "blocked") /\ Smoothly
  BY <1>2, ConcludesSound DEF ReadConnection, Outcomes
<1>3. CASE \E e \in Errors : Concludes(h, Refusal(In(h).action, e)) /\ Trouble
  BY <1>3, ConcludesSound, RefusalIsOutcome DEF ReadConnection
<1> QED
  BY <1>1, <1>2, <1>3 DEF ReadConnection

(* The ways a request is over.                                             *)
LEMMA AnsweredSound ==
  ASSUME ActionInv, NEW h \in Handlers, NEW answer \in {"turned_away", "internal"},
         job[h].pc # "idle", Trouble, Answer(h, answer),
         \/ job[h].pc # "receipt" /\ cut' = cut
         \/ answer = "internal" /\ cut' = cut \union {job[h].id},
         UNCHANGED <<server, account, kept, minute, request, receipts, cleared>>
  PROVE  ActionInv'
<1>1. Serving(job[h]) /\ job[h].id \in Ids
  BY ServedFacts
<1>2. /\ told'[job[h].id] = answer
      /\ \A i \in Ids : i # job[h].id => told'[i] = told[i]
      /\ told' \in [Ids -> Answers \union {None}]
  BY <1>1 DEF Answer, ActionInv, TypeOK, Answers
<1>3. {r \in receipts' : r.id = job[h].id} = {}
  BY <1>1 DEF Serving, Receipted
<1>4. answer \notin Outcomes
  BY DEF Outcomes
<1>5. Made(job[h].id) # {} => job[h].id \in cut' /\ answer = "internal"
  BY <1>1 DEF Serving
<1>6. troubles' \in 0..MaxTroubles /\ events' = events
  BY BoundsAssumption DEF Trouble, ActionInv, TypeOK
<1>7. receipts' \subseteq [id : Ids, outcome : Outcomes]
  BY DEF ActionInv, TypeOK
<1> QED
  BY <1>1, <1>2, <1>3, <1>4, <1>5, <1>6, <1>7, EndSound DEF Answer

LEMMA TurnAwaySound ==
  ASSUME ActionInv, NEW h \in Handlers, TurnAway(h)
  PROVE  ActionInv'
BY AnsweredSound DEF TurnAway, ghosts

LEMMA ClientFailsSound ==
  ASSUME ActionInv, NEW h \in Handlers, ClientFails(h)
  PROVE  ActionInv'
BY AnsweredSound DEF ClientFails, ghosts

LEMMA ReceiptFailsSound ==
  ASSUME ActionInv, NEW h \in Handlers, ReceiptFails(h)
  PROVE  ActionInv'
BY AnsweredSound DEF ReceiptFails

LEMMA DieSound ==
  ASSUME ActionInv, NEW h \in Handlers, Die(h)
  PROVE  ActionInv'
<1> USE DEF Die
<1>1. Serving(job[h]) /\ job[h].id \in Ids
  BY ServedFacts
<1>2. told'[job[h].id] = None
  BY <1>1 DEF Serving
<1>3. None \notin Outcomes \union {"turned_away", "internal", "rejected"}
  BY NoneIsNoAnswer DEF Outcomes
<1>4. troubles' \in 0..MaxTroubles /\ events' = events
  BY BoundsAssumption DEF Trouble, ActionInv, TypeOK
<1>5. /\ told' \in [Ids -> Answers \union {None}]
      /\ receipts' \subseteq [id : Ids, outcome : Outcomes]
  BY DEF ActionInv, TypeOK
<1> QED
  BY <1>1, <1>2, <1>3, <1>4, <1>5, EndSound

LEMMA ReplySound ==
  ASSUME ActionInv, NEW h \in Handlers, Reply(h)
  PROVE  ActionInv'
<1> USE DEF Reply
<1> DEFINE i0 == job[h].id
<1> DEFINE r0 == [id |-> job[h].id, outcome |-> job[h].outcome]
<1>1. Serving(job[h]) /\ i0 \in Ids
  BY ServedFacts
<1>2. job[h].outcome \in Outcomes
  BY <1>1 DEF Serving
<1>3. /\ receipts' \subseteq [id : Ids, outcome : Outcomes]
      /\ receipts \subseteq receipts'
      /\ \A r \in receipts' : r \in receipts \/ r = r0
  BY <1>1, <1>2 DEF ActionInv, TypeOK
<1>4. {r \in receipts' : r.id = i0} = {r0}
  BY <1>1 DEF Serving, Receipted
<1>5. \A r \in receipts' : r \notin receipts /\ r.outcome = "ok" =>
        \E k \in kept : k.key.input = request[r.id]
  BY <1>1, <1>3 DEF Serving
<1>6. troubles' \in 0..MaxTroubles /\ events' = events
  BY BoundsAssumption DEF Trouble, Smoothly, counts, ActionInv, TypeOK
<1>7. None \notin Outcomes \union {"turned_away", "internal", "rejected"}
  BY NoneIsNoAnswer DEF Outcomes
<1>8. CASE Answer(h, job[h].outcome) /\ cut' = cut
  <2>1. /\ told'[i0] = job[h].outcome
        /\ \A i \in Ids : i # i0 => told'[i] = told[i]
        /\ told' \in [Ids -> Answers \union {None}]
    BY <1>1, <1>2, <1>8 DEF Answer, ActionInv, TypeOK, Answers
  <2>2. job[h].outcome \notin {"turned_away", "internal"}
    BY <1>2 DEF Outcomes
  <2>3. Made(i0) # {} =>
          /\ i0 \in cut' \/ [id |-> i0, outcome |-> "ok"] \in receipts'
          /\ told'[i0] \notin {"rejected", "turned_away"}
    BY <1>1, <1>8, <2>1 DEF Serving
  <2> QED
    BY <1>1, <1>3, <1>4, <1>5, <1>6, <1>8, <2>1, <2>2, <2>3, EndSound DEF Answer
<1>9. CASE /\ job' = [job EXCEPT ![h] = Idle]
           /\ cut' = cut \union {i0} /\ told' = told
  <2>1. told'[i0] = None
    BY <1>1, <1>9 DEF Serving
  <2>2. told' \in [Ids -> Answers \union {None}]
    BY <1>9 DEF ActionInv, TypeOK
  <2>3. \A r \in receipts' : r \in receipts \/ r.id = i0
    BY <1>3
  <2>4. told'[i0] \notin Outcomes \union {"turned_away", "internal", "rejected"}
    BY <1>7, <2>1
  <2>5. cut \subseteq cut' /\ i0 \in cut'
    BY <1>9
  <2> QED
    BY <1>1, <1>3, <1>5, <1>6, <1>9, <2>2, <2>3, <2>4, <2>5, EndSound
<1> QED
  BY <1>8, <1>9

(* What the backend has when it answers a request: what it had, and the    *)
(* result of this request, for its own key, if it had none for that key.   *)
LEMMA SettleKeeps ==
  ASSUME ActionInv, NEW h \in Handlers, job[h].pc = "call", Settle(h)
  PROVE  /\ kept' \subseteq [key : Keys, by : Ids]
         /\ kept \subseteq kept'
         /\ \A k \in kept' \ kept :
              k.by = job[h].id /\ KeptSound(k) /\ k.key = KeyOf(h)
         /\ \A k1, k2 \in kept' : k1.key = k2.key => k1.by = k2.by
         /\ \E k \in kept' : k.key.input = In(h)
         /\ holding' \in Percents \union {None}
         /\ connection' \in Connections \union {None}
<1> DEFINE k0 == [key |-> KeyOf(h), by |-> job[h].id]
<1>1. Serving(job[h]) /\ job[h].id \in Ids /\ In(h) \in Inputs
  BY ServedFacts
<1>2. /\ job[h].account \in Scope(session.claim, session.owned)
      /\ Permitted(In(h).action, stage)
      /\ In(h).action \in ECONOMIC_ACTIONS => job[h].id \in cleared
  BY <1>1 DEF Serving, Past, In
<1>3. job[h].account \in Accounts
  <2>1. session.owned \subseteq Accounts
    BY SessionsAssumption DEF ActionInv, TypeOK
  <2> QED
    BY <1>2, <2>1, ScopeOne
<1>4. /\ KeyOf(h) \in Keys
      /\ KeyOf(h).input = In(h) /\ KeyOf(h).account = job[h].account
      /\ In(h).action # "syncBrokerConnection" => KeyOf(h).minute = 0
  BY <1>1, <1>3 DEF KeyOf, Key, Keys, ECONOMIC_ACTIONS, ActionInv, TypeOK
<1>5. KeptSound(k0)
  BY <1>2, <1>4 DEF KeptSound, In
<1>6. CASE Replays(h) /\ UNCHANGED <<holding, connection, kept>>
  BY <1>4, <1>6 DEF Replays, ActionInv, TypeOK, Results
<1>7. CASE ~Replays(h) /\ CarriesOut(job[h].id, In(h)) /\ kept' = kept \union {k0}
  <2>1. k0 \in [key : Keys, by : Ids]
    BY <1>1, <1>4
  <2>2. \A k \in kept : k.key # k0.key
    BY <1>7 DEF Replays
  <2>3. \A k1, k2 \in kept' : k1.key = k2.key => k1.by = k2.by
    BY <1>7, <2>2 DEF ActionInv, Results
  <2>4. holding' \in Percents \union {None} /\ connection' \in Connections \union {None}
    BY <1>1, <1>7, BoundsAssumption DEF CarriesOut, Inputs, Connections, Ids, ActionInv, TypeOK
  <2>5. kept \subseteq [key : Keys, by : Ids]
    BY DEF ActionInv, TypeOK
  <2> QED
    BY <1>4, <1>5, <1>7, <2>1, <2>3, <2>4, <2>5
<1> QED
  BY <1>6, <1>7 DEF Settle

(* The call is over, with or without its answer.                           *)
LEMMA CallSound ==
  ASSUME ActionInv, NEW h \in Handlers, NEW outcome \in {"ok", "blocked"},
         job[h].pc = "call", Concludes(h, outcome),
         Settle(h) \/ (outcome = "blocked" /\ UNCHANGED <<holding, connection, kept>>),
         \/ outcome = "ok" /\ cut' = cut
         \/ cut' = cut \union {job[h].id},
         Smoothly \/ Trouble,
         UNCHANGED <<server, authorized, stale, minute, request, told, receipts, cleared>>
  PROVE  ActionInv'
<1> USE DEF server
<1> DEFINE i0 == job[h].id
<1>1. Serving(job[h]) /\ i0 \in Ids /\ job[h] \in Jobs
  BY ServedFacts
<1>2. /\ kept' \subseteq [key : Keys, by : Ids]
      /\ kept \subseteq kept'
      /\ \A k \in kept' \ kept : k.by = i0 /\ KeptSound(k)
      /\ \A k1, k2 \in kept' : k1.key = k2.key => k1.by = k2.by
      /\ outcome = "ok" => \E k \in kept' : k.key.input = In(h)
      /\ holding' \in Percents \union {None}
      /\ connection' \in Connections \union {None}
  <2>1. CASE Settle(h)
    BY <2>1, SettleKeeps
  <2>2. CASE outcome = "blocked" /\ UNCHANGED <<holding, connection, kept>>
    BY <2>2 DEF ActionInv, TypeOK, Results
  <2> QED
    BY <2>1, <2>2
<1>3. \A g \in Handlers :
        job'[g] = IF g = h THEN [job[h] EXCEPT !.pc = "receipt", !.outcome = outcome]
                  ELSE job[g]
  BY DEF Concludes, ActionInv, TypeOK
<1>4. /\ job'[h] \in Jobs /\ job'[h].pc = "receipt"
      /\ job'[h].id = i0 /\ job'[h].outcome = outcome
  BY <1>1, <1>3 DEF Jobs, Steps, Outcomes
<1>5. \A g \in Handlers :
        job'[g].id = job[g].id /\ (job'[g].pc # "idle" <=> job[g].pc # "idle")
  BY <1>3, <1>4
<1>6. TypeOK'
  <2>1. job' \in [Handlers -> Jobs]
    BY <1>3, <1>4 DEF Concludes, ActionInv, TypeOK
  <2>2. troubles' \in 0..MaxTroubles /\ events' = events
    BY BoundsAssumption DEF Smoothly, Trouble, counts, ActionInv, TypeOK
  <2> QED
    BY <1>1, <1>2, <2>1, <2>2 DEF ActionInv, TypeOK
<1>7. cut \subseteq cut' /\ cut' \subseteq cut \union {i0}
  OBVIOUS
<1>8. \A i \in Ids : i # i0 => {k \in kept' : k.by = i} = Made(i)
  BY <1>2 DEF Made
<1>9. Unsent'
  <2>1. request[i0] # None
    BY <1>1 DEF Serving
  <2> QED
    BY <1>7, <1>8, <2>1 DEF ActionInv, Unsent, Receipted, Made
<1>10. Alone'
  BY <1>5 DEF ActionInv, Alone
<1>11. \A g \in Handlers : Serving(job[g])'
  <2>1. Serving(job[h])'
    <3>1. outcome = "blocked" => i0 \in cut'
      OBVIOUS
    <3>2. outcome \in Outcomes
      BY DEF Outcomes
    <3> QED
      BY <1>1, <1>2, <1>4, <3>1, <3>2 DEF Serving, Receipted, Past, In
  <2>2. ASSUME NEW g \in Handlers, g # h
        PROVE  Serving(job[g])'
    <3>1. job'[g] = job[g]
      BY <1>3, <2>2
    <3>2. CASE job[g].pc = "idle"
      BY <3>1, <3>2 DEF Serving
    <3>3. CASE job[g].pc # "idle"
      <4>1. Serving(job[g])
        BY DEF ActionInv
      <4>2. job[g].id \in Ids /\ job[g].id # i0
        BY <2>2, <3>3, <4>1 DEF ActionInv, Alone, Serving
      <4>3. /\ {k \in kept' : k.by = job[g].id} = Made(job[g].id)
            /\ job[g].id \in cut' <=> job[g].id \in cut
        BY <1>7, <1>8, <4>2
      <4> QED
        BY <1>2, <3>1, <3>3, <4>1, <4>3 DEF Serving, Receipted, Made, Past
    <3> QED
      BY <3>2, <3>3
  <2> QED
    BY <2>1, <2>2
<1>12. Results'
  <2>1. \A k \in kept' : KeptSound(k)
    BY <1>2 DEF ActionInv, Results
  <2>2. \A k \in kept' : KeptSound(k)'
    BY <2>1 DEF KeptSound
  <2> QED
    BY <1>2, <2>2 DEF Results
<1>13. Served' = Served
  BY <1>5 DEF Served
<1>14. i0 \in Served
  BY DEF Served
<1>15. ReceiptAgrees'
  BY <1>2, <1>7, <1>13, <1>14 DEF ActionInv, ReceiptAgrees
<1>16. AnswersAreTrue'
  <2>1. told[i0] \notin {"rejected", "turned_away"}
    BY <1>1, NoneIsNoAnswer DEF Serving
  <2> QED
    BY <1>2, <2>1 DEF ActionInv, AnswersAreTrue
<1> QED
  BY <1>6, <1>9, <1>10, <1>11, <1>12, <1>15, <1>16 DEF ActionInv

LEMMA CallAcceptedSound ==
  ASSUME ActionInv, NEW h \in Handlers, CallAccepted(h)
  PROVE  ActionInv'
BY CallSound DEF CallAccepted, ghosts

LEMMA CallLostSound ==
  ASSUME ActionInv, NEW h \in Handlers, CallLost(h)
  PROVE  ActionInv'
BY CallSound, RefusalIsOutcome DEF CallLost

LEMMA AskSound ==
  ASSUME ActionInv, NEW h \in Handlers, Ask(h)
  PROVE  ActionInv'
<1> USE DEF server, account
<1>1. PICK in \in Offered, i \in Ids :
        /\ in.action \in Asked
        /\ request[i] = None
        /\ request' = [request EXCEPT ![i] = in]
        /\ job' = [job EXCEPT ![h] = [Idle EXCEPT !.pc = "gate", !.id = i]]
        /\ cleared' = IF authorized THEN cleared \union {i} ELSE cleared
  BY DEF Ask
<1>2. in \in Inputs
  <2>1. CASE in \in {Input("previewAllocation", p, None) : p \in Percents}
    BY <1>1, <2>1 DEF Input, Inputs
  <2>2. CASE in \in {Input(a, request[v].percent, v) : a \in ECONOMIC_ACTIONS, v \in Shown}
    <3>1. PICK a \in ECONOMIC_ACTIONS, v \in Shown : in = Input(a, request[v].percent, v)
      BY <2>2
    <3>2. PICK k \in kept : v = k.by
      BY <3>1 DEF Shown
    <3>3. v \in Ids /\ request[v] \in Inputs
      BY <3>2 DEF ActionInv, Results, KeptSound, TypeOK, Keys
    <3> QED
      BY <1>1, <3>1, <3>3 DEF Input, Inputs, Connections, Ids
  <2>3. CASE in \in {Input(a, None, None) :
                      a \in {"leaveTemplate", "connectBroker"}}
    BY <1>1, <2>3 DEF Input, Inputs
  <2>4. CASE in \in {Input(a, None, connection) : a \in Maintenance}
    BY <1>1, <2>4 DEF Input, Inputs, ActionInv, TypeOK
  <2> QED
    BY <1>1, <2>1, <2>2, <2>3, <2>4 DEF Offered
<1>3. in # None
  BY <1>2, NoneIsNoInput DEF Inputs, Connections
<1>4. /\ told[i] = None /\ i \notin cut /\ Receipted(i) = {} /\ Made(i) = {}
  BY <1>1 DEF ActionInv, Unsent
<1>5. \A g \in Handlers : job'[g] =
        IF g = h THEN [Idle EXCEPT !.pc = "gate", !.id = i] ELSE job[g]
  BY <1>1 DEF ActionInv, TypeOK
<1>6. /\ job'[h].pc = "gate" /\ job'[h].id = i /\ job'[h] \in Jobs
  <2>1. job'[h] = [pc |-> "gate", id |-> i, account |-> None, outcome |-> None]
    BY <1>5 DEF Idle
  <2>2. i \in 0..MaxRequests
    BY BoundsAssumption
  <2> QED
    BY <2>1, <2>2 DEF Jobs, Steps
<1>7. \A j \in Ids : request'[j] = IF j = i THEN in ELSE request[j]
  BY <1>1 DEF ActionInv, TypeOK
<1>8. \A g \in Handlers : job[g].pc # "idle" => job[g].id \in Ids /\ job[g].id # i
  BY <1>1 DEF ActionInv, Serving
<1>9. job[h].pc = "idle" /\ Smoothly
      /\ UNCHANGED <<server, account, kept, minute, told, receipts, cut>>
  BY DEF Ask
<1>10. TypeOK'
  <2>1. request' \in [Ids -> Inputs \union {None}]
    BY <1>1, <1>2 DEF ActionInv, TypeOK
  <2>2. job' \in [Handlers -> Jobs]
    BY <1>1, <1>5, <1>6 DEF ActionInv, TypeOK
  <2>3. cleared' \subseteq Ids
    BY <1>1 DEF ActionInv, TypeOK
  <2> QED
    BY <1>9, <2>1, <2>2, <2>3 DEF Smoothly, counts, ActionInv, TypeOK
<1>11. Unsent'
  BY <1>3, <1>7, <1>9 DEF ActionInv, Unsent, Receipted, Made
<1>12. Alone'
  BY <1>5, <1>6, <1>8 DEF ActionInv, Alone
<1>13. \A g \in Handlers : Serving(job[g])'
  <2>1. Serving(job[h])'
    BY <1>1, <1>3, <1>4, <1>6, <1>7, <1>9 DEF Serving, Receipted, Made, Past
  <2>2. ASSUME NEW g \in Handlers, g # h
        PROVE  Serving(job[g])'
    <3>1. job'[g] = job[g]
      BY <1>5, <2>2
    <3>2. CASE job[g].pc = "idle"
      BY <3>1, <3>2 DEF Serving
    <3>3. CASE job[g].pc # "idle"
      <4>1. Serving(job[g])
        BY DEF ActionInv
      <4>2. /\ job[g].id \in Ids
            /\ request'[job[g].id] = request[job[g].id]
            /\ job[g].id \in cleared => job[g].id \in cleared'
        BY <1>1, <1>7, <1>8, <3>3
      <4> QED
        BY <1>9, <3>1, <3>3, <4>1, <4>2 DEF Serving, Receipted, Made, Past
    <3> QED
      BY <3>2, <3>3
  <2> QED
    BY <2>1, <2>2
<1>14. \A k \in kept : k.by \in Ids /\ k.by # i
  BY <1>4 DEF Made, ActionInv, TypeOK
<1>15. Results'
  <2>1. ASSUME NEW k \in kept
        PROVE  KeptSound(k)'
    <3>1. KeptSound(k) /\ request'[k.by] = request[k.by]
      BY <1>7, <1>14 DEF ActionInv, Results
    <3>2. k.by \in cleared => k.by \in cleared'
      BY <1>1
    <3> QED
      BY <1>9, <3>1, <3>2 DEF KeptSound
  <2> QED
    BY <1>9, <2>1 DEF ActionInv, Results
<1>16. Served \subseteq Served'
  BY <1>5, <1>9 DEF Served
<1>17. ReceiptAgrees'
  BY <1>9, <1>16 DEF ActionInv, ReceiptAgrees
<1>18. AnswersAreTrue'
  <2>1. \A r \in receipts : request'[r.id] = request[r.id]
    BY <1>4, <1>7 DEF Receipted, ActionInv, TypeOK
  <2> QED
    BY <1>9, <2>1 DEF ActionInv, AnswersAreTrue
<1> QED
  BY <1>10, <1>11, <1>12, <1>13, <1>15, <1>17, <1>18 DEF ActionInv

(* What the backend and the clock do by themselves.                        *)
LEMMA EventSound ==
  ASSUME ActionInv,
         AuthorizationChanges \/ PreviewExpires \/ ConnectionEnds \/ MinutePasses
  PROVE  ActionInv'
<1>1. /\ events' \in 0..MaxEvents /\ troubles' = troubles
      /\ UNCHANGED <<server, kept, request, told, receipts, job, cut, holding>>
  BY BoundsAssumption DEF AuthorizationChanges, PreviewExpires, ConnectionEnds,
     MinutePasses, Event, ActionInv, TypeOK, account, ghosts
<1>2. /\ authorized' \in BOOLEAN /\ stale' \subseteq Ids /\ minute' \in Nat
      /\ connection' \in Connections \union {None}
      /\ cleared \subseteq cleared' /\ cleared' \subseteq Ids
      /\ authorized' => (authorized /\ cleared' = cleared) \/ Served \subseteq cleared'
  <2>1. CASE AuthorizationChanges
    <3>1. authorized' = ~authorized
      BY <2>1 DEF AuthorizationChanges
    <3>2. authorized' \in BOOLEAN
      BY <3>1, Zenon
    <3>3. Served \subseteq Ids
      BY DEF Served, Serving, ActionInv
    <3>4. cleared' = IF authorized' THEN cleared \union Served ELSE cleared
      BY <2>1 DEF AuthorizationChanges
    <3>5. UNCHANGED <<stale, minute, connection>>
      BY <2>1 DEF AuthorizationChanges
    <3> QED
      BY <3>2, <3>3, <3>4, <3>5 DEF ActionInv, TypeOK
  <2>2. CASE PreviewExpires \/ ConnectionEnds \/ MinutePasses
    <3>1. UNCHANGED <<authorized, cleared>>
      BY <2>2 DEF PreviewExpires, ConnectionEnds, MinutePasses, account, ghosts
    <3>2. stale' \subseteq Ids /\ minute' \in Nat /\ connection' \in Connections \union {None}
      <4>1. CASE PreviewExpires
        BY <4>1 DEF PreviewExpires, ActionInv, TypeOK
      <4>2. CASE ConnectionEnds
        BY <4>2 DEF ConnectionEnds, ActionInv, TypeOK
      <4>3. CASE MinutePasses
        BY <4>3 DEF MinutePasses, account, ActionInv, TypeOK
      <4> QED
        BY <2>2, <4>1, <4>2, <4>3
    <3>3. authorized \in BOOLEAN /\ cleared \subseteq Ids
      BY DEF ActionInv, TypeOK
    <3> QED
      BY <3>1, <3>2, <3>3
  <2> QED
    BY <2>1, <2>2
<1> USE DEF server
<1>4. TypeOK'
  BY <1>1, <1>2, <1>2 DEF ActionInv, TypeOK
<1>5. Unsent' /\ Alone'
  BY <1>1 DEF ActionInv, Unsent, Receipted, Made, Alone
<1>6. \A g \in Handlers : Serving(job[g])'
  <2> SUFFICES ASSUME NEW g \in Handlers
               PROVE  Serving(job[g])'
    OBVIOUS
  <2>1. Serving(job[g]) /\ (job[g].pc # "idle" => job[g].id \in Served)
    BY DEF ActionInv, Served
  <2>2. job[g].pc # "idle" /\ authorized' => job[g].id \in cleared'
    BY <1>2, <2>1 DEF Serving
  <2>3. job[g].id \in cleared => job[g].id \in cleared'
    BY <1>2
  <2> QED
    BY <1>1, <2>1, <2>2, <2>3 DEF Serving, Receipted, Made, Past
<1>7. Results'
  BY <1>1, <1>2 DEF ActionInv, Results, KeptSound
<1>8. ReceiptAgrees' /\ AnswersAreTrue'
  BY <1>1 DEF ActionInv, ReceiptAgrees, AnswersAreTrue, Served
<1> QED
  BY <1>4, <1>5, <1>6, <1>7, <1>8 DEF ActionInv

THEOREM Invariance == Spec => []ActionInv
<1>1. Init => ActionInv
  <2> SUFFICES ASSUME Init
               PROVE  ActionInv
    OBVIOUS
  <2> USE DEF Init
  <2>1. \A h \in Handlers : job[h] = Idle
    OBVIOUS
  <2>2. Idle \in Jobs /\ Idle.pc = "idle"
    BY BoundsAssumption DEF Idle, Jobs, Steps
  <2>3. TypeOK
    <3>1. authorized \in BOOLEAN
      <4>1. authorized = FALSE \/ authorized = TRUE
        OBVIOUS
      <4> QED
        BY <4>1, Zenon
    <3>2. holding \in Percents \union {None} /\ connection \in Connections \union {None}
      BY BoundsAssumption DEF Connections
    <3>3. job \in [Handlers -> Jobs]
      BY <2>2
    <3>4. /\ request \in [Ids -> Inputs \union {None}]
          /\ told \in [Ids -> Answers \union {None}]
      OBVIOUS
    <3>5. troubles \in 0..MaxTroubles /\ events \in 0..MaxEvents /\ minute \in Nat
      BY BoundsAssumption
    <3> QED
      BY <3>1, <3>2, <3>3, <3>4, <3>5 DEF TypeOK
  <2>4. Unsent
    BY DEF Unsent, Receipted, Made
  <2>5. Alone /\ \A h \in Handlers : Serving(job[h])
    BY <2>1, <2>2 DEF Alone, Serving
  <2>6. Results
    BY DEF Results
  <2>7. ReceiptAgrees /\ AnswersAreTrue
    BY NoneIsNoAnswer DEF ReceiptAgrees, AnswersAreTrue, Outcomes
  <2> QED
    BY <2>3, <2>4, <2>5, <2>6, <2>7 DEF ActionInv
<1>2. ActionInv /\ [Next]_vars => ActionInv'
  <2> SUFFICES ASSUME ActionInv, [Next]_vars
               PROVE  ActionInv'
    OBVIOUS
  <2>1. ASSUME NEW h \in Handlers, Step(h)
        PROVE  ActionInv'
    BY <2>1, TurnAwaySound, EnterSound, ClientFailsSound, ReadAuthorizationSound,
       ReadConnectionSound, CallAcceptedSound, CallRefusedSound, CallLostSound,
       ReplySound, ReceiptFailsSound, DieSound DEF Step
  <2>2. CASE UNCHANGED vars
    <3>1. UNCHANGED <<stage, session, authorized, holding, connection, stale, kept,
                      minute, request, told, receipts, job, cleared, cut, troubles, events>>
      BY <2>2 DEF vars, server, account, ghosts, counts
    <3>2. TypeOK' /\ Unsent' /\ Alone'
      BY <3>1 DEF ActionInv, TypeOK, Unsent, Alone, Receipted, Made
    <3>3. \A h \in Handlers : Serving(job[h])'
      BY <3>1 DEF ActionInv, Serving, Receipted, Made, Past
    <3>4. Results' /\ ReceiptAgrees' /\ AnswersAreTrue'
      BY <3>1 DEF ActionInv, Results, KeptSound, ReceiptAgrees, AnswersAreTrue, Served
    <3> QED
      BY <3>2, <3>3, <3>4 DEF ActionInv
  <2> QED
    BY <2>1, <2>2, AskSound, EventSound DEF Next
<1> QED
  BY <1>1, <1>2, PTL DEF Spec

(* What the investor is told agrees with the receipt, and no change goes   *)
(* unrecorded but those of requests cut short (handler.ts:219-261).        *)
THEOREM AnswersHaveReceipts == Spec => []ReceiptAgrees
<1>1. ActionInv => ReceiptAgrees
  BY DEF ActionInv
<1> QED
  BY <1>1, Invariance, PTL

(* "Rejected" means that nothing happened, "ok" that it did                *)
(* (mutation-route.ts:81-121).                                             *)
THEOREM RejectionIsDefinite == Spec => []AnswersAreTrue
<1>1. ActionInv => AnswersAreTrue
  BY DEF ActionInv
<1> QED
  BY <1>1, Invariance, PTL

(* Scope, release stage and authorization stand before every change,       *)
(* however the account changes meanwhile (account-actions.ts:128-144).     *)
THEOREM GatesStand == Spec => []GateHeld
<1>1. ActionInv => GateHeld
  <2> SUFFICES ASSUME ActionInv, NEW k \in kept
               PROVE  /\ k.key.account \in session.owned
                      /\ stage = "signal" => k.key.input.action \notin AlphaOnly
                      /\ k.key.input.action \in ECONOMIC_ACTIONS => k.by \in cleared
    BY DEF GateHeld
  <2>1. KeptSound(k)
    BY DEF ActionInv, Results
  <2>2. k.key.account \in session.owned
    BY <2>1, ScopeOne DEF KeptSound
  <2>3. stage = "signal" => k.key.input.action \notin AlphaOnly
    <3>1. ASSUME stage = "signal" PROVE k.key.input.action \in SignalAllowed
      BY <2>1, <3>1 DEF KeptSound, Permitted
    <3> QED
      BY <3>1, Classified
  <2> QED
    BY <2>1, <2>2, <2>3 DEF KeptSound
<1> QED
  BY <1>1, Invariance, PTL

(* A preview, a join, an update or a rotation is carried out once however  *)
(* often it is sent (account-actions.ts:71-80, 114-126).                   *)
THEOREM SentTwiceAppliedOnce == Spec => []AppliedOnce
<1>1. ActionInv => AppliedOnce
  <2> SUFFICES ASSUME ActionInv, NEW k1 \in kept, NEW k2 \in kept,
                      k1.key.input = k2.key.input,
                      k1.key.input.action \in
                        ECONOMIC_ACTIONS \union {"previewAllocation",
                                                 "rotateBrokerCredentials"}
               PROVE  k1.by = k2.by
    BY DEF AppliedOnce
  <2>1. KeptSound(k1) /\ KeptSound(k2)
    BY DEF ActionInv, Results
  <2>2. k1.key.account = k2.key.account /\ k1.key.minute = k2.key.minute
    BY <2>1, ScopeOne DEF KeptSound, ECONOMIC_ACTIONS
  <2>3. k1.key \in Keys /\ k2.key \in Keys
    BY DEF ActionInv, TypeOK
  <2>4. k1.key = k2.key
    BY <2>2, <2>3 DEF Keys
  <2> QED
    BY <2>4 DEF ActionInv, Results
<1> QED
  BY <1>1, Invariance, PTL
=============================================================================
