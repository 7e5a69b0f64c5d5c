------------------------------ MODULE DemoWorld ------------------------------
(***************************************************************************)
(* The in-process Investor API of the demo tier (demo-client.ts): one      *)
(* world per persona, built when it is first asked for, deleted by the     *)
(* presenter's reset, and moved forward only by the requests that tick it. *)
(*                                                                         *)
(* A world is a record list (what the account's history shows), an         *)
(* append-only event log (what the account's stream announces; the id of   *)
(* an event is its place in the log), the WORKING orders scheduled to fill *)
(* and, for the invited persona, the setup of a brokerage connection.      *)
(* Every request runs to its end before another starts, so a request is    *)
(* one action.  Prices, quantities, paging and the static fixtures are     *)
(* left out.  The applicant persona has no account: every account          *)
(* operation refuses it and changes nothing, so it is not among Personas.  *)
(***************************************************************************)
EXTENDS Naturals, Sequences, SequencesExt

CONSTANTS
    Personas,       \* the personas examined, among "invited" and "admitted"
    MaxTime,        \* bound: the clock runs over the 4 s buckets 1 .. MaxTime
    Resettable,     \* the personas whose world the presenter resets
    MaxEdits,       \* bound: resets and preference changes in all
    Legs,           \* executable legs of a recommendation (the code keeps at most 6)
    PatchLegs,      \* executable legs a changed preference may leave
    FirstFill, NextFill,        \* delay of the first WORKING order, and between orders
    ValidateAfter, SyncAfter    \* delays of the invited persona's setup

ASSUME DemoAssumption ==
    /\ Personas \subseteq {"invited", "admitted"} /\ Resettable \subseteq Personas
    /\ {MaxTime, Legs, FirstFill, NextFill, ValidateAfter, SyncAfter} \subseteq Nat \ {0}
    /\ MaxEdits \in Nat /\ PatchLegs \subseteq 0..Legs
    /\ ValidateAfter <= SyncAfter

VARIABLES
    persona,        \* whose session this is
    clock,          \* Date.now(), counted in the buckets of TICK_MS
    worlds,         \* every world built for the persona, the deleted ones included
    live            \* the place in worlds of the one in the map, 0 when there is none

demoVars == <<persona, clock, worlds, live>>

-----------------------------------------------------------------------------
(* Records, events and the chain of one recommendation. *)

None == 0

Record(type, status, related) == [type |-> type, status |-> status, related |-> related]

\* Append the event that announces record r of w, which is number n.
AppendEvent(w, r, n, version) ==
    [w EXCEPT !.log = Append(@, [type    |-> r.type,   record  |-> n,
                                 status  |-> r.status, version |-> version])]

\* Append record r to w and announce it.
Announce(w, r, version) ==
    AppendEvent([w EXCEPT !.records = Append(@, r)], r, Len(w.records) + 1, version)

\* The orders of a chain, the first being number `start`, each with the fill that
\* follows it; of a working chain the first two are left WORKING and have none.
OrdersAndFills(start, plan, working, legs) ==
    LET open == IF working THEN Min({2, legs}) ELSE 0
    IN  [i \in 1..open |-> Record("order", "WORKING", plan)]
        \o [i \in 1..2 * (legs - open) |->
               IF i % 2 = 1 THEN Record("order", "FILLED", plan)
                            ELSE Record("fill", "SETTLED", start + open + i - 2)]

\* The records of one recommendation, the first being number `start` of the list:
\* intent, risk, plan, orders with their fills, reconciliation.  A denied one stops
\* at the risk decision.
ExecutionChain(start, status, deny, working, legs) ==
    LET advice == <<Record("recommendation", status, None),
                    Record("account_intent", "CREATED", start)>>
    IN  IF deny
        THEN advice \o <<Record("risk_decision", "DENIED", start + 1)>>
        ELSE advice \o <<Record("risk_decision", "APPROVED", start + 1),
                         Record("execution_plan", "PUBLISHED", start + 2)>>
             \o OrdersAndFills(start + 4, start + 3, working, legs)
             \o <<Record("reconciliation", "CLEAR", None)>>

-----------------------------------------------------------------------------
(* Building a world. *)

\* The chains of the three recommendations the admitted account starts with.
SeedAdvice == <<[status |-> "BLOCKED", day |-> 16], [status |-> "SUPERSEDED", day |-> 40],
                [status |-> "CURRENT", day |-> 58]>>

\* The history of the admitted account: its records, and the day each is dated.  First
\* what set the account up, then its valuations.
SetupHistory ==
    LET record(type, status) == Record(type, status, None)
    IN  [records |-> <<record("consent_receipt", "ACTIVE"),
                       record("compliance_profile_attestation", "ACCEPTED"),
                       record("brokerage_connection", "CONNECTED"),
                       record("brokerage_sync", "COMPLETED"),
                       record("preference", "APPLIED"),
                       record("allocation", "ACTIVE"),
                       record("action_receipt", "APPLIED"),
                       record("trading_control", "NORMAL")>>,
         days    |-> <<0, 0, 1, 1, 2, 2, 2, 3>>]

ValuedHistory ==
    [records |-> SetupHistory.records \o [i \in 1..5 |-> Record("valuation", "READY", None)],
     days    |-> SetupHistory.days \o [i \in 1..5 |-> 10 * i]]

\* History h, then the chain of recommendation a.
Advised(h, a) ==
    LET steps == ExecutionChain(Len(h.records) + 1, a.status, a.status = "BLOCKED",
                                a.status = "CURRENT", Legs)
    IN  [records |-> h.records \o steps, days |-> h.days \o [i \in DOMAIN steps |-> a.day]]

AdvisedHistory ==
    Advised(Advised(Advised(ValuedHistory, SeedAdvice[1]), SeedAdvice[2]), SeedAdvice[3])

SeedHistory ==
    [records |-> AdvisedHistory.records \o <<Record("brokerage_sync", "COMPLETED", None)>>,
     days    |-> AdvisedHistory.days \o <<59>>]

SeedRecords == SeedHistory.records

\* Where record n of the seed comes in its log: by date, of one day as listed.
SeedPlace(n) ==
    LET day == SeedHistory.days
    IN  Cardinality({m \in DOMAIN day : day[m] < day[n] \/ (day[m] = day[n] /\ m <= n)})

\* The log of a new admitted world: one event for each record, by date.
SeedLog ==
    LET at(i) == CHOOSE n \in DOMAIN SeedRecords : SeedPlace(n) = i
        event(n) == [type    |-> SeedRecords[n].type,   record  |-> n,
                     status  |-> SeedRecords[n].status, version |-> 1]
    IN  [i \in 1..Len(SeedRecords) |-> event(at(i))]

\* How many of the records ns come before record n.
Before(n, ns) == Cardinality({m \in ns : m < n})

\* The k-th of them.
Nth(k, ns) == CHOOSE n \in ns : Before(n, ns) = k - 1

\* The WORKING orders of the seeded history, each with the time it is to fill: a set,
\* since the code keeps them in the order of the records.
ScheduleWorkingFills(records, now) ==
    LET working == {n \in DOMAIN records :
                       records[n].type = "order" /\ records[n].status = "WORKING"}
    IN  {[order |-> n, at |-> now + FirstFill + Before(n, working) * NextFill] :
            n \in working}

NoSetup == [status |-> "NONE"]

\* The invited persona starts with an account and nothing in it.
BuildWorld(p, now) ==
    LET empty == [records |-> <<>>, log |-> <<>>, pending |-> {}, bucket |-> None,
                  setup |-> NoSetup, advice |-> <<>>, preferences |-> 1, receipts |-> {}]
    IN  IF p # "admitted"
        THEN empty
        ELSE [empty EXCEPT !.advice  = [i \in DOMAIN SeedAdvice |-> SeedAdvice[i].status],
                           !.records = SeedRecords,
                           !.pending = ScheduleWorkingFills(SeedRecords, now),
                           !.log     = SeedLog]

-----------------------------------------------------------------------------
(* The clock of a world: what a tick does. *)

\* Mutant: the order fills without an event of its own.
FillQuietly(w, n) ==
    LET filled  == [w EXCEPT !.records[n].status = "FILLED"]
        settled == Announce(filled, Record("fill", "SETTLED", n), 1)
        left    == [settled EXCEPT !.pending = {f \in @ : f.order # n}]
    IN  IF w.records[n].status # "WORKING" THEN w
        ELSE IF left.pending # {} THEN left
        ELSE Announce(left, Record("reconciliation", "CLEAR", None), 1)

\* A scheduled order fills, unless it has: the order, its fill, and the reconciliation once no
\* scheduled order is left.
Fill(w, n) ==
    LET order   == [w.records[n] EXCEPT !.status = "FILLED"]
        filled  == AppendEvent([w EXCEPT !.records[n] = order], order, n, 2)
        settled == Announce(filled, Record("fill", "SETTLED", n), 1)
        left    == [settled EXCEPT !.pending = {f \in @ : f.order # n}]
    IN  IF w.records[n].status # "WORKING" THEN w
        ELSE IF left.pending # {} THEN left
        ELSE Announce(left, Record("reconciliation", "CLEAR", None), 1)

DueOrders(w) == {f.order : f \in {g \in w.pending : g.at <= clock}}

\* The orders that are due fill one after the other, as they are recorded.
FillDue(w) ==
    LET due == DueOrders(w)
        after[k \in 0..Cardinality(due)] == IF k = 0 THEN w ELSE Fill(after[k - 1], Nth(k, due))
    IN  after[Cardinality(due)]

\* One valuation event for each bucket; its record is numbered but never kept.
Heartbeat(w) ==
    IF w.bucket = clock THEN w
    ELSE AppendEvent([w EXCEPT !.bucket = clock],
                     Record("valuation", "READY", None), Len(w.records) + 1, 1)

TickAdmitted(w) == Heartbeat(FillDue(w))

\* The credentials of the invited persona's connection turn out valid.
Validate(w) ==
    IF w.setup.status = "PENDING_VALIDATION" /\ clock >= w.setup.validateAt
    THEN LET version == w.setup.version + 1
         IN  Announce([w EXCEPT !.setup.status = "CONNECTED", !.setup.version = version],
                      Record("brokerage_connection", "CONNECTED", None), version)
    ELSE w

\* Mutant: every sync is taken for the first.
EverySync(w) ==
    IF w.setup.status = "CONNECTED" /\ clock >= w.setup.syncAt
    THEN LET version == w.setup.version + 1
             synced  == Announce([w EXCEPT !.setup.synced = TRUE, !.setup.version = version],
                                 Record("brokerage_sync", "COMPLETE", None), version)
         IN  Announce([synced EXCEPT !.advice = Append(@, "CURRENT")],
                      Record("recommendation", "CURRENT", None), 1)
    ELSE w

\* The first sync finds the holdings, values them and computes the first advice.
FirstSync(w) ==
    IF w.setup.status = "CONNECTED" /\ ~w.setup.synced /\ clock >= w.setup.syncAt
    THEN LET version == w.setup.version + 1
             synced  == Announce([w EXCEPT !.setup.synced = TRUE, !.setup.version = version],
                                 Record("brokerage_sync", "COMPLETE", None), version)
             valued  == Announce(synced, Record("valuation", "READY", None), 1)
         IN  Announce([valued EXCEPT !.advice = Append(@, "CURRENT")],
                      Record("recommendation", "CURRENT", None), 1)
    ELSE w

TickSetup(w) == IF w.setup = NoSetup THEN w ELSE FirstSync(Validate(w))

Tick(w) == IF persona = "invited" THEN TickSetup(w) ELSE TickAdmitted(w)

-----------------------------------------------------------------------------
(* The requests.  Each starts by finding the persona's world, or building it. *)

\* How often the presenter and the investor have reset or changed a world.
Edits == FoldLeft(LAMBDA n, w : n + w.preferences, 0, worlds)
         - (IF live = 0 THEN 0 ELSE 1)

WorldFor == IF live = 0 THEN BuildWorld(persona, clock) ELSE worlds[live]

\* The request leaves the persona's world as w.
Leave(w) ==
    IF live = 0
    THEN worlds' = Append(worlds, w) /\ live' = Len(worlds) + 1
    ELSE worlds' = [worlds EXCEPT ![live] = w] /\ UNCHANGED live

\* A read that ticks: onboarding, connections, valuation, positions.
ReadLive ==
    /\ Leave(Tick(WorldFor))
    /\ UNCHANGED <<persona, clock>>

\* A read that only looks, or a request that is refused.
ReadStill ==
    /\ Leave(WorldFor)
    /\ UNCHANGED <<persona, clock>>

\* createBrokerageConnection: refused for the admitted persona, and when one exists.
CreateConnection ==
    LET setup == [status     |-> "PENDING_VALIDATION",     version |-> 1,
                  validateAt |-> clock + ValidateAfter,
                  syncAt     |-> clock + SyncAfter,        synced  |-> FALSE]
    IN  /\ persona = "invited"
        /\ WorldFor.setup = NoSetup
        /\ Leave(Announce([WorldFor EXCEPT !.setup = setup],
                          Record("brokerage_connection", "PENDING_VALIDATION", None), 1))
        /\ UNCHANGED <<persona, clock>>

\* syncBrokerageConnection: refused until the connection is validated.
SyncConnection ==
    /\ persona = "invited"
    /\ WorldFor.setup.status = "CONNECTED"
    /\ Leave(Tick([WorldFor EXCEPT !.setup.syncAt = Min({@, clock})]))
    /\ UNCHANGED <<persona, clock>>

\* updateAccountPreferences with the version the page saw; a stale one is refused.
\* The chain of the new advice is recorded and not announced, and its WORKING
\* orders are not scheduled.
ApplyPreferencePatch(seen, legs) ==
    LET w       == WorldFor
        version == w.preferences + 1
        retired == [i \in DOMAIN w.advice |->
                        IF w.advice[i] = "CURRENT" THEN "SUPERSEDED" ELSE w.advice[i]]
        applied == Append(w.records, Record("preference", "APPLIED", None))
    IN  /\ seen = w.preferences
        /\ Edits < MaxEdits
        /\ Leave([w EXCEPT
                     !.preferences = version,
                     !.advice      = Append(retired, "CURRENT"),
                     !.records     = applied \o ExecutionChain(Len(applied) + 1, "CURRENT",
                                                               FALSE, TRUE, legs),
                     !.receipts    = @ \cup {version}])
        /\ UNCHANGED <<persona, clock>>

\* The presenter makes the next `fills` scheduled fills, or the setup, due now.
AdvanceWorld(fills) ==
    LET w     == WorldFor
        left  == {f.order : f \in w.pending}
        first == {f \in w.pending : Before(f.order, left) < fills}
        due   == {IF f \in first THEN [f EXCEPT !.at = clock] ELSE f : f \in w.pending}
        ready == [w EXCEPT !.setup.validateAt = Min({@, clock}),
                           !.setup.syncAt     = Min({@, clock})]
    IN  /\ IF persona = "invited"
           THEN Leave(IF w.setup = NoSetup THEN w ELSE Tick(ready))
           ELSE Leave(Tick([w EXCEPT !.pending = due]))
        /\ UNCHANGED <<persona, clock>>

\* The presenter forgets the world; the next request builds another.
ResetWorld ==
    /\ live # 0
    /\ persona \in Resettable
    /\ Edits < MaxEdits
    /\ live' = 0
    /\ UNCHANGED <<persona, clock, worlds>>

TimePasses ==
    /\ clock < MaxTime
    /\ clock' = clock + 1
    /\ UNCHANGED <<persona, worlds, live>>

DemoInit ==
    /\ persona \in Personas
    /\ clock = 1
    /\ worlds = <<>>
    /\ live = 0

Request ==
    \/ ReadLive
    \/ ReadStill
    \/ CreateConnection
    \/ SyncConnection
    \/ \E seen \in 1..MaxEdits + 1, legs \in PatchLegs : ApplyPreferencePatch(seen, legs)
    \/ \E fills \in 1..2 : AdvanceWorld(fills)
    \/ ResetWorld
=============================================================================
