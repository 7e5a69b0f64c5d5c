---------------------------- MODULE AccountStream ----------------------------
(***************************************************************************)
(* The account event stream, from the demo world to the page: the source   *)
(* (subscribeDemoEvents), the route that forwards it                       *)
(* (GET /api/v1/investor/events), the browser's EventSource with           *)
(* Last-Event-ID, and the page that takes each event as a signal to fetch  *)
(* the projections it names again (useAccountEvents).                      *)
(*                                                                         *)
(* A frame is on the wire until the browser has it; what is on the wire    *)
(* when the connection breaks is lost.  A projection is what a fetch       *)
(* returned: the world it read and how much of that world's log had        *)
(* happened then.                                                          *)
(***************************************************************************)
EXTENDS DemoWorld

CONSTANTS
    Projections,    \* the projections pages show: "portfolio", "activity", "recommendations"
    Replay,         \* events replayed to a stream that names none (25 in the code)
    MaxDrops        \* bound: connections that break with frames on the wire

ASSUME StreamAssumption ==
    /\ Projections \subseteq {"portfolio", "activity", "recommendations"}
    /\ Replay \in Nat
    /\ MaxDrops \in Nat

VARIABLES
    stream,         \* the source's loop: the world it holds and the next event
    wire,           \* ids of the frames sent and not yet received
    connection,     \* what the page shows: "connecting", "live" or "reconnecting"
    gaveUp,         \* the EventSource was answered with an error and stopped
    lastId,         \* the EventSource's last event id, 0 for none
    wanted,         \* the projections to fetch
    answer,         \* per projection: the answer under way
    cache,          \* per projection: what the page shows
    drops,          \* connections broken so far
    received,       \* observed: the last event received, and of which world
    behind          \* observed: projections no fetch is left for that would bring what
                    \* the page was not told of, or what it failed to fetch

streamVars == <<stream, wire, connection, gaveUp, lastId>>
pageVars   == <<wanted, answer, cache>>
observed   == <<drops, received, behind>>
vars       == <<demoVars, streamVars, pageVars, observed>>

NoStream == [world |-> None, cursor |-> 0]
Nothing  == [world |-> None, seen |-> 0]

\* The projections an event of each type makes stale; the other types (connection,
\* sync, ...) are only shown.
QueryKeysForEvent(type) ==
    Projections \cap
    CASE type = "valuation" -> {"portfolio"}
      [] type \in {"order", "fill", "reconciliation", "preference"} -> {"activity", "portfolio"}
      [] type = "recommendation" -> {"recommendations", "activity"}
      [] type \in {"account_intent", "risk_decision", "execution_plan"} -> {"activity"}
      [] OTHER -> {}

-----------------------------------------------------------------------------
(* The stream. *)

\* Mutant: resumes at the event the browser names instead of after it.
ResumeAt(log, last) ==
    IF last # None
    THEN IF last \in DOMAIN log THEN last ELSE 1
    ELSE Max({0, Len(log) - Replay}) + 1

\* Where the source starts: after the event the browser names, at the beginning when
\* the log does not know that id, near the end when the browser names none.
StartCursor(log, last) ==
    IF last # None
    THEN IF last \in DOMAIN log THEN last + 1 ELSE 1
    ELSE Max({0, Len(log) - Replay}) + 1

\* A stream that starts at cursor, in a world the page has heard nothing of, leaves out
\* events about k that the page neither shows nor is about to fetch.
Misses(k, log, cursor) ==
    LET shown == IF answer[k] # Nothing THEN answer[k] ELSE cache[k]
    IN  /\ received.world # live'
        /\ k \notin wanted
        /\ \E i \in 1..cursor - 1 : /\ k \in QueryKeysForEvent(log[i].type)
                                   /\ ~(shown.world = live' /\ shown.seen >= i)

\* The EventSource connects, at first or again: session, account scope, subscription.
Open ==
    /\ connection # "live"
    /\ ~gaveUp
    /\ connection' = "live"
    /\ wire' = <<>>
    /\ Leave(WorldFor)
    /\ stream' = [world |-> live', cursor |-> StartCursor(WorldFor.log, lastId)]
    /\ behind' = behind \cup {k \in Projections : Misses(k, WorldFor.log, stream'.cursor)}
    /\ UNCHANGED <<persona, clock, gaveUp, lastId, pageVars, drops, received>>

\* The route answers 401 or 503: an EventSource does not try again after an error
\* status, while the page goes on showing that it reconnects.
Refuse ==
    /\ connection # "live"
    /\ ~gaveUp
    /\ gaveUp' = TRUE
    /\ connection' = "reconnecting"
    /\ UNCHANGED <<demoVars, stream, wire, lastId, pageVars, observed>>

\* One turn of the source's loop: tick the world it holds, send what is new.  That
\* world may have been deleted since.
Poll ==
    LET w == Tick(worlds[stream.world])
    IN  /\ stream # NoStream
        /\ UNCHANGED <<persona, clock, live, connection, gaveUp, lastId, pageVars, observed>>
        /\ stream' = [stream EXCEPT !.cursor = Len(w.log) + 1]
        /\ wire' = wire \o [i \in 1..(Len(w.log) + 1) - stream.cursor |-> stream.cursor + i - 1]
        /\ worlds' = [worlds EXCEPT ![stream.world] = w]

\* Mutant: a fetch under way is taken to answer the signal.
ReceiveDuringFetch ==
    LET id   == Head(wire)
        type == worlds[stream.world].log[id].type
    IN  /\ wire # <<>>
        /\ wire' = Tail(wire)
        /\ lastId' = id
        /\ received' = [world |-> stream.world, id |-> id]
        /\ wanted' = wanted \cup {k \in QueryKeysForEvent(type) : answer[k] = Nothing}
        /\ UNCHANGED <<demoVars, stream, connection, gaveUp, answer, cache, drops, behind>>

\* The page receives a frame: its id is remembered, the projections it names are
\* fetched again, a fetch under way being abandoned.
Receive ==
    LET id   == Head(wire)
        type == worlds[stream.world].log[id].type
    IN  /\ wire # <<>>
        /\ wire' = Tail(wire)
        /\ lastId' = id
        /\ received' = [world |-> stream.world, id |-> id]
        /\ wanted' = wanted \cup QueryKeysForEvent(type)
        /\ answer' = [k \in Projections |->
                         IF k \in QueryKeysForEvent(type) THEN Nothing ELSE answer[k]]
        /\ UNCHANGED <<demoVars, stream, connection, gaveUp, cache, drops, behind>>

Disconnect ==
    /\ stream # NoStream
    /\ stream' = NoStream
    /\ wire' = <<>>
    /\ connection' = "reconnecting"
    /\ UNCHANGED <<demoVars, gaveUp, lastId, pageVars, received, behind>>

\* The connection breaks and takes the frames on the wire with it.
Drop == Disconnect /\ drops < MaxDrops /\ drops' = drops + 1

\* The route's maxDuration ends a stream that has had the time to send everything.
Expire ==
    /\ wire = <<>>
    /\ stream # NoStream => stream.cursor > Len(worlds[stream.world].log)
    /\ Disconnect
    /\ UNCHANGED drops

-----------------------------------------------------------------------------
(* The page. *)

\* The portfolio read ticks the world; activity and recommendations only look.
FetchRead(k) ==
    /\ k \in wanted
    /\ wanted' = wanted \ {k}
    /\ Leave(IF k = "portfolio" THEN Tick(WorldFor) ELSE WorldFor)
    /\ answer' = [answer EXCEPT ![k] = [world |-> live', seen |-> Len(worlds'[live'].log)]]
    /\ behind' = behind \ {k}
    /\ UNCHANGED <<persona, clock, streamVars, cache, drops, received>>

FetchAnswer(k) ==
    /\ answer[k] # Nothing
    /\ cache' = [cache EXCEPT ![k] = answer[k]]
    /\ answer' = [answer EXCEPT ![k] = Nothing]
    /\ UNCHANGED <<demoVars, streamVars, wanted, observed>>

\* Neither the fetch nor its retries are answered well: the page shows what it had, and
\* only the next event about the projection has it fetched again.
FetchFails(k) ==
    /\ k \in wanted \/ answer[k] # Nothing
    /\ wanted' = wanted \ {k}
    /\ answer' = [answer EXCEPT ![k] = Nothing]
    /\ behind' = behind \cup {k}
    /\ UNCHANGED <<demoVars, streamVars, cache, drops, received>>

-----------------------------------------------------------------------------
Init ==
    /\ DemoInit
    /\ stream = NoStream /\ wire = <<>> /\ connection = "connecting"
    /\ gaveUp = FALSE /\ lastId = None
    /\ wanted = Projections
    /\ answer = [k \in Projections |-> Nothing]
    /\ cache  = [k \in Projections |-> Nothing]
    /\ drops = 0 /\ received = [world |-> None, id |-> 0] /\ behind = {}

World == (Request \/ TimePasses) /\ UNCHANGED <<streamVars, pageVars, observed>>

Stream == Receive \/ Expire \/ Poll \/ Open

Page == \E k \in Projections : FetchAnswer(k) \/ FetchRead(k)

Failure == Refuse \/ Drop \/ \E k \in Projections : FetchFails(k)

Next == World \/ Stream \/ Page \/ Failure

\* The stream, driven by its timers and the network, goes on, and so do the page's
\* fetches; people, the clock and failures need not.
Fairness == WF_streamVars(Stream) /\ WF_pageVars(Page)

Spec == Init /\ [][Next]_vars /\ Fairness

-----------------------------------------------------------------------------
(* Properties. *)

\* Within one world the page receives every event after the first it received, in
\* order and once, whatever connections broke in between: what is on the wire is
\* exactly what lies between the last event received and the source's cursor
\* (Last-Event-ID, demo-client.ts:690-700), whoever else ticks the world.
NothingSkipped ==
    stream # NoStream /\ received.world = stream.world
        => wire = [i \in 1..stream.cursor - (received.id + 1) |-> received.id + i]

\* What a page shows of a projection is at least as new as every event about it.
Fresh(k) ==
    \A i \in DOMAIN worlds[live].log :
        k \in QueryKeysForEvent(worlds[live].log[i].type)
            => cache[k].world = live /\ cache[k].seen >= i

\* Once nothing more happens, the page comes to show every change the world announced
\* (useAccountEvents.ts: each event invalidates the projection it names), unless its
\* EventSource was answered with an error; and but for a projection whose last fetch
\* failed, or whose last events the stream left out when it was opened: those before a
\* replay that is too short, or before an id that the deleted world gave.
SignalsReachPage ==
    <>[](gaveUp \/ live = None \/ \A k \in Projections \ behind : Fresh(k))

\* The log tells the records: in a world without a preference change every record
\* was announced, and its last event has the status the record list shows.
LogTellsRecords ==
    \A g \in DOMAIN worlds : worlds[g].preferences = 1 =>
        \A n \in DOMAIN worlds[g].records :
            LET log   == worlds[g].log
                about == {i \in DOMAIN log : log[i].record = n}
                last  == log[Max(about)]
            IN  /\ about # {}
                /\ last.type = worlds[g].records[n].type
                /\ last.status = worlds[g].records[n].status

\* The setup of the invited persona, as its stream tells it.
SetupSteps ==
    <<<<"brokerage_connection", "PENDING_VALIDATION", 1>>,
      <<"brokerage_connection", "CONNECTED", 2>>, <<"brokerage_sync", "COMPLETE", 3>>,
      <<"valuation", "READY", 1>>, <<"recommendation", "CURRENT", 1>>>>

\* Whoever ticks the world, the steps come once each and in order: the setup, and of
\* the scheduled orders each fill right after its order, the reconciliation last.
StepsInOrder ==
    \A g \in DOMAIN worlds :
        LET log   == worlds[g].log
            fills == {i \in DOMAIN log : log[i].type = "order" /\ log[i].version = 2}
        IN  IF persona = "invited"
            THEN IsPrefix([i \in DOMAIN log |->
                              <<log[i].type, log[i].status, log[i].version>>], SetupSteps)
            ELSE /\ \A i, j \in fills : log[i].record = log[j].record => i = j
                 /\ \A i \in fills :
                        /\ log[i + 1].type = "fill"
                        /\ worlds[g].records[log[i + 1].record].related = log[i].record
                 /\ \A i \in DOMAIN log :
                        i > Len(SeedLog) /\ log[i].type = "reconciliation"
                            => worlds[g].pending = {} /\ \A j \in fills : j < i

-----------------------------------------------------------------------------
(* Why they hold: the inductive invariant. *)

Setups ==
    {NoSetup} \cup [status     : {"PENDING_VALIDATION", "CONNECTED"}, version : Nat,
                    validateAt : Nat, syncAt : Nat, synced : BOOLEAN]

RecordTypes ==
    {"consent_receipt", "compliance_profile_attestation", "brokerage_connection",
     "brokerage_sync", "preference", "allocation", "action_receipt", "trading_control",
     "valuation", "recommendation", "account_intent", "risk_decision", "execution_plan",
     "order", "fill", "reconciliation"}

Statuses ==
    {"ACTIVE", "ACCEPTED", "PENDING_VALIDATION", "CONNECTED", "COMPLETE", "COMPLETED",
     "APPLIED", "NORMAL", "READY", "BLOCKED", "SUPERSEDED", "CURRENT", "CREATED",
     "DENIED", "APPROVED", "PUBLISHED", "WORKING", "FILLED", "SETTLED", "CLEAR"}

Records == [type : RecordTypes, status : Statuses, related : Nat]
Events  == [type : RecordTypes, record : Nat, status : Statuses, version : Nat]

WorldType ==
    [records : Seq(Records), log : Seq(Events), pending : SUBSET [order : Nat, at : Nat],
     bucket : Nat, setup : Setups, advice : Seq(Statuses), preferences : Nat \ {0},
     receipts : SUBSET Nat]

\* The last event about record n of w shows the record as it is.
Told(w, n) ==
    \E i \in DOMAIN w.log :
        /\ w.log[i].record = n
        /\ \A j \in DOMAIN w.log : w.log[j].record = n => j <= i
        /\ w.log[i].type = w.records[n].type
        /\ w.log[i].status = w.records[n].status

AllTold(w) == \A n \in DOMAIN w.records : Told(w, n)

\* How far the setup has come, in steps announced.
SetupReached(setup) ==
    IF setup = NoSetup THEN 0
    ELSE IF setup.status = "PENDING_VALIDATION" THEN 1
    ELSE IF setup.synced THEN 5 ELSE 2

\* An invited world has announced the steps its setup has reached.
InvitedInv(w) ==
    /\ Len(w.log) = SetupReached(w.setup)
    /\ \A i \in DOMAIN w.log :
           <<w.log[i].type, w.log[i].status, w.log[i].version>> = SetupSteps[i]
    /\ w.setup # NoSetup => /\ w.setup.version = Min({Len(w.log), 3})
                            /\ w.setup.status = "PENDING_VALIDATION" => ~w.setup.synced

FillEvents(log) == {i \in DOMAIN log : log[i].type = "order" /\ log[i].version = 2}

\* A scheduled fill is of an order.
Scheduled(w) ==
    \A f \in w.pending : /\ f.order \in DOMAIN w.records
                         /\ w.records[f.order].type = "order"

\* An order with an event of its own that it filled is filled, and its fill's is next.
FillsTold(w) ==
    \A i \in FillEvents(w.log) :
        /\ w.log[i].record \in DOMAIN w.records
        /\ w.records[w.log[i].record].status = "FILLED"
        /\ i + 1 \in DOMAIN w.log
        /\ w.log[i + 1].type = "fill"
        /\ w.log[i + 1].record \in DOMAIN w.records
        /\ w.records[w.log[i + 1].record].related = w.log[i].record

FilledOnce(w) ==
    \A i, j \in FillEvents(w.log) : w.log[i].record = w.log[j].record => i = j

\* After the reconciliation no order is left to fill.
ReconciledLast(w) ==
    \A i \in DOMAIN w.log :
        i > Len(SeedLog) /\ w.log[i].type = "reconciliation"
            => w.pending = {} /\ \A j \in FillEvents(w.log) : j < i

AdmittedInv(w) ==
    /\ w.setup = NoSetup /\ Len(w.log) >= Len(SeedLog)
    /\ Scheduled(w) /\ FillsTold(w) /\ FilledOnce(w) /\ ReconciledLast(w)

WorldInv(w) ==
    /\ w \in WorldType
    /\ IF persona = "invited" THEN InvitedInv(w) ELSE AdmittedInv(w)
    /\ w.preferences = 1 => AllTold(w)

DemoInv ==
    /\ persona \in Personas /\ clock \in Nat
    /\ worlds \in Seq(WorldType) /\ live \in 0..Len(worlds)
    /\ \A g \in DOMAIN worlds : WorldInv(worlds[g])

\* The wire holds the last frames before the cursor; the page's last id is an event of
\* the world it last heard of, and of the stream's own world the one before the wire.
StreamInv ==
    /\ wire \in Seq(Nat)
    /\ stream = NoStream => wire = <<>>
    /\ stream # NoStream =>
           /\ stream \in [world : DOMAIN worlds, cursor : Nat]
           /\ stream.cursor <= Len(worlds[stream.world].log) + 1
           /\ Len(wire) < stream.cursor
           /\ wire = [i \in 1..Len(wire) |-> stream.cursor - 1 - Len(wire) + i]
           /\ received.world = stream.world => stream.cursor = received.id + 1 + Len(wire)
    /\ received \in [world : 0..Len(worlds), id : Nat]
    /\ lastId = received.id
    /\ received.world # None => received.id \in DOMAIN worlds[received.world].log

IInv == DemoInv /\ StreamInv
=============================================================================
