------------------------- MODULE StreamAndLockProofs -------------------------
(***************************************************************************)
(* What is proved of the two parts in which actors meet over shared state   *)
(* with nothing between them: the demo world and its event stream, which    *)
(* every read and every open stream ticks (AccountStream, DemoWorld), and   *)
(* the lock of a store's key (StoreLock).  The parts share no name.         *)
(*                                                                         *)
(* The stream.  The invariant IInv is kept by every action, which reduces   *)
(* to WorldInv being kept by every way a world changes:                     *)
(*   - BuildWorld: each seeded record is announced once, at the place that  *)
(*     SeedPlace numbers (PlacesOneToOne), so each is Told;                 *)
(*   - Announce: the record added, or changed, is Told by the last event;   *)
(*   - the tick of an invited world: the step announced is the next one     *)
(*     that SetupReached counts;                                            *)
(*   - the tick of an admitted world, which fills every due order in turn.  *)
(*     The fills are a function on 0 .. the number of due orders, and what  *)
(*     is kept by each is kept by all (FillsInTurn), an induction made of   *)
(*     the well-foundedness of the numbers (CountingUp), since a tick has   *)
(*     no bound on how many orders are due;                                 *)
(*   - a preference change, after which only the log's own order is left.   *)
(* Along with it every step is shown to only extend each world's log        *)
(* (Grown), which is what keeps the wire and the page's last id right.      *)
(*                                                                         *)
(* The lock.  A live holder's lock file is there, not old, and what the     *)
(* holder read is what is stored, until some caller unlinks a fresh lock    *)
(* file for the old one it had found; one process alone never does.         *)
(***************************************************************************)
EXTENDS AccountStream, StoreLock, SequenceTheorems, FiniteSetTheorems,
        WellFoundedInduction, TLAPS

(* A one-to-one numbering of a finite set by 1 .. its size uses every number. *)
LEMMA NumberingOnto ==
  ASSUME NEW S, IsFiniteSet(S), NEW f \in [S -> 1..Cardinality(S)],
         \A x, y \in S : f[x] = f[y] => x = y,
         NEW k \in 1..Cardinality(S)
  PROVE  \E x \in S : f[x] = k
<1> DEFINE T == 1..Cardinality(S)
<1>1. Cardinality(S) \in Nat
  BY FS_CardinalityType
<1>2. IsFiniteSet(T) /\ Cardinality(T) = Cardinality(S)
  BY <1>1, FS_Interval
<1>3. f \in Injection(S, T)
  BY DEF Injection, IsInjective
<1>4. f \in Surjection(S, T)
  <2> HIDE DEF T
  <2> QED
    BY <1>2, <1>3, FS_Injection
<1> QED
  BY <1>4 DEF Surjection

(* A set of numbers that a counter never leaves in the wrong: what holds at  *)
(* 0 and is kept by every step holds up to N.                                *)
LEMMA CountingUp ==
  ASSUME NEW N \in Nat, NEW T \in SUBSET (0..N), 0 \in T,
         \A k \in 0..N : k # 0 /\ k - 1 \in T => k \in T
  PROVE  N \in T
<1> DEFINE B == (0..N) \ T
<1>1. SUFFICES ASSUME B # {} PROVE FALSE
  OBVIOUS
<1>2. B \subseteq Nat
  OBVIOUS
<1>3. PICK k \in B : \A y \in B : ~(<<y, k>> \in OpToRel(<, Nat))
  <2> HIDE DEF B
  <2> QED
    BY <1>1, <1>2, NatLessThanWellFounded, WFMin, Zenon
<1>4. \A y \in B : ~(y < k)
  BY <1>2, <1>3 DEF OpToRel
<1>5. k # 0 /\ k - 1 \in 0..N
  OBVIOUS
<1>6. k - 1 \in T
  BY <1>4, <1>5
<1> QED
  BY <1>5, <1>6

(* Of a finite set of numbers there is a k-th for every k up to its size.    *)
LEMMA NthExists ==
  ASSUME NEW ns \in SUBSET Nat, IsFiniteSet(ns), NEW k \in 1..Cardinality(ns)
  PROVE  Nth(k, ns) \in ns
<1> DEFINE below(n) == {m \in ns : m < n}
           place == [n \in ns |-> Before(n, ns) + 1]
<1>1. ASSUME NEW n \in ns PROVE Before(n, ns) \in 0..Cardinality(ns) - 1
  <2>1. below(n) \in SUBSET ns /\ below(n) # ns
    OBVIOUS
  <2>2. /\ IsFiniteSet(below(n)) /\ Cardinality(below(n)) <= Cardinality(ns)
        /\ Cardinality(ns) # Cardinality(below(n))
    BY <2>1, FS_Subset
  <2>3. Cardinality(below(n)) \in Nat /\ Cardinality(ns) \in Nat
    BY <2>2, FS_CardinalityType
  <2> QED
    BY <2>2, <2>3 DEF Before
<1>2. ASSUME NEW m \in ns, NEW n \in ns, m < n PROVE Before(m, ns) < Before(n, ns)
  <2>1. below(m) \in SUBSET below(n) /\ m \in below(n) /\ m \notin below(m)
    <3>1. \A x \in ns : x < m => x < n
      BY <1>2
    <3>2. \A x \in below(m) : x \in below(n)
      BY <3>1
    <3>3. m \in below(n)
      BY <1>2
    <3>4. m \notin below(m)
      OBVIOUS
    <3> QED
      BY <3>2, <3>3, <3>4
  <2>2. IsFiniteSet(below(n))
    BY FS_Subset
  <2>3. /\ Cardinality(below(m)) <= Cardinality(below(n))
        /\ Cardinality(below(n)) # Cardinality(below(m))
    BY <2>1, <2>2, FS_Subset
  <2> QED
    BY <1>1, <2>3 DEF Before
<1>3. place \in [ns -> 1..Cardinality(ns)]
  BY <1>1, FS_CardinalityType
<1>4. \A m, n \in ns : place[m] = place[n] => m = n
  <2> SUFFICES ASSUME NEW m \in ns, NEW n \in ns, place[m] = place[n], m # n
               PROVE  FALSE
    OBVIOUS
  <2>1. Before(m, ns) = Before(n, ns)
    BY <1>1
  <2>2. m < n \/ n < m
    OBVIOUS
  <2> QED
    BY <1>1, <1>2, <2>1, <2>2
<1>5. PICK n \in ns : place[n] = k
  <2> HIDE DEF place
  <2> QED
    BY <1>3, <1>4, NumberingOnto
<1>6. Before(n, ns) = k - 1
  BY <1>1, <1>5
<1> QED
  BY <1>6 DEF Nth

(* A tick's fills, one by one.                                               *)
LEMMA FillsInTurn ==
  ASSUME NEW w, DueOrders(w) \subseteq Nat, IsFiniteSet(DueOrders(w)),
         NEW T, w \in T,
         \A v \in T, n \in DueOrders(w) : Fill(v, n) \in T
  PROVE  FillDue(w) \in T
<1> DEFINE N == Cardinality(DueOrders(w))
           nth(k) == Nth(k, DueOrders(w))
           Run(g, n) == g = [k \in 0..n |-> IF k = 0 THEN w ELSE Fill(g[k - 1], nth(k))]
           after[k \in 0..N] == IF k = 0 THEN w ELSE Fill(after[k - 1], nth(k))
<1>1. N \in Nat
  BY FS_CardinalityType
<1>2. \E g : Run(g, N)
  <2> DEFINE Built == {n \in 0..N : \E g : Run(g, n)}
  <2>1. 0 \in Built
    <3>1. Run([k \in 0..0 |-> w], 0)
      OBVIOUS
    <3>2. 0 \in 0..N
      BY <1>1
    <3> QED
      BY <3>1, <3>2, Zenon
  <2>2. ASSUME NEW k \in 0..N, k # 0, k - 1 \in Built PROVE k \in Built
    <3>1. PICK g : Run(g, k - 1)
      BY <2>2
    <3> DEFINE h == [i \in 0..k |-> IF i = k THEN Fill(g[k - 1], nth(k)) ELSE g[i]]
    <3>2. Run(h, k)
      BY <1>1, <2>2, <3>1
    <3> QED
      BY <3>2
  <2> HIDE DEF Built
  <2>3. Built \in SUBSET (0..N)
    BY DEF Built
  <2>4. N \in Built
    BY <1>1, <2>1, <2>2, <2>3, CountingUp
  <2> QED
    BY <2>4 DEF Built
<1>3. Run(after, N)
  BY <1>2
<1>4. FillDue(w) = after[N]
  BY DEF FillDue
<1> HIDE DEF after
<1> DEFINE In == {k \in 0..N : after[k] \in T}
<1>5. 0 \in In
  BY <1>1, <1>3
<1>6. ASSUME NEW k \in 0..N, k # 0, k - 1 \in In PROVE k \in In
  <2>1. nth(k) \in DueOrders(w)
    BY <1>1, <1>6, NthExists
  <2>2. after[k] = Fill(after[k - 1], nth(k))
    BY <1>1, <1>3, <1>6
  <2> QED
    BY <1>6, <2>1, <2>2
<1> HIDE DEF In
<1>7. In \in SUBSET (0..N)
  BY DEF In
<1>8. N \in In
  BY <1>1, <1>5, <1>6, <1>7, CountingUp
<1> QED
  BY <1>4, <1>8 DEF In

-----------------------------------------------------------------------------
(* The operators on worlds. *)

\* What log u has beyond log w comes after all of w.
Extends(u, w) ==
  /\ Len(w.log) <= Len(u.log)
  /\ \A i \in 1..Len(w.log) : u.log[i] = w.log[i]

\* All that announcing a record leaves alone.
SameRest(u, w) ==
  /\ u.pending = w.pending /\ u.bucket = w.bucket /\ u.setup = w.setup
  /\ u.advice = w.advice /\ u.preferences = w.preferences /\ u.receipts = w.receipts

Event(r, n, v) == [type |-> r.type, record |-> n, status |-> r.status, version |-> v]

LEMMA RecordType ==
  ASSUME NEW type \in RecordTypes, NEW status \in Statuses, NEW related \in Nat
  PROVE  /\ Record(type, status, related) \in Records
         /\ Record(type, status, related).type = type
         /\ Record(type, status, related).status = status
         /\ Record(type, status, related).related = related
BY DEF Record, Records

LEMMA EventType ==
  ASSUME NEW r \in Records, NEW n \in Nat, NEW v \in Nat
  PROVE  /\ Event(r, n, v) \in Events
         /\ Event(r, n, v).type = r.type /\ Event(r, n, v).status = r.status
         /\ Event(r, n, v).record = n /\ Event(r, n, v).version = v
BY DEF Event, Events, Records

\* t is s with e appended: a name of our own, which the provers take as a symbol
\* like another.
Longer(t, s, e) == t = Append(s, e)

(* What an append does to a sequence, element by element.                    *)
LEMMA AppendItems ==
  ASSUME NEW S, NEW s \in Seq(S), NEW e \in S, NEW t, Longer(t, s, e)
  PROVE  /\ t \in Seq(S)
         /\ Len(s) \in Nat /\ Len(t) = Len(s) + 1
         /\ DOMAIN s = 1..Len(s) /\ DOMAIN t = 1..Len(s) + 1
         /\ \A i \in 1..Len(s) : t[i] = s[i]
         /\ t[Len(s) + 1] = e
<1>1. t \in Seq(S) /\ Len(t) = Len(s) + 1
  BY AppendProperties DEF Longer
<1> QED
  BY <1>1, AppendProperties, LenProperties DEF Longer

EventAppended(u, w, e) ==
  /\ u \in WorldType /\ e \in Events
  /\ u.records = w.records /\ Longer(u.log, w.log, e)
  /\ SameRest(u, w) /\ Extends(u, w)

Announced(u, w, r, e) ==
  /\ u \in WorldType /\ e \in Events
  /\ Longer(u.records, w.records, r) /\ Longer(u.log, w.log, e)
  /\ SameRest(u, w) /\ Extends(u, w)

LEMMA AppendEventDoes ==
  ASSUME NEW w \in WorldType, NEW r \in Records, NEW n \in Nat, NEW v \in Nat,
         NEW u, u = AppendEvent(w, r, n, v), NEW e, e = Event(r, n, v)
  PROVE  EventAppended(u, w, e)
<1>1. e \in Events
  BY EventType
<1>2. w.log \in Seq(Events)
  BY DEF WorldType
<1>3. PICK log : Longer(log, w.log, e) /\ u = [w EXCEPT !.log = log]
  BY DEF AppendEvent, Event, Longer
<1>4. log \in Seq(Events)
  BY <1>1, <1>2, <1>3, AppendItems
<1>5. u \in WorldType /\ u.records = w.records /\ u.log = log
  BY <1>3, <1>4 DEF WorldType
<1>6. SameRest(u, w)
  BY <1>3 DEF WorldType, SameRest
<1>7. Extends(u, w)
  BY <1>1, <1>2, <1>3, <1>5, AppendItems DEF Extends
<1> QED
  BY <1>1, <1>3, <1>5, <1>6, <1>7 DEF EventAppended

LEMMA AnnounceDoes ==
  ASSUME NEW w \in WorldType, NEW r \in Records, NEW v \in Nat,
         NEW u, u = Announce(w, r, v), NEW k, k = Len(w.records) + 1
  PROVE  k \in Nat /\ Announced(u, w, r, Event(r, k, v))
<1>1. w.records \in Seq(Records) /\ k \in Nat
  BY LenProperties DEF WorldType
<1>2. PICK records, x :
          /\ Longer(records, w.records, r) /\ x = [w EXCEPT !.records = records]
          /\ u = AppendEvent(x, r, k, v)
  BY DEF Announce, Longer
<1>3. records \in Seq(Records)
  BY <1>1, <1>2, AppendItems
<1>4. x \in WorldType /\ x.records = records /\ x.log = w.log
  BY <1>2, <1>3 DEF WorldType
<1>5. SameRest(x, w)
  BY <1>2 DEF WorldType, SameRest
<1>6. EventAppended(u, x, Event(r, k, v))
  BY <1>1, <1>2, <1>4, AppendEventDoes
<1> QED
  BY <1>1, <1>2, <1>4, <1>5, <1>6 DEF EventAppended, Announced, SameRest, Extends

LEMMA ToldByAppend ==
  ASSUME NEW w \in WorldType, NEW u \in WorldType, NEW e \in Events,
         Longer(u.log, w.log, e), NEW n, e.record = n,
         u.records[n].type = e.type, u.records[n].status = e.status
  PROVE  Told(u, n)
<1>1. w.log \in Seq(Events)
  BY DEF WorldType
<1>2. /\ DOMAIN u.log = 1..Len(w.log) + 1 /\ Len(w.log) \in Nat
      /\ u.log[Len(w.log) + 1] = e
  BY <1>1, AppendItems
<1> QED
  BY <1>2 DEF Told

LEMMA ToldKept ==
  ASSUME NEW w \in WorldType, NEW u \in WorldType, NEW e \in Events,
         Longer(u.log, w.log, e), NEW m, m # e.record, Told(w, m),
         u.records[m].type = w.records[m].type, u.records[m].status = w.records[m].status
  PROVE  Told(u, m)
<1>1. w.log \in Seq(Events)
  BY DEF WorldType
<1>2. /\ DOMAIN u.log = 1..Len(w.log) + 1 /\ DOMAIN w.log = 1..Len(w.log)
      /\ Len(w.log) \in Nat
      /\ u.log[Len(w.log) + 1] = e
      /\ \A i \in 1..Len(w.log) : u.log[i] = w.log[i]
  BY <1>1, AppendItems
<1>3. PICK i \in DOMAIN w.log :
          /\ w.log[i].record = m
          /\ \A j \in DOMAIN w.log : w.log[j].record = m => j <= i
          /\ w.log[i].type = w.records[m].type
          /\ w.log[i].status = w.records[m].status
  BY DEF Told
<1>4. i \in DOMAIN u.log /\ u.log[i] = w.log[i]
  BY <1>2
<1>5. \A j \in DOMAIN u.log : u.log[j].record = m => j <= i
  BY <1>2, <1>3
<1> QED
  BY <1>3, <1>4, <1>5 DEF Told

LEMMA AnnounceTells ==
  ASSUME NEW w \in WorldType, NEW u, NEW r \in Records, NEW e, Announced(u, w, r, e),
         e.record = Len(w.records) + 1, e.type = r.type, e.status = r.status,
         AllTold(w)
  PROVE  AllTold(u)
<1>1. PICK p \in Nat : p = Len(w.records)
  BY LenProperties DEF WorldType
<1>2. PICK k \in Nat : k = p + 1
  OBVIOUS
<1>3. u \in WorldType /\ e \in Events /\ Longer(u.log, w.log, e)
  BY DEF Announced
<1>4. /\ DOMAIN w.records = 1..p /\ DOMAIN u.records = 1..k
      /\ u.records[k] = r
      /\ \A m \in 1..p : u.records[m] = w.records[m]
  <2>1. w.records \in Seq(Records) /\ Longer(u.records, w.records, r)
    BY DEF WorldType, Announced
  <2> QED
    BY <1>1, <1>2, <2>1, AppendItems
<1>5. e.record = k
  BY <1>1, <1>2
<1>6. Told(u, k)
  BY <1>3, <1>4, <1>5, ToldByAppend
<1>7. ASSUME NEW m \in 1..p PROVE Told(u, m)
  <2>1. m # e.record /\ Told(w, m)
    BY <1>2, <1>4, <1>5 DEF AllTold
  <2>2. /\ u.records[m].type = w.records[m].type
        /\ u.records[m].status = w.records[m].status
    BY <1>4
  <2> QED
    BY ONLY <1>3, <2>1, <2>2, ToldKept, w \in WorldType
<1> QED
  BY <1>2, <1>4, <1>6, <1>7 DEF AllTold

-----------------------------------------------------------------------------
(* One scheduled order fills. *)

\* u is w after its WORKING order n has filled, apart from the reconciliation.
HasFilled(u, w, n) ==
  LET p == Len(w.records)
      q == Len(w.log)
  IN  /\ u.records \in Seq(Records) /\ Len(u.records) >= p + 1
      /\ \A m \in 1..p : m # n => u.records[m] = w.records[m]
      /\ u.records[n].type = w.records[n].type
      /\ u.records[n].related = w.records[n].related
      /\ u.records[n].status = "FILLED"
      /\ u.records[p + 1].related = n
      /\ u.log \in Seq(Events) /\ Len(u.log) >= q + 2
      /\ u.log[q + 1].type = w.records[n].type /\ u.log[q + 1].record = n
      /\ u.log[q + 2].type = "fill" /\ u.log[q + 2].record = p + 1
      /\ u.pending = {f \in w.pending : f.order # n}
      /\ u.setup = w.setup /\ u.preferences = w.preferences

LEMMA FilledOrderType ==
  ASSUME NEW r \in Records, NEW o, o = [r EXCEPT !.status = "FILLED"]
  PROVE  o \in Records /\ o.type = r.type /\ o.related = r.related /\ o.status = "FILLED"
<1>1. "FILLED" \in Statuses
  BY DEF Statuses
<1> QED
  BY <1>1 DEF Records

\* What the log and the records of w become when one order of it fills.
LEMMA FillDoes ==
  ASSUME NEW w \in WorldType, NEW n \in DOMAIN w.records, w.records[n].status = "WORKING",
         NEW u, u = Fill(w, n)
  PROVE  /\ u \in WorldType /\ HasFilled(u, w, n) /\ Extends(u, w)
         /\ AllTold(w) => AllTold(u)
         /\ IF u.pending # {} THEN Len(u.log) = Len(w.log) + 2
            ELSE /\ Len(u.log) = Len(w.log) + 3
                 /\ u.log[Len(w.log) + 3].type = "reconciliation"
<1>0. PICK one \in Nat, two \in Nat : one = 1 /\ two = 2
  OBVIOUS
<1>2. PICK p \in Nat, q \in Nat : p = Len(w.records) /\ q = Len(w.log)
  BY LenProperties DEF WorldType
<1>3. /\ w.records \in Seq(Records) /\ DOMAIN w.records = 1..p
      /\ w.log \in Seq(Events) /\ DOMAIN w.log = 1..q
      /\ n \in 1..p /\ n \in Nat
  BY <1>2, LenProperties DEF WorldType
<1>4. PICK order, fill, clear :
          /\ order = [w.records[n] EXCEPT !.status = "FILLED"]
          /\ fill = Record("fill", "SETTLED", n)
          /\ clear = Record("reconciliation", "CLEAR", None)
  OBVIOUS
<1>5. PICK w1, w2, w3, w4, w5 :
          /\ w1 = [w EXCEPT !.records[n] = order]
          /\ w2 = AppendEvent(w1, order, n, two)
          /\ w3 = Announce(w2, fill, one)
          /\ w4 = [w3 EXCEPT !.pending = {f \in @ : f.order # n}]
          /\ w5 = Announce(w4, clear, one)
  OBVIOUS
<1>6. u = IF w4.pending # {} THEN w4 ELSE w5
  BY <1>0, <1>4, <1>5 DEF Fill
<1>7. /\ order \in Records /\ order.type = w.records[n].type
      /\ order.related = w.records[n].related /\ order.status = "FILLED"
  <2>1. w.records[n] \in Records
    BY <1>3, ElementOfSeq
  <2> QED
    BY <1>4, <2>1, FilledOrderType
<1>8. /\ fill \in Records /\ fill.type = "fill" /\ fill.related = n
      /\ clear \in Records /\ clear.type = "reconciliation"
  <2>1. 0 \in Nat /\ {"fill", "reconciliation"} \subseteq RecordTypes
        /\ {"SETTLED", "CLEAR"} \subseteq Statuses
    BY DEF RecordTypes, Statuses
  <2> QED
    BY <1>3, <1>4, <2>1 DEF Record, Records, None
<1>9. /\ w1 \in WorldType /\ w1.log = w.log
      /\ w1.records \in Seq(Records) /\ Len(w1.records) = p
      /\ w1.records[n] = order
      /\ \A m \in 1..p : m # n => w1.records[m] = w.records[m]
      /\ SameRest(w1, w)
  <2>1. w1 = [w EXCEPT !.records = [w.records EXCEPT ![n] = order]]
    BY <1>5
  <2>2. /\ [w.records EXCEPT ![n] = order] \in Seq(Records)
        /\ Len([w.records EXCEPT ![n] = order]) = p
        /\ \A m \in 1..p : [w.records EXCEPT ![n] = order][m] =
                              IF m = n THEN order ELSE w.records[m]
    BY <1>2, <1>3, <1>7, ExceptSeq
  <2> QED
    BY <1>3, <2>1, <2>2 DEF WorldType, SameRest
<1> DEFINE e1 == Event(order, n, two)
<1>10. /\ EventAppended(w2, w1, e1) /\ e1 \in Events
       /\ e1.type = order.type /\ e1.status = "FILLED" /\ e1.record = n
  <2>1. e1 \in Events /\ e1.type = order.type /\ e1.status = order.status /\ e1.record = n
    BY <1>0, <1>3, <1>7, EventType
  <2>2. EventAppended(w2, w1, e1)
    <3> HIDE DEF e1
    <3>1. e1 = Event(order, n, two)
      BY DEF e1
    <3>2. w2 = AppendEvent(w1, order, n, two) /\ w1 \in WorldType /\ order \in Records
      BY <1>5, <1>7, <1>9
    <3> QED
      BY ONLY <1>0, <1>3, <3>1, <3>2, AppendEventDoes
  <2> QED
    BY <1>7, <2>1, <2>2
<1> HIDE DEF e1
<1>11. /\ w2 \in WorldType /\ w2.records = w1.records /\ Longer(w2.log, w.log, e1)
       /\ SameRest(w2, w1)
  BY <1>9, <1>10 DEF EventAppended
<1>12. PICK k \in Nat, k2 \in Nat : k = p + 1 /\ k2 = p + 2
  OBVIOUS
<1> DEFINE e2 == Event(fill, k, one)
<1>13. /\ Announced(w3, w2, fill, e2) /\ e2 \in Events
       /\ e2.type = "fill" /\ e2.status = fill.status /\ e2.record = k
  <2>1. w2 \in WorldType /\ w3 = Announce(w2, fill, one) /\ k = Len(w2.records) + 1
    BY <1>5, <1>9, <1>11, <1>12
  <2> QED
    BY <1>0, <1>8, <2>1, AnnounceDoes, EventType
<1> HIDE DEF e2
<1>14. /\ w3 \in WorldType /\ Longer(w3.records, w1.records, fill)
       /\ Longer(w3.log, w2.log, e2) /\ SameRest(w3, w2)
  BY <1>11, <1>13 DEF Announced
<1>15. /\ w4 \in WorldType /\ w4.records = w3.records /\ w4.log = w3.log
       /\ w4.pending = {f \in w.pending : f.order # n}
       /\ w4.setup = w.setup /\ w4.preferences = w.preferences
  <2>1. /\ w3.pending = w.pending /\ w3.setup = w.setup /\ w3.preferences = w.preferences
    BY <1>9, <1>11, <1>14 DEF SameRest
  <2>2. PICK left : left = {f \in w.pending : f.order # n}
    OBVIOUS
  <2>3. left \in SUBSET [order : Nat, at : Nat]
    BY <2>2 DEF WorldType
  <2>4. w4 = [w3 EXCEPT !.pending = left]
    BY <1>5, <2>1, <2>2
  <2>5. /\ w4 \in WorldType /\ w4.records = w3.records /\ w4.log = w3.log
        /\ w4.pending = left /\ w4.setup = w3.setup /\ w4.preferences = w3.preferences
    BY ONLY <1>14, <2>3, <2>4 DEF WorldType
  <2> QED
    BY ONLY <2>1, <2>2, <2>5
<1>16. /\ w3.records \in Seq(Records) /\ Len(w3.records) = k
       /\ \A m \in 1..p : w3.records[m] = w1.records[m]
       /\ w3.records[k] = fill
  <2>1. w1.records \in Seq(Records) /\ fill \in Records /\ Longer(w3.records, w1.records, fill)
    BY <1>8, <1>9, <1>14
  <2>2. /\ w3.records \in Seq(Records) /\ Len(w3.records) = Len(w1.records) + 1
        /\ \A m \in 1..Len(w1.records) : w3.records[m] = w1.records[m]
        /\ w3.records[Len(w1.records) + 1] = fill
    BY ONLY <2>1, AppendItems
  <2> QED
    BY <1>9, <1>12, <2>2
<1> DEFINE e3 == Event(clear, k2, one)
<1>17. /\ Announced(w5, w4, clear, e3) /\ e3 \in Events
       /\ e3.type = "reconciliation" /\ e3.status = clear.status /\ e3.record = k2
  <2>1. w4 \in WorldType /\ w5 = Announce(w4, clear, one) /\ k2 = Len(w4.records) + 1
    <3>1. Len(w4.records) = k
      BY <1>15, <1>16
    <3> QED
      BY <1>5, <1>12, <1>15, <3>1
  <2> QED
    BY <1>0, <1>8, <2>1, AnnounceDoes, EventType
<1> HIDE DEF e3
<1>18. /\ w5 \in WorldType /\ Longer(w5.records, w3.records, clear)
       /\ Longer(w5.log, w3.log, e3) /\ SameRest(w5, w4)
  BY <1>15, <1>17 DEF Announced
<1>19. AllTold(w) => AllTold(u)
  <2> SUFFICES ASSUME AllTold(w) PROVE AllTold(u)
    OBVIOUS
  <2>1. Told(w2, n)
    BY <1>7, <1>9, <1>10, <1>11, ToldByAppend
  <2>2. ASSUME NEW m \in 1..p, m # n PROVE Told(w2, m)
    <3>1. m # e1.record /\ Told(w, m)
      BY <1>3, <1>10, <2>2 DEF AllTold
    <3>2. /\ w2.records[m].type = w.records[m].type
          /\ w2.records[m].status = w.records[m].status
      BY <1>9, <1>11, <2>2
    <3>3. Longer(w2.log, w.log, e1) /\ w2 \in WorldType /\ e1 \in Events
      BY <1>10, <1>11
    <3> QED
      BY ONLY <3>1, <3>2, <3>3, ToldKept, w \in WorldType
  <2>3. DOMAIN w2.records = 1..p
    BY <1>9, <1>11, LenProperties
  <2>4. AllTold(w2)
    BY <2>1, <2>2, <2>3 DEF AllTold
  <2>5. AllTold(w3)
    <3>1. e2.record = Len(w2.records) + 1
      BY <1>9, <1>11, <1>12, <1>13
    <3> QED
      BY <1>8, <1>11, <1>13, <2>4, <3>1, AnnounceTells
  <2>6. AllTold(w4)
    BY <1>15, <2>5 DEF AllTold, Told
  <2>7. AllTold(w5)
    <3>1. e3.record = Len(w4.records) + 1
      BY <1>12, <1>15, <1>16, <1>17
    <3> QED
      BY <1>8, <1>15, <1>17, <2>6, <3>1, AnnounceTells
  <2> QED
    BY <1>6, <2>6, <2>7
<1>20. /\ w2.log \in Seq(Events) /\ Len(w2.log) = q + 1
       /\ w2.log[q + 1] = e1
       /\ \A i \in 1..q : w2.log[i] = w.log[i]
  BY <1>2, <1>3, <1>10, <1>11, AppendItems
<1>21. /\ w3.log \in Seq(Events) /\ Len(w3.log) = q + 2
       /\ w3.log[q + 2] = e2
       /\ \A i \in 1..q + 1 : w3.log[i] = w2.log[i]
  <2>1. /\ w3.log \in Seq(Events) /\ Len(w3.log) = Len(w2.log) + 1
        /\ \A i \in 1..Len(w2.log) : w3.log[i] = w2.log[i]
        /\ w3.log[Len(w2.log) + 1] = e2
    BY <1>13, <1>14, <1>20, AppendItems
  <2> QED
    BY <1>20, <2>1
<1>22. /\ w5.records \in Seq(Records) /\ Len(w5.records) = k + 1
       /\ \A m \in 1..k : w5.records[m] = w3.records[m]
  <2>1. /\ w5.records \in Seq(Records) /\ Len(w5.records) = Len(w3.records) + 1
        /\ \A m \in 1..Len(w3.records) : w5.records[m] = w3.records[m]
    <3>1. w3.records \in Seq(Records) /\ clear \in Records
          /\ Longer(w5.records, w3.records, clear)
      BY <1>8, <1>16, <1>18
    <3>2. w5.records \in Seq(Records) /\ Len(w5.records) = Len(w3.records) + 1
      BY ONLY <3>1, AppendItems
    <3>3. \A m \in 1..Len(w3.records) : w5.records[m] = w3.records[m]
      BY ONLY <3>1, AppendItems
    <3> QED
      BY ONLY <3>2, <3>3
  <2> QED
    BY <1>16, <2>1
<1>23. /\ w5.log \in Seq(Events) /\ Len(w5.log) = q + 3
       /\ w5.log[q + 3] = e3
       /\ \A i \in 1..q + 2 : w5.log[i] = w3.log[i]
  <2>1. /\ w5.log \in Seq(Events) /\ Len(w5.log) = Len(w3.log) + 1
        /\ \A i \in 1..Len(w3.log) : w5.log[i] = w3.log[i]
        /\ w5.log[Len(w3.log) + 1] = e3
    <3>1. w3.log \in Seq(Events) /\ e3 \in Events /\ Longer(w5.log, w3.log, e3)
      BY <1>17, <1>18, <1>21
    <3> QED
      BY ONLY <3>1, AppendItems
  <2> QED
    BY <1>21, <2>1
<1>24. u.pending = {f \in w.pending : f.order # n} /\ u.setup = w.setup
       /\ u.preferences = w.preferences /\ u.pending = w4.pending
  BY <1>6, <1>15, <1>18 DEF SameRest
<1>25. Extends(u, w)
  <2>1. /\ Len(u.log) >= q + 2 /\ Len(u.log) \in Nat
        /\ \A i \in 1..q + 2 : u.log[i] = w3.log[i]
    <3>1. CASE u = w4
      BY <1>15, <1>21, <3>1
    <3>2. CASE u = w5
      BY <1>23, <3>2
    <3> QED
      BY <1>6, <3>1, <3>2
  <2>2. \A i \in 1..q : u.log[i] = w.log[i]
    BY <1>20, <1>21, <2>1
  <2> QED
    BY <1>2, <2>1, <2>2 DEF Extends
<1>26. HasFilled(u, w, n)
  <2>1. /\ u.records \in Seq(Records) /\ Len(u.records) >= p + 1
        /\ \A m \in 1..p : m # n => u.records[m] = w.records[m]
        /\ u.records[n] = order /\ u.records[p + 1] = fill
    <3>1. /\ u.records \in Seq(Records) /\ Len(u.records) >= k
          /\ \A m \in 1..k : u.records[m] = w3.records[m]
      <4>1. CASE u = w4
        BY <1>15, <1>16, <4>1
      <4>2. CASE u = w5
        BY <1>22, <4>2
      <4> QED
        BY <1>6, <4>1, <4>2
    <3>2. \A m \in 1..p : u.records[m] = w1.records[m]
      BY <1>12, <1>16, <3>1
    <3> QED
      BY <1>3, <1>9, <1>12, <1>16, <3>1, <3>2
  <2>2. /\ u.log \in Seq(Events) /\ Len(u.log) >= q + 2
        /\ u.log[q + 1] = e1 /\ u.log[q + 2] = e2
    <3>1. CASE u = w4
      BY <1>15, <1>20, <1>21, <3>1
    <3>2. CASE u = w5
      BY <1>20, <1>21, <1>23, <3>2
    <3> QED
      BY <1>6, <3>1, <3>2
  <2> QED
    BY <1>2, <1>7, <1>8, <1>10, <1>12, <1>13, <1>24, <2>1, <2>2 DEF HasFilled
<1>27. IF u.pending # {} THEN Len(u.log) = q + 2
       ELSE Len(u.log) = q + 3 /\ u.log[q + 3].type = "reconciliation"
  BY <1>6, <1>15, <1>17, <1>21, <1>23, <1>24
<1> QED
  BY <1>2, <1>6, <1>15, <1>18, <1>19, <1>25, <1>26, <1>27

(* A WORKING order that is scheduled fills, and what the log tells of orders  *)
(* and of the reconciliation stays true (ADMITTED part of the invariant).     *)
LEMMA FillKeepsOrder ==
  ASSUME NEW w \in WorldType, AdmittedInv(w), Len(SeedLog) \in Nat,
         NEW n \in DOMAIN w.records, w.records[n].status = "WORKING",
         NEW f \in w.pending, f.order = n,
         NEW u, u = Fill(w, n)
  PROVE  AdmittedInv(u)
<1>1. PICK p \in Nat, q \in Nat : p = Len(w.records) /\ q = Len(w.log)
  BY LenProperties DEF WorldType
<1>2. /\ u \in WorldType /\ HasFilled(u, w, n) /\ Extends(u, w)
      /\ IF u.pending # {} THEN Len(u.log) = q + 2
         ELSE Len(u.log) = q + 3 /\ u.log[q + 3].type = "reconciliation"
  BY <1>1, FillDoes
<1>3. /\ DOMAIN w.records = 1..p /\ DOMAIN w.log = 1..q /\ n \in 1..p
      /\ w.log \in Seq(Events)
  BY <1>1, LenProperties DEF WorldType
<1>4. /\ p + 1 \in DOMAIN u.records /\ 1..p \subseteq DOMAIN u.records
      /\ \A m \in 1..p : m # n => u.records[m] = w.records[m]
      /\ u.records[n].type = w.records[n].type
      /\ u.records[n].related = w.records[n].related
      /\ u.records[n].status = "FILLED"
      /\ u.records[p + 1].related = n
      /\ u.log[q + 1].type = w.records[n].type /\ u.log[q + 1].record = n
      /\ u.log[q + 2].type = "fill" /\ u.log[q + 2].record = p + 1
      /\ u.pending = {g \in w.pending : g.order # n}
      /\ u.setup = w.setup
  <2>1. u.records \in Seq(Records) /\ Len(u.records) >= p + 1
    BY <1>1, <1>2 DEF HasFilled
  <2>2. p + 1 \in DOMAIN u.records /\ 1..p \subseteq DOMAIN u.records
    BY ONLY <2>1, p \in Nat, LenProperties
  <2> QED
    BY <1>1, <1>2, <2>2 DEF HasFilled
<1>5. /\ \A i \in 1..q : u.log[i] = w.log[i]
      /\ Len(u.log) \in {q + 2, q + 3} /\ DOMAIN u.log = 1..Len(u.log)
      /\ Len(u.log) = q + 3 => u.pending = {} /\ u.log[q + 3].type = "reconciliation"
  <2>1. DOMAIN u.log = 1..Len(u.log)
    BY <1>2, LenProperties DEF WorldType
  <2>2. \A i \in 1..q : u.log[i] = w.log[i]
    BY <1>1, <1>2 DEF Extends
  <2>3. PICK m : m = Len(u.log)
    OBVIOUS
  <2>4. /\ m \in {q + 2, q + 3}
        /\ m = q + 3 => u.pending = {} /\ u.log[q + 3].type = "reconciliation"
    BY <1>1, <1>2, <2>3
  <2> QED
    BY ONLY <2>1, <2>2, <2>3, <2>4
<1>6. w.records[n].type = "order"
  BY DEF AdmittedInv, Scheduled
<1>7. FillEvents(u.log) \subseteq FillEvents(w.log) \cup {q + 1}
  <2> SUFFICES ASSUME NEW i \in FillEvents(u.log), i # q + 1
               PROVE  i \in FillEvents(w.log)
    OBVIOUS
  <2>1. i \in DOMAIN u.log /\ u.log[i].type = "order" /\ u.log[i].version = 2
    BY DEF FillEvents
  <2>2. i # q + 2 /\ i # q + 3
    BY <1>4, <1>5, <2>1
  <2>3. i \in 1..q
    BY <1>5, <2>1, <2>2
  <2> QED
    BY <1>3, <1>5, <2>1, <2>3 DEF FillEvents
<1>8. \A i \in FillEvents(w.log) : w.log[i].record # n
  BY DEF AdmittedInv, FillsTold
<1>9. /\ \A i \in FillEvents(w.log) : i \in 1..q /\ u.log[i] = w.log[i]
  BY <1>3, <1>5 DEF FillEvents
<1>10. Scheduled(u)
  <2>1. \A g \in u.pending : g \in w.pending /\ g.order \in 1..p /\ g.order # n
                              /\ w.records[g.order].type = "order"
    BY <1>3, <1>4 DEF AdmittedInv, Scheduled
  <2> QED
    BY <1>4, <2>1 DEF Scheduled
<1>11. FillsTold(u)
  <2> SUFFICES ASSUME NEW i \in FillEvents(u.log)
               PROVE  /\ u.log[i].record \in DOMAIN u.records
                      /\ u.records[u.log[i].record].status = "FILLED"
                      /\ i + 1 \in DOMAIN u.log
                      /\ u.log[i + 1].type = "fill"
                      /\ u.log[i + 1].record \in DOMAIN u.records
                      /\ u.records[u.log[i + 1].record].related = u.log[i].record
    BY DEF FillsTold
  <2>1. CASE i = q + 1
    <3>1. i + 1 = q + 2 /\ q \in Nat
      BY <1>1, <2>1
    <3>2. u.log[i].record = n /\ u.log[i + 1].type = "fill" /\ u.log[i + 1].record = p + 1
      BY <1>4, <2>1, <3>1
    <3>3. i + 1 \in DOMAIN u.log
      BY ONLY <1>5, <3>1
    <3>4. n \in DOMAIN u.records
      BY <1>3, <1>4
    <3> QED
      BY <1>4, <3>2, <3>3, <3>4
  <2>2. CASE i \in FillEvents(w.log)
    <3> DEFINE r == w.log[i].record
               s == w.log[i + 1].record
    <3>1. /\ r \in 1..p /\ w.records[r].status = "FILLED"
          /\ i + 1 \in 1..q /\ w.log[i + 1].type = "fill"
          /\ s \in 1..p /\ w.records[s].related = r
      BY <1>3, <2>2 DEF AdmittedInv, FillsTold
    <3>2. u.log[i] = w.log[i] /\ u.log[i + 1] = w.log[i + 1] /\ i + 1 \in DOMAIN u.log
      <4>1. i + 1 \in DOMAIN u.log
        BY <1>5, <3>1
      <4> QED
        BY <1>5, <1>9, <2>2, <3>1, <4>1
    <3>3. r # n
      BY <1>8, <2>2
    <3>4. u.records[r] = w.records[r] /\ u.records[s].related = w.records[s].related
      BY <1>4, <3>1, <3>3
    <3> QED
      BY <1>4, <3>1, <3>2, <3>4
  <2> QED
    BY <1>7, <2>1, <2>2
<1>12. FilledOnce(u)
  <2> SUFFICES ASSUME NEW i \in FillEvents(u.log), NEW j \in FillEvents(u.log),
                      u.log[i].record = u.log[j].record
               PROVE  i = j
    BY DEF FilledOnce
  <2>1. \A k \in FillEvents(w.log) : u.log[k].record # n
    BY <1>8, <1>9
  <2>2. CASE i \in FillEvents(w.log) /\ j \in FillEvents(w.log)
    BY <1>9, <2>2 DEF AdmittedInv, FilledOnce
  <2> QED
    BY <1>4, <1>7, <2>1, <2>2
<1>13. ReconciledLast(u)
  <2> SUFFICES ASSUME NEW i \in DOMAIN u.log, i > Len(SeedLog),
                      u.log[i].type = "reconciliation"
               PROVE  u.pending = {} /\ \A j \in FillEvents(u.log) : j < i
    BY DEF ReconciledLast
  <2>1. ~(i \in 1..q)
    <3>1. \A k \in 1..q : w.log[k].type = "reconciliation" => ~(k > Len(SeedLog))
      BY <1>3 DEF AdmittedInv, ReconciledLast
    <3> QED
      BY <1>5, <3>1
  <2>2. i = q + 3
    <3>1. i \in 1..q + 3 /\ i # q + 1 /\ i # q + 2
      <4>1. i \in 1..q + 3
        BY <1>5
      <4>2. u.log[q + 1].type = "order" /\ u.log[q + 2].type = "fill"
        BY <1>4, <1>6
      <4> QED
        BY <4>1, <4>2
    <3> QED
      BY <2>1, <3>1
  <2>3. \A j \in FillEvents(u.log) : j \in 1..q + 1
    BY <1>7, <1>9
  <2> QED
    BY <1>5, <2>2, <2>3
<1>14. Len(u.log) >= Len(SeedLog) /\ u.setup = NoSetup
  BY <1>1, <1>4, <1>5 DEF AdmittedInv
<1> QED
  BY <1>10, <1>11, <1>12, <1>13, <1>14 DEF AdmittedInv

\* Of the orders ns, those of v still WORKING are scheduled.
DueStill(v, ns) ==
  \A n \in ns :
      /\ n \in DOMAIN v.records
      /\ v.records[n].status = "WORKING" => \E f \in v.pending : f.order = n

\* What no step of w's own clock takes away.
Moved(u, w) ==
  /\ Extends(u, w) /\ u.preferences = w.preferences
  /\ AllTold(w) => AllTold(u)

LEMMA FillKeeps ==
  ASSUME NEW w \in WorldType, AdmittedInv(w), Len(SeedLog) \in Nat,
         NEW ns, DueStill(w, ns), NEW n \in ns, NEW u, u = Fill(w, n)
  PROVE  u \in WorldType /\ AdmittedInv(u) /\ DueStill(u, ns) /\ Moved(u, w)
<1>1. CASE w.records[n].status # "WORKING"
  <2>1. u = w
    BY <1>1 DEF Fill
  <2>2. Extends(w, w)
    BY LenProperties DEF Extends, WorldType
  <2> QED
    BY <2>1, <2>2 DEF Moved
<1>2. CASE w.records[n].status = "WORKING"
  <2>1. n \in DOMAIN w.records
    BY DEF DueStill
  <2>2. PICK f \in w.pending : f.order = n
    BY <1>2 DEF DueStill
  <2>3. /\ u \in WorldType /\ HasFilled(u, w, n) /\ Extends(u, w)
        /\ AllTold(w) => AllTold(u)
    BY <1>2, <2>1, FillDoes
  <2>4. AdmittedInv(u)
    BY <1>2, <2>1, <2>2, FillKeepsOrder
  <2>5. DueStill(u, ns)
    <3>1. /\ \A m \in 1..Len(w.records) : m # n => u.records[m] = w.records[m]
          /\ u.records[n].status = "FILLED"
          /\ u.pending = {g \in w.pending : g.order # n}
          /\ u.records \in Seq(Records) /\ Len(u.records) >= Len(w.records) + 1
          /\ w.records \in Seq(Records)
      BY <2>3 DEF HasFilled, WorldType
    <3>2. DOMAIN w.records = 1..Len(w.records) /\ DOMAIN w.records \subseteq DOMAIN u.records
      BY ONLY <3>1, LenProperties
    <3> QED
      BY <3>1, <3>2 DEF DueStill
  <2> QED
    BY <2>3, <2>4, <2>5 DEF Moved, HasFilled
<1> QED
  BY <1>1, <1>2

LEMMA MovedTwice ==
  ASSUME NEW w \in WorldType, NEW v \in WorldType, NEW u \in WorldType,
         Moved(v, w), Moved(u, v)
  PROVE  Moved(u, w)
<1>1. /\ Len(w.log) \in Nat /\ Len(v.log) \in Nat /\ Len(u.log) \in Nat
  BY LenProperties DEF WorldType
<1> QED
  BY <1>1 DEF Moved, Extends

LEMMA MovedNot ==
  ASSUME NEW w \in WorldType
  PROVE  Moved(w, w)
BY LenProperties DEF Moved, Extends, WorldType

(* The orders that are due fill: a tick keeps the invariant whatever it fills. *)
LEMMA FillDueKeeps ==
  ASSUME NEW w \in WorldType, AdmittedInv(w), Len(SeedLog) \in Nat,
         NEW u, u = FillDue(w)
  PROVE  u \in WorldType /\ AdmittedInv(u) /\ Moved(u, w)
<1> DEFINE ns == DueOrders(w)
           T == {v \in WorldType : AdmittedInv(v) /\ DueStill(v, ns) /\ Moved(v, w)}
<1>1. \A n \in ns : n \in DOMAIN w.records /\ \E f \in w.pending : f.order = n
  BY DEF DueOrders, AdmittedInv, Scheduled
<1>2. ns \subseteq Nat /\ IsFiniteSet(ns)
  <2>1. PICK p \in Nat : DOMAIN w.records = 1..p
    BY LenProperties DEF WorldType
  <2>2. ns \subseteq 1..p /\ IsFiniteSet(1..p)
    BY <1>1, <2>1, FS_Interval
  <2> QED
    BY <2>2, FS_Subset
<1>3. w \in T
  BY <1>1, MovedNot DEF DueStill
<1>4. ASSUME NEW v \in T, NEW n \in ns PROVE Fill(v, n) \in T
  <2>1. PICK x : x = Fill(v, n)
    OBVIOUS
  <2>2. v \in WorldType /\ AdmittedInv(v) /\ DueStill(v, ns) /\ Moved(v, w)
    BY <1>4
  <2> HIDE DEF ns
  <2>3. x \in WorldType /\ AdmittedInv(x) /\ DueStill(x, ns) /\ Moved(x, v)
    BY <1>4, <2>1, <2>2, FillKeeps
  <2>4. Moved(x, w)
    BY <2>2, <2>3, MovedTwice
  <2> QED
    BY <2>1, <2>3, <2>4
<1> HIDE DEF T
<1>5. u \in T
  BY <1>2, <1>3, <1>4, FillsInTurn
<1> QED
  BY <1>5 DEF T

(* The heartbeat announces a record that is not kept. *)
LEMMA HeartbeatKeeps ==
  ASSUME NEW w \in WorldType, AdmittedInv(w), Len(SeedLog) \in Nat, clock \in Nat,
         NEW u, u = Heartbeat(w)
  PROVE  u \in WorldType /\ AdmittedInv(u) /\ Moved(u, w)
<1>1. CASE w.bucket = clock
  BY <1>1, MovedNot DEF Heartbeat
<1>2. CASE w.bucket # clock
  <2>1. PICK k \in Nat, q \in Nat, one \in Nat :
            k = Len(w.records) + 1 /\ q = Len(w.log) /\ one = 1
    BY LenProperties DEF WorldType
  <2>2. PICK x, beat : /\ x = [w EXCEPT !.bucket = clock]
                       /\ beat = Record("valuation", "READY", None)
    OBVIOUS
  <2>3. /\ x \in WorldType /\ x.records = w.records /\ x.log = w.log
        /\ x.pending = w.pending /\ x.setup = w.setup /\ x.preferences = w.preferences
    BY <2>2 DEF WorldType
  <2>4. beat \in Records /\ beat.type = "valuation"
    BY <2>2 DEF Record, Records, RecordTypes, Statuses, None
  <2>5. u = AppendEvent(x, beat, k, one)
    BY <1>2, <2>1, <2>2 DEF Heartbeat
  <2>6. PICK e : e = Event(beat, k, one)
    OBVIOUS
  <2>7. EventAppended(u, x, e)
    BY <2>1, <2>3, <2>4, <2>5, <2>6, AppendEventDoes
  <2>8. e \in Events /\ e.type = "valuation" /\ e.record = k
    BY <2>1, <2>4, <2>6, EventType
  <2>9. /\ u \in WorldType /\ u.records = w.records /\ Longer(u.log, w.log, e)
        /\ u.pending = w.pending /\ u.setup = w.setup /\ u.preferences = w.preferences
        /\ Extends(u, w)
    BY <2>3, <2>7 DEF EventAppended, SameRest, Extends
  <2>10. /\ DOMAIN w.log = 1..q /\ DOMAIN u.log = 1..q + 1 /\ Len(u.log) = q + 1
         /\ \A i \in 1..q : u.log[i] = w.log[i]
         /\ u.log[q + 1] = e
    <3>1. w.log \in Seq(Events) /\ e \in Events /\ Longer(u.log, w.log, e)
      BY <2>8, <2>9 DEF WorldType
    <3>2. /\ DOMAIN w.log = 1..Len(w.log) /\ DOMAIN u.log = 1..Len(w.log) + 1
          /\ Len(u.log) = Len(w.log) + 1
          /\ \A i \in 1..Len(w.log) : u.log[i] = w.log[i]
          /\ u.log[Len(w.log) + 1] = e
      BY ONLY <3>1, AppendItems
    <3> QED
      BY <2>1, <3>2
  <2>11. FillEvents(u.log) = FillEvents(w.log)
    BY <2>8, <2>10 DEF FillEvents
  <2>12. \A i \in FillEvents(w.log) : i \in 1..q /\ u.log[i] = w.log[i]
    BY <2>10 DEF FillEvents
  <2>13. AdmittedInv(u)
    <3>1. Scheduled(u)
      BY <2>9 DEF AdmittedInv, Scheduled
    <3>2. FillsTold(u)
      <4>1. \A i \in FillEvents(w.log) :
                i + 1 \in 1..q /\ i + 1 \in DOMAIN u.log /\ u.log[i + 1] = w.log[i + 1]
        BY <2>10 DEF AdmittedInv, FillsTold
      <4> QED
        BY <2>9, <2>11, <2>12, <4>1 DEF AdmittedInv, FillsTold
    <3>3. FilledOnce(u)
      BY <2>11, <2>12 DEF AdmittedInv, FilledOnce
    <3>4. ReconciledLast(u)
      BY <2>8, <2>9, <2>10, <2>11 DEF AdmittedInv, ReconciledLast
    <3>5. u.setup = NoSetup /\ Len(u.log) >= Len(SeedLog)
      BY <2>1, <2>9, <2>10 DEF AdmittedInv
    <3> QED
      BY <3>1, <3>2, <3>3, <3>4, <3>5 DEF AdmittedInv
  <2>14. ASSUME AllTold(w) PROVE AllTold(u)
    <3> SUFFICES ASSUME NEW m \in DOMAIN w.records PROVE Told(u, m)
      BY <2>9 DEF AllTold
    <3>1. m # e.record /\ Told(w, m)
      BY <2>1, <2>8, <2>14, LenProperties DEF AllTold, WorldType
    <3>2. /\ u.records[m].type = w.records[m].type
          /\ u.records[m].status = w.records[m].status
          /\ Longer(u.log, w.log, e) /\ u \in WorldType /\ e \in Events
      BY <2>8, <2>9
    <3> QED
      BY ONLY <3>1, <3>2, ToldKept, w \in WorldType
  <2> QED
    BY <2>9, <2>13, <2>14 DEF Moved
<1> QED
  BY <1>1, <1>2

LEMMA TickAdmittedKeeps ==
  ASSUME NEW w \in WorldType, AdmittedInv(w), Len(SeedLog) \in Nat, clock \in Nat,
         NEW u, u = TickAdmitted(w)
  PROVE  u \in WorldType /\ AdmittedInv(u) /\ Moved(u, w)
<1>1. PICK v : v = FillDue(w)
  OBVIOUS
<1>2. v \in WorldType /\ AdmittedInv(v) /\ Moved(v, w)
  BY <1>1, FillDueKeeps
<1>3. u = Heartbeat(v)
  BY <1>1 DEF TickAdmitted
<1>4. u \in WorldType /\ AdmittedInv(u) /\ Moved(u, v)
  BY <1>2, <1>3, HeartbeatKeeps
<1> QED
  BY <1>2, <1>4, MovedTwice

-----------------------------------------------------------------------------
(* The setup of the invited persona. *)

LEMMA MinTwo ==
  ASSUME NEW a \in Nat, NEW b \in Nat
  PROVE  Min({a, b}) = IF a <= b THEN a ELSE b
BY DEF Min

LEMMA MaxTwo ==
  ASSUME NEW a \in Int, NEW b \in Int
  PROVE  Max({a, b}) = IF a <= b THEN b ELSE a
BY DEF Max

\* A log tells the first steps of the setup.
StepsTold(log) ==
  \A i \in DOMAIN log : <<log[i].type, log[i].status, log[i].version>> = SetupSteps[i]

\* u is w with step z of the setup announced.
Stepped(u, w, z) ==
  /\ u \in WorldType /\ StepsTold(u.log) /\ Len(u.log) = z
  /\ u.setup = w.setup /\ Moved(u, w)

LEMMA AnnounceStep ==
  ASSUME NEW w \in WorldType, StepsTold(w.log), NEW z \in Nat, z = Len(w.log) + 1,
         NEW r \in Records, NEW v \in Nat,
         <<r.type, r.status, v>> = SetupSteps[z],
         NEW u, u = Announce(w, r, v)
  PROVE  Stepped(u, w, z)
<1>1. PICK k : k = Len(w.records) + 1
  OBVIOUS
<1>2. PICK e : e = Event(r, k, v)
  OBVIOUS
<1>3. k \in Nat /\ Announced(u, w, r, e)
  BY <1>1, <1>2, AnnounceDoes
<1>4. /\ e \in Events /\ e.type = r.type /\ e.status = r.status
      /\ e.version = v /\ e.record = k
  BY <1>2, <1>3, EventType
<1>5. /\ u \in WorldType /\ Longer(u.log, w.log, e) /\ w.log \in Seq(Events)
      /\ u.setup = w.setup /\ u.preferences = w.preferences /\ Extends(u, w)
  BY <1>3 DEF Announced, SameRest, WorldType
<1>6. /\ DOMAIN w.log = 1..Len(w.log) /\ DOMAIN u.log = 1..Len(w.log) + 1
      /\ Len(u.log) = Len(w.log) + 1
      /\ \A i \in 1..Len(w.log) : u.log[i] = w.log[i]
      /\ u.log[Len(w.log) + 1] = e
  BY ONLY <1>4, <1>5, AppendItems
<1>7. StepsTold(u.log)
  <2> SUFFICES ASSUME NEW i \in DOMAIN u.log
               PROVE  <<u.log[i].type, u.log[i].status, u.log[i].version>> = SetupSteps[i]
    BY DEF StepsTold
  <2>1. CASE i = z
    BY <1>4, <1>6, <2>1
  <2>2. CASE i \in 1..Len(w.log)
    BY <1>6, <2>2 DEF StepsTold
  <2> QED
    BY <1>6, <2>1, <2>2
<1>8. AllTold(w) => AllTold(u)
  BY <1>1, <1>3, <1>4, AnnounceTells
<1> QED
  BY <1>5, <1>6, <1>7, <1>8 DEF Moved, Stepped

(* What the setup of an invited world may be, by the steps announced.        *)
LEMMA SetupShape ==
  ASSUME NEW w \in WorldType, InvitedInv(w), w.setup # NoSetup
  PROVE  /\ w.setup \in [status     : {"PENDING_VALIDATION", "CONNECTED"}, version : Nat,
                         validateAt : Nat, syncAt : Nat, synced : BOOLEAN]
         /\ StepsTold(w.log) /\ Len(w.log) \in {1, 2, 5}
         /\ w.setup.status = "PENDING_VALIDATION"
              => Len(w.log) = 1 /\ w.setup.version = 1 /\ w.setup.synced = FALSE
         /\ w.setup.status = "CONNECTED"
              => IF w.setup.synced THEN Len(w.log) = 5 /\ w.setup.version = 3
                                   ELSE Len(w.log) = 2 /\ w.setup.version = 2
<1>1. w.setup \in [status     : {"PENDING_VALIDATION", "CONNECTED"}, version : Nat,
                   validateAt : Nat, syncAt : Nat, synced : BOOLEAN]
  BY DEF WorldType, Setups
<1>2. Min({1, 3}) = 1 /\ Min({2, 3}) = 2 /\ Min({5, 3}) = 3
  BY MinTwo
<1>3. StepsTold(w.log)
  BY DEF InvitedInv, StepsTold
<1>4. CASE w.setup.status = "PENDING_VALIDATION"
  BY <1>1, <1>2, <1>3, <1>4 DEF InvitedInv, SetupReached
<1>5. CASE w.setup.status = "CONNECTED" /\ w.setup.synced
  BY <1>1, <1>2, <1>3, <1>5 DEF InvitedInv, SetupReached
<1>6. CASE w.setup.status = "CONNECTED" /\ ~w.setup.synced
  BY <1>1, <1>2, <1>3, <1>6 DEF InvitedInv, SetupReached
<1> QED
  BY <1>1, <1>4, <1>5, <1>6

LEMMA ShapeSetup ==
  ASSUME NEW w, StepsTold(w.log),
         w.setup \in [status     : {"PENDING_VALIDATION", "CONNECTED"}, version : Nat,
                      validateAt : Nat, syncAt : Nat, synced : BOOLEAN],
         \/ /\ w.setup.status = "PENDING_VALIDATION" /\ w.setup.synced = FALSE
            /\ Len(w.log) = 1 /\ w.setup.version = 1
         \/ /\ w.setup.status = "CONNECTED" /\ w.setup.synced = FALSE
            /\ Len(w.log) = 2 /\ w.setup.version = 2
         \/ /\ w.setup.status = "CONNECTED" /\ w.setup.synced = TRUE
            /\ Len(w.log) = 5 /\ w.setup.version = 3
  PROVE  InvitedInv(w)
<1>1. w.setup # NoSetup
  BY DEF NoSetup
<1>2. Min({1, 3}) = 1 /\ Min({2, 3}) = 2 /\ Min({5, 3}) = 3
  BY MinTwo
<1> QED
  BY <1>1, <1>2 DEF InvitedInv, StepsTold, SetupReached

LEMMA ValidateKeeps ==
  ASSUME NEW w \in WorldType, InvitedInv(w), w.setup # NoSetup,
         NEW u, u = Validate(w)
  PROVE  u \in WorldType /\ InvitedInv(u) /\ u.setup # NoSetup /\ Moved(u, w)
<1>1. CASE ~(w.setup.status = "PENDING_VALIDATION" /\ clock >= w.setup.validateAt)
  BY <1>1, MovedNot DEF Validate
<1>2. CASE w.setup.status = "PENDING_VALIDATION" /\ clock >= w.setup.validateAt
  <2>1. PICK one \in Nat, two \in Nat : one = 1 /\ two = 2
    OBVIOUS
  <2>2. PICK x, r : /\ x = [w EXCEPT !.setup.status = "CONNECTED", !.setup.version = two]
                    /\ r = Record("brokerage_connection", "CONNECTED", None)
    OBVIOUS
  <2>3. Len(w.log) = 1 /\ w.setup.version = 1 /\ w.setup.synced = FALSE /\ StepsTold(w.log)
    BY <1>2, SetupShape
  <2>4. /\ x \in WorldType /\ x.log = w.log /\ x.records = w.records
        /\ x.preferences = w.preferences
        /\ x.setup \in [status     : {"PENDING_VALIDATION", "CONNECTED"}, version : Nat,
                        validateAt : Nat, syncAt : Nat, synced : BOOLEAN]
        /\ x.setup.status = "CONNECTED" /\ x.setup.version = two /\ x.setup.synced = FALSE
    <3>1. w.setup \in [status     : {"PENDING_VALIDATION", "CONNECTED"}, version : Nat,
                       validateAt : Nat, syncAt : Nat, synced : BOOLEAN]
      BY SetupShape
    <3>2. PICK s : s = [w.setup EXCEPT !.status = "CONNECTED", !.version = two]
      OBVIOUS
    <3>3. /\ s \in [status     : {"PENDING_VALIDATION", "CONNECTED"}, version : Nat,
                    validateAt : Nat, syncAt : Nat, synced : BOOLEAN]
          /\ s.status = "CONNECTED" /\ s.version = two /\ s.synced = FALSE
      BY <2>3, <3>1, <3>2
    <3>4. x = [w EXCEPT !.setup = s]
      BY <2>2, <3>2 DEF WorldType
    <3> QED
      BY <3>3, <3>4 DEF WorldType, Setups
  <2>5. r \in Records /\ r.type = "brokerage_connection" /\ r.status = "CONNECTED"
    BY <2>2 DEF Record, Records, RecordTypes, Statuses, None
  <2>6. u = Announce(x, r, two)
    BY <1>2, <2>1, <2>2, <2>3 DEF Validate
  <2>7. /\ u \in WorldType /\ StepsTold(u.log) /\ Len(u.log) = 2
        /\ u.setup = x.setup /\ Moved(u, x)
    <3>1. <<r.type, r.status, two>> = SetupSteps[two]
      BY <2>1, <2>5 DEF SetupSteps
    <3>2. /\ two = Len(x.log) + 1 /\ StepsTold(x.log) /\ x \in WorldType
          /\ two \in Nat /\ r \in Records
      <4>1. two = Len(x.log) + 1
        <5>1. Len(x.log) = one /\ two = one + 1
          BY <2>1, <2>3, <2>4
        <5> QED
          BY ONLY <5>1
      <4>2. StepsTold(x.log)
        BY <2>3, <2>4 DEF StepsTold
      <4> QED
        BY <2>1, <2>4, <2>5, <4>1, <4>2
    <3>3. Stepped(u, x, two)
      BY ONLY <2>6, <3>1, <3>2, AnnounceStep
    <3> QED
      BY <2>1, <3>3 DEF Stepped
  <2>8. Moved(u, w)
    BY <2>4, <2>7 DEF Moved, Extends, AllTold, Told
  <2>9. InvitedInv(u)
    BY <2>1, <2>4, <2>7, ShapeSetup
  <2>10. u.setup # NoSetup
    BY <2>4, <2>7 DEF NoSetup
  <2> QED
    BY <2>7, <2>8, <2>9, <2>10
<1> QED
  BY <1>1, <1>2

LEMMA FirstSyncKeeps ==
  ASSUME NEW w \in WorldType, InvitedInv(w), w.setup # NoSetup,
         NEW u, u = FirstSync(w)
  PROVE  u \in WorldType /\ InvitedInv(u) /\ Moved(u, w)
<1> DEFINE setups == [status     : {"PENDING_VALIDATION", "CONNECTED"}, version : Nat,
                      validateAt : Nat, syncAt : Nat, synced : BOOLEAN]
           due == w.setup.status = "CONNECTED" /\ ~w.setup.synced /\ clock >= w.setup.syncAt
<1>1. CASE ~due
  BY <1>1, MovedNot DEF FirstSync
<1>2. CASE due
  <2>1. PICK one \in Nat, three \in Nat, four \in Nat, five \in Nat :
            one = 1 /\ three = 3 /\ four = 4 /\ five = 5
    OBVIOUS
  <2>2. /\ Len(w.log) = 2 /\ w.setup.version = 2 /\ StepsTold(w.log)
        /\ w.setup \in setups
    BY <1>2, SetupShape
  <2>3. PICK s : s = [w.setup EXCEPT !.synced = TRUE, !.version = three]
    OBVIOUS
  <2>4. /\ s \in setups /\ s.status = "CONNECTED" /\ s.version = three /\ s.synced = TRUE
    BY <1>2, <2>2, <2>3
  <2>5. PICK x, x1, x2, y, r1, r2, r3 :
            /\ x = [w EXCEPT !.setup = s]
            /\ r1 = Record("brokerage_sync", "COMPLETE", None)
            /\ r2 = Record("valuation", "READY", None)
            /\ r3 = Record("recommendation", "CURRENT", None)
            /\ x1 = Announce(x, r1, three)
            /\ x2 = Announce(x1, r2, one)
            /\ y = [x2 EXCEPT !.advice = Append(@, "CURRENT")]
    OBVIOUS
  <2>6. u = Announce(y, r3, one)
    <3>1. [w EXCEPT !.setup.synced = TRUE, !.setup.version = three] = x
      BY <2>3, <2>5 DEF WorldType
    <3>2. w.setup.version + 1 = three
      BY <2>1, <2>2
    <3>3. u = Announce([Announce(Announce([w EXCEPT !.setup.synced = TRUE,
                                                    !.setup.version = w.setup.version + 1],
                                          Record("brokerage_sync", "COMPLETE", None),
                                          w.setup.version + 1),
                                 Record("valuation", "READY", None), 1)
                           EXCEPT !.advice = Append(@, "CURRENT")],
                       Record("recommendation", "CURRENT", None), 1)
      BY <1>2 DEF FirstSync
    <3> QED
      BY <2>1, <2>5, <3>1, <3>2, <3>3
  <2>7. /\ x \in WorldType /\ x.log = w.log /\ x.records = w.records
        /\ x.preferences = w.preferences /\ x.setup = s
    BY <2>4, <2>5 DEF WorldType, Setups
  <2>8. /\ r1 \in Records /\ r1.type = "brokerage_sync" /\ r1.status = "COMPLETE"
        /\ r2 \in Records /\ r2.type = "valuation" /\ r2.status = "READY"
        /\ r3 \in Records /\ r3.type = "recommendation" /\ r3.status = "CURRENT"
    BY <2>5 DEF Record, Records, RecordTypes, Statuses, None
  <2>9. /\ x1 \in WorldType /\ StepsTold(x1.log) /\ Len(x1.log) = three
        /\ x1.setup = s /\ Moved(x1, x)
    <3>1. <<r1.type, r1.status, three>> = SetupSteps[three]
      BY <2>1, <2>8 DEF SetupSteps
    <3>2. /\ three = Len(x.log) + 1 /\ StepsTold(x.log) /\ x \in WorldType
          /\ three \in Nat /\ three \in Nat /\ r1 \in Records
      <4>1. three = Len(x.log) + 1
        <5>1. Len(x.log) = 2 /\ three = 2 + 1
          BY <2>1, <2>2, <2>7
        <5> QED
          BY ONLY <5>1
      <4>2. StepsTold(x.log)
        BY <2>2, <2>7 DEF StepsTold
      <4> QED
        BY <2>1, <2>7, <2>8, <4>1, <4>2
    <3>3. x1 = Announce(x, r1, three)
      BY <2>5
    <3>4. Stepped(x1, x, three)
      BY ONLY <3>1, <3>2, <3>3, AnnounceStep
    <3> QED
      BY <2>1, <2>7, <3>4 DEF Stepped
  <2>10. /\ x2 \in WorldType /\ StepsTold(x2.log) /\ Len(x2.log) = four
         /\ x2.setup = s /\ Moved(x2, x1)
    <3>1. <<r2.type, r2.status, one>> = SetupSteps[four]
      BY <2>1, <2>8 DEF SetupSteps
    <3>2. /\ four = Len(x1.log) + 1 /\ StepsTold(x1.log) /\ x1 \in WorldType
          /\ four \in Nat /\ one \in Nat /\ r2 \in Records
      BY <2>1, <2>7, <2>9, <2>8
    <3>3. x2 = Announce(x1, r2, one)
      BY <2>5
    <3>4. Stepped(x2, x1, four)
      BY ONLY <3>1, <3>2, <3>3, AnnounceStep
    <3> QED
      BY <2>1, <2>9, <3>4 DEF Stepped
  <2>11. /\ y \in WorldType /\ y.log = x2.log /\ y.records = x2.records
         /\ y.preferences = x2.preferences /\ y.setup = s
    <3>1. Append(x2.advice, "CURRENT") \in Seq(Statuses)
      BY <2>10, AppendProperties DEF WorldType, Statuses
    <3>2. PICK more : more = Append(x2.advice, "CURRENT")
      OBVIOUS
    <3>3. y = [x2 EXCEPT !.advice = more]
      BY <2>5, <3>2
    <3> QED
      BY ONLY <2>10, <3>1, <3>2, <3>3 DEF WorldType
  <2>12. /\ u \in WorldType /\ StepsTold(u.log) /\ Len(u.log) = five
         /\ u.setup = s /\ Moved(u, y)
    <3>1. <<r3.type, r3.status, one>> = SetupSteps[five]
      BY <2>1, <2>8 DEF SetupSteps
    <3>2. /\ five = Len(y.log) + 1 /\ StepsTold(y.log) /\ y \in WorldType
          /\ five \in Nat /\ one \in Nat /\ r3 \in Records
      <4>1. five = Len(y.log) + 1
        <5>1. Len(y.log) = four /\ five = four + 1
          BY <2>1, <2>10, <2>11
        <5> QED
          BY ONLY <5>1
      <4>2. StepsTold(y.log)
        BY <2>10, <2>11 DEF StepsTold
      <4> QED
        BY <2>1, <2>11, <2>8, <4>1, <4>2
    <3>3. u = Announce(y, r3, one)
      BY <2>6
    <3>4. Stepped(u, y, five)
      BY ONLY <3>1, <3>2, <3>3, AnnounceStep
    <3> QED
      BY <2>1, <2>11, <3>4 DEF Stepped
  <2>13. Moved(x, w) /\ Moved(y, x2)
    <3>1. Len(w.log) \in Nat /\ Len(x2.log) \in Nat
      BY <2>10, LenProperties DEF WorldType
    <3> QED
      BY <2>7, <2>11, <3>1 DEF Moved, Extends, AllTold, Told
  <2>14. Moved(x1, w)
    BY <2>7, <2>9, <2>13, MovedTwice
  <2>15. Moved(x2, w)
    BY <2>9, <2>10, <2>14, MovedTwice
  <2>16. Moved(y, w)
    BY <2>10, <2>11, <2>13, <2>15, MovedTwice
  <2>17. Moved(u, w)
    BY <2>11, <2>12, <2>16, MovedTwice
  <2>18. InvitedInv(u)
    BY <2>1, <2>4, <2>12, ShapeSetup
  <2> QED
    BY <2>12, <2>17, <2>18
<1> QED
  BY <1>1, <1>2

LEMMA TickSetupKeeps ==
  ASSUME NEW w \in WorldType, InvitedInv(w), NEW u, u = TickSetup(w)
  PROVE  u \in WorldType /\ InvitedInv(u) /\ Moved(u, w)
<1>1. CASE w.setup = NoSetup
  BY <1>1, MovedNot DEF TickSetup
<1>2. CASE w.setup # NoSetup
  <2>1. PICK v : v = Validate(w)
    OBVIOUS
  <2>2. v \in WorldType /\ InvitedInv(v) /\ v.setup # NoSetup /\ Moved(v, w)
    BY <1>2, <2>1, ValidateKeeps
  <2>3. u = FirstSync(v)
    BY <1>2, <2>1 DEF TickSetup
  <2>4. u \in WorldType /\ InvitedInv(u) /\ Moved(u, v)
    BY <2>2, <2>3, FirstSyncKeeps
  <2> QED
    BY <2>2, <2>4, MovedTwice
<1> QED
  BY <1>1, <1>2

(* A tick, whoever's the world is, keeps what is true of it.                 *)
LEMMA TickKeeps ==
  ASSUME NEW w, WorldInv(w), Len(SeedLog) \in Nat, clock \in Nat, NEW u, u = Tick(w)
  PROVE  WorldInv(u) /\ Extends(u, w)
<1>1. w \in WorldType
  BY DEF WorldInv
<1>2. CASE persona = "invited"
  BY <1>1, <1>2, TickSetupKeeps DEF WorldInv, Tick, Moved
<1>3. CASE persona # "invited"
  BY <1>1, <1>3, TickAdmittedKeeps DEF WorldInv, Tick, Moved
<1> QED
  BY <1>2, <1>3

-----------------------------------------------------------------------------
(* The history an admitted world is built with. *)

LEMMA OrdersType ==
  ASSUME NEW start \in Nat, start >= 1, NEW plan \in Nat, NEW working \in BOOLEAN,
         NEW legs \in Nat
  PROVE  OrdersAndFills(start, plan, working, legs) \in Seq(Records)
<1>1. PICK open \in 0..legs : open = IF working THEN Min({2, legs}) ELSE 0
  BY MinTwo
<1>2. PICK one, two :
          /\ one = [i \in 1..open |-> Record("order", "WORKING", plan)]
          /\ two = [i \in 1..2 * (legs - open) |->
                       IF i % 2 = 1 THEN Record("order", "FILLED", plan)
                                    ELSE Record("fill", "SETTLED", start + open + i - 2)]
  OBVIOUS
<1>3. OrdersAndFills(start, plan, working, legs) = one \o two
  BY <1>1, <1>2 DEF OrdersAndFills
<1>4. /\ {"order", "fill"} \subseteq RecordTypes
      /\ {"WORKING", "FILLED", "SETTLED"} \subseteq Statuses
  BY DEF RecordTypes, Statuses
<1>5. one \in Seq(Records)
  <2>1. PICK r : r = Record("order", "WORKING", plan)
    OBVIOUS
  <2>2. r \in Records
    BY <1>4, <2>1, RecordType
  <2>3. one = [i \in 1..open |-> r] /\ open \in Nat
    BY <1>1, <1>2, <2>1
  <2> QED
    BY ONLY <2>2, <2>3
<1>6. two \in Seq(Records)
  <2>1. 2 * (legs - open) \in Nat
    BY <1>1
  <2>2. ASSUME NEW i \in 1..2 * (legs - open)
        PROVE  (IF i % 2 = 1 THEN Record("order", "FILLED", plan)
                             ELSE Record("fill", "SETTLED", start + open + i - 2)) \in Records
    <3>1. CASE i % 2 = 1
      BY <1>4, <3>1, RecordType
    <3>2. CASE i % 2 # 1
      <4>1. PICK k \in Nat : k = start + open + i - 2
        BY <1>1, <3>2
      <4>2. Record("fill", "SETTLED", k) \in Records
        BY <1>4, RecordType
      <4> QED
        BY <3>2, <4>1, <4>2
    <3> QED
      BY <3>1, <3>2
  <2> QED
    BY <1>2, <2>1, <2>2, IsASeq
<1> QED
  BY <1>3, <1>5, <1>6, ConcatProperties

LEMMA ChainType ==
  ASSUME NEW start \in Nat, start >= 1, NEW status \in Statuses, NEW deny \in BOOLEAN,
         NEW working \in BOOLEAN, NEW legs \in Nat
  PROVE  ExecutionChain(start, status, deny, working, legs) \in Seq(Records)
<1>1. PICK second \in Nat, third \in Nat, fourth \in Nat, zero \in Nat :
          /\ second = start + 1 /\ third = start + 3 /\ fourth = start + 4
          /\ zero = None /\ third >= 1 /\ fourth >= 1
  BY DEF None
<1>2. PICK next \in Nat : next = start + 2
  OBVIOUS
<1>3. PICK a, b, c, d, e, f :
          /\ a = Record("recommendation", status, zero)
          /\ b = Record("account_intent", "CREATED", start)
          /\ c = Record("risk_decision", "DENIED", second)
          /\ d = Record("risk_decision", "APPROVED", second)
          /\ e = Record("execution_plan", "PUBLISHED", next)
          /\ f = Record("reconciliation", "CLEAR", zero)
  OBVIOUS
<1>4. {a, b, c, d, e, f} \subseteq Records
  <2>1. /\ {"recommendation", "account_intent", "risk_decision", "execution_plan",
            "reconciliation"} \subseteq RecordTypes
        /\ {"CREATED", "DENIED", "APPROVED", "PUBLISHED", "CLEAR"} \subseteq Statuses
    BY DEF RecordTypes, Statuses
  <2> QED
    BY <1>1, <1>2, <1>3, <2>1 DEF Record, Records
<1>5. PICK orders : orders = OrdersAndFills(fourth, third, working, legs)
  OBVIOUS
<1>6. orders \in Seq(Records)
  BY <1>1, <1>5, OrdersType
<1>7. /\ <<a, b>> \in Seq(Records) /\ <<c>> \in Seq(Records) /\ <<d, e>> \in Seq(Records)
      /\ <<f>> \in Seq(Records)
  BY <1>4
<1>8. CASE deny
  <2>1. ExecutionChain(start, status, deny, working, legs) = <<a, b>> \o <<c>>
    BY <1>1, <1>3, <1>8 DEF ExecutionChain
  <2> QED
    BY <1>7, <2>1, ConcatProperties
<1>9. CASE ~deny
  <2>1. ExecutionChain(start, status, deny, working, legs)
          = <<a, b>> \o <<d, e>> \o orders \o <<f>>
    BY <1>1, <1>2, <1>3, <1>5, <1>9 DEF ExecutionChain
  <2>2. <<a, b>> \o <<d, e>> \in Seq(Records)
    BY <1>7, ConcatProperties
  <2>3. <<a, b>> \o <<d, e>> \o orders \in Seq(Records)
    BY <1>6, <2>2, ConcatProperties
  <2> QED
    BY <1>7, <2>1, <2>3, ConcatProperties
<1> QED
  BY <1>8, <1>9

(* What a history is: a day for each record.                                 *)
IsHistory(h) ==
  /\ h.records \in Seq(Records) /\ h.days \in Seq(Nat)
  /\ Len(h.days) = Len(h.records)

LEMMA HistoryGrows ==
  ASSUME NEW h, IsHistory(h), NEW steps \in Seq(Records), NEW day \in Nat,
         NEW g, g = [records |-> h.records \o steps,
                     days    |-> h.days \o [i \in DOMAIN steps |-> day]]
  PROVE  IsHistory(g)
<1>1. PICK n \in Nat : DOMAIN steps = 1..n /\ n = Len(steps)
  BY LenProperties
<1>2. PICK days : days = [i \in DOMAIN steps |-> day]
  OBVIOUS
<1>3. days \in Seq(Nat) /\ Len(days) = Len(steps)
  <2>1. days = [i \in 1..n |-> day]
    BY <1>1, <1>2
  <2>2. days \in Seq(Nat) /\ Len(days) = n
    BY ONLY <2>1, n \in Nat, day \in Nat
  <2> QED
    BY <1>1, <2>2
<1>4. /\ h.records \o steps \in Seq(Records)
      /\ Len(h.records \o steps) = Len(h.records) + Len(steps)
      /\ h.days \o days \in Seq(Nat) /\ Len(h.days \o days) = Len(h.days) + Len(days)
  BY <1>3, ConcatProperties DEF IsHistory
<1>5. g.records = h.records \o steps /\ g.days = h.days \o days
  BY <1>2
<1> QED
  BY <1>3, <1>4, <1>5 DEF IsHistory

LEMMA LegsType == Legs \in Nat /\ FirstFill \in Nat /\ NextFill \in Nat
                  /\ ValidateAfter \in Nat /\ SyncAfter \in Nat
BY DemoAssumption DEF DemoAssumption

LEMMA SetupHistoryType == IsHistory(SetupHistory)
<1> DEFINE record(type, status) == Record(type, status, None)
<1>1. ASSUME NEW type \in RecordTypes, NEW status \in Statuses
      PROVE  record(type, status) \in Records
  BY RecordType DEF None
<1>2. /\ {"consent_receipt", "compliance_profile_attestation", "brokerage_connection",
          "brokerage_sync", "preference", "allocation", "action_receipt",
          "trading_control"} \subseteq RecordTypes
      /\ {"ACTIVE", "ACCEPTED", "CONNECTED", "COMPLETED", "APPLIED", "NORMAL"}
           \subseteq Statuses
  BY DEF RecordTypes, Statuses
<1>3. SetupHistory.days \in Seq(Nat) /\ Len(SetupHistory.days) = 8
  BY DEF SetupHistory
<1>4. SetupHistory.records = <<record("consent_receipt", "ACTIVE"),
                               record("compliance_profile_attestation", "ACCEPTED"),
                               record("brokerage_connection", "CONNECTED"),
                               record("brokerage_sync", "COMPLETED"),
                               record("preference", "APPLIED"),
                               record("allocation", "ACTIVE"),
                               record("action_receipt", "APPLIED"),
                               record("trading_control", "NORMAL")>>
  BY DEF SetupHistory
<1> HIDE DEF record
<1>5. SetupHistory.records \in Seq(Records) /\ Len(SetupHistory.records) = 8
  BY <1>1, <1>2, <1>4
<1> QED
  BY <1>3, <1>5 DEF IsHistory

LEMMA ValuedHistoryType == IsHistory(ValuedHistory)
<1>1. PICK r, vs, days :
          /\ r = Record("valuation", "READY", None)
          /\ vs = [i \in 1..5 |-> r] /\ days = [i \in 1..5 |-> 10 * i]
  OBVIOUS
<1>2. r \in Records
  BY <1>1 DEF Record, Records, RecordTypes, Statuses, None
<1>3. vs \in Seq(Records) /\ Len(vs) = 5
  BY <1>1, <1>2
<1>4. days \in Seq(Nat) /\ Len(days) = 5
  BY <1>1
<1>5. PICK s, d : s = SetupHistory.records /\ d = SetupHistory.days
  OBVIOUS
<1>6. s \in Seq(Records) /\ d \in Seq(Nat) /\ Len(d) = Len(s) /\ Len(s) \in Nat
  BY <1>5, SetupHistoryType, LenProperties DEF IsHistory
<1>7. s \o vs \in Seq(Records) /\ Len(s \o vs) = Len(s) + Len(vs)
  BY ONLY <1>3, <1>6, ConcatProperties
<1>8. d \o days \in Seq(Nat) /\ Len(d \o days) = Len(d) + Len(days)
  BY ONLY <1>4, <1>6, ConcatProperties
<1>9. ValuedHistory.records = s \o vs /\ ValuedHistory.days = d \o days
  BY <1>1, <1>5 DEF ValuedHistory
<1> QED
  BY <1>3, <1>4, <1>6, <1>7, <1>8, <1>9 DEF IsHistory

LEMMA AdvisedType ==
  ASSUME NEW h, IsHistory(h), NEW a, a.status \in Statuses, a.day \in Nat
  PROVE  IsHistory(Advised(h, a))
<1>1. PICK start \in Nat : start = Len(h.records) + 1 /\ start >= 1
  BY LenProperties DEF IsHistory
<1>2. PICK deny \in BOOLEAN, working \in BOOLEAN :
          deny = (a.status = "BLOCKED") /\ working = (a.status = "CURRENT")
  OBVIOUS
<1>3. PICK steps : steps = ExecutionChain(start, a.status, deny, working, Legs)
  OBVIOUS
<1>4. steps \in Seq(Records)
  BY <1>1, <1>3, LegsType, ChainType
<1>5. Advised(h, a) = [records |-> h.records \o steps,
                       days    |-> h.days \o [i \in DOMAIN steps |-> a.day]]
  BY <1>1, <1>2, <1>3 DEF Advised
<1> QED
  BY <1>4, <1>5, HistoryGrows

LEMMA SeedHistoryType == IsHistory(SeedHistory)
<1>1. \A i \in 1..3 : SeedAdvice[i].status \in Statuses /\ SeedAdvice[i].day \in Nat
  BY DEF SeedAdvice, Statuses
<1>2. IsHistory(AdvisedHistory)
  BY <1>1, ValuedHistoryType, AdvisedType DEF AdvisedHistory
<1>3. PICK r, one, day :
          r = Record("brokerage_sync", "COMPLETED", None) /\ one = <<r>> /\ day = <<59>>
  OBVIOUS
<1>4. r \in Records
  BY <1>3 DEF Record, Records, RecordTypes, Statuses, None
<1>5. one \in Seq(Records) /\ Len(one) = 1 /\ day \in Seq(Nat) /\ Len(day) = 1
  BY <1>3, <1>4
<1>6. PICK s, d : s = AdvisedHistory.records /\ d = AdvisedHistory.days
  OBVIOUS
<1>7. s \in Seq(Records) /\ d \in Seq(Nat) /\ Len(d) = Len(s)
  BY <1>2, <1>6 DEF IsHistory
<1>8. s \o one \in Seq(Records) /\ Len(s \o one) = Len(s) + Len(one)
  BY ONLY <1>5, <1>7, ConcatProperties
<1>9. d \o day \in Seq(Nat) /\ Len(d \o day) = Len(d) + Len(day)
  BY ONLY <1>5, <1>7, ConcatProperties
<1>10. SeedHistory.records = s \o one /\ SeedHistory.days = d \o day
  BY <1>3, <1>6 DEF SeedHistory
<1> QED
  BY <1>5, <1>7, <1>8, <1>9, <1>10 DEF IsHistory

\* The records no later than record n.
Upto(n, N, days) == {m \in 1..N : days[m] < days[n] \/ (days[m] = days[n] /\ m <= n)}

\* place numbers the records by date.
Places(place, N, days) == place = [n \in 1..N |-> Cardinality(Upto(n, N, days))]

OneToOne(place, N) ==
  /\ place \in [1..N -> 1..N]
  /\ \A m, n \in 1..N : place[m] = place[n] => m = n
  /\ \A k \in 1..N : \E n \in 1..N : place[n] = k

(* Ordering records by date numbers them 1 .. N.                             *)
LEMMA PlacesOneToOne ==
  ASSUME NEW N \in Nat, NEW days \in Seq(Nat), Len(days) = N,
         NEW place, Places(place, N, days)
  PROVE  OneToOne(place, N)
<1> DEFINE upto(n) == Upto(n, N, days)
           Less(m, n) == days[m] < days[n] \/ (days[m] = days[n] /\ m < n)
<1>0. \A n \in 1..N : days[n] \in Nat
  BY ElementOfSeq
<1>1. IsFiniteSet(1..N) /\ Cardinality(1..N) = N
  BY FS_Interval
<1>2. ASSUME NEW n \in 1..N
      PROVE  IsFiniteSet(upto(n)) /\ Cardinality(upto(n)) \in 1..N /\ n \in upto(n)
  <2>1. upto(n) \subseteq 1..N /\ n \in upto(n)
    BY DEF Upto
  <2> HIDE DEF upto
  <2>2. IsFiniteSet(upto(n)) /\ Cardinality(upto(n)) <= N
    BY <1>1, <2>1, FS_Subset
  <2>3. Cardinality(upto(n)) \in Nat /\ Cardinality(upto(n)) # 0
    BY <2>1, <2>2, FS_CardinalityType, FS_EmptySet
  <2> QED
    BY <2>1, <2>2, <2>3
<1>3. ASSUME NEW m \in 1..N, NEW n \in 1..N, Less(m, n)
      PROVE  Cardinality(upto(m)) # Cardinality(upto(n))
  <2>1. upto(m) \subseteq upto(n) /\ n \notin upto(m)
    <3>1. ASSUME NEW k \in upto(m) PROVE k \in upto(n)
      <4>1. k \in 1..N /\ days[k] \in Nat /\ days[m] \in Nat /\ days[n] \in Nat
        BY <1>0 DEF Upto
      <4> QED
        BY <1>3, <4>1 DEF Upto
    <3>2. n \notin upto(m)
      BY <1>3 DEF Upto
    <3> QED
      BY <3>1, <3>2
  <2>2. n \in upto(n) /\ IsFiniteSet(upto(n))
    BY <1>2
  <2> HIDE DEF upto
  <2> QED
    BY <2>1, <2>2, FS_Subset
<1>4. place = [n \in 1..N |-> Cardinality(upto(n))]
  BY DEF Places
<1>5. ASSUME NEW m \in 1..N, NEW n \in 1..N, m # n PROVE Less(m, n) \/ Less(n, m)
  <2>1. days[m] \in Nat /\ days[n] \in Nat
    BY <1>0
  <2> QED
    BY <1>5, <2>1
<1> HIDE DEF upto, Less
<1>6. place \in [1..N -> 1..N]
  BY <1>2, <1>4
<1>7. \A m, n \in 1..N : place[m] = place[n] => m = n
  BY <1>3, <1>4, <1>5
<1>8. ASSUME NEW k \in 1..N PROVE \E n \in 1..N : place[n] = k
  <2>1. PICK S, C : S = 1..N /\ C = N
    OBVIOUS
  <2>2. /\ IsFiniteSet(S) /\ C = Cardinality(S) /\ k \in 1..Cardinality(S)
        /\ place \in [S -> 1..Cardinality(S)]
        /\ \A x, y \in S : place[x] = place[y] => x = y
    BY <1>1, <1>6, <1>7, <2>1
  <2>3. \E x \in S : place[x] = k
    BY ONLY <2>2, NumberingOnto
  <2> QED
    BY <2>1, <2>3
<1> QED
  BY <1>6, <1>7, <1>8 DEF OneToOne

\* The event an admitted world starts with about record n.
SeedEvent(n) == [type    |-> SeedRecords[n].type,   record  |-> n,
                 status  |-> SeedRecords[n].status, version |-> 1]

(* The log of a new world has one event for each record, in some order.      *)
LEMMA SeedLogTells ==
  /\ SeedRecords \in Seq(Records) /\ SeedLog \in Seq(Events)
  /\ Len(SeedLog) = Len(SeedRecords) /\ Len(SeedLog) \in Nat
  /\ \A i \in DOMAIN SeedLog :
        SeedLog[i].record \in DOMAIN SeedRecords /\ SeedLog[i] = SeedEvent(SeedLog[i].record)
  /\ \A i, j \in DOMAIN SeedLog : SeedLog[i].record = SeedLog[j].record => i = j
  /\ \A n \in DOMAIN SeedRecords : \E i \in DOMAIN SeedLog : SeedLog[i].record = n
<1>1. PICK N \in Nat : N = Len(SeedRecords) /\ DOMAIN SeedRecords = 1..N
  BY SeedHistoryType, LenProperties DEF IsHistory, SeedRecords
<1>2. PICK days : days = SeedHistory.days
  OBVIOUS
<1>3. days \in Seq(Nat) /\ Len(days) = N
  BY <1>1, <1>2, SeedHistoryType DEF IsHistory, SeedRecords
<1>4. PICK place : place = [n \in 1..N |-> SeedPlace(n)]
  OBVIOUS
<1>5. Places(place, N, days)
  <2>1. DOMAIN days = 1..N
    BY <1>3, LenProperties
  <2>2. \A n \in 1..N : SeedPlace(n) = Cardinality(Upto(n, N, days))
    BY <1>2, <2>1 DEF SeedPlace, Upto
  <2> QED
    BY <1>4, <2>2 DEF Places
<1>6. /\ place \in [1..N -> 1..N]
      /\ \A m, n \in 1..N : place[m] = place[n] => m = n
      /\ \A k \in 1..N : \E n \in 1..N : place[n] = k
  <2>1. OneToOne(place, N)
    BY ONLY <1>3, <1>5, N \in Nat, PlacesOneToOne
  <2> QED
    BY <2>1, Zenon DEF OneToOne
<1> DEFINE at(i) == CHOOSE n \in 1..N : SeedPlace(n) = i
<1>7. ASSUME NEW i \in 1..N PROVE at(i) \in 1..N /\ place[at(i)] = i
  <2>1. \E n \in 1..N : SeedPlace(n) = i
    BY <1>4, <1>6
  <2>2. at(i) \in 1..N /\ SeedPlace(at(i)) = i
    BY <2>1
  <2> QED
    BY <1>4, <2>2
<1>8. SeedLog = [i \in 1..N |-> SeedEvent(at(i))]
  BY <1>1 DEF SeedLog, SeedEvent
<1> HIDE DEF at
<1>9. SeedRecords \in Seq(Records)
  BY SeedHistoryType DEF IsHistory, SeedRecords
<1>10. ASSUME NEW n \in 1..N PROVE SeedEvent(n) \in Events /\ SeedEvent(n).record = n
  <2>1. SeedRecords[n] \in Records
    BY <1>1, <1>9, ElementOfSeq
  <2> QED
    BY <2>1 DEF SeedEvent, Records, Events
<1>11. /\ SeedLog \in Seq(Events) /\ DOMAIN SeedLog = 1..N /\ Len(SeedLog) = N
       /\ \A i \in 1..N : SeedLog[i].record = at(i) /\ SeedLog[i] = SeedEvent(at(i))
  <2>1. \A i \in 1..N : SeedEvent(at(i)) \in Events
    BY <1>7, <1>10
  <2>2. PICK log : log = [i \in 1..N |-> SeedEvent(at(i))]
    OBVIOUS
  <2>3. log \in Seq(Events) /\ DOMAIN log = 1..N /\ Len(log) = N
    BY <2>1, <2>2
  <2>4. \A i \in 1..N : log[i].record = at(i) /\ log[i] = SeedEvent(at(i))
    BY <1>7, <1>10, <2>2
  <2> QED
    BY <1>8, <2>2, <2>3, <2>4
<1>12. \A i, j \in 1..N : at(i) = at(j) => i = j
  BY <1>7
<1>13. ASSUME NEW n \in 1..N PROVE \E i \in 1..N : at(i) = n
  <2>1. place[n] \in 1..N
    BY <1>6
  <2>2. at(place[n]) \in 1..N /\ place[at(place[n])] = place[n]
    BY <1>7, <2>1
  <2>3. at(place[n]) = n
    BY <1>6, <2>2
  <2> QED
    BY <2>1, <2>3
<1>14. \A i \in 1..N : SeedLog[i].record \in 1..N /\ SeedLog[i] = SeedEvent(SeedLog[i].record)
  BY <1>7, <1>11
<1>15. ASSUME NEW i \in 1..N, NEW j \in 1..N, SeedLog[i].record = SeedLog[j].record
       PROVE  i = j
  <2>1. SeedLog[i].record = at(i) /\ SeedLog[j].record = at(j)
    BY <1>11
  <2> QED
    BY <1>12, <1>15, <2>1
<1>16. ASSUME NEW n \in 1..N PROVE \E i \in 1..N : SeedLog[i].record = n
  <2>1. PICK i \in 1..N : at(i) = n
    BY <1>13
  <2>2. SeedLog[i].record = n
    BY <1>11, <2>1
  <2> QED
    BY <2>2
<1> QED
  BY <1>1, <1>9, <1>11, <1>14, <1>15, <1>16

LEMMA ScheduleType ==
  ASSUME NEW records \in Seq(Records), NEW now \in Nat
  PROVE  /\ ScheduleWorkingFills(records, now) \in SUBSET [order : Nat, at : Nat]
         /\ \A f \in ScheduleWorkingFills(records, now) :
               f.order \in DOMAIN records /\ records[f.order].type = "order"
<1> DEFINE working == {n \in DOMAIN records :
                          records[n].type = "order" /\ records[n].status = "WORKING"}
<1>1. PICK N \in Nat : DOMAIN records = 1..N
  BY LenProperties
<1>2. working \subseteq 1..N /\ IsFiniteSet(1..N)
  BY <1>1, FS_Interval
<1>3. IsFiniteSet(working) /\ working \subseteq Nat
  BY <1>2, FS_Subset
<1>4. ASSUME NEW n \in working PROVE now + FirstFill + Before(n, working) * NextFill \in Nat
  <2>1. IsFiniteSet({m \in working : m < n})
    <3> HIDE DEF working
    <3>1. {m \in working : m < n} \subseteq working
      OBVIOUS
    <3> QED
      BY <1>3, <3>1, FS_Subset
  <2>2. Before(n, working) \in Nat
    BY <2>1, FS_CardinalityType DEF Before
  <2>3. Before(n, working) * NextFill \in Nat
    <3> HIDE DEF working
    <3> QED
      BY <2>2, LegsType
  <2> HIDE DEF working
  <2> QED
    BY <2>2, <2>3, LegsType
<1>5. ScheduleWorkingFills(records, now)
        = {[order |-> n, at |-> now + FirstFill + Before(n, working) * NextFill] : n \in working}
  BY DEF ScheduleWorkingFills
<1>6. ASSUME NEW f \in ScheduleWorkingFills(records, now)
      PROVE  f \in [order : Nat, at : Nat] /\ f.order \in working
  <2>1. PICK n \in working :
            f = [order |-> n, at |-> now + FirstFill + Before(n, working) * NextFill]
    BY <1>5
  <2>2. PICK k \in Nat : k = now + FirstFill + Before(n, working) * NextFill
    BY <1>4
  <2> HIDE DEF working
  <2> QED
    BY <1>3, <2>1, <2>2
<1> QED
  BY <1>6

(* A new world satisfies the invariant.                                      *)
LEMMA BuildWorldKeeps ==
  ASSUME clock \in Nat, persona \in Personas, NEW u, u = BuildWorld(persona, clock)
  PROVE  WorldInv(u)
<1>1. persona \in {"invited", "admitted"}
  BY DemoAssumption DEF DemoAssumption
<1>2. PICK empty : empty = [records |-> <<>>, log |-> <<>>, pending |-> {}, bucket |-> None,
                            setup |-> NoSetup, advice |-> <<>>, preferences |-> 1,
                            receipts |-> {}]
  OBVIOUS
<1>3. empty \in WorldType
  BY <1>2 DEF WorldType, Setups, None
<1>4. CASE persona = "invited"
  <2>1. u = empty
    BY <1>2, <1>4 DEF BuildWorld
  <2>2. InvitedInv(u)
    BY <1>2, <2>1 DEF InvitedInv, SetupReached
  <2>3. AllTold(u)
    BY <1>2, <2>1 DEF AllTold
  <2> QED
    BY <1>3, <1>4, <2>1, <2>2, <2>3 DEF WorldInv
<1>5. CASE persona = "admitted"
  <2>1. PICK advice, pending : /\ advice = [i \in DOMAIN SeedAdvice |-> SeedAdvice[i].status]
                               /\ pending = ScheduleWorkingFills(SeedRecords, clock)
    OBVIOUS
  <2>2. u = [empty EXCEPT !.advice = advice, !.records = SeedRecords, !.pending = pending,
                          !.log = SeedLog]
    BY <1>2, <1>5, <2>1 DEF BuildWorld
  <2>3. advice \in Seq(Statuses)
    BY <2>1 DEF SeedAdvice, Statuses
  <2>4. /\ pending \in SUBSET [order : Nat, at : Nat]
        /\ \A f \in pending :
              f.order \in DOMAIN SeedRecords /\ SeedRecords[f.order].type = "order"
    BY <2>1, SeedLogTells, ScheduleType
  <2>5. SeedRecords \in Seq(Records) /\ SeedLog \in Seq(Events)
    BY SeedLogTells
  <2>6. /\ u \in WorldType /\ u.records = SeedRecords /\ u.log = SeedLog
        /\ u.pending = pending /\ u.setup = NoSetup
    BY <1>2, <1>3, <2>2, <2>3, <2>4, <2>5 DEF WorldType
  <2>7. FillEvents(u.log) = {}
    BY <2>6, SeedLogTells DEF FillEvents, SeedEvent
  <2>8. AdmittedInv(u)
    <3>1. Scheduled(u)
      BY <2>4, <2>6 DEF Scheduled
    <3>2. FillsTold(u) /\ FilledOnce(u)
      BY <2>7 DEF FillsTold, FilledOnce
    <3>3. ReconciledLast(u)
      BY <2>6, SeedLogTells, LenProperties DEF ReconciledLast
    <3> QED
      BY <2>6, <3>1, <3>2, <3>3, SeedLogTells DEF AdmittedInv
  <2>9. AllTold(u)
    <3> SUFFICES ASSUME NEW n \in DOMAIN SeedRecords PROVE Told(u, n)
      BY <2>6 DEF AllTold
    <3>1. PICK i \in DOMAIN SeedLog : SeedLog[i].record = n
      BY SeedLogTells
    <3>2. \A j \in DOMAIN SeedLog : SeedLog[j].record = n => j <= i
      BY <3>1, SeedLogTells, LenProperties
    <3>3. SeedLog[i] = SeedEvent(n)
      BY <3>1, SeedLogTells
    <3>4. SeedLog[i].type = SeedRecords[n].type /\ SeedLog[i].status = SeedRecords[n].status
      BY <3>3 DEF SeedEvent
    <3> QED
      BY <2>6, <3>1, <3>2, <3>4 DEF Told
  <2> QED
    BY <1>5, <2>6, <2>8, <2>9 DEF WorldInv
<1> QED
  BY <1>1, <1>4, <1>5

-----------------------------------------------------------------------------
(* The requests. *)

\* Every world goes on, and its log after what it had.
Grown == \A g \in DOMAIN worlds : g \in DOMAIN worlds' /\ Extends(worlds'[g], worlds[g])

LEMMA ExtendsItself ==
  ASSUME NEW w \in WorldType
  PROVE  Extends(w, w)
BY LenProperties DEF Extends, WorldType

LEMMA SameOwner ==
  ASSUME persona' = persona, NEW w, WorldInv(w)
  PROVE  WorldInv(w)'
BY DEF WorldInv

LEMMA WorldForKeeps ==
  ASSUME DemoInv
  PROVE  WorldInv(WorldFor) /\ WorldFor \in WorldType
<1>1. CASE live = 0
  <2>1. PICK u : u = BuildWorld(persona, clock)
    OBVIOUS
  <2>2. WorldInv(u)
    BY <2>1, BuildWorldKeeps DEF DemoInv
  <2> QED
    BY <1>1, <2>1, <2>2 DEF WorldFor, WorldInv
<1>2. CASE live # 0
  <2>1. live \in DOMAIN worlds
    BY <1>2, LenProperties DEF DemoInv
  <2> QED
    BY <1>2, <2>1 DEF DemoInv, WorldFor, WorldInv
<1> QED
  BY <1>1, <1>2

(* A request that leaves the world as w keeps the invariant when w does.     *)
LEMMA LeaveKeeps ==
  ASSUME DemoInv, persona' = persona, clock' = clock,
         NEW w, WorldInv(w), Extends(w, WorldFor), Leave(w)
  PROVE  DemoInv' /\ Grown /\ live' \in DOMAIN worlds' /\ worlds'[live'] = w
<1>1. /\ worlds \in Seq(WorldType) /\ w \in WorldType /\ Len(worlds) \in Nat
      /\ DOMAIN worlds = 1..Len(worlds) /\ live \in 0..Len(worlds)
      /\ \A g \in DOMAIN worlds : worlds[g] \in WorldType /\ WorldInv(worlds[g])
  BY LenProperties DEF DemoInv, WorldInv
<1>2. /\ worlds' \in Seq(WorldType) /\ live' \in DOMAIN worlds'
      /\ DOMAIN worlds' = 1..Len(worlds') /\ Len(worlds') >= Len(worlds)
      /\ Len(worlds') \in Nat
      /\ \A g \in DOMAIN worlds' : worlds'[g] = IF g = live' THEN w ELSE worlds[g]
      /\ \A g \in DOMAIN worlds' : g # live' => g \in DOMAIN worlds
      /\ live' \in DOMAIN worlds => worlds[live'] = WorldFor
  <2>1. CASE live = 0
    <3>1. Longer(worlds', worlds, w) /\ live' = Len(worlds) + 1
      BY <2>1 DEF Leave, Longer
    <3>2. /\ worlds' \in Seq(WorldType) /\ Len(worlds') = Len(worlds) + 1
          /\ DOMAIN worlds' = 1..Len(worlds) + 1
          /\ \A g \in 1..Len(worlds) : worlds'[g] = worlds[g]
          /\ worlds'[Len(worlds) + 1] = w
      <4>1. worlds \in Seq(WorldType) /\ w \in WorldType /\ Longer(worlds', worlds, w)
        BY <1>1, <3>1
      <4> QED
        BY ONLY <4>1, AppendItems
    <3> QED
      BY <1>1, <3>1, <3>2
  <2>2. CASE live # 0
    <3>1. live \in 1..Len(worlds)
      BY <1>1, <2>2
    <3>2. worlds' = [worlds EXCEPT ![live] = w] /\ live' = live
      BY <2>2 DEF Leave
    <3>3. /\ worlds' \in Seq(WorldType) /\ Len(worlds') = Len(worlds)
          /\ \A g \in 1..Len(worlds) : worlds'[g] = IF g = live THEN w ELSE worlds[g]
      BY <1>1, <3>1, <3>2, ExceptSeq
    <3>4. DOMAIN worlds' = 1..Len(worlds')
      BY <3>3, LenProperties
    <3>5. worlds[live] = WorldFor
      BY <2>2 DEF WorldFor
    <3> QED
      BY <1>1, <3>1, <3>2, <3>3, <3>4, <3>5
  <2> QED
    BY <2>1, <2>2
<1>3. Grown
  <2> SUFFICES ASSUME NEW g \in DOMAIN worlds
               PROVE  g \in DOMAIN worlds' /\ Extends(worlds'[g], worlds[g])
    BY DEF Grown
  <2>1. g \in DOMAIN worlds'
    BY <1>1, <1>2
  <2>2. CASE g = live'
    BY <1>2, <2>1, <2>2
  <2>3. CASE g # live'
    BY <1>1, <1>2, <2>1, <2>3, ExtendsItself
  <2> QED
    BY <2>1, <2>2, <2>3
<1>4. ASSUME NEW g \in DOMAIN worlds' PROVE WorldInv(worlds[g])'
  <2>1. PICK v : v = worlds'[g]
    OBVIOUS
  <2>2. WorldInv(v)
    BY <1>1, <1>2, <2>1
  <2>3. WorldInv(v)'
    BY <2>2, SameOwner
  <2> QED
    BY <2>1, <2>3 DEF WorldInv
<1>5. DemoInv'
  BY <1>1, <1>2, <1>4 DEF DemoInv
<1> QED
  BY <1>2, <1>3, <1>5

LEMMA SameSetupOtherTimes ==
  ASSUME NEW w \in WorldType, InvitedInv(w), w.setup # NoSetup,
         NEW a \in Nat, NEW b \in Nat,
         NEW u, u = [w EXCEPT !.setup = [w.setup EXCEPT !.validateAt = a, !.syncAt = b]]
  PROVE  u \in WorldType /\ InvitedInv(u) /\ u.log = w.log /\ Moved(u, w)
<1> DEFINE setups == [status     : {"PENDING_VALIDATION", "CONNECTED"}, version : Nat,
                      validateAt : Nat, syncAt : Nat, synced : BOOLEAN]
<1>1. w.setup \in setups /\ StepsTold(w.log)
  BY SetupShape
<1>2. PICK s : s = [w.setup EXCEPT !.validateAt = a, !.syncAt = b]
  OBVIOUS
<1>3. /\ s \in setups /\ s.status = w.setup.status /\ s.version = w.setup.version
      /\ s.synced = w.setup.synced
  BY <1>1, <1>2
<1>4. /\ u \in WorldType /\ u.setup = s /\ u.log = w.log /\ u.records = w.records
      /\ u.preferences = w.preferences
  BY <1>2, <1>3 DEF WorldType, Setups
<1>5. s # NoSetup
  BY <1>3 DEF NoSetup
<1>6. InvitedInv(u)
  BY <1>3, <1>4, <1>5 DEF InvitedInv, SetupReached
<1>7. Moved(u, w)
  BY <1>4, LenProperties DEF Moved, Extends, AllTold, Told, WorldType
<1> QED
  BY <1>4, <1>6, <1>7

(* More records, the log as it was: what the log tells stays true.           *)
LEMMA RecordsAdded ==
  ASSUME NEW w \in WorldType, AdmittedInv(w), NEW u \in WorldType,
         u.log = w.log, u.setup = w.setup, u.pending = w.pending,
         Len(u.records) >= Len(w.records),
         \A m \in 1..Len(w.records) : u.records[m] = w.records[m]
  PROVE  AdmittedInv(u)
<1>1. /\ DOMAIN w.records = 1..Len(w.records) /\ DOMAIN u.records = 1..Len(u.records)
      /\ Len(w.records) \in Nat /\ Len(u.records) \in Nat
  BY LenProperties DEF WorldType
<1>2. \A m \in DOMAIN w.records : m \in DOMAIN u.records /\ u.records[m] = w.records[m]
  BY <1>1
<1>3. Scheduled(u)
  BY <1>2 DEF AdmittedInv, Scheduled
<1>4. FillsTold(u)
  <2> SUFFICES ASSUME NEW i \in FillEvents(w.log)
               PROVE  /\ w.log[i].record \in DOMAIN u.records
                      /\ u.records[w.log[i].record].status = "FILLED"
                      /\ i + 1 \in DOMAIN w.log
                      /\ w.log[i + 1].type = "fill"
                      /\ w.log[i + 1].record \in DOMAIN u.records
                      /\ u.records[w.log[i + 1].record].related = w.log[i].record
    BY DEF FillsTold
  <2>1. /\ w.log[i].record \in DOMAIN w.records
        /\ w.records[w.log[i].record].status = "FILLED"
        /\ i + 1 \in DOMAIN w.log
        /\ w.log[i + 1].type = "fill"
        /\ w.log[i + 1].record \in DOMAIN w.records
        /\ w.records[w.log[i + 1].record].related = w.log[i].record
    BY DEF AdmittedInv, FillsTold
  <2>2. /\ w.log[i].record \in DOMAIN u.records
        /\ u.records[w.log[i].record] = w.records[w.log[i].record]
        /\ w.log[i + 1].record \in DOMAIN u.records
        /\ u.records[w.log[i + 1].record] = w.records[w.log[i + 1].record]
    BY <1>2, <2>1
  <2> QED
    BY <2>1, <2>2
<1>5. FilledOnce(u) /\ ReconciledLast(u)
  BY DEF AdmittedInv, FilledOnce, ReconciledLast
<1> QED
  BY <1>3, <1>4, <1>5 DEF AdmittedInv

LEMMA PatchKeeps ==
  ASSUME NEW w, WorldInv(w), NEW legs \in Nat,
         NEW applied, applied = Append(w.records, Record("preference", "APPLIED", None)),
         NEW retired, retired = [i \in DOMAIN w.advice |->
                                    IF w.advice[i] = "CURRENT" THEN "SUPERSEDED"
                                                               ELSE w.advice[i]],
         NEW u, u = [w EXCEPT !.preferences = w.preferences + 1,
                              !.advice      = Append(retired, "CURRENT"),
                              !.records     = applied \o ExecutionChain(Len(applied) + 1,
                                                            "CURRENT", FALSE, TRUE, legs),
                              !.receipts    = @ \cup {w.preferences + 1}]
  PROVE  WorldInv(u) /\ Extends(u, w)
<1>1. w \in WorldType
  BY DEF WorldInv
<1>2. PICK r : r = Record("preference", "APPLIED", None)
  OBVIOUS
<1>3. r \in Records
  BY <1>2 DEF Record, Records, RecordTypes, Statuses, None
<1>4. PICK p \in Nat : p = Len(w.records)
  BY <1>1, LenProperties DEF WorldType
<1>5. /\ applied \in Seq(Records) /\ Len(applied) = p + 1
      /\ \A m \in 1..p : applied[m] = w.records[m]
  <2>1. w.records \in Seq(Records) /\ Longer(applied, w.records, r)
    BY <1>1, <1>2 DEF WorldType, Longer
  <2>2. /\ applied \in Seq(Records) /\ Len(applied) = Len(w.records) + 1
        /\ \A m \in 1..Len(w.records) : applied[m] = w.records[m]
    BY ONLY <1>3, <2>1, AppendItems
  <2> QED
    BY <1>4, <2>2
<1>0. PICK start \in Nat : start = Len(applied) + 1 /\ start >= 1
  BY <1>5
<1>6. PICK links : links = ExecutionChain(start, "CURRENT", FALSE, TRUE, legs)
  OBVIOUS
<1>7. links \in Seq(Records)
  BY <1>0, <1>6, ChainType DEF Statuses
<1>8. PICK records : records = applied \o links
  OBVIOUS
<1>9. /\ records \in Seq(Records) /\ Len(records) >= p
      /\ \A m \in 1..p : records[m] = w.records[m]
  <2>1. /\ records \in Seq(Records) /\ Len(records) = Len(applied) + Len(links)
        /\ \A m \in 1..Len(applied) + Len(links) :
              records[m] = IF m <= Len(applied) THEN applied[m]
                                                ELSE links[m - Len(applied)]
    <3>1. applied \in Seq(Records) /\ links \in Seq(Records)
      BY <1>5, <1>7
    <3>2. /\ applied \o links \in Seq(Records)
          /\ Len(applied \o links) = Len(applied) + Len(links)
      BY ONLY <3>1, ConcatProperties
    <3>3. \A m \in 1..Len(applied) + Len(links) :
              (applied \o links)[m] = IF m <= Len(applied) THEN applied[m]
                                                           ELSE links[m - Len(applied)]
      BY ONLY <3>1, ConcatProperties
    <3> QED
      BY <1>8, <3>2, <3>3
  <2>2. Len(links) \in Nat /\ Len(applied) = p + 1
    BY <1>5, <1>7, LenProperties
  <2>3. \A m \in 1..p : records[m] = applied[m]
    BY ONLY <2>1, <2>2, p \in Nat
  <2> QED
    BY <1>5, <2>1, <2>2, <2>3
<1>10. PICK advice : advice = Append(retired, "CURRENT")
  OBVIOUS
<1>11. advice \in Seq(Statuses)
  <2>1. PICK n \in Nat : DOMAIN w.advice = 1..n
    BY <1>1, LenProperties DEF WorldType
  <2>2. \A i \in 1..n : w.advice[i] \in Statuses
    BY <1>1, <2>1, ElementOfSeq, LenProperties DEF WorldType
  <2>3. {"CURRENT", "SUPERSEDED"} \subseteq Statuses
    BY DEF Statuses
  <2>4. retired \in Seq(Statuses)
    <3>1. retired = [i \in 1..n |-> IF w.advice[i] = "CURRENT" THEN "SUPERSEDED"
                                                               ELSE w.advice[i]]
      BY <2>1
    <3> QED
      BY ONLY <2>2, <2>3, <3>1, n \in Nat
  <2> QED
    BY <1>10, <2>3, <2>4, AppendProperties
<1>12. PICK version \in Nat : version = w.preferences + 1 /\ version # 0 /\ version # 1
  BY <1>1 DEF WorldType
<1>13. u = [w EXCEPT !.preferences = version, !.advice = advice, !.records = records,
                     !.receipts = @ \cup {version}]
  BY <1>0, <1>6, <1>8, <1>10, <1>12
<1>14. /\ u \in WorldType /\ u.log = w.log /\ u.setup = w.setup /\ u.pending = w.pending
       /\ u.records = records /\ u.preferences = version
  <2>1. PICK receipts : receipts = w.receipts \cup {version}
    OBVIOUS
  <2>2. receipts \in SUBSET Nat /\ version \in Nat \ {0}
    BY <1>1, <1>12, <2>1 DEF WorldType
  <2>3. u = [w EXCEPT !.preferences = version, !.advice = advice, !.records = records,
                      !.receipts = receipts]
    BY <1>1, <1>13, <2>1 DEF WorldType
  <2> QED
    BY <1>1, <1>9, <1>11, <2>2, <2>3 DEF WorldType
<1>15. Extends(u, w)
  <2>1. u.log = w.log /\ Len(w.log) \in Nat
    BY <1>1, <1>14, LenProperties DEF WorldType
  <2> QED
    BY ONLY <2>1 DEF Extends
<1>16. CASE persona = "invited"
  <2>1. InvitedInv(u)
    BY <1>14, <1>16 DEF WorldInv, InvitedInv
  <2> QED
    BY <1>12, <1>14, <1>15, <1>16, <2>1 DEF WorldInv
<1>17. CASE persona # "invited"
  <2>1. AdmittedInv(w)
    BY <1>17 DEF WorldInv
  <2>2. AdmittedInv(u)
    BY <1>1, <1>4, <1>9, <1>14, <2>1, RecordsAdded
  <2> QED
    BY <1>12, <1>14, <1>15, <1>17, <2>2 DEF WorldInv
<1> QED
  BY <1>16, <1>17

(* The requests one by one.                                                  *)
LEMMA ReadLiveKeeps ==
  ASSUME DemoInv, ReadLive
  PROVE  DemoInv' /\ Grown
<1>1. PICK w : w = Tick(WorldFor)
  OBVIOUS
<1>2. WorldInv(w) /\ Extends(w, WorldFor)
  BY <1>1, WorldForKeeps, TickKeeps, SeedLogTells DEF DemoInv
<1> QED
  BY <1>1, <1>2, LeaveKeeps DEF ReadLive

LEMMA ReadStillKeeps ==
  ASSUME DemoInv, ReadStill
  PROVE  DemoInv' /\ Grown
BY WorldForKeeps, ExtendsItself, LeaveKeeps DEF ReadStill

LEMMA CreateConnectionKeeps ==
  ASSUME DemoInv, CreateConnection
  PROVE  DemoInv' /\ Grown
<1> DEFINE setups == [status     : {"PENDING_VALIDATION", "CONNECTED"}, version : Nat,
                      validateAt : Nat, syncAt : Nat, synced : BOOLEAN]
<1>1. PICK w : w = WorldFor
  OBVIOUS
<1>2. PICK one \in Nat, a \in Nat, b \in Nat :
          one = 1 /\ a = clock + ValidateAfter /\ b = clock + SyncAfter
  BY LegsType DEF DemoInv
<1>3. PICK s, x, r, u :
          /\ s = [status |-> "PENDING_VALIDATION", version |-> one, validateAt |-> a,
                  syncAt |-> b, synced |-> FALSE]
          /\ x = [w EXCEPT !.setup = s]
          /\ r = Record("brokerage_connection", "PENDING_VALIDATION", None)
          /\ u = Announce(x, r, one)
  OBVIOUS
<1>4. persona = "invited" /\ w.setup = NoSetup /\ Leave(u)
  BY <1>1, <1>2, <1>3 DEF CreateConnection
<1>5. w \in WorldType /\ InvitedInv(w) /\ (w.preferences = 1 => AllTold(w))
  BY <1>1, <1>4, WorldForKeeps DEF WorldInv
<1>6. Len(w.log) = 0 /\ StepsTold(w.log)
  BY <1>4, <1>5 DEF InvitedInv, SetupReached, StepsTold
<1>7. /\ s \in setups /\ s.status = "PENDING_VALIDATION" /\ s.version = one
      /\ s.synced = FALSE
  BY <1>3
<1>8. /\ x \in WorldType /\ x.setup = s /\ x.log = w.log /\ x.records = w.records
      /\ x.preferences = w.preferences
  BY <1>3, <1>5, <1>7 DEF WorldType, Setups
<1>9. r \in Records /\ r.type = "brokerage_connection" /\ r.status = "PENDING_VALIDATION"
  BY <1>3 DEF Record, Records, RecordTypes, Statuses, None
<1>10. Stepped(u, x, one)
  <2>1. <<r.type, r.status, one>> = SetupSteps[one]
    BY <1>2, <1>9 DEF SetupSteps
  <2>2. Len(x.log) = 0 /\ one = 0 + 1
    BY <1>2, <1>6, <1>8
  <2>3. one = Len(x.log) + 1
    BY ONLY <2>2
  <2>4. StepsTold(x.log)
    BY <1>6, <1>8 DEF StepsTold
  <2>5. u = Announce(x, r, one) /\ x \in WorldType /\ r \in Records /\ one \in Nat
    BY <1>3, <1>8, <1>9
  <2> QED
    BY ONLY <2>1, <2>3, <2>4, <2>5, AnnounceStep
<1>11. /\ u \in WorldType /\ StepsTold(u.log) /\ Len(u.log) = one /\ u.setup = s
       /\ Moved(u, x)
  BY <1>8, <1>10 DEF Stepped
<1>12. Moved(u, w)
  BY <1>8, <1>11 DEF Moved, Extends, AllTold, Told
<1>13. InvitedInv(u)
  BY <1>2, <1>7, <1>11, ShapeSetup
<1>14. WorldInv(u) /\ Extends(u, w)
  BY <1>4, <1>5, <1>11, <1>12, <1>13 DEF WorldInv, Moved
<1> QED
  BY <1>1, <1>4, <1>14, LeaveKeeps DEF CreateConnection

LEMMA SyncConnectionKeeps ==
  ASSUME DemoInv, SyncConnection
  PROVE  DemoInv' /\ Grown
<1>1. PICK w : w = WorldFor
  OBVIOUS
<1>2. /\ persona = "invited" /\ w.setup.status = "CONNECTED"
      /\ w \in WorldType /\ InvitedInv(w) /\ (w.preferences = 1 => AllTold(w))
  BY <1>1, WorldForKeeps DEF SyncConnection, WorldInv
<1>3. w.setup # NoSetup
  BY <1>2 DEF NoSetup
<1>4. PICK a \in Nat, b \in Nat : a = w.setup.validateAt /\ b = Min({w.setup.syncAt, clock})
  <2>1. w.setup.validateAt \in Nat /\ w.setup.syncAt \in Nat /\ clock \in Nat
    BY <1>2, <1>3, SetupShape DEF DemoInv
  <2> QED
    BY <2>1, MinTwo
<1>5. PICK x : x = [w EXCEPT !.setup = [w.setup EXCEPT !.validateAt = a, !.syncAt = b]]
  OBVIOUS
<1>6. x \in WorldType /\ InvitedInv(x) /\ Moved(x, w)
  BY <1>2, <1>3, <1>5, SameSetupOtherTimes
<1>7. x = [w EXCEPT !.setup.syncAt = Min({@, clock})]
  <2>1. w.setup \in [status     : {"PENDING_VALIDATION", "CONNECTED"}, version : Nat,
                     validateAt : Nat, syncAt : Nat, synced : BOOLEAN]
    BY <1>2, <1>3, SetupShape
  <2>2. [w.setup EXCEPT !.validateAt = a, !.syncAt = b] = [w.setup EXCEPT !.syncAt = b]
    BY <1>4, <2>1
  <2> QED
    BY <1>2, <1>4, <1>5, <2>2 DEF WorldType
<1>8. WorldInv(x)
  BY <1>2, <1>6 DEF WorldInv, Moved
<1>9. PICK u : u = Tick(x)
  OBVIOUS
<1>10. WorldInv(u) /\ Extends(u, x)
  BY <1>8, <1>9, TickKeeps, SeedLogTells DEF DemoInv
<1>11. Extends(u, w)
  <2>1. Len(u.log) \in Nat /\ Len(x.log) \in Nat /\ Len(w.log) \in Nat
    BY <1>2, <1>6, <1>10, LenProperties DEF WorldInv, WorldType
  <2> QED
    BY <1>6, <1>10, <2>1 DEF Moved, Extends
<1> QED
  BY <1>1, <1>7, <1>9, <1>10, <1>11, LeaveKeeps DEF SyncConnection

LEMMA ApplyPreferencePatchKeeps ==
  ASSUME DemoInv, NEW seen, NEW legs \in PatchLegs, ApplyPreferencePatch(seen, legs)
  PROVE  DemoInv' /\ Grown
<1>1. legs \in Nat
  BY DemoAssumption, LegsType DEF DemoAssumption
<1>2. PICK w : w = WorldFor
  OBVIOUS
<1>3. PICK applied, retired :
          /\ applied = Append(w.records, Record("preference", "APPLIED", None))
          /\ retired = [i \in DOMAIN w.advice |->
                           IF w.advice[i] = "CURRENT" THEN "SUPERSEDED" ELSE w.advice[i]]
  OBVIOUS
<1>4. PICK u : u = [w EXCEPT !.preferences = w.preferences + 1,
                             !.advice      = Append(retired, "CURRENT"),
                             !.records     = applied \o ExecutionChain(Len(applied) + 1,
                                                           "CURRENT", FALSE, TRUE, legs),
                             !.receipts    = @ \cup {w.preferences + 1}]
  OBVIOUS
<1>5. Leave(u)
  BY <1>2, <1>3, <1>4 DEF ApplyPreferencePatch
<1>6. WorldInv(u) /\ Extends(u, w)
  BY <1>1, <1>2, <1>3, <1>4, WorldForKeeps, PatchKeeps
<1>7. persona' = persona /\ clock' = clock
  BY DEF ApplyPreferencePatch
<1> QED
  BY <1>2, <1>5, <1>6, <1>7, LeaveKeeps

\* The scheduled fills of w, those of `first` at time now.
Sooner(w, first, now) == {IF f \in first THEN [f EXCEPT !.at = now] ELSE f : f \in w.pending}

(* The presenter's advance: other times, the same orders.                    *)
LEMMA SoonerKeeps ==
  ASSUME NEW w \in WorldType, AdmittedInv(w), NEW now \in Nat, NEW first,
         NEW due, due = Sooner(w, first, now),
         NEW u, u = [w EXCEPT !.pending = due]
  PROVE  u \in WorldType /\ AdmittedInv(u) /\ Moved(u, w)
<1>1. ASSUME NEW g \in due
      PROVE  g \in [order : Nat, at : Nat] /\ \E f \in w.pending : g.order = f.order
  <2>1. PICK f \in w.pending : g = IF f \in first THEN [f EXCEPT !.at = now] ELSE f
    BY DEF Sooner
  <2>2. f \in [order : Nat, at : Nat]
    BY DEF WorldType
  <2> QED
    BY <2>1, <2>2
<1>2. due \in SUBSET [order : Nat, at : Nat]
  BY <1>1
<1>3. /\ u \in WorldType /\ u.records = w.records /\ u.log = w.log /\ u.pending = due
      /\ u.setup = w.setup /\ u.preferences = w.preferences
  BY <1>2 DEF WorldType
<1>4. w.pending = {} => due = {}
  BY DEF Sooner
<1> HIDE DEF WorldType
<1>5. Scheduled(u)
  BY <1>1, <1>3 DEF AdmittedInv, Scheduled
<1>6. FillsTold(u) /\ FilledOnce(u)
  BY <1>3 DEF AdmittedInv, FillsTold, FilledOnce
<1>7. ReconciledLast(u)
  BY <1>3, <1>4 DEF AdmittedInv, ReconciledLast
<1>8. AdmittedInv(u)
  BY <1>3, <1>5, <1>6, <1>7 DEF AdmittedInv
<1>9. Moved(u, w)
  <2>1. Len(w.log) \in Nat
    BY LenProperties DEF WorldType
  <2> QED
    BY <1>3, <2>1 DEF Moved, Extends, AllTold, Told
<1> QED
  BY <1>3, <1>8, <1>9

LEMMA AdvanceWorldKeeps ==
  ASSUME DemoInv, NEW fills, AdvanceWorld(fills)
  PROVE  DemoInv' /\ Grown
<1>1. PICK w : w = WorldFor
  OBVIOUS
<1>2. w \in WorldType /\ WorldInv(w) /\ clock \in Nat /\ persona' = persona /\ clock' = clock
  BY <1>1, WorldForKeeps DEF DemoInv, AdvanceWorld
<1>3. ASSUME NEW x, WorldInv(x), Extends(x, w), NEW u, u = Tick(x), Leave(u)
      PROVE  DemoInv' /\ Grown
  <2>1. WorldInv(u) /\ Extends(u, x)
    BY <1>2, <1>3, TickKeeps, SeedLogTells
  <2>2. Extends(u, w)
    <3>1. Len(u.log) \in Nat /\ Len(x.log) \in Nat /\ Len(w.log) \in Nat
      BY <1>2, <1>3, <2>1, LenProperties DEF WorldInv, WorldType
    <3> QED
      BY <1>3, <2>1, <3>1 DEF Extends
  <2> QED
    BY <1>1, <1>2, <1>3, <2>1, <2>2, LeaveKeeps
<1>4. CASE persona = "invited" /\ w.setup = NoSetup
  <2>1. Leave(w)
    BY <1>1, <1>4 DEF AdvanceWorld
  <2> QED
    BY <1>1, <1>2, <2>1, ExtendsItself, LeaveKeeps
<1>5. CASE persona = "invited" /\ w.setup # NoSetup
  <2>1. InvitedInv(w) /\ (w.preferences = 1 => AllTold(w))
    BY <1>2, <1>5 DEF WorldInv
  <2>2. w.setup \in [status     : {"PENDING_VALIDATION", "CONNECTED"}, version : Nat,
                     validateAt : Nat, syncAt : Nat, synced : BOOLEAN]
    BY <1>2, <1>5, <2>1, SetupShape
  <2>3. PICK a \in Nat, b \in Nat : /\ a = Min({w.setup.validateAt, clock})
                                    /\ b = Min({w.setup.syncAt, clock})
    BY <1>2, <2>2, MinTwo
  <2>4. PICK x : x = [w EXCEPT !.setup = [w.setup EXCEPT !.validateAt = a, !.syncAt = b]]
    OBVIOUS
  <2>5. x \in WorldType /\ InvitedInv(x) /\ Moved(x, w)
    BY <1>2, <1>5, <2>1, <2>4, SameSetupOtherTimes
  <2>6. x = [w EXCEPT !.setup.validateAt = Min({@, clock}),
                      !.setup.syncAt     = Min({@, clock})]
    BY <1>2, <2>2, <2>3, <2>4 DEF WorldType
  <2>7. PICK u : u = Tick(x)
    OBVIOUS
  <2>8. Leave(u)
    BY <1>1, <1>5, <2>6, <2>7 DEF AdvanceWorld
  <2>9. WorldInv(x) /\ Extends(x, w)
    BY <1>5, <2>1, <2>5 DEF WorldInv, Moved
  <2> QED
    BY <1>3, <2>7, <2>8, <2>9
<1>6. CASE persona # "invited"
  <2>1. AdmittedInv(w) /\ (w.preferences = 1 => AllTold(w))
    BY <1>2, <1>6 DEF WorldInv
  <2>2. PICK first, due, x, u :
            /\ first = {f \in w.pending :
                           Before(f.order, {g.order : g \in w.pending}) < fills}
            /\ due = Sooner(w, first, clock)
            /\ x = [w EXCEPT !.pending = due]
            /\ u = Tick(x)
    OBVIOUS
  <2>3. Leave(u)
    <3>1. Leave(Tick([w EXCEPT !.pending =
              {IF f \in {g \in w.pending : Before(g.order, {h.order : h \in w.pending}) < fills}
               THEN [f EXCEPT !.at = clock] ELSE f : f \in w.pending}]))
      BY <1>1, <1>6 DEF AdvanceWorld
    <3> QED
      BY ONLY <2>2, <3>1 DEF Sooner
  <2>4. x \in WorldType /\ AdmittedInv(x) /\ Moved(x, w)
    BY <1>2, <2>1, <2>2, SoonerKeeps
  <2>5. WorldInv(x) /\ Extends(x, w)
    BY <1>6, <2>1, <2>4 DEF WorldInv, Moved
  <2> QED
    BY <1>3, <2>2, <2>3, <2>5
<1> QED
  BY <1>4, <1>5, <1>6

LEMMA RequestKeeps ==
  ASSUME DemoInv, Request
  PROVE  DemoInv' /\ Grown
<1>1. CASE ReadLive
  BY <1>1, ReadLiveKeeps
<1>2. CASE ReadStill
  BY <1>2, ReadStillKeeps
<1>3. CASE CreateConnection
  BY <1>3, CreateConnectionKeeps
<1>4. CASE SyncConnection
  BY <1>4, SyncConnectionKeeps
<1>5. CASE \E seen \in 1..MaxEdits + 1, legs \in PatchLegs : ApplyPreferencePatch(seen, legs)
  BY <1>5, ApplyPreferencePatchKeeps
<1>6. CASE \E fills \in 1..2 : AdvanceWorld(fills)
  BY <1>6, AdvanceWorldKeeps
<1>7. CASE ResetWorld
  <2>1. live' = 0 /\ persona' = persona /\ clock' = clock /\ worlds' = worlds
    BY <1>7 DEF ResetWorld
  <2>2. Grown
    BY <2>1, ExtendsItself DEF DemoInv, WorldInv, Grown
  <2>3. ASSUME NEW g \in DOMAIN worlds PROVE WorldInv(worlds[g])'
    BY <2>1 DEF DemoInv, WorldInv
  <2>4. DemoInv'
    BY <2>1, <2>3, LenProperties DEF DemoInv
  <2> QED
    BY <2>2, <2>4
<1> QED
  BY <1>1, <1>2, <1>3, <1>4, <1>5, <1>6, <1>7 DEF Request

LEMMA StandsStill ==
  ASSUME DemoInv, UNCHANGED <<persona, worlds, live>>, clock' \in Nat
  PROVE  DemoInv' /\ Grown
<1>1. ASSUME NEW g \in DOMAIN worlds PROVE WorldInv(worlds[g])'
  BY DEF DemoInv, WorldInv
<1>2. Grown
  BY ExtendsItself DEF DemoInv, WorldInv, Grown
<1> QED
  BY <1>1, <1>2 DEF DemoInv

-----------------------------------------------------------------------------
(* The stream. *)

(* Whatever makes the worlds go on leaves what is true of a stream alone.     *)
LEMMA WorldsGoOn ==
  ASSUME DemoInv, StreamInv, Grown, DemoInv', UNCHANGED <<stream, wire, lastId, received>>
  PROVE  StreamInv'
<1>1. /\ DOMAIN worlds = 1..Len(worlds) /\ Len(worlds) \in Nat
      /\ DOMAIN worlds' = 1..Len(worlds') /\ Len(worlds') \in Nat
  BY LenProperties DEF DemoInv
<1>2. DOMAIN worlds \subseteq DOMAIN worlds'
  BY DEF Grown
<1>3. ASSUME NEW g \in DOMAIN worlds
      PROVE  /\ Len(worlds[g].log) \in Nat /\ Len(worlds'[g].log) \in Nat
             /\ Len(worlds[g].log) <= Len(worlds'[g].log)
             /\ DOMAIN worlds[g].log = 1..Len(worlds[g].log)
             /\ DOMAIN worlds'[g].log = 1..Len(worlds'[g].log)
  <2>1. g \in DOMAIN worlds' /\ Extends(worlds'[g], worlds[g])
    BY DEF Grown
  <2>2. worlds[g] \in WorldType /\ worlds'[g] \in WorldType
    BY <1>1, <2>1, ElementOfSeq DEF DemoInv
  <2> QED
    BY <2>1, <2>2, LenProperties DEF Extends, WorldType
<1>4. received'.world \in 0..Len(worlds') /\ received' \in [world : 0..Len(worlds'), id : Nat]
  <2>1. Len(worlds) <= Len(worlds')
    BY <1>1, <1>2
  <2> QED
    BY <1>1, <2>1 DEF StreamInv
<1>5. received'.world # None => received'.id \in DOMAIN worlds'[received'.world].log
  <2> SUFFICES ASSUME received.world # None
               PROVE  received.id \in DOMAIN worlds'[received.world].log
    OBVIOUS
  <2>1. received.world \in DOMAIN worlds /\ received.id \in DOMAIN worlds[received.world].log
    BY <1>1 DEF StreamInv, None
  <2> QED
    BY <1>3, <2>1
<1>6. stream' # NoStream =>
         /\ stream' \in [world : DOMAIN worlds', cursor : Nat]
         /\ stream'.cursor <= Len(worlds'[stream'.world].log) + 1
  <2> SUFFICES ASSUME stream # NoStream
               PROVE  /\ stream \in [world : DOMAIN worlds', cursor : Nat]
                      /\ stream.cursor <= Len(worlds'[stream.world].log) + 1
    OBVIOUS
  <2>1. /\ stream \in [world : DOMAIN worlds, cursor : Nat]
        /\ stream.cursor <= Len(worlds[stream.world].log) + 1
    BY DEF StreamInv
  <2>2. stream.world \in DOMAIN worlds /\ stream.cursor \in Nat
    BY <2>1
  <2>3. Len(worlds[stream.world].log) <= Len(worlds'[stream.world].log)
        /\ Len(worlds[stream.world].log) \in Nat /\ Len(worlds'[stream.world].log) \in Nat
    BY <1>3, <2>2
  <2>4. stream.cursor <= Len(worlds'[stream.world].log) + 1
    BY ONLY <2>1, <2>2, <2>3
  <2> QED
    BY <1>2, <2>1, <2>4
<1> QED
  BY <1>4, <1>5, <1>6 DEF StreamInv

LEMMA StartCursorType ==
  ASSUME NEW log \in Seq(Events), NEW last \in Nat
  PROVE  /\ StartCursor(log, last) \in 1..Len(log) + 1
         /\ last \in DOMAIN log => StartCursor(log, last) = last + 1
<1>1. Len(log) \in Nat /\ DOMAIN log = 1..Len(log)
  BY LenProperties
<1>2. Replay \in Nat
  BY StreamAssumption DEF StreamAssumption
<1>3. Max({0, Len(log) - Replay}) \in 0..Len(log)
  <2>0. PICK d : d = Len(log) - Replay
    OBVIOUS
  <2>1. d \in Int /\ d <= Len(log)
    BY <1>1, <1>2, <2>0
  <2>2. Max({0, d}) = IF 0 <= d THEN d ELSE 0
    BY <2>1, MaxTwo
  <2> QED
    <3>1. (IF 0 <= d THEN d ELSE 0) \in 0..Len(log)
      BY <1>1, <2>1
    <3>2. Max({0, d}) \in 0..Len(log)
      BY <2>2, <3>1
    <3> QED
      BY <2>0, <3>2
<1>4. CASE last \in DOMAIN log
  BY <1>1, <1>4 DEF StartCursor, None
<1>5. CASE last \notin DOMAIN log
  BY <1>1, <1>3, <1>5 DEF StartCursor, None
<1> QED
  BY <1>4, <1>5

LEMMA OpenKeeps ==
  ASSUME DemoInv, StreamInv, Open
  PROVE  DemoInv' /\ Grown /\ StreamInv'
<1>1. /\ Leave(WorldFor) /\ persona' = persona /\ clock' = clock
      /\ stream' = [world |-> live', cursor |-> StartCursor(WorldFor.log, lastId)]
      /\ wire' = <<>> /\ lastId' = lastId /\ received' = received
  BY DEF Open
<1>2. WorldInv(WorldFor) /\ WorldFor \in WorldType
  BY WorldForKeeps
<1>3. DemoInv' /\ Grown /\ live' \in DOMAIN worlds' /\ worlds'[live'] = WorldFor
  BY <1>1, <1>2, ExtendsItself, LeaveKeeps
<1>4. PICK log, c : log = WorldFor.log /\ c = StartCursor(log, lastId) /\ log \in Seq(Events)
  BY <1>2 DEF WorldType
<1>5. lastId \in Nat /\ lastId = received.id /\ received.world \in 0..Len(worlds)
  BY DEF StreamInv
<1>6. /\ c \in 1..Len(log) + 1 /\ (lastId \in DOMAIN log => c = lastId + 1)
      /\ Len(log) \in Nat
  BY <1>4, <1>5, StartCursorType, LenProperties
<1>7. stream' = [world |-> live', cursor |-> c] /\ stream'.world = live' /\ stream'.cursor = c
  BY <1>1, <1>4
<1>8. received.world = live' => c = received.id + 1
  <2> SUFFICES ASSUME received.world = live' PROVE c = received.id + 1
    OBVIOUS
  <2>1. live' # 0 /\ live' \in DOMAIN worlds
    BY <1>3, <1>5, LenProperties DEF DemoInv
  <2>2. live # 0 /\ live' = live
    <3>1. live = 0 => live' = Len(worlds) + 1
      BY <1>1 DEF Leave
    <3>2. DOMAIN worlds = 1..Len(worlds) /\ Len(worlds) \in Nat
      BY LenProperties DEF DemoInv
    <3>3. live # 0
      BY <2>1, <3>1, <3>2
    <3> QED
      BY <1>1, <3>3 DEF Leave
  <2>3. WorldFor = worlds[live]
    BY <2>2 DEF WorldFor
  <2>4. received.id \in DOMAIN worlds[received.world].log
    BY <2>1 DEF StreamInv, None
  <2>5. lastId \in DOMAIN log
    BY <1>4, <1>5, <2>2, <2>3, <2>4
  <2> QED
    BY <1>5, <1>6, <2>5
<1>9. /\ stream' \in [world : DOMAIN worlds', cursor : Nat]
      /\ stream'.cursor <= Len(worlds'[stream'.world].log) + 1
      /\ Len(wire') < stream'.cursor
      /\ wire' = [i \in 1..Len(wire') |-> stream'.cursor - 1 - Len(wire') + i]
      /\ received'.world = stream'.world => stream'.cursor = received'.id + 1 + Len(wire')
  <2>1. Len(wire') = 0 /\ wire' = <<>>
    BY <1>1
  <2>2. wire' = [i \in 1..Len(wire') |-> stream'.cursor - 1 - Len(wire') + i]
    BY <2>1
  <2>3. stream' \in [world : DOMAIN worlds', cursor : Nat]
    BY <1>3, <1>6, <1>7
  <2>4. stream'.cursor <= Len(worlds'[stream'.world].log) + 1
    BY <1>3, <1>4, <1>6, <1>7
  <2>5. Len(wire') < stream'.cursor
    BY <1>6, <1>7, <2>1
  <2>6. received'.world = stream'.world => stream'.cursor = received'.id + 1 + Len(wire')
    BY <1>1, <1>5, <1>7, <1>8, <2>1
  <2> QED
    BY <2>2, <2>3, <2>4, <2>5, <2>6
<1>10. received' \in [world : 0..Len(worlds'), id : Nat]
  <2>1. Len(worlds) \in Nat /\ Len(worlds') \in Nat /\ Len(worlds) <= Len(worlds')
    <3>1. DOMAIN worlds = 1..Len(worlds) /\ DOMAIN worlds' = 1..Len(worlds')
          /\ Len(worlds) \in Nat /\ Len(worlds') \in Nat
      BY <1>3, LenProperties DEF DemoInv
    <3> QED
      BY <1>3, <3>1 DEF Grown
  <2> QED
    BY <1>1, <2>1 DEF StreamInv
<1>11. received'.world # None => received'.id \in DOMAIN worlds'[received'.world].log
  <2> SUFFICES ASSUME received.world # None
               PROVE  received.id \in DOMAIN worlds'[received.world].log
    BY <1>1
  <2>1. received.world \in DOMAIN worlds
    BY <1>5, LenProperties DEF DemoInv, None
  <2>2. received.id \in DOMAIN worlds[received.world].log
    BY DEF StreamInv
  <2>3. PICK v, u : v = worlds[received.world] /\ u = worlds'[received.world]
    OBVIOUS
  <2>4. received.world \in DOMAIN worlds' /\ Extends(u, v)
    BY <1>3, <2>1, <2>3 DEF Grown
  <2>5. v \in WorldType /\ u \in WorldType
    BY <1>3, <2>1, <2>3, <2>4, ElementOfSeq, LenProperties DEF DemoInv
  <2>6. v.log \in Seq(Events) /\ u.log \in Seq(Events)
    BY <2>5 DEF WorldType
  <2>7. /\ DOMAIN v.log = 1..Len(v.log) /\ DOMAIN u.log = 1..Len(u.log)
        /\ Len(v.log) \in Nat /\ Len(u.log) \in Nat
    BY <2>6, LenProperties
  <2> QED
    BY <2>2, <2>3, <2>4, <2>7 DEF Extends
<1>12. wire' \in Seq(Nat) /\ wire' = <<>> /\ lastId' = received'.id
  BY <1>1, <1>5
<1> QED
  BY <1>3, <1>9, <1>10, <1>11, <1>12 DEF StreamInv

LEMMA PollKeeps ==
  ASSUME DemoInv, StreamInv, Poll
  PROVE  DemoInv' /\ Grown /\ StreamInv'
<1>1. PICK g, v, w, c, l :
          /\ g = stream.world /\ v = worlds[g] /\ w = Tick(v)
          /\ c = stream.cursor /\ l = Len(w.log)
  OBVIOUS
<1>2. /\ stream # NoStream /\ worlds' = [worlds EXCEPT ![g] = w]
      /\ stream' = [stream EXCEPT !.cursor = l + 1]
      /\ wire' = wire \o [i \in 1..(l + 1) - c |-> c + i - 1]
      /\ persona' = persona /\ clock' = clock /\ live' = live /\ lastId' = lastId
      /\ received' = received
  BY <1>1 DEF Poll, pageVars, observed
<1>3. /\ stream \in [world : DOMAIN worlds, cursor : Nat]
      /\ c <= Len(v.log) + 1 /\ Len(wire) < c /\ wire \in Seq(Nat)
      /\ wire = [i \in 1..Len(wire) |-> c - 1 - Len(wire) + i]
      /\ received.world = g => c = received.id + 1 + Len(wire)
  BY <1>1, <1>2 DEF StreamInv
<1>4. g \in DOMAIN worlds /\ c \in Nat /\ DOMAIN worlds = 1..Len(worlds) /\ Len(worlds) \in Nat
  BY <1>1, <1>3, LenProperties DEF DemoInv
<1>5. WorldInv(v)
  BY <1>1, <1>4 DEF DemoInv
<1>6. WorldInv(w) /\ Extends(w, v)
  BY <1>1, <1>5, TickKeeps, SeedLogTells DEF DemoInv
<1>7. v \in WorldType /\ w \in WorldType /\ Len(v.log) \in Nat /\ l \in Nat /\ Len(v.log) <= l
  BY <1>1, <1>5, <1>6, LenProperties DEF WorldInv, WorldType, Extends
<1>8. /\ worlds' \in Seq(WorldType) /\ Len(worlds') = Len(worlds)
      /\ DOMAIN worlds' = DOMAIN worlds
      /\ \A h \in DOMAIN worlds : worlds'[h] = IF h = g THEN w ELSE worlds[h]
  BY <1>2, <1>4, <1>7, ExceptSeq, LenProperties DEF DemoInv
<1>9. Grown
  <2> SUFFICES ASSUME NEW h \in DOMAIN worlds
               PROVE  h \in DOMAIN worlds' /\ Extends(worlds'[h], worlds[h])
    BY DEF Grown
  <2>1. worlds[h] \in WorldType
    BY DEF DemoInv, WorldInv
  <2>2. CASE h = g
    BY <1>1, <1>6, <1>8, <2>2
  <2>3. CASE h # g
    BY <1>8, <2>1, <2>3, ExtendsItself
  <2> QED
    BY <2>2, <2>3
<1>10. DemoInv'
  <2>1. ASSUME NEW h \in DOMAIN worlds' PROVE WorldInv(worlds[h])'
    <3>1. PICK x : x = worlds'[h]
      OBVIOUS
    <3>2. WorldInv(x)
      BY <1>6, <1>8, <3>1 DEF DemoInv
    <3>3. WorldInv(x)'
      BY <1>2, <3>2, SameOwner
    <3> QED
      BY <3>1, <3>3 DEF WorldInv
  <2> QED
    BY <1>2, <1>8, <2>1 DEF DemoInv
<1>11. PICK n \in Nat : n = Len(wire)
  BY <1>3, LenProperties
<1>12. PICK d \in Nat : d = (l + 1) - c
  BY <1>3, <1>4, <1>7
<1>13. /\ wire' \in Seq(Nat) /\ Len(wire') = n + d
       /\ wire' = [i \in 1..n + d |-> c - 1 - n + i]
  <2>1. PICK more : more = [i \in 1..d |-> c + i - 1]
    OBVIOUS
  <2>2. more \in Seq(Nat) /\ Len(more) = d
    <3>1. \A i \in 1..d : c + i - 1 \in Nat
      BY <1>4
    <3> QED
      BY ONLY <2>1, <3>1, d \in Nat
  <2>3. wire' = wire \o more
    BY <1>2, <1>12, <2>1
  <2>4. /\ wire \o more \in Seq(Nat) /\ Len(wire \o more) = n + d
        /\ \A i \in 1..n + d : (wire \o more)[i] = IF i <= n THEN wire[i] ELSE more[i - n]
    <3>1. wire \in Seq(Nat) /\ more \in Seq(Nat) /\ Len(wire) = n /\ Len(more) = d
      BY <1>3, <1>11, <2>2
    <3>2. wire \o more \in Seq(Nat)
      BY ONLY <3>1, ConcatProperties
    <3>3. Len(wire \o more) = n + d
      BY ONLY <3>1, ConcatProperties
    <3>4. \A i \in 1..n + d : (wire \o more)[i] = IF i <= n THEN wire[i] ELSE more[i - n]
      BY ONLY <3>1, ConcatProperties
    <3> QED
      BY ONLY <3>2, <3>3, <3>4
  <2>5. \A i \in 1..n : wire[i] = c - 1 - n + i
    BY <1>3, <1>11
  <2>6. ASSUME NEW i \in 1..n + d PROVE wire'[i] = c - 1 - n + i
    <3>1. CASE i <= n
      BY <2>3, <2>4, <2>5, <3>1
    <3>2. CASE ~(i <= n)
      <4>1. i - n \in 1..d
        BY <3>2
      <4>2. more[i - n] = c + (i - n) - 1
        BY <2>1, <4>1
      <4>3. wire'[i] = more[i - n]
        BY <2>3, <2>4, <3>2
      <4> QED
        BY <1>4, <4>2, <4>3
    <3> QED
      BY <3>1, <3>2
  <2>7. DOMAIN wire' = 1..n + d /\ wire' = [i \in 1..n + d |-> wire'[i]]
    BY <2>3, <2>4, LenProperties
  <2> QED
    BY <2>3, <2>4, <2>6, <2>7
<1>14. /\ stream' = [world |-> g, cursor |-> l + 1]
       /\ stream'.world = g /\ stream'.cursor = l + 1
  BY <1>1, <1>2, <1>3
<1>15. /\ stream' \in [world : DOMAIN worlds', cursor : Nat]
       /\ stream'.cursor <= Len(worlds'[stream'.world].log) + 1
       /\ Len(wire') < stream'.cursor
       /\ wire' = [i \in 1..Len(wire') |-> stream'.cursor - 1 - Len(wire') + i]
       /\ received'.world = stream'.world => stream'.cursor = received'.id + 1 + Len(wire')
  <2>1. stream' \in [world : DOMAIN worlds', cursor : Nat]
    BY <1>4, <1>7, <1>8, <1>14
  <2>2. stream'.cursor <= Len(worlds'[stream'.world].log) + 1
    BY <1>1, <1>4, <1>7, <1>8, <1>14
  <2>3. Len(wire') < stream'.cursor
    BY <1>3, <1>4, <1>7, <1>11, <1>12, <1>13, <1>14
  <2>4. wire' = [i \in 1..Len(wire') |-> stream'.cursor - 1 - Len(wire') + i]
    <3>1. \A i \in 1..n + d : c - 1 - n + i = (l + 1) - 1 - (n + d) + i
      BY <1>4, <1>7, <1>12
    <3> QED
      BY <1>13, <1>14, <3>1
  <2>5. received'.world = stream'.world => stream'.cursor = received'.id + 1 + Len(wire')
    <3>1. received.id \in Nat
      BY DEF StreamInv
    <3> SUFFICES ASSUME received'.world = stream'.world
                 PROVE  stream'.cursor = received'.id + 1 + Len(wire')
      OBVIOUS
    <3>2. c = received.id + 1 + n
      BY <1>2, <1>3, <1>11, <1>14
    <3>3. stream'.cursor = l + 1 /\ Len(wire') = n + d /\ received' = received
      BY <1>2, <1>13, <1>14
    <3>4. l + 1 = received.id + 1 + (n + d)
      <4>1. PICK id \in Nat : id = received.id
        BY <3>1
      <4>2. c \in Nat /\ l \in Nat /\ d = (l + 1) - c /\ n \in Nat /\ d \in Nat
        BY <1>4, <1>7, <1>11, <1>12
      <4>3. l + 1 = id + 1 + (n + d)
        BY ONLY <3>2, <4>1, <4>2
      <4> QED
        BY <4>1, <4>3
    <3> QED
      BY ONLY <3>3, <3>4
  <2> QED
    BY <2>1, <2>2, <2>3, <2>4, <2>5
<1>16. stream' # NoStream
  BY <1>4, <1>7, <1>14 DEF NoStream, None
<1>17. received' \in [world : 0..Len(worlds'), id : Nat] /\ lastId' = received'.id
  BY <1>2, <1>8 DEF StreamInv
<1>18. received'.world # None => received'.id \in DOMAIN worlds'[received'.world].log
  <2> SUFFICES ASSUME received.world # None
               PROVE  received.id \in DOMAIN worlds'[received.world].log
    BY <1>2
  <2>1. /\ received.world \in DOMAIN worlds
        /\ received.id \in DOMAIN worlds[received.world].log
    BY <1>4 DEF StreamInv, None
  <2>2. CASE received.world = g
    <3>1. v.log \in Seq(Events) /\ w.log \in Seq(Events)
      BY <1>7 DEF WorldType
    <3>2. DOMAIN v.log = 1..Len(v.log) /\ DOMAIN w.log = 1..l
      BY <1>1, <3>1, LenProperties
    <3> QED
      BY <1>1, <1>7, <1>8, <2>1, <2>2, <3>2
  <2>3. CASE received.world # g
    BY <1>8, <2>1, <2>3
  <2> QED
    BY <2>2, <2>3
<1> QED
  BY <1>9, <1>10, <1>13, <1>15, <1>16, <1>17, <1>18 DEF StreamInv

LEMMA ReceiveKeeps ==
  ASSUME DemoInv, StreamInv, Receive
  PROVE  StreamInv'
<1>1. /\ wire # <<>> /\ wire' = Tail(wire) /\ lastId' = Head(wire)
      /\ received' = [world |-> stream.world, id |-> Head(wire)]
      /\ stream' = stream /\ worlds' = worlds
  BY DEF Receive, demoVars
<1>2. stream # NoStream
  BY <1>1 DEF StreamInv
<1>3. PICK g, c, n : g = stream.world /\ c = stream.cursor /\ n = Len(wire)
  OBVIOUS
<1>4. /\ stream \in [world : DOMAIN worlds, cursor : Nat]
      /\ c <= Len(worlds[g].log) + 1 /\ n < c /\ wire \in Seq(Nat)
      /\ wire = [i \in 1..n |-> c - 1 - n + i]
  BY <1>2, <1>3 DEF StreamInv
<1>5. /\ g \in DOMAIN worlds /\ c \in Nat /\ n \in Nat /\ n # 0
      /\ DOMAIN worlds = 1..Len(worlds) /\ Len(worlds) \in Nat
  BY <1>1, <1>3, <1>4, LenProperties, EmptySeq DEF DemoInv
<1>6. Head(wire) = c - n
  <2>1. Head(wire) = wire[1]
    BY <1>1, <1>4, HeadTailProperties
  <2>2. wire[1] = c - 1 - n + 1
    BY <1>4, <1>5
  <2> QED
    BY <1>5, <2>1, <2>2
<1>7. /\ wire' \in Seq(Nat) /\ Len(wire') = n - 1
      /\ wire' = [i \in 1..n - 1 |-> c - 1 - (n - 1) + i]
  <2>1. /\ Tail(wire) \in Seq(Nat) /\ Len(Tail(wire)) = n - 1
        /\ \A i \in 1..n - 1 : Tail(wire)[i] = wire[i + 1]
    BY <1>1, <1>3, <1>4, HeadTailProperties
  <2>2. ASSUME NEW i \in 1..n - 1 PROVE wire'[i] = c - 1 - (n - 1) + i
    <3>1. i + 1 \in 1..n
      BY <1>5
    <3>2. wire[i + 1] = c - 1 - n + (i + 1)
      BY <1>4, <3>1
    <3> QED
      BY <1>1, <1>5, <2>1, <3>2
  <2>3. DOMAIN wire' = 1..n - 1 /\ wire' = [i \in 1..n - 1 |-> wire'[i]]
    BY <1>1, <2>1, LenProperties
  <2> QED
    BY <1>1, <2>1, <2>2, <2>3
<1>8. PICK k \in Nat : k = c - n
  BY <1>4, <1>5
<1>9. k \in DOMAIN worlds[g].log
  <2>1. PICK v : v = worlds[g]
    OBVIOUS
  <2>2. v \in WorldType
    BY <1>5, <2>1, ElementOfSeq DEF DemoInv
  <2>3. Len(v.log) \in Nat /\ DOMAIN v.log = 1..Len(v.log)
    BY <2>2, LenProperties DEF WorldType
  <2>4. c <= Len(v.log) + 1
    BY <1>4, <2>1
  <2>5. k \in 1..Len(v.log)
    <3>1. n < c /\ n # 0 /\ n \in Nat /\ c \in Nat /\ k = c - n
      BY <1>4, <1>5, <1>8
    <3>2. PICK m \in Nat : m = Len(v.log)
      BY <2>3
    <3>3. c <= m + 1
      BY <2>4, <3>2
    <3>4. k \in 1..m
      BY ONLY <3>1, <3>2, <3>3
    <3> QED
      BY <3>2, <3>4
  <2> QED
    BY <2>1, <2>3, <2>5
<1>10. /\ received' = [world |-> g, id |-> k] /\ received'.world = g /\ received'.id = k
       /\ lastId' = k
  BY <1>1, <1>3, <1>6, <1>8
<1>11. received' \in [world : 0..Len(worlds'), id : Nat]
  BY <1>1, <1>5, <1>10
<1>12. /\ Len(wire') < c /\ c = k + 1 + Len(wire')
       /\ wire' = [i \in 1..Len(wire') |-> c - 1 - Len(wire') + i]
  BY <1>4, <1>5, <1>7, <1>8
<1> QED
  BY <1>1, <1>2, <1>3, <1>4, <1>7, <1>9, <1>10, <1>11, <1>12 DEF StreamInv

LEMMA DisconnectKeeps ==
  ASSUME DemoInv, StreamInv, Disconnect
  PROVE  DemoInv' /\ Grown /\ StreamInv'
<1>1. /\ stream' = NoStream /\ wire' = <<>>
      /\ UNCHANGED <<persona, worlds, live, clock, lastId, received>>
  BY DEF Disconnect, demoVars
<1>2. DemoInv' /\ Grown
  BY <1>1, StandsStill DEF DemoInv
<1>3. wire' \in Seq(Nat)
  BY <1>1, EmptySeq
<1>4. /\ received' \in [world : 0..Len(worlds'), id : Nat] /\ lastId' = received'.id
      /\ received'.world # None => received'.id \in DOMAIN worlds'[received'.world].log
  BY <1>1 DEF StreamInv
<1> QED
  BY <1>1, <1>2, <1>3, <1>4 DEF StreamInv

LEMMA FetchReadKeeps ==
  ASSUME DemoInv, StreamInv, NEW k, FetchRead(k)
  PROVE  DemoInv' /\ Grown /\ StreamInv'
<1>1. UNCHANGED <<persona, clock>> /\ UNCHANGED <<stream, wire, lastId, received>>
  BY DEF FetchRead, streamVars, observed
<1>2. PICK w : w = WorldFor
  OBVIOUS
<1>3. WorldInv(w) /\ Extends(w, w)
  BY <1>2, WorldForKeeps, ExtendsItself
<1>4. DemoInv' /\ Grown
  <2>1. CASE k = "portfolio"
    <3>1. PICK u : u = Tick(w)
      OBVIOUS
    <3>2. WorldInv(u) /\ Extends(u, w)
      BY <1>3, <3>1, TickKeeps, SeedLogTells DEF DemoInv
    <3>3. Leave(u)
      BY <1>2, <2>1, <3>1 DEF FetchRead
    <3> QED
      BY <1>1, <1>2, <3>2, <3>3, LeaveKeeps
  <2>2. CASE k # "portfolio"
    <3>1. Leave(w)
      BY <1>2, <2>2 DEF FetchRead
    <3> QED
      BY <1>1, <1>2, <1>3, <3>1, LeaveKeeps
  <2> QED
    BY <2>1, <2>2
<1> QED
  BY <1>1, <1>4, WorldsGoOn

LEMMA WorldKeeps ==
  ASSUME DemoInv, StreamInv, World
  PROVE  DemoInv' /\ Grown /\ StreamInv'
<1>1. UNCHANGED <<stream, wire, lastId, received>>
  BY DEF World, streamVars, observed
<1>2. CASE Request
  BY <1>1, <1>2, RequestKeeps, WorldsGoOn
<1>3. CASE TimePasses
  <2>1. UNCHANGED <<persona, worlds, live>> /\ clock' \in Nat
    BY <1>3 DEF TimePasses, DemoInv
  <2> QED
    BY <1>1, <2>1, StandsStill, WorldsGoOn
<1> QED
  BY <1>2, <1>3 DEF World

LEMMA InitKeeps ==
  ASSUME Init
  PROVE  IInv
<1>1. /\ persona \in Personas /\ clock = 1 /\ worlds = <<>> /\ live = 0
      /\ stream = NoStream /\ wire = <<>> /\ lastId = None
      /\ received = [world |-> None, id |-> 0]
  BY DEF Init, DemoInit
<1>2. /\ worlds \in Seq(WorldType) /\ Len(worlds) = 0 /\ DOMAIN worlds = {}
      /\ wire \in Seq(Nat)
  BY <1>1, EmptySeq, LenProperties
<1>3. DemoInv
  BY <1>1, <1>2 DEF DemoInv
<1>4. StreamInv
  BY <1>1, <1>2 DEF StreamInv, None
<1> QED
  BY <1>3, <1>4 DEF IInv

\* Each action of the model keeps the invariant, takes no event back, and forgets no world.
LEMMA StepKeeps ==
  ASSUME IInv, [Next]_vars
  PROVE  IInv' /\ Grown
<1> USE DEF IInv
<1>1. CASE World
  BY <1>1, WorldKeeps
<1>2. CASE Open
  BY <1>2, OpenKeeps
<1>3. CASE Refuse
  <2>1. UNCHANGED <<persona, worlds, live, clock, stream, wire, lastId, received>>
    BY <1>3 DEF Refuse, demoVars, observed
  <2> QED
    BY <2>1, StandsStill, WorldsGoOn DEF DemoInv
<1>4. CASE Poll
  BY <1>4, PollKeeps
<1>5. CASE Receive
  <2>1. UNCHANGED <<persona, worlds, live, clock>>
    BY <1>5 DEF Receive, demoVars
  <2> QED
    BY <1>5, <2>1, StandsStill, ReceiveKeeps DEF DemoInv
<1>6. CASE Drop \/ Expire
  BY <1>6, DisconnectKeeps DEF Drop, Expire
<1>7. ASSUME NEW k \in Projections, FetchRead(k)
      PROVE  IInv' /\ Grown
  BY <1>7, FetchReadKeeps
<1>8. ASSUME NEW k \in Projections, FetchAnswer(k)
      PROVE  IInv' /\ Grown
  <2>1. UNCHANGED <<persona, worlds, live, clock, stream, wire, lastId, received>>
    BY <1>8 DEF FetchAnswer, demoVars, streamVars, observed
  <2> QED
    BY <2>1, StandsStill, WorldsGoOn DEF DemoInv
<1>9. ASSUME NEW k \in Projections, FetchFails(k)
      PROVE  IInv' /\ Grown
  <2>1. UNCHANGED <<persona, worlds, live, clock, stream, wire, lastId, received>>
    BY <1>9 DEF FetchFails, demoVars, streamVars
  <2> QED
    BY <2>1, StandsStill, WorldsGoOn DEF DemoInv
<1>10. CASE UNCHANGED vars
  <2>1. UNCHANGED <<persona, worlds, live, clock, stream, wire, lastId, received>>
    BY <1>10 DEF vars, demoVars, streamVars, observed
  <2> QED
    BY <2>1, StandsStill, WorldsGoOn DEF DemoInv
<1> QED
  BY <1>1, <1>2, <1>3, <1>4, <1>5, <1>6, <1>7, <1>8, <1>9, <1>10
     DEF Next, Stream, Page, Failure

-----------------------------------------------------------------------------
(* What the invariant gives. *)

LEMMA WireHoldsTheRest ==
  ASSUME StreamInv
  PROVE  NothingSkipped
<1> SUFFICES ASSUME stream # NoStream, received.world = stream.world
             PROVE  wire = [i \in 1..stream.cursor - (received.id + 1) |-> received.id + i]
  BY DEF NothingSkipped
<1>1. PICK c, n, m : c = stream.cursor /\ n = Len(wire) /\ m = received.id
  OBVIOUS
<1>2. /\ wire \in Seq(Nat) /\ stream \in [world : DOMAIN worlds, cursor : Nat]
      /\ received \in [world : 0..Len(worlds), id : Nat]
      /\ wire = [i \in 1..n |-> c - 1 - n + i] /\ c = m + 1 + n
  BY <1>1 DEF StreamInv
<1>3. c \in Nat /\ n \in Nat /\ m \in Nat
  BY <1>1, <1>2, LenProperties
<1>4. c - (m + 1) = n /\ \A i \in 1..n : c - 1 - n + i = m + i
  BY ONLY <1>2, <1>3
<1>5. wire = [i \in 1..c - (m + 1) |-> m + i]
  BY <1>2, <1>4
<1> QED
  BY <1>1, <1>5

LEMMA LogTells ==
  ASSUME DemoInv
  PROVE  LogTellsRecords
<1> SUFFICES ASSUME NEW g \in DOMAIN worlds, worlds[g].preferences = 1,
                    NEW n \in DOMAIN worlds[g].records,
                    NEW log, log = worlds[g].log,
                    NEW about, about = {i \in DOMAIN log : log[i].record = n}
             PROVE  /\ about # {}
                    /\ log[Max(about)].type = worlds[g].records[n].type
                    /\ log[Max(about)].status = worlds[g].records[n].status
  BY DEF LogTellsRecords
<1>1. Told(worlds[g], n) /\ worlds[g] \in WorldType
  BY DEF DemoInv, WorldInv, AllTold
<1>2. log \in Seq(Events) /\ DOMAIN log = 1..Len(log) /\ Len(log) \in Nat
  BY <1>1, LenProperties DEF WorldType
<1>3. PICK i \in DOMAIN log :
          /\ log[i].record = n
          /\ \A j \in DOMAIN log : log[j].record = n => j <= i
          /\ log[i].type = worlds[g].records[n].type
          /\ log[i].status = worlds[g].records[n].status
  BY <1>1 DEF Told
<1>4. i \in about /\ \A j \in about : i >= j
  BY <1>2, <1>3
<1>5. \A j \in about : (\A k \in about : j >= k) => j = i
  BY <1>2, <1>4
<1>6. Max(about) = i
  BY <1>4, <1>5 DEF Max
<1> QED
  BY <1>3, <1>4, <1>6

LEMMA StepsTellInOrder ==
  ASSUME DemoInv
  PROVE  StepsInOrder
<1> SUFFICES ASSUME NEW g \in DOMAIN worlds
             PROVE  LET log   == worlds[g].log
                        fills == {i \in DOMAIN log : log[i].type = "order"
                                                     /\ log[i].version = 2}
                    IN  IF persona = "invited"
                        THEN IsPrefix([i \in DOMAIN log |->
                                 <<log[i].type, log[i].status, log[i].version>>], SetupSteps)
                        ELSE /\ \A i, j \in fills : log[i].record = log[j].record => i = j
                             /\ \A i \in fills :
                                    /\ log[i + 1].type = "fill"
                                    /\ worlds[g].records[log[i + 1].record].related
                                         = log[i].record
                             /\ \A i \in DOMAIN log :
                                    i > Len(SeedLog) /\ log[i].type = "reconciliation"
                                        => worlds[g].pending = {} /\ \A j \in fills : j < i
  BY DEF StepsInOrder
<1>1. WorldInv(worlds[g])
  BY DEF DemoInv
<1>2. CASE persona = "invited"
  <2>1. PICK log : log = worlds[g].log
    OBVIOUS
  <2>2. /\ Len(log) = SetupReached(worlds[g].setup)
        /\ \A i \in DOMAIN log :
              <<log[i].type, log[i].status, log[i].version>> = SetupSteps[i]
        /\ log \in Seq(Events)
    BY <1>1, <1>2, <2>1 DEF WorldInv, InvitedInv, WorldType
  <2>3. PICK n : n = Len(log)
    OBVIOUS
  <2>4. n \in 0..5 /\ DOMAIN log = 1..n
    <3>1. \A z : SetupReached(z) \in 0..5
      BY DEF SetupReached
    <3>2. DOMAIN log = 1..Len(log)
      BY <2>2, LenProperties
    <3> QED
      BY ONLY <2>2, <2>3, <3>1, <3>2
  <2>5. PICK told : told = [i \in DOMAIN log |->
                                <<log[i].type, log[i].status, log[i].version>>]
    OBVIOUS
  <2>6. /\ told = [i \in 1..n |-> told[i]] /\ Len(told) = n
        /\ \A i \in 1..n : told[i] = SetupSteps[i]
    <3>1. \A i \in 1..n : told[i] = SetupSteps[i]
      BY <2>2, <2>4, <2>5
    <3>2. told = [i \in 1..n |-> told[i]]
      BY <2>4, <2>5
    <3>3. Len(told) = n
      BY ONLY <2>4, <3>2
    <3> QED
      BY ONLY <3>1, <3>2, <3>3
  <2>7. Len(SetupSteps) = 5
    BY DEF SetupSteps
  <2>8. SubSeq(told, 1, n) = SubSeq(SetupSteps, 1, n)
    BY ONLY <2>4, <2>6
  <2>9. IsPrefix(told, SetupSteps)
    BY <2>4, <2>6, <2>7, <2>8 DEF IsPrefix
  <2> QED
    BY <1>2, <2>1, <2>5, <2>9
<1>3. CASE persona # "invited"
  BY <1>1, <1>3 DEF WorldInv, AdmittedInv, FillsTold, FilledOnce, ReconciledLast, FillEvents
<1> QED
  BY <1>2, <1>3

-----------------------------------------------------------------------------
(* The theorems. *)

\* In every state the demo worlds are as WorldInv says (the setup's steps, the fills and
\* the announcements tell the records) and the wire, the cursor and the page's last event
\* fit together: the invariant that the other theorems rest on.
THEOREM StreamInvariance == Spec => []IInv
<1>1. Init => IInv
  BY InitKeeps
<1>2. IInv /\ [Next]_vars => IInv'
  BY StepKeeps
<1> QED
  BY <1>1, <1>2, PTL DEF Spec

\* Within one world the page receives every event after its first in order and once,
\* whatever connections break and whoever ticks the world (Last-Event-ID).
THEOREM NothingSkippedHolds == Spec => []NothingSkipped
<1>1. IInv => NothingSkipped
  BY WireHoldsTheRest DEF IInv
<1> QED
  BY <1>1, StreamInvariance, PTL

\* In a world without a preference change the last event about each record has the type
\* and the status that the record list shows: what the stream tells is what a read shows.
THEOREM LogTellsRecordsHolds == Spec => []LogTellsRecords
<1>1. IInv => LogTellsRecords
  BY LogTells DEF IInv
<1> QED
  BY <1>1, StreamInvariance, PTL

\* Whoever ticks a world, its steps are announced once each and in order: the setup of
\* the invited persona; of the admitted one each fill right after its order, no order
\* twice, and the reconciliation after every fill.
THEOREM StepsInOrderHolds == Spec => []StepsInOrder
<1>1. IInv => StepsInOrder
  BY StepsTellInOrder DEF IInv
<1> QED
  BY <1>1, StreamInvariance, PTL

-----------------------------------------------------------------------------
(* The lock of a key. *)

USE HomeAssumption DEF Holding, Steps

(* A caller queued behind others does not take the turn away from the head. *)
LEMMA TurnKept ==
  ASSUME NEW s \in Seq(Callers), NEW c \in Callers, s # <<>>
  PROVE  /\ Append(s, c) # <<>>
         /\ Head(Append(s, c)) = Head(s)
<1>1. Append(s, c) # <<>>
  BY AppendProperties
<1>2. Head(Append(s, c)) = Head(s)
  BY HeadTailAppend
<1> QED
  BY <1>1, <1>2

(* The invariant holds at the start: nobody has asked for the lock.         *)
LEMMA LockInvInit == LockInit => LockInv
<1> SUFFICES ASSUME LockInit PROVE LockInv
  OBVIOUS
<1>1. chain \in [Procs -> Seq(Callers)]
  BY EmptySeq DEF LockInit
<1>2. TypeOK
  BY <1>1 DEF LockInit, TypeOK
<1>3. ASSUME NEW c \in Callers PROVE CallerInv(c) /\ HolderInv(c)
  BY DEF LockInit, CallerInv, HolderInv
<1> QED
  BY <1>2, <1>3 DEF LockInit, LockInv

(* No two callers of one process have the turn.                             *)
LEMMA TurnIsOne ==
  ASSUME TypeOK, NEW c \in Callers, NEW d \in Callers,
         MyTurn(c), MyTurn(d), Home[c] = Home[d]
  PROVE  c = d
BY DEF MyTurn

(* Who has the turn gives it on; the turns of the others stay.              *)
LEMMA TurnPassed ==
  ASSUME TypeOK, NEW c \in Callers, MyTurn(c), chain' = Released(c)
  PROVE  /\ chain' \in [Procs -> Seq(Callers)]
         /\ \A d \in Callers : d # c /\ MyTurn(d) => MyTurn(d)'
<1>1. chain' \in [Procs -> Seq(Callers)]
  BY DEF TypeOK, Released, MyTurn
<1>2. ASSUME NEW d \in Callers, d # c, MyTurn(d) PROVE MyTurn(d)'
  BY <1>2, TurnIsOne DEF TypeOK, Released, MyTurn
<1> QED
  BY <1>1, <1>2

(* Every step keeps the invariant, whatever dies or fails.                  *)
LEMMA LockInvStep ==
  ASSUME LockInv, [LockNext]_lockVars
  PROVE  LockInv'
<1> USE DEF LockInv, TypeOK, Runs, Goes
<1>1. ASSUME NEW c \in Callers, Enter(c) PROVE LockInv'
  <2> DEFINE p == Home[c]
  <2>1. p \in Procs /\ chain[p] \in Seq(Callers)
    OBVIOUS
  <2>2. chain' = [chain EXCEPT ![p] = Append(chain[p], c)]
    BY <1>1 DEF Enter
  <2>3. chain' \in [Procs -> Seq(Callers)]
    BY <2>1, <2>2
  <2>4. ASSUME NEW d \in Callers, MyTurn(d) PROVE MyTurn(d)'
    BY <2>1, <2>2, <2>4, TurnKept DEF MyTurn
  <2>5. ASSUME NEW d \in Callers PROVE CallerInv(d)'
    BY <1>1, <2>4 DEF Enter, CallerInv
  <2>6. ASSUME ~mistaken', NEW d \in Callers PROVE HolderInv(d)'
    BY <1>1, <2>6 DEF Enter, HolderInv
  <2> QED
    BY <1>1, <2>3, <2>5, <2>6 DEF Enter, Abandoned
<1>2. ASSUME NEW c \in Callers, Create(c) PROVE LockInv'
  <2>1. ASSUME NEW d \in Callers PROVE CallerInv(d)'
    BY <1>2 DEF Create, CallerInv, MyTurn
  <2>2. ASSUME ~mistaken', NEW d \in Callers PROVE HolderInv(d)'
    BY <1>2, <2>2, NobodyAssumption DEF Create, HolderInv
  <2> QED
    BY <1>2, <2>1, <2>2 DEF Create
<1>3. ASSUME NEW c \in Callers, WritePid(c) PROVE LockInv'
  <2>1. ASSUME NEW d \in Callers PROVE CallerInv(d)'
    BY <1>3 DEF WritePid, CallerInv, MyTurn
  <2>2. ASSUME ~mistaken', NEW d \in Callers PROVE HolderInv(d)'
    BY <1>3, <2>2 DEF WritePid, HolderInv
  <2> QED
    BY <1>3, <2>1, <2>2 DEF WritePid, Abandoned
<1>4. ASSUME NEW c \in Callers, LockFails(c) PROVE LockInv'
  <2>1. MyTurn(c) /\ pc' = [pc EXCEPT ![c] = "threw"] /\ chain' = Released(c)
    BY <1>4 DEF LockFails, CallerInv
  <2>2. ASSUME NEW d \in Callers PROVE CallerInv(d)'
    BY <1>4, <2>1, TurnPassed DEF LockFails, CallerInv
  <2>3. ASSUME ~mistaken', NEW d \in Callers PROVE HolderInv(d)'
    BY <1>4, <2>3 DEF LockFails, HolderInv
  <2>4. chain' \in [Procs -> Seq(Callers)]
    BY <2>1, TurnPassed
  <2> QED
    BY <1>4, <2>2, <2>3, <2>4 DEF LockFails, Abandoned
<1>5. ASSUME NEW c \in Callers, Exists(c) PROVE LockInv'
  <2>1. ASSUME NEW d \in Callers PROVE CallerInv(d)'
    BY <1>5 DEF Exists, CallerInv, MyTurn
  <2>2. ASSUME ~mistaken', NEW d \in Callers PROVE HolderInv(d)'
    BY <1>5, <2>2 DEF Exists, HolderInv
  <2> QED
    BY <1>5, <2>1, <2>2 DEF Exists, Abandoned
<1>6. ASSUME NEW c \in Callers, Stat(c) PROVE LockInv'
  <2>1. ASSUME NEW d \in Callers PROVE CallerInv(d)'
    BY <1>6 DEF Stat, CallerInv, MyTurn
  <2>2. ASSUME ~mistaken', NEW d \in Callers PROVE HolderInv(d)'
    BY <1>6, <2>2 DEF Stat, HolderInv
  <2> QED
    BY <1>6, <2>1, <2>2 DEF Stat, Abandoned
<1>7. ASSUME NEW c \in Callers, Break(c) PROVE LockInv'
  <2>1. ASSUME NEW d \in Callers PROVE CallerInv(d)'
    BY <1>7 DEF Break, CallerInv, MyTurn
  <2>2. ASSUME ~mistaken', NEW d \in Callers PROVE HolderInv(d)'
    <3>1. ~mistaken /\ (lock = Nobody \/ Abandoned)
      BY <1>7, <2>2 DEF Break
    <3>2. ~(pc[d] \in Holding /\ alive[Home[d]])
      BY <3>1, NobodyAssumption DEF HolderInv, Abandoned
    <3> QED
      BY <1>7, <3>2 DEF Break, HolderInv
  <2> QED
    BY <1>7, <2>1, <2>2 DEF Break
<1>8. ASSUME NEW c \in Callers, Read(c) PROVE LockInv'
  <2>1. /\ copy' = [copy EXCEPT ![c] = value]
        /\ UNCHANGED <<value, lock, old, chain, alive, mistaken>>
        /\ pc[c] = "reading" /\ alive[Home[c]]
    BY <1>8 DEF Read
  <2>2. copy' \in [Callers -> SUBSET Callers]
    BY <2>1
  <2>3. CASE Promise!Admits(value)
    <3>1. pc' = [pc EXCEPT ![c] = "writing"] /\ outcome' = outcome
      BY <1>8, <2>3 DEF Read
    <3>2. ASSUME NEW d \in Callers PROVE CallerInv(d)'
      BY <2>1, <3>1 DEF CallerInv, MyTurn
    <3>3. ASSUME ~mistaken', NEW d \in Callers PROVE HolderInv(d)'
      BY <2>1, <2>3, <3>1, <3>3 DEF HolderInv
    <3> QED
      BY <2>1, <2>2, <3>1, <3>2, <3>3 DEF Abandoned
  <2>4. CASE ~Promise!Admits(value)
    <3>1. /\ pc' = [pc EXCEPT ![c] = "unlocking"]
          /\ outcome' = [outcome EXCEPT ![c] = "unchanged"]
      BY <1>8, <2>4 DEF Read
    <3>2. ASSUME NEW d \in Callers PROVE CallerInv(d)'
      BY <2>1, <3>1 DEF CallerInv, MyTurn
    <3>3. ASSUME ~mistaken', NEW d \in Callers PROVE HolderInv(d)'
      BY <2>1, <3>1, <3>3 DEF HolderInv
    <3> QED
      BY <2>1, <2>2, <3>1, <3>2, <3>3 DEF Abandoned
  <2> QED
    BY <2>3, <2>4
<1>9. ASSUME NEW c \in Callers, Rename(c) PROVE LockInv'
  <2>1. ASSUME NEW d \in Callers PROVE CallerInv(d)'
    BY <1>9 DEF Rename, CallerInv, MyTurn
  <2>2. ASSUME ~mistaken', NEW d \in Callers PROVE HolderInv(d)'
    BY <1>9, <2>2 DEF Rename, HolderInv
  <2> QED
    BY <1>9, <2>1, <2>2 DEF Rename, Abandoned
<1>10. ASSUME NEW c \in Callers, WorkFails(c) PROVE LockInv'
  <2>1. ASSUME NEW d \in Callers PROVE CallerInv(d)'
    BY <1>10 DEF WorkFails, CallerInv, MyTurn
  <2>2. ASSUME ~mistaken', NEW d \in Callers PROVE HolderInv(d)'
    BY <1>10, <2>2 DEF WorkFails, HolderInv
  <2> QED
    BY <1>10, <2>1, <2>2 DEF WorkFails, Abandoned
<1>11. ASSUME NEW c \in Callers, Unlink(c) PROVE LockInv'
  <2>1. MyTurn(c) /\ chain' = Released(c)
    BY <1>11 DEF Unlink, CallerInv
  <2>2. chain' \in [Procs -> Seq(Callers)]
    BY <2>1, TurnPassed
  <2>3. ASSUME NEW d \in Callers PROVE CallerInv(d)'
    BY <1>11, <2>1, TurnPassed DEF Unlink, CallerInv
  <2>4. ASSUME ~mistaken', NEW d \in Callers PROVE HolderInv(d)'
    BY <1>11, <2>4 DEF Unlink, HolderInv
  <2> QED
    BY <1>11, <2>2, <2>3, <2>4 DEF Unlink
<1>12. ASSUME NEW c \in Callers, GiveUp(c) PROVE LockInv'
  <2>1. MyTurn(c) /\ chain' = Released(c)
    BY <1>12 DEF GiveUp, CallerInv
  <2>2. chain' \in [Procs -> Seq(Callers)]
    BY <2>1, TurnPassed
  <2>3. ASSUME NEW d \in Callers PROVE CallerInv(d)'
    BY <1>12, <2>1, TurnPassed DEF GiveUp, CallerInv
  <2>4. ASSUME ~mistaken', NEW d \in Callers PROVE HolderInv(d)'
    BY <1>12, <2>4 DEF GiveUp, HolderInv
  <2> QED
    BY <1>12, <2>2, <2>3, <2>4 DEF GiveUp
<1>13. CASE Age
  BY <1>13 DEF Age, Abandoned, CallerInv, HolderInv, MyTurn
<1>14. ASSUME NEW p \in Procs, Die(p) PROVE LockInv'
  <2>1. ASSUME NEW d \in Callers PROVE CallerInv(d)'
    BY <1>14 DEF Die, CallerInv, MyTurn
  <2>2. ASSUME ~mistaken', NEW d \in Callers PROVE HolderInv(d)'
    BY <1>14, <2>2 DEF Die, HolderInv
  <2>3. Abandoned => Abandoned'
    BY <1>14 DEF Die, Abandoned
  <2> QED
    BY <1>14, <2>1, <2>2, <2>3 DEF Die
<1>15. CASE UNCHANGED lockVars
  BY <1>15 DEF lockVars, Abandoned, CallerInv, HolderInv, MyTurn
<1> QED
  BY <1>1, <1>2, <1>3, <1>4, <1>5, <1>6, <1>7, <1>8, <1>9, <1>10, <1>11,
     <1>12, <1>13, <1>14, <1>15 DEF LockNext, Works

\* Only an abandoned lock file is ever old, a caller that looks at the lock file or holds
\* it has its process's turn, and until a fresh lock file is unlinked for an old one a
\* live holder's file is there and what it read is what is stored: whatever dies or
\* fails, for every number of processes and callers.
THEOREM LockInvariance == LockSpec => []LockInv
<1>1. LockInv /\ [LockNext]_lockVars => LockInv'
  BY LockInvStep
<1> QED
  BY <1>1, LockInvInit, PTL DEF LockSpec

\* Two live callers hold the lock only in two processes, and only after a lock file was
\* unlinked that was not the one found old (withKeyLock 104-107).
THEOREM LockExclusion == LockSpec => []AtMostOneHolder
<1>1. ASSUME LockInv, NEW c \in Callers, NEW d \in Callers, c # d,
             pc[c] \in Holding, alive[Home[c]], pc[d] \in Holding, alive[Home[d]]
      PROVE  mistaken /\ Home[c] # Home[d]
  <2>1. MyTurn(c) /\ MyTurn(d) /\ TypeOK
    BY <1>1 DEF LockInv, CallerInv
  <2>2. Home[c] # Home[d]
    BY <1>1, <2>1, TurnIsOne
  <2>3. mistaken
    BY <1>1 DEF LockInv, HolderInv
  <2> QED
    BY <2>2, <2>3
<1>2. LockInv => AtMostOneHolder
  BY <1>1 DEF AtMostOneHolder
<1> QED
  BY <1>2, LockInvariance, PTL

----------------------------------------------------------------------------
(* Seen from outside, a step of the locked read-modify-write is one         *)
(* decision on the value as it is, or nothing.                              *)
LEMMA StepRefines ==
  ASSUME LockInv, [LockNext]_lockVars, ~mistaken
  PROVE  [Promise!Next]_(Promise!vars)
<1> USE DEF LockInv, TypeOK, Runs, Promise!vars
<1>1. ASSUME NEW c \in Callers, Read(c) PROVE [Promise!Next]_(Promise!vars)
  <2>1. outcome[c] = "none"
    BY <1>1 DEF Read, CallerInv
  <2> QED
    BY <1>1, <2>1 DEF Read, Promise!Next, Promise!Leave
<1>2. ASSUME NEW c \in Callers, Rename(c) PROVE [Promise!Next]_(Promise!vars)
  <2>1. outcome[c] = "none" /\ copy[c] = value /\ Promise!Admits(value)
    BY <1>2 DEF Rename, CallerInv, HolderInv
  <2> QED
    BY <1>2, <2>1 DEF Rename, Promise!Next, Promise!Write
<1>3. ASSUME NEW c \in Callers,
             Enter(c) \/ GiveUp(c) \/ Create(c) \/ WritePid(c) \/ LockFails(c)
               \/ Exists(c) \/ Stat(c) \/ Break(c) \/ WorkFails(c) \/ Unlink(c)
      PROVE  UNCHANGED <<value, outcome>>
  BY <1>3 DEF Enter, GiveUp, Create, WritePid, LockFails, Exists, Stat, Break,
     WorkFails, Unlink
<1>4. ASSUME Age \/ (\E p \in Procs : Die(p)) \/ UNCHANGED lockVars
      PROVE  UNCHANGED <<value, outcome>>
  BY <1>4 DEF Age, Die, lockVars
<1> QED
  BY <1>1, <1>2, <1>3, <1>4 DEF LockNext, Works

\* Until a lock file is unlinked that was not the one found old, the filesystem driver
\* keeps the promise of KVStore.update: each call decides once, on the value as it is.
THEOREM LockRefinement == LockSpec => AppliesOneAtATime
<1>1. LockInit => Promise!Init
  BY DEF LockInit, Promise!Init
<1>2. LockInv /\ [LockNext]_lockVars => [Promise!Next \/ mistaken]_(Promise!vars)
  BY StepRefines
<1> QED
  BY <1>1, <1>2, LockInvariance, PTL DEF LockSpec, AppliesOneAtATime


----------------------------------------------------------------------------
(* One process.  Unless a directory is named that processes share, the      *)
(* store's is one instance's (store.ts rootDir): nobody can then take a     *)
(* lock file away between the look at it and its removal.                   *)
Unhurried == \A c \in Callers : pc[c] = "breaking" => old

LEMMA UnhurriedKept ==
  ASSUME \A p, q \in Procs : p = q,
         LockInv, Unhurried, ~mistaken, [LockNext]_lockVars
  PROVE  Unhurried' /\ ~mistaken'
<1> USE DEF LockInv, TypeOK, Runs, Goes
<1>1. \A c, d \in Callers : MyTurn(c) /\ MyTurn(d) => c = d
  BY TurnIsOne
<1>2. \A c \in Callers : pc[c] = "breaking" => MyTurn(c)
  BY DEF CallerInv
<1>3. ASSUME NEW c \in Callers, Break(c) PROVE Unhurried' /\ ~mistaken'
  <2>1. old /\ lock # Nobody
    BY <1>3 DEF Break, Unhurried, Abandoned
  <2>2. ~mistaken' /\ pc' = [pc EXCEPT ![c] = "opening"]
    BY <1>3, <2>1 DEF Break
  <2>3. \A d \in Callers : pc[d] = "breaking" => d = c
    BY <1>1, <1>2, <1>3 DEF Break
  <2> QED
    BY <2>2, <2>3 DEF Unhurried
<1>4. ASSUME NEW c \in Callers, Create(c) \/ Unlink(c)
      PROVE  Unhurried' /\ ~mistaken'
  <2>1. MyTurn(c) /\ pc[c] # "breaking" /\ mistaken' = mistaken
    BY <1>4 DEF Create, Unlink, CallerInv
  <2>2. \A d \in Callers : pc'[d] = "breaking" => pc[d] = "breaking"
    BY <1>4 DEF Create, Unlink
  <2>3. \A d \in Callers : pc[d] # "breaking"
    BY <1>1, <1>2, <2>1
  <2> QED
    BY <2>1, <2>2, <2>3 DEF Unhurried
<1>5. ASSUME NEW c \in Callers, Stat(c) PROVE Unhurried' /\ ~mistaken'
  BY <1>5 DEF Stat, Unhurried
<1>6. ASSUME NEW c \in Callers, Read(c) PROVE Unhurried' /\ ~mistaken'
  BY <1>6 DEF Read, Unhurried
<1>7. ASSUME NEW c \in Callers,
             Enter(c) \/ WritePid(c) \/ LockFails(c) \/ Exists(c)
      PROVE  Unhurried' /\ ~mistaken'
  BY <1>7 DEF Enter, WritePid, LockFails, Exists, Unhurried
<1>8. ASSUME NEW c \in Callers, Rename(c) \/ WorkFails(c) \/ GiveUp(c)
      PROVE  Unhurried' /\ ~mistaken'
  BY <1>8 DEF Rename, WorkFails, GiveUp, Unhurried
<1>9. ASSUME Age \/ (\E p \in Procs : Die(p)) \/ UNCHANGED lockVars
      PROVE  Unhurried' /\ ~mistaken'
  BY <1>9 DEF Age, Die, lockVars, Unhurried
<1> QED
  BY <1>3, <1>4, <1>5, <1>6, <1>7, <1>8, <1>9 DEF LockNext, Works

\* Where the store's directory belongs to one process, update keeps the whole promise of
\* KVStore.update, whatever fails and whether or not the process dies: one caller's
\* decision at a time, each on the value as it is.
THEOREM OneProcessKeepsThePromise ==
  ASSUME \A p, q \in Procs : p = q
  PROVE  LockSpec => OneDecisionAtATime
<1>1. LockInit => Unhurried /\ ~mistaken
  BY DEF LockInit, Unhurried
<1>2. LockInv /\ Unhurried /\ ~mistaken /\ [LockNext]_lockVars
        => Unhurried' /\ ~mistaken'
  BY UnhurriedKept
<1>3. LockInit => Promise!Init
  BY DEF LockInit, Promise!Init
<1>4. LockInv /\ ~mistaken /\ [LockNext]_lockVars => [Promise!Next]_(Promise!vars)
  BY StepRefines
<1> QED
  BY <1>1, <1>2, <1>3, <1>4, LockInvariance, PTL
     DEF LockSpec, OneDecisionAtATime, Promise!Spec
=============================================================================
