--------------------------- MODULE ProjectorProofs ---------------------------
(***************************************************************************)
(* Theorems about Projector, for any events, batch size and number of      *)
(* crashes.  With one ingester no row is skipped, the token's row and its  *)
(* markets are what the projected rows say, and the projector implements   *)
(* ReadModel.  The run projector_gap shows that this is false with two.    *)
(***************************************************************************)
EXTENDS Projector, TLAPS, FiniteSetTheorems, SequenceTheorems, WellFoundedInduction

(* One goroutine inserts: the JetStream consumer handles its messages one  *)
(* after the other, and nobody posts events.                               *)
OneIngester == \A p, q \in Ingesters : p = q

Shape ==
  /\ nextLogID \in 1..(MaxLog + 1) /\ checkpoint \in 0..MaxLog
  /\ row = [i \in 1..MaxLog |-> row[i]]
  /\ insert = [p \in Ingesters |-> [stage |-> insert[p].stage, event |-> insert[p].event,
                                    id |-> insert[p].id]]

(* Log_ids are drawn above all that are visible or projected, so that an   *)
(* insert that commits puts its row at the end of the log.                 *)
LogInv ==
  /\ \A i \in LogIDs : i < nextLogID
  /\ checkpoint < nextLogID
  /\ \A p \in Ingesters : insert[p].stage = "inserting" =>
       /\ insert[p].id \in 1..MaxLog /\ insert[p].id < nextLogID
       /\ checkpoint < insert[p].id
       /\ \A i \in LogIDs : i < insert[p].id

(* A batch is a page of the log that follows the checkpoint and stays one. *)
BatchInv ==
  /\ runner # "down" => lastLogID = checkpoint
  /\ runner = "projecting" =>
       /\ entries \subseteq LogIDs /\ \A i \in entries : lastLogID < i
       /\ \E last \in entries : \A i \in entries : i <= last
       /\ \A i \in LogIDs, j \in entries : i > lastLogID /\ i <= j => i \in entries

ProjectorInv == Shape /\ LogInv /\ BatchInv /\ NoSkippedRow

-----------------------------------------------------------------------------
(* The last log_id of a batch is its largest.                              *)
LEMMA MaxIsLast ==
  ASSUME NEW S \in SUBSET Nat, NEW last \in S, \A i \in S : i <= last
  PROVE  Max(S) = last
<1>1. \E x \in S : \A y \in S : x >= y
  OBVIOUS
<1>2. Max(S) \in S /\ \A y \in S : Max(S) >= y
  BY <1>1 DEF Max
<1>3. Max(S) >= last /\ Max(S) <= last /\ Max(S) \in Nat /\ last \in Nat
  BY <1>2
<1> QED
  BY <1>3

LEMMA InitInv ==
  ASSUME Init
  PROVE  ProjectorInv
BY ProjectorAssumption DEF Init, ProjectorInv, Shape, LogInv, BatchInv, NoSkippedRow, LogIDs, Idle

(* What an ingester that draws no log_id and writes no row disturbs.       *)
LEMMA OtherInsert ==
  ASSUME ProjectorInv, UNCHANGED <<nextLogID, row, dbVars>>,
         insert' = [p \in Ingesters |-> [stage |-> insert'[p].stage, event |-> insert'[p].event,
                                         id |-> insert'[p].id]],
         \A p \in Ingesters : insert'[p].stage = "inserting" => insert'[p] = insert[p]
  PROVE  Shape' /\ LogInv' /\ NoSkippedRow' /\ LogIDs' = LogIDs
<1>1. LogIDs' = LogIDs
  BY DEF LogIDs
<1>2. Shape'
  BY DEF ProjectorInv, Shape, dbVars
<1>3. LogInv'
  BY <1>1 DEF ProjectorInv, LogInv, dbVars
<1>4. NoSkippedRow'
  BY <1>1 DEF ProjectorInv, NoSkippedRow, dbVars
<1> QED
  BY <1>1, <1>2, <1>3, <1>4

LEMMA DeliverInv ==
  ASSUME OneIngester, ProjectorInv, NEW p \in Ingesters, Deliver(p)
  PROVE  ProjectorInv'
<1>1. LogIDs' = LogIDs
  BY DEF Deliver, LogIDs
<1>2. Ingesters = {p}
  BY DEF OneIngester
<1>3. insert'[p] = [stage |-> "inserting", event |-> Head(stream), id |-> nextLogID]
  BY DEF Deliver, ProjectorInv, Shape
<1>4. /\ nextLogID' = nextLogID + 1 /\ nextLogID \in 1..MaxLog
      /\ checkpoint' = checkpoint /\ checkpoint \in 0..MaxLog
  BY ProjectorAssumption DEF Deliver, ProjectorInv, Shape, dbVars
<1>5. Shape'
  <2>1. insert' = [q \in Ingesters |-> [stage |-> insert'[q].stage, event |-> insert'[q].event,
                                        id |-> insert'[q].id]]
    BY <1>2, <1>3 DEF Deliver, ProjectorInv, Shape
  <2>2. nextLogID' \in 1..(MaxLog + 1)
    BY <1>4, ProjectorAssumption
  <2>3. row' = row
    BY DEF Deliver
  <2> QED
    BY <1>4, <2>1, <2>2, <2>3 DEF ProjectorInv, Shape
<1>6. LogInv'
  <2>1. \A i \in LogIDs : i < nextLogID /\ i \in Nat
    BY DEF ProjectorInv, LogInv, LogIDs
  <2>2. checkpoint < nextLogID
    BY DEF ProjectorInv, LogInv
  <2>3. \A i \in LogIDs' : i < nextLogID'
    BY <1>1, <1>4, <2>1
  <2>4. insert'[p].id = nextLogID
    BY <1>3
  <2> QED
    BY <1>1, <1>2, <1>4, <2>1, <2>2, <2>3, <2>4 DEF LogInv
<1>7. BatchInv' /\ NoSkippedRow'
  BY <1>1 DEF Deliver, ProjectorInv, BatchInv, NoSkippedRow, runnerVars, dbVars
<1> QED
  BY <1>5, <1>6, <1>7 DEF ProjectorInv

LEMMA CommitInsertInv ==
  ASSUME OneIngester, ProjectorInv, NEW p \in Ingesters, CommitInsert(p)
  PROVE  ProjectorInv'
<1> DEFINE id == insert[p].id
<1>1. Ingesters = {p}
  BY DEF OneIngester
<1>2. /\ id \in 1..MaxLog /\ id < nextLogID /\ checkpoint < id
      /\ \A i \in LogIDs : i < id
  BY DEF CommitInsert, ProjectorInv, LogInv
<1>3. insert'[p] = [stage |-> "inserted", event |-> insert[p].event, id |-> id]
  BY DEF CommitInsert, ProjectorInv, Shape
<1>4. /\ row' = [i \in 1..MaxLog |-> row'[i]]
      /\ \A i \in 1..MaxLog : i # id => row'[i] = row[i]
  BY <1>2 DEF CommitInsert, ProjectorInv, Shape
<1>5. LogIDs \subseteq LogIDs' /\ LogIDs' \subseteq LogIDs \union {id}
  <2>1. id \notin LogIDs
    BY <1>2 DEF LogIDs
  <2> QED
    BY <1>4, <2>1 DEF LogIDs
<1>6. Shape'
  BY <1>1, <1>3, <1>4 DEF CommitInsert, ProjectorInv, Shape, dbVars
<1>7. LogInv'
  BY <1>1, <1>2, <1>3, <1>5 DEF CommitInsert, ProjectorInv, LogInv, dbVars
<1>8. BatchInv'
  <2>1. \A j \in LogIDs : id > j
    BY <1>2 DEF LogIDs
  <2> QED
    BY <1>2, <1>5, <2>1 DEF CommitInsert, ProjectorInv, BatchInv, runnerVars, dbVars, LogIDs
<1>9. NoSkippedRow'
  <2> SUFFICES ASSUME NEW i \in LogIDs', i <= checkpoint'
               PROVE  row'[i] \in view'.activities
    BY DEF NoSkippedRow
  <2>1. checkpoint' = checkpoint /\ view' = view /\ checkpoint \in Nat
    BY ProjectorAssumption DEF CommitInsert, dbVars, ProjectorInv, Shape
  <2>2. i # id /\ i \in LogIDs
    BY <1>2, <1>5, <2>1
  <2>3. row'[i] = row[i]
    BY <1>4, <2>2 DEF LogIDs
  <2> QED
    BY <2>1, <2>2, <2>3 DEF ProjectorInv, NoSkippedRow
<1> QED
  BY <1>6, <1>7, <1>8, <1>9 DEF ProjectorInv

LEMMA ReadBatchInv ==
  ASSUME ProjectorInv, ReadBatch
  PROVE  ProjectorInv'
<1>1. LogIDs' = LogIDs
  BY DEF ReadBatch, ingestVars, LogIDs
<1>2. Shape' /\ LogInv' /\ NoSkippedRow'
  BY <1>1 DEF ReadBatch, ingestVars, dbVars, ProjectorInv, Shape, LogInv, NoSkippedRow
<1>3. PICK last \in RowsAbove(lastLogID) : entries' = Page(lastLogID, last)
  BY DEF ReadBatch, Batches
<1>4. last \in LogIDs /\ last > lastLogID
  BY <1>3 DEF RowsAbove
<1>5. entries' = {i \in LogIDs : i > lastLogID /\ i <= last}
  BY <1>3 DEF Page, RowsAbove
<1>6. LogIDs \subseteq Nat
  BY DEF LogIDs
<1>7. BatchInv'
  <2>1. last \in entries'
    BY <1>4, <1>5, <1>6
  <2>2. runner' = "projecting" /\ lastLogID' = lastLogID /\ lastLogID' = checkpoint'
    BY DEF ReadBatch, dbVars, ProjectorInv, BatchInv
  <2>3. lastLogID \in Nat
    BY ProjectorAssumption DEF ReadBatch, ProjectorInv, BatchInv, Shape
  <2>4. \A i \in LogIDs, j \in entries' : i > lastLogID /\ i <= j => i \in entries'
    BY <1>4, <1>5, <1>6, <2>3
  <2> QED
    BY <1>1, <1>5, <2>1, <2>2, <2>4 DEF BatchInv
<1> QED
  BY <1>2, <1>7 DEF ProjectorInv

LEMMA CommitBatchInv ==
  ASSUME ProjectorInv, CommitBatch
  PROVE  ProjectorInv'
<1>1. LogIDs' = LogIDs /\ row' = row /\ LogIDs \subseteq 1..MaxLog
  BY DEF CommitBatch, ingestVars, LogIDs
<1>2. PICK last \in entries : \A i \in entries : i <= last
  BY DEF CommitBatch, ProjectorInv, BatchInv
<1>3. entries \subseteq LogIDs /\ last \in LogIDs /\ last \in Nat
  <2>1. entries \subseteq LogIDs
    BY DEF CommitBatch, ProjectorInv, BatchInv
  <2> QED
    BY <1>1, <1>2, <2>1
<1>4. checkpoint' = last /\ lastLogID' = last
  <2>1. entries \in SUBSET Nat
    BY <1>1, <1>3
  <2> QED
    BY <1>2, <2>1, MaxIsLast DEF CommitBatch, NewCheckpoint
<1>5. view'.activities = view.activities \union {row[i] : i \in entries}
  BY DEF CommitBatch, Flush
<1>6. Shape'
  BY <1>1, <1>3, <1>4 DEF CommitBatch, ingestVars, ProjectorInv, Shape
<1>7. LogInv'
  BY <1>1, <1>3, <1>4 DEF CommitBatch, ingestVars, ProjectorInv, LogInv
<1>8. BatchInv'
  BY <1>4 DEF CommitBatch, BatchInv
<1>9. NoSkippedRow'
  <2> SUFFICES ASSUME NEW i \in LogIDs, i <= last
               PROVE  row[i] \in view'.activities
    BY <1>1, <1>4 DEF NoSkippedRow
  <2>1. CASE i <= checkpoint
    BY <1>5, <2>1 DEF ProjectorInv, NoSkippedRow
  <2>2. CASE i > lastLogID
    BY <1>2, <1>5, <2>2 DEF CommitBatch, ProjectorInv, BatchInv
  <2>3. i \in Nat /\ checkpoint \in Nat /\ lastLogID = checkpoint
    BY <1>1, ProjectorAssumption DEF CommitBatch, ProjectorInv, BatchInv, Shape
  <2> QED
    BY <2>1, <2>2, <2>3
<1> QED
  BY <1>6, <1>7, <1>8, <1>9 DEF ProjectorInv

(* The induction step, one case per action.                                *)
LEMMA NextInv ==
  ASSUME OneIngester, ProjectorInv, [Next]_vars
  PROVE  ProjectorInv'
<1>1. ASSUME NEW p \in Ingesters, Ack(p) \/ Nak(p)
      PROVE  ProjectorInv'
  <2>1. /\ insert' = [insert EXCEPT ![p] = Idle] /\ UNCHANGED <<nextLogID, row>>
        /\ UNCHANGED <<runnerVars, dbVars>>
    BY <1>1 DEF Ack, Nak
  <2>2. \A q \in Ingesters : insert'[q] = IF q = p THEN Idle ELSE insert[q]
    BY <2>1 DEF ProjectorInv, Shape
  <2>3. insert' = [q \in Ingesters |-> [stage |-> insert'[q].stage, event |-> insert'[q].event,
                                        id |-> insert'[q].id]]
    BY <2>1, <2>2 DEF ProjectorInv, Shape, Idle
  <2>4. \A q \in Ingesters : insert'[q].stage = "inserting" => insert'[q] = insert[q]
    BY <2>2 DEF Idle
  <2>5. Shape' /\ LogInv' /\ NoSkippedRow' /\ LogIDs' = LogIDs
    BY <2>1, <2>3, <2>4, OtherInsert
  <2> QED
    BY <2>1, <2>5 DEF ProjectorInv, BatchInv, runnerVars, dbVars
<1>2. CASE Start
  <2>1. Shape' /\ LogInv' /\ NoSkippedRow'
    BY <1>2 DEF Start, ingestVars, dbVars, ProjectorInv, Shape, LogInv, NoSkippedRow, LogIDs
  <2> QED
    BY <1>2, <2>1 DEF Start, ingestVars, dbVars, ProjectorInv, BatchInv
<1>3. CASE Crash
  <2>1. insert' = [q \in Ingesters |-> [stage |-> insert'[q].stage, event |-> insert'[q].event,
                                        id |-> insert'[q].id]]
    BY <1>3 DEF Crash, Idle
  <2>2. \A q \in Ingesters : insert'[q].stage = "inserting" => insert'[q] = insert[q]
    BY <1>3 DEF Crash, Idle
  <2>3. Shape' /\ LogInv' /\ NoSkippedRow'
    BY <1>3, <2>1, <2>2, OtherInsert DEF Crash
  <2> QED
    BY <1>3, <2>3 DEF Crash, ProjectorInv, BatchInv
<1>4. CASE UNCHANGED vars
  BY <1>4 DEF vars, ingestVars, runnerVars, dbVars, ProjectorInv, Shape, LogInv, BatchInv,
              NoSkippedRow, LogIDs
<1> QED
  BY <1>1, <1>2, <1>3, <1>4, DeliverInv, CommitInsertInv, ReadBatchInv, CommitBatchInv DEF Next

-----------------------------------------------------------------------------
(* The checkpoint of Runner.ReplayBatch never passes a visible row that    *)
(* has not been projected, whatever is redelivered and wherever the        *)
(* process ends, as long as one goroutine inserts.                         *)
THEOREM NothingIsSkipped ==
  ASSUME OneIngester
  PROVE  Spec => []NoSkippedRow
<1>1. Init => ProjectorInv
  BY InitInv
<1>2. ProjectorInv /\ [Next]_vars => ProjectorInv'
  BY NextInv
<1>3. ProjectorInv => NoSkippedRow
  BY DEF ProjectorInv
<1> QED
  BY <1>1, <1>2, <1>3, PTL DEF Spec

-----------------------------------------------------------------------------
(* A set of numbers has a least member: the form of induction that the     *)
(* proofs below use, since neither prover instantiates the induction       *)
(* theorems.                                                               *)
LEMMA HasMinimum ==
  ASSUME NEW T \in SUBSET Nat, T # {}
  PROVE \E m \in T : \A n \in T : m <= n
<1>1. \E x \in T : \A y \in T : ~(<<y, x>> \in OpToRel(<, Nat))
  BY NatLessThanWellFounded, WFMin
<1>2. PICK m \in T : \A y \in T : ~(<<y, m>> \in OpToRel(<, Nat))
  BY <1>1
<1>3. \A y \in T : ~(y < m)
  BY <1>2 DEF OpToRel
<1> QED BY <1>3

(* The equation of the recursive function of StateAfter.                   *)
StateBody(f, ids, n) ==
  IF n = 0 THEN view ELSE IF n \in ids THEN StateOps(f[n - 1], row[n]) ELSE f[n - 1]

(* A function that satisfies the equation exists up to every N: for the    *)
(* least N without one, extend the one for N - 1.                          *)
LEMMA StateExists ==
  ASSUME NEW ids, NEW N \in Nat
  PROVE  \E f : f = [n \in 0..N |-> StateBody(f, ids, n)]
<1> DEFINE F(k, f) == f = [n \in 0..k |-> StateBody(f, ids, n)]
           T == {k \in Nat : ~\E f : F(k, f)}
<1>1. SUFFICES ASSUME T # {} PROVE FALSE
  OBVIOUS
<1>2. PICK k \in T : \A n \in T : k <= n
  <2> HIDE DEF T
  <2>1. T \in SUBSET Nat
    BY DEF T
  <2> QED
    BY <1>1, <2>1, HasMinimum
<1>3. CASE k = 0
  <2>1. F(0, [n \in 0..0 |-> view])
    BY DEF StateBody
  <2> QED
    BY <1>2, <1>3, <2>1
<1>4. CASE k # 0
  <2>1. k - 1 \in Nat /\ k - 1 \notin T
    BY <1>2, <1>4
  <2>2. PICK g : F(k - 1, g)
    BY <2>1
  <2> DEFINE h == [n \in 0..k |-> IF n = k THEN StateBody(g, ids, k) ELSE g[n]]
  <2>3. k \in Nat /\ DOMAIN g = 0..(k - 1)
    BY <2>2
  <2>4. ASSUME NEW n \in 0..k PROVE h[n] = StateBody(h, ids, n)
    <3>1. CASE n = k
      <4>1. h[n - 1] = g[n - 1]
        BY <1>4, <2>3, <3>1
      <4>2. h[n] = StateBody(g, ids, n)
        BY <3>1
      <4> HIDE DEF h
      <4> QED
        BY <4>1, <4>2 DEF StateBody
    <3>2. CASE n # k
      <4>1. h[n] = g[n] /\ n \in 0..(k-1)
        BY <2>3, <3>2
      <4>2. g[n] = StateBody(g, ids, n)
        BY <2>2, <4>1
      <4>3. n # 0 => h[n - 1] = g[n - 1]
        BY <2>3, <4>1
      <4> HIDE DEF h
      <4> QED
        BY <4>1, <4>2, <4>3 DEF StateBody
    <3> QED
      BY <3>1, <3>2
  <2>5. h = [n \in 0..k |-> StateBody(h, ids, n)]
    <3>1. h = [n \in 0..k |-> h[n]]
      OBVIOUS
    <3> HIDE DEF h
    <3> QED
      BY <2>4, <3>1
  <2> QED
    BY <1>2, <2>5
<1> QED
  BY <1>3, <1>4

(* StateAfter satisfies its equation.                                      *)
LEMMA StateRecursion ==
  ASSUME NEW ids
  PROVE  StateAfter(ids) = [n \in 0..MaxLog |-> StateBody(StateAfter(ids), ids, n)]
<1>1. MaxLog \in Nat
  BY ProjectorAssumption
<1>2. StateAfter(ids) = CHOOSE f : f = [n \in 0..MaxLog |-> StateBody(f, ids, n)]
  BY DEF StateAfter, StateBody
<1>3. \E f : f = [n \in 0..MaxLog |-> StateBody(f, ids, n)]
  BY <1>1, StateExists
<1> QED
  BY <1>2, <1>3

(* Induction over the numbers, for a set G instead of a predicate.         *)
LEMMA SetInduction ==
  ASSUME NEW G, 0 \in G, \A n \in Nat : n \in G => n + 1 \in G
  PROVE  Nat \subseteq G
<1> DEFINE T == Nat \ G
<1>1. SUFFICES ASSUME T # {} PROVE FALSE
  OBVIOUS
<1>2. PICK k \in T : \A n \in T : k <= n
  BY <1>1, HasMinimum
<1>3. k - 1 \in Nat /\ k - 1 \in G
  BY <1>2
<1> QED
  BY <1>2, <1>3


(* What a view is, and that Null is none of its values.                    *)
Views == [token : Tokens \union {Null}, market : [Markets -> MarketRows \union {Null}],
          trades : SUBSET Events, activities : SUBSET Events]

NullIsApart == Null \notin Events \union Markets \union Tokens \union MarketRows

(* The kinds of events that write the token, and the record that each      *)
(* hands to upsertTokenSQL.                                                *)
Setters == {"create", "migrate", "createPool"}
NewToken(e) ==
  [createEvent |-> IF Kind(e) = "create" THEN e ELSE Null, firstSeen |-> e,
   stage |-> IF Kind(e) = "create" THEN "bonding_curve" ELSE "pool",
   active |-> IF Kind(e) = "create" THEN "curve" ELSE "pool",
   migratedAt |-> IF Kind(e) = "migrate" THEN e ELSE Null]

(* What upsertTokenMarketSQL makes of a market's row.                      *)
MergedMarket(old, e) ==
  IF old = Null THEN [startedAt |-> e, endedAt |-> Null]
  ELSE [startedAt |-> Least(old.startedAt, e), endedAt |-> old.endedAt]

(* The upserts and the update, written out field by field.                 *)
LEMMA UpsertTokenIs ==
  ASSUME NEW v \in Views, NEW t
  PROVE  UpsertToken(v, t) = [token |-> IF v.token = Null THEN t ELSE MergeToken(v.token, t),
                              market |-> v.market, trades |-> v.trades,
                              activities |-> v.activities]
  BY DEF UpsertToken, Views

LEMMA UpsertMarketIs ==
  ASSUME NEW v, v = [token |-> v.token, market |-> v.market, trades |-> v.trades,
                     activities |-> v.activities],
         v.market \in [Markets -> MarketRows \union {Null}], NEW m \in Markets, NEW e
  PROVE  UpsertMarket(v, m, e) =
           [token |-> v.token, market |-> [v.market EXCEPT ![m] = MergedMarket(v.market[m], e)],
            trades |-> v.trades, activities |-> v.activities]
<1>1. v.market[m] # Null => v.market[m] \in MarketRows
  OBVIOUS
<1> DEFINE old == v.market[m]
<1>2. (IF old = Null THEN [startedAt |-> e, endedAt |-> Null]
        ELSE [old EXCEPT !.startedAt = Least(old.startedAt, e)]) = MergedMarket(old, e)
  <2> HIDE DEF old
  <2>1. old # Null => old = [startedAt |-> old.startedAt, endedAt |-> old.endedAt]
    BY <1>1 DEF MarketRows, old
  <2> QED
    BY <2>1 DEF MergedMarket
<1>3. UpsertMarket(v, m, e) = [v EXCEPT !.market[m] = MergedMarket(old, e)]
  BY <1>2 DEF UpsertMarket
<1> HIDE DEF old
<1> QED
  BY <1>3 DEF old

LEMMA CloseMarketIs ==
  ASSUME NEW v \in Views, NEW e
  PROVE  CloseMarket(v, "curve", e) =
           [token |-> v.token,
            market |-> [v.market EXCEPT !["curve"] =
                          IF v.market["curve"] = Null THEN Null
                          ELSE [startedAt |-> v.market["curve"].startedAt, endedAt |-> e]],
            trades |-> v.trades, activities |-> v.activities]
<1> DEFINE old == v.market["curve"]
<1>1. (IF old = Null THEN old ELSE [old EXCEPT !.endedAt = e]) =
        (IF old = Null THEN Null ELSE [startedAt |-> old.startedAt, endedAt |-> e])
  <2>1. old # Null => old = [startedAt |-> old.startedAt, endedAt |-> old.endedAt]
    BY DEF MarketRows, Views, Markets
  <2> HIDE DEF old
  <2> QED
    BY <2>1
<1>2. CloseMarket(v, "curve", e) =
        [v EXCEPT !.market["curve"] = IF old = Null THEN old ELSE [old EXCEPT !.endedAt = e]]
  BY DEF CloseMarket
<1> HIDE DEF old
<1> QED
  BY <1>1, <1>2 DEF Views, old

(* The rows that are written have their types.                             *)
LEMMA MergedMarketType ==
  ASSUME NEW old \in MarketRows \union {Null}, NEW e \in Events
  PROVE  MergedMarket(old, e) \in MarketRows
<1>1. Least(old.startedAt, e) \in {old.startedAt, e}
  BY DEF Least
<1>2. CASE old = Null
  BY <1>2 DEF MergedMarket, MarketRows, Values
<1>3. CASE old # Null
  <2>1. old.startedAt \in Events /\ old.endedAt \in Values
    BY <1>3 DEF MarketRows
  <2> QED
    BY <1>1, <1>3, <2>1 DEF MergedMarket, MarketRows
<1> QED
  BY <1>2, <1>3

LEMMA NewTokenType ==
  ASSUME NEW e \in Events PROVE NewToken(e) \in Tokens
  BY DEF NewToken, Tokens, Values, Markets

LEMMA TokenType ==
  ASSUME NEW a \in Values, NEW b \in Events, NEW c \in {"bonding_curve", "pool"},
         NEW d \in Markets, NEW f \in Values
  PROVE  [createEvent |-> a, firstSeen |-> b, stage |-> c, active |-> d, migratedAt |-> f]
           \in Tokens
  BY DEF Tokens

LEMMA MergeTokenType ==
  ASSUME NEW old \in Tokens, NEW e \in Events
  PROVE  MergeToken(old, NewToken(e)) \in Tokens
<1> DEFINE new == NewToken(e)
           a == Coalesce(old.createEvent, new.createEvent)
           b == Least(old.firstSeen, new.firstSeen)
           d == Coalesce(new.active, old.active)
           f == Coalesce(new.migratedAt, old.migratedAt)
<1>1. new \in Tokens
  BY NewTokenType
<1>2. MergeToken(old, new) =
        [createEvent |-> a, firstSeen |-> b, stage |-> new.stage, active |-> d, migratedAt |-> f]
  BY DEF MergeToken
<1> HIDE DEF new
<1>3. /\ new.stage \in {"bonding_curve", "pool"}
      /\ a \in Values /\ b \in Events /\ d \in Markets /\ f \in Values
  BY <1>1 DEF Tokens, Coalesce, Least
<1> HIDE DEF a, b, d, f
<1>4. MergeToken(old, new) \in Tokens
  BY <1>2, <1>3, TokenType
<1> QED
  BY <1>4 DEF new

(* What the handlers of creations, migrations and pools write.             *)
LEMMA SetterIs ==
  ASSUME NEW v \in Views, NEW e \in Events, Kind(e) \in Setters
  PROVE  LET w == StateOps(v, e)
             m == IF Kind(e) = "create" THEN "curve" ELSE "pool"
         IN  /\ w.token = IF v.token = Null THEN NewToken(e) ELSE MergeToken(v.token, NewToken(e))
             /\ w.trades = v.trades /\ w.activities = v.activities
             /\ w.market \in [Markets -> MarketRows \union {Null}]
             /\ w.market[m] = MergedMarket(v.market[m], e)
             /\ Kind(e) = "create" => w.market["pool"] = v.market["pool"]
             /\ Kind(e) = "createPool" => w.market["curve"] = v.market["curve"]
             /\ Kind(e) = "migrate" => w.market["curve"] =
                  IF v.market["curve"] = Null THEN Null
                  ELSE [startedAt |-> v.market["curve"].startedAt, endedAt |-> e]
             /\ w \in Views
<1> DEFINE Shaped(v0) == v0 = [token |-> v0.token, market |-> v0.market, trades |-> v0.trades,
                               activities |-> v0.activities]
           merged(v0) == IF v0.token = Null THEN NewToken(e) ELSE MergeToken(v0.token, NewToken(e))
<1>1. v.market \in [Markets -> MarketRows \union {Null}] /\ Markets = {"curve", "pool"}
  BY DEF Views, Markets
<1>2. merged(v) \in Tokens
  BY NewTokenType, MergeTokenType DEF Views
<1>3. ASSUME NEW u, Shaped(u), u.market \in [Markets -> MarketRows \union {Null}],
             NEW m \in Markets
      PROVE  LET w == UpsertMarket(u, m, e)
             IN  /\ w.token = u.token /\ w.trades = u.trades /\ w.activities = u.activities
                 /\ w.market = [u.market EXCEPT ![m] = MergedMarket(u.market[m], e)]
                 /\ w.market \in [Markets -> MarketRows \union {Null}]
                 /\ Shaped(w)
  <2>1. UpsertMarket(u, m, e) =
           [token |-> u.token, market |-> [u.market EXCEPT ![m] = MergedMarket(u.market[m], e)],
            trades |-> u.trades, activities |-> u.activities]
    BY <1>3, UpsertMarketIs
  <2>2. MergedMarket(u.market[m], e) \in MarketRows
    BY <1>3, MergedMarketType
  <2> QED
    BY <1>3, <2>1, <2>2
<1>4. ASSUME Kind(e) \in {"create", "createPool"}
      PROVE  LET m == IF Kind(e) = "create" THEN "curve" ELSE "pool"
                 u == UpsertToken(v, NewToken(e))
             IN  StateOps(v, e) = UpsertMarket(u, m, e)
  <2>1. CASE Kind(e) = "create"
    BY <2>1 DEF StateOps, ProjectCreate, NewToken
  <2>2. CASE Kind(e) = "createPool"
    BY <2>2 DEF StateOps, ProjectCreatePool, NewToken
  <2> QED
    BY <1>4, <2>1, <2>2
<1>5. CASE Kind(e) \in {"create", "createPool"}
  <2> DEFINE m == IF Kind(e) = "create" THEN "curve" ELSE "pool"
             u == UpsertToken(v, NewToken(e))
             w == UpsertMarket(u, m, e)
  <2>1. u = [token |-> merged(v), market |-> v.market, trades |-> v.trades,
             activities |-> v.activities]
    BY UpsertTokenIs
  <2>2. m \in Markets /\ Shaped(u) /\ u.market \in [Markets -> MarketRows \union {Null}]
    BY <1>1, <2>1
  <2>3. /\ w.token = merged(v) /\ w.trades = v.trades /\ w.activities = v.activities
        /\ w.market = [v.market EXCEPT ![m] = MergedMarket(v.market[m], e)]
        /\ w.market \in [Markets -> MarketRows \union {Null}]
        /\ Shaped(w)
    <3> HIDE DEF u, m, Shaped, merged
    <3>1. /\ w.token = u.token /\ w.trades = u.trades /\ w.activities = u.activities
          /\ w.market = [u.market EXCEPT ![m] = MergedMarket(u.market[m], e)]
          /\ w.market \in [Markets -> MarketRows \union {Null}]
          /\ Shaped(w)
      BY <1>3, <2>2
    <3> HIDE DEF w
    <3> QED
      BY <2>1, <3>1
  <2>4. StateOps(v, e) = w
    BY <1>4, <1>5
  <2> HIDE DEF w, u, merged
  <2>5. w \in Views
    <3>1. w.trades \in SUBSET Events /\ w.activities \in SUBSET Events
      BY <2>3 DEF Views
    <3> QED
      BY <1>2, <2>3, <3>1 DEF Views
  <2> QED
    BY <1>1, <1>5, <2>3, <2>4, <2>5 DEF merged
<1>6. CASE Kind(e) = "migrate"
  <2> DEFINE c == CloseMarket(v, "curve", e)
             u == UpsertToken(c, NewToken(e))
             w == UpsertMarket(u, "pool", e)
             old == v.market["curve"]
             closed == IF old = Null THEN Null ELSE [startedAt |-> old.startedAt, endedAt |-> e]
  <2>1. StateOps(v, e) = w
    BY <1>6 DEF StateOps, ProjectMigrate, NewToken
  <2>2. closed \in MarketRows \union {Null}
    BY <1>1 DEF MarketRows, Values
  <2>3. c = [token |-> v.token, market |-> [v.market EXCEPT !["curve"] = closed],
             trades |-> v.trades, activities |-> v.activities]
    BY CloseMarketIs
  <2>4. c \in Views
    <3> HIDE DEF c, closed
    <3> QED
      BY <1>1, <2>2, <2>3 DEF Views
  <2>5. u = [token |-> merged(v), market |-> c.market, trades |-> v.trades,
             activities |-> v.activities]
    <3> HIDE DEF c, closed
    <3>1. c.token = v.token /\ c.trades = v.trades /\ c.activities = v.activities
      BY <2>3
    <3> QED
      BY <2>4, <3>1, UpsertTokenIs
  <2>6. Shaped(u) /\ u.market \in [Markets -> MarketRows \union {Null}] /\ u.market = c.market
    <3> HIDE DEF c, u
    <3> QED
      BY <2>4, <2>5 DEF Views
  <2>7. /\ w.token = merged(v) /\ w.trades = v.trades /\ w.activities = v.activities
        /\ w.market = [c.market EXCEPT !["pool"] = MergedMarket(c.market["pool"], e)]
        /\ w.market \in [Markets -> MarketRows \union {Null}]
        /\ Shaped(w)
    <3> HIDE DEF u, Shaped, merged, c
    <3>1. /\ w.token = u.token /\ w.trades = u.trades /\ w.activities = u.activities
          /\ w.market = [u.market EXCEPT !["pool"] = MergedMarket(u.market["pool"], e)]
          /\ w.market \in [Markets -> MarketRows \union {Null}]
          /\ Shaped(w)
      BY <1>1, <1>3, <2>6
    <3> HIDE DEF w
    <3> QED
      BY <2>5, <2>6, <3>1
  <2>8. c.market["pool"] = v.market["pool"] /\ c.market["curve"] = closed
    <3> HIDE DEF c, closed
    <3> QED
      BY <1>1, <2>3
  <2>9. c.market \in [Markets -> MarketRows \union {Null}]
    BY <2>6
  <2> HIDE DEF w, u, c, merged
  <2>10. w \in Views
    <3>1. w.trades \in SUBSET Events /\ w.activities \in SUBSET Events
      BY <2>7 DEF Views
    <3> QED
      BY <1>2, <2>7, <3>1 DEF Views
  <2>11. /\ w.market["pool"] = MergedMarket(v.market["pool"], e)
         /\ w.market["curve"] = closed
    BY <1>1, <2>7, <2>8, <2>9
  <2> QED
    BY <1>1, <1>6, <2>1, <2>7, <2>10, <2>11 DEF merged
<1> QED
  BY <1>5, <1>6 DEF Setters

(* The other handlers write no token and no market.                        *)
LEMMA OtherIs ==
  ASSUME NEW v \in Views, NEW e \in Events, Kind(e) \notin Setters
  PROVE  StateOps(v, e) = v
  BY DEF StateOps, Setters

LEMMA StateOpsType ==
  ASSUME NEW v \in Views, NEW e \in Events
  PROVE  StateOps(v, e) \in Views
  BY SetterIs, OtherIs

(* What TokenMatchesLog says of the token t when the rows P are projected, *)
(* in a form that a single row preserves.                                  *)
TokenPart(t, P) ==
  LET S == {i \in P : Kind(row[i]) \in Setters}
      times(kind) == {row[i] : i \in {j \in P : Kind(row[j]) = kind}}
  IN  IF S = {} THEN t = Null
      ELSE /\ t \in Tokens
           /\ \E latest \in S :
                /\ \A j \in S : j <= latest
                /\ t.stage = IF Kind(row[latest]) = "create" THEN "bonding_curve" ELSE "pool"
                /\ t.active = IF Kind(row[latest]) = "create" THEN "curve" ELSE "pool"
           /\ \A i \in S : t.firstSeen <= row[i]
           /\ \E i \in S : t.firstSeen = row[i]
           /\ IF times("create") = {} THEN t.createEvent = Null
              ELSE t.createEvent \in times("create")
           /\ IF times("migrate") = {} THEN t.migratedAt = Null
              ELSE t.migratedAt \in times("migrate")

(* What MigrationSticks says of the markets m when the rows P are          *)
(* projected.                                                              *)
MarketPart(m, P) ==
  /\ (\E i \in P : Kind(row[i]) = "create") => m["curve"] # Null
  /\ (\E i \in P : Kind(row[i]) = "migrate") => m["pool"] # Null
  /\ \A i, j \in P : i < j /\ Kind(row[i]) = "create" /\ Kind(row[j]) = "migrate"
                       => m["curve"].endedAt = row[j]

(* Projecting one more row, above all of P, keeps what the token says.     *)
LEMMA TokenStep ==
  ASSUME NullIsApart, NEW v \in Views, NEW P \in SUBSET Nat, NEW n \in Nat,
         \A i \in P : i < n /\ row[i] \in Events,
         row[n] \in Events, TokenPart(v.token, P)
  PROVE  TokenPart(StateOps(v, row[n]).token, P \union {n})
<1> DEFINE Q == P \union {n}
           e == row[n]
           S == {i \in P : Kind(row[i]) \in Setters}
           R == {i \in Q : Kind(row[i]) \in Setters}
           times(kind) == {row[i] : i \in {j \in P : Kind(row[j]) = kind}}
           timesQ(kind) == {row[i] : i \in {j \in Q : Kind(row[j]) = kind}}
           t == v.token
           u == StateOps(v, e).token
<1>1. CASE Kind(e) \notin Setters
  <2>1. u = t
    BY <1>1, OtherIs
  <2>2. R = S /\ timesQ("create") = times("create") /\ timesQ("migrate") = times("migrate")
    BY <1>1 DEF Setters
  <2> QED
    BY <2>1, <2>2 DEF TokenPart
<1>2. CASE Kind(e) \in Setters
  <2>1. u = IF t = Null THEN NewToken(e) ELSE MergeToken(t, NewToken(e))
    BY <1>2, SetterIs
  <2>2. R = S \union {n} /\ n \in R /\ \A j \in R : j <= n
    BY <1>2
  <2>3. /\ timesQ("create") = IF Kind(e) = "create" THEN times("create") \union {e}
                              ELSE times("create")
        /\ timesQ("migrate") = IF Kind(e) = "migrate" THEN times("migrate") \union {e}
                               ELSE times("migrate")
    OBVIOUS
  <2>4. /\ u.stage = IF Kind(e) = "create" THEN "bonding_curve" ELSE "pool"
        /\ u.active = IF Kind(e) = "create" THEN "curve" ELSE "pool"
        /\ u \in Tokens
    <3>1. NewToken(e).active \in {"curve", "pool"}
      BY DEF NewToken
    <3>2. /\ NewToken(e).stage = IF Kind(e) = "create" THEN "bonding_curve" ELSE "pool"
          /\ NewToken(e).active = IF Kind(e) = "create" THEN "curve" ELSE "pool"
          /\ NewToken(e).active # Null
      BY DEF NewToken, NullIsApart, Markets
    <3>3. \A old, new : /\ MergeToken(old, new).stage = new.stage
                        /\ new.active # Null => MergeToken(old, new).active = new.active
      BY DEF MergeToken, Coalesce
    <3>4. t # Null => t \in Tokens
      BY DEF Views
    <3>5. u \in Tokens
      BY <2>1, <3>4, NewTokenType, MergeTokenType
    <3> QED
      BY <2>1, <3>2, <3>3, <3>5
  <2>5. t = Null <=> S = {}
    BY DEF TokenPart, NullIsApart
  <2>6. Events \subseteq Nat
    BY DEF Events
  <2>7. (\A i \in R : u.firstSeen <= row[i]) /\ \E i \in R : u.firstSeen = row[i]
    <3>1. NewToken(e).firstSeen = e
      BY DEF NewToken
    <3>2. CASE t = Null
      <4>0. u.firstSeen = e
        BY <2>1, <3>1, <3>2
      <4>1. R = {n}
        <5> HIDE DEF R, S
        <5> QED
          BY <2>2, <2>5, <3>2
      <4>3. e \in Nat
        BY <2>6
      <4>2. e <= e
        <5> HIDE DEF e
        <5> QED
          BY <4>3
      <4> HIDE DEF u, R
      <4> QED
        BY <4>0, <4>1, <4>2
    <3>3. CASE t # Null
      <4>1. /\ t.firstSeen \in Events
            /\ \A i \in S : t.firstSeen <= row[i]
            /\ \E i \in S : t.firstSeen = row[i]
        BY <2>5, <3>3 DEF TokenPart, Tokens
      <4>2. u.firstSeen = IF t.firstSeen < e THEN t.firstSeen ELSE e
        BY <2>1, <3>1, <3>3 DEF MergeToken, Least
      <4>3. \A i \in S : row[i] \in Nat
        BY <2>6
      <4>4. t.firstSeen \in Nat /\ e \in Nat
        BY <2>6, <4>1
      <4> HIDE DEF S, R, t, u, e
      <4>5. \A i \in S : u.firstSeen <= row[i]
        BY <4>1, <4>2, <4>3, <4>4
      <4>6. u.firstSeen <= e
        BY <4>2, <4>4
      <4> USE DEF e
      <4> QED
        BY <2>2, <4>1, <4>2, <4>5, <4>6
    <3> QED
      BY <3>2, <3>3
  <2>8. IF timesQ("create") = {} THEN u.createEvent = Null ELSE u.createEvent \in timesQ("create")
    <3>1. NewToken(e).createEvent = IF Kind(e) = "create" THEN e ELSE Null
      BY DEF NewToken
    <3>2. times("create") \subseteq Events
      OBVIOUS
    <3>3. CASE t = Null
      <4>1. times("create") = {}
        BY <2>5, <3>3 DEF Setters
      <4> QED
        BY <2>1, <2>3, <3>1, <3>3, <4>1
    <3>4. CASE t # Null
      <4>1. IF times("create") = {} THEN t.createEvent = Null ELSE t.createEvent \in times("create")
        BY <2>5, <3>4 DEF TokenPart
      <4>2. u.createEvent = IF t.createEvent # Null THEN t.createEvent ELSE NewToken(e).createEvent
        BY <2>1, <3>4 DEF MergeToken, Coalesce
      <4> HIDE DEF times, timesQ, t, u, e
      <4> QED
        BY <2>3, <3>1, <3>2, <4>1, <4>2 DEF NullIsApart
    <3> QED
      BY <3>3, <3>4
  <2>9. IF timesQ("migrate") = {} THEN u.migratedAt = Null ELSE u.migratedAt \in timesQ("migrate")
    <3>1. NewToken(e).migratedAt = IF Kind(e) = "migrate" THEN e ELSE Null
      BY DEF NewToken
    <3>2. times("migrate") \subseteq Events
      OBVIOUS
    <3>3. CASE t = Null
      <4>1. times("migrate") = {}
        BY <2>5, <3>3 DEF Setters
      <4> QED
        BY <2>1, <2>3, <3>1, <3>3, <4>1
    <3>4. CASE t # Null
      <4>1. IF times("migrate") = {} THEN t.migratedAt = Null ELSE t.migratedAt \in times("migrate")
        BY <2>5, <3>4 DEF TokenPart
      <4>2. u.migratedAt = IF NewToken(e).migratedAt # Null THEN NewToken(e).migratedAt
                           ELSE t.migratedAt
        BY <2>1, <3>4 DEF MergeToken, Coalesce
      <4>3. e # Null
        BY DEF NullIsApart
      <4> HIDE DEF times, timesQ, t, u, e
      <4> QED
        BY <2>3, <3>1, <3>2, <4>1, <4>2, <4>3
    <3> QED
      BY <3>3, <3>4
  <2>10. R # {}
    BY <2>2
  <2> HIDE DEF u, t, S, times
  <2>11. TokenPart(u, Q)
    BY <2>2, <2>4, <2>7, <2>8, <2>9, <2>10 DEF TokenPart
  <2> QED
    BY <2>11 DEF u
<1> QED
  BY <1>1, <1>2

(* And what the markets say, unless the token migrates a second time.      *)
LEMMA MarketStep ==
  ASSUME NullIsApart, NEW v \in Views, NEW P \in SUBSET Nat, NEW n \in Nat,
         \A i \in P : i < n /\ row[i] \in Events,
         row[n] \in Events, MarketPart(v.market, P),
         \A i \in P : Kind(row[i]) = "migrate" => Kind(row[n]) # "migrate"
  PROVE  MarketPart(StateOps(v, row[n]).market, P \union {n})
<1> DEFINE Q == P \union {n}
           e == row[n]
           m == v.market
           w == StateOps(v, e).market
<1>0. /\ e \in Events /\ m["curve"] \in MarketRows \union {Null}
      /\ m["pool"] \in MarketRows \union {Null}
  BY DEF Views, Markets
<1>m. \A old \in MarketRows \union {Null} :
        /\ MergedMarket(old, e) # Null
        /\ old # Null => MergedMarket(old, e).endedAt = old.endedAt
  BY MergedMarketType DEF NullIsApart, MergedMarket
<1> DEFINE Creates(P0) == \E i \in P0 : Kind(row[i]) = "create"
           Migrates(P0) == \E i \in P0 : Kind(row[i]) = "migrate"
<1>p. /\ Creates(P) => m["curve"] # Null
      /\ Migrates(P) => m["pool"] # Null
      /\ \A i, j \in P : i < j /\ Kind(row[i]) = "create" /\ Kind(row[j]) = "migrate"
                           => m["curve"].endedAt = row[j]
  BY DEF MarketPart
<1>q. SUFFICES /\ Creates(Q) => w["curve"] # Null
               /\ Migrates(Q) => w["pool"] # Null
               /\ \A i, j \in Q : i < j /\ Kind(row[i]) = "create" /\ Kind(row[j]) = "migrate"
                                    => w["curve"].endedAt = row[j]
  BY DEF MarketPart
<1>r. \A i, j \in Q : i < j => i \in P /\ (j \in P \/ j = n)
  OBVIOUS
<1>1. CASE Kind(e) \notin Setters
  <2>1. w = m
    BY <1>1, OtherIs
  <2>2. Kind(e) # "create" /\ Kind(e) # "migrate"
    BY <1>1 DEF Setters
  <2> HIDE DEF w, m
  <2> QED
    BY <1>p, <1>r, <2>1, <2>2
<1>2. CASE Kind(e) = "create"
  <2>1. w["curve"] = MergedMarket(m["curve"], e) /\ w["pool"] = m["pool"]
    BY <1>2, SetterIs DEF Setters
  <2>2. /\ w["curve"] # Null
        /\ m["curve"] # Null => w["curve"].endedAt = m["curve"].endedAt
    BY <1>0, <1>m, <2>1
  <2> HIDE DEF w, m
  <2> QED
    BY <1>2, <1>p, <1>r, <2>1, <2>2
<1>3. CASE Kind(e) = "createPool"
  <2>1. w["pool"] = MergedMarket(m["pool"], e) /\ w["curve"] = m["curve"]
    BY <1>3, SetterIs DEF Setters
  <2>2. w["pool"] # Null
    BY <1>0, <1>m, <2>1
  <2> HIDE DEF w, m
  <2> QED
    BY <1>3, <1>p, <1>r, <2>1, <2>2
<1>4. CASE Kind(e) = "migrate"
  <2>1. /\ w["pool"] = MergedMarket(m["pool"], e)
        /\ w["curve"] = IF m["curve"] = Null THEN Null
                        ELSE [startedAt |-> m["curve"].startedAt, endedAt |-> e]
    BY <1>4, SetterIs DEF Setters
  <2>2. w["pool"] # Null
    BY <1>0, <1>m, <2>1
  <2>3. m["curve"] # Null => w["curve"] # Null /\ w["curve"].endedAt = e
    <3>1. \A x : [startedAt |-> x, endedAt |-> e] \in MarketRows \/ x \notin Events
      BY <1>0 DEF MarketRows, Values
    <3>2. m["curve"] # Null => m["curve"].startedAt \in Events
      BY <1>0 DEF MarketRows
    <3> QED
      BY <2>1, <3>1, <3>2 DEF NullIsApart
  <2>4. \A j \in P : Kind(row[j]) # "migrate"
    BY <1>4
  <2> HIDE DEF w, m
  <2> QED
    BY <1>4, <1>p, <1>r, <2>2, <2>3, <2>4
<1> QED
  BY <1>1, <1>2, <1>3, <1>4 DEF Setters

(* The log_ids of ids up to n, and how they grow with n.                   *)
UpTo(ids, n) == {i \in ids : i <= n}

LEMMA UpToEnds ==
  ASSUME NEW N \in Nat, NEW ids \in SUBSET (1..N)
  PROVE  UpTo(ids, 0) = {} /\ UpTo(ids, N) = ids
<1>1. \A i \in ids : i \in Nat /\ 1 <= i /\ i <= N
  OBVIOUS
<1>2. UpTo(ids, 0) = {}
  <2>1. \A i \in ids : ~(i <= 0)
    BY <1>1
  <2> QED
    BY <2>1 DEF UpTo
<1>3. UpTo(ids, N) = ids
  <2>1. \A i : i \in UpTo(ids, N) <=> i \in ids
    BY <1>1 DEF UpTo
  <2> QED
    BY <2>1
<1> QED
  BY <1>2, <1>3

LEMMA UpToNext ==
  ASSUME NEW N \in Nat, NEW ids \in SUBSET (1..N), NEW n \in Nat
  PROVE  /\ UpTo(ids, n) \subseteq ids
         /\ \A i \in UpTo(ids, n) : i \in Nat /\ i < n + 1
         /\ n + 1 \in ids => UpTo(ids, n + 1) = UpTo(ids, n) \union {n + 1}
         /\ n + 1 \notin ids => UpTo(ids, n + 1) = UpTo(ids, n)
<1>1. \A i \in ids : i \in Nat
  OBVIOUS
<1>2. \A i \in ids : i <= n + 1 <=> i <= n \/ i = n + 1
  BY <1>1
<1>3. \A i : i \in UpTo(ids, n + 1) <=> i \in UpTo(ids, n) \/ (i \in ids /\ i = n + 1)
  <2>1. n + 1 <= n + 1
    OBVIOUS
  <2> QED
    BY <1>2, <2>1 DEF UpTo
<1>4. n + 1 \in ids => UpTo(ids, n + 1) = UpTo(ids, n) \union {n + 1}
  <2>1. SUFFICES ASSUME n + 1 \in ids
                 PROVE  \A i : i \in UpTo(ids, n + 1) <=> i \in UpTo(ids, n) \union {n + 1}
    BY Zenon
  <2> QED
    BY <1>3, <2>1
<1>5. n + 1 \notin ids => UpTo(ids, n + 1) = UpTo(ids, n)
  <2>1. SUFFICES ASSUME n + 1 \notin ids
                 PROVE  \A i : i \in UpTo(ids, n + 1) <=> i \in UpTo(ids, n)
    BY Zenon
  <2> QED
    BY <1>3, <2>1
<1>6. UpTo(ids, n) \subseteq ids /\ \A i \in UpTo(ids, n) : i \in Nat /\ i < n + 1
  BY <1>1 DEF UpTo
<1> QED
  BY <1>4, <1>5, <1>6

(* StateAfter, step by step.                                               *)
LEMMA AfterFirst ==
  ASSUME NEW ids
  PROVE  StateAfter(ids)[0] = view
<1>1. 0 \in 0..MaxLog
  BY ProjectorAssumption
<1> DEFINE f == StateAfter(ids)
<1>2. f = [n \in 0..MaxLog |-> StateBody(f, ids, n)]
  BY StateRecursion
<1> HIDE DEF f
<1>3. f[0] = view
  BY <1>1, <1>2 DEF StateBody
<1> QED
  BY <1>3 DEF f

LEMMA AfterNext ==
  ASSUME NEW ids, NEW n \in 0..MaxLog, n + 1 <= MaxLog
  PROVE  StateAfter(ids)[n + 1] = IF n + 1 \in ids THEN StateOps(StateAfter(ids)[n], row[n + 1])
                                  ELSE StateAfter(ids)[n]
<1>1. n + 1 \in 0..MaxLog /\ n + 1 # 0 /\ (n + 1) - 1 = n
  BY ProjectorAssumption
<1> DEFINE f == StateAfter(ids)
<1>2. f = [k \in 0..MaxLog |-> StateBody(f, ids, k)]
  BY StateRecursion
<1> HIDE DEF f
<1>3. f[n + 1] = IF n + 1 \in ids THEN StateOps(f[n], row[n + 1]) ELSE f[n]
  BY <1>1, <1>2 DEF StateBody
<1> QED
  BY <1>3 DEF f

(* Every view on the way has its type.                                     *)
LEMMA AfterType ==
  ASSUME view \in Views, NEW ids, \A i \in ids : row[i] \in Events
  PROVE  \A n \in 0..MaxLog : StateAfter(ids)[n] \in Views
<1> DEFINE G == {n \in Nat : n <= MaxLog => StateAfter(ids)[n] \in Views}
<1>1. 0 \in G
  BY AfterFirst
<1>2. ASSUME NEW n \in Nat, n \in G PROVE n + 1 \in G
  <2> SUFFICES ASSUME n + 1 <= MaxLog PROVE StateAfter(ids)[n + 1] \in Views
    OBVIOUS
  <2>1. n \in 0..MaxLog
    BY ProjectorAssumption
  <2>2. StateAfter(ids)[n] \in Views
    BY <1>2, <2>1
  <2>3. n + 1 \in ids => StateOps(StateAfter(ids)[n], row[n + 1]) \in Views
    BY <2>2, StateOpsType
  <2> QED
    BY <2>1, <2>2, <2>3, AfterNext
<1> HIDE DEF G
<1>3. Nat \subseteq G
  BY <1>1, <1>2, SetInduction
<1> USE DEF G
<1> QED
  BY <1>3, ProjectorAssumption

(* A whole batch keeps what the token says: induction over its log_ids.    *)
LEMMA AfterToken ==
  ASSUME NullIsApart, view \in Views, NEW P \in SUBSET Nat, NEW ids \in SUBSET (1..MaxLog),
         \A i \in P \union ids : row[i] \in Events, \A i \in P, j \in ids : i < j,
         TokenPart(view.token, P)
  PROVE  TokenPart(StateAfter(ids)[MaxLog].token, P \union ids)
<1> DEFINE Q(n) == P \union UpTo(ids, n)
           G == {n \in Nat : n <= MaxLog => TokenPart(StateAfter(ids)[n].token, Q(n))}
<1>0. MaxLog \in Nat
  BY ProjectorAssumption
<1>1. 0 \in G
  <2>1. Q(0) = P
    BY <1>0, UpToEnds
  <2> QED
    BY <2>1, AfterFirst
<1>2. ASSUME NEW n \in Nat, n \in G PROVE n + 1 \in G
  <2> SUFFICES ASSUME n + 1 <= MaxLog
               PROVE  TokenPart(StateAfter(ids)[n + 1].token, Q(n + 1))
    OBVIOUS
  <2>1. n \in 0..MaxLog /\ n + 1 \in Nat
    BY ProjectorAssumption
  <2>2. StateAfter(ids)[n] \in Views
    BY <2>1, AfterType
  <2>3. TokenPart(StateAfter(ids)[n].token, Q(n))
    BY <1>2, <2>1
  <2>4. Q(n) \in SUBSET Nat
    BY <1>0, UpToNext
  <2>5. CASE n + 1 \in ids
    <3>1. Q(n + 1) = Q(n) \union {n + 1}
      <4>1. UpTo(ids, n + 1) = UpTo(ids, n) \union {n + 1}
        BY <1>0, <2>5, UpToNext
      <4> QED
        BY <4>1
    <3>2. \A i \in Q(n) : i < n + 1 /\ row[i] \in Events
      <4>1. \A i \in P : i \in Nat /\ i < n + 1
        BY <2>5
      <4>2. \A i \in UpTo(ids, n) : i < n + 1 /\ i \in ids
        BY <1>0, UpToNext
      <4> QED
        BY <4>1, <4>2
    <3>3. row[n + 1] \in Events
      BY <2>5
    <3> HIDE DEF Q
    <3>4. TokenPart(StateOps(StateAfter(ids)[n], row[n + 1]).token, Q(n) \union {n + 1})
      BY <2>1, <2>2, <2>3, <2>4, <3>2, <3>3, TokenStep
    <3> QED
      BY <2>1, <2>5, <3>1, <3>4, AfterNext
  <2>6. CASE n + 1 \notin ids
    <3>1. Q(n + 1) = Q(n)
      BY <1>0, <2>6, UpToNext
    <3> QED
      BY <2>1, <2>3, <2>6, <3>1, AfterNext
  <2> QED
    BY <2>5, <2>6
<1>3. Q(MaxLog) = P \union ids
  BY <1>0, UpToEnds
<1> HIDE DEF G, Q
<1>4. Nat \subseteq G
  BY <1>1, <1>2, SetInduction
<1>5. MaxLog \in G
  BY <1>4, ProjectorAssumption
<1> USE DEF G
<1> QED
  BY <1>0, <1>3, <1>5
(* And what the markets say.                                               *)
LEMMA AfterMarket ==
  ASSUME NullIsApart, view \in Views, NEW P \in SUBSET Nat, NEW ids \in SUBSET (1..MaxLog),
         \A i \in P \union ids : row[i] \in Events, \A i \in P, j \in ids : i < j,
         MarketPart(view.market, P),
         \A i, j \in P \union ids :
           Kind(row[i]) = "migrate" /\ Kind(row[j]) = "migrate" => i = j
  PROVE  MarketPart(StateAfter(ids)[MaxLog].market, P \union ids)
<1> DEFINE Q(n) == P \union UpTo(ids, n)
           G == {n \in Nat : n <= MaxLog => MarketPart(StateAfter(ids)[n].market, Q(n))}
<1>0. MaxLog \in Nat
  BY ProjectorAssumption
<1>1. 0 \in G
  <2>1. Q(0) = P
    BY <1>0, UpToEnds
  <2> QED
    BY <2>1, AfterFirst
<1>2. ASSUME NEW n \in Nat, n \in G PROVE n + 1 \in G
  <2> SUFFICES ASSUME n + 1 <= MaxLog
               PROVE  MarketPart(StateAfter(ids)[n + 1].market, Q(n + 1))
    OBVIOUS
  <2>1. n \in 0..MaxLog /\ n + 1 \in Nat
    BY ProjectorAssumption
  <2>2. StateAfter(ids)[n] \in Views
    BY <2>1, AfterType
  <2>3. MarketPart(StateAfter(ids)[n].market, Q(n))
    BY <1>2, <2>1
  <2>4. Q(n) \in SUBSET Nat
    BY <1>0, UpToNext
  <2>5. CASE n + 1 \in ids
    <3>1. Q(n + 1) = Q(n) \union {n + 1}
      <4>1. UpTo(ids, n + 1) = UpTo(ids, n) \union {n + 1}
        BY <1>0, <2>5, UpToNext
      <4> QED
        BY <4>1
    <3>2. \A i \in Q(n) : i < n + 1 /\ row[i] \in Events
      <4>1. \A i \in P : i \in Nat /\ i < n + 1
        BY <2>5
      <4>2. \A i \in UpTo(ids, n) : i < n + 1 /\ i \in ids
        BY <1>0, UpToNext
      <4> QED
        BY <4>1, <4>2
    <3>3. row[n + 1] \in Events
      BY <2>5
    <3>5. \A i \in Q(n) : Kind(row[i]) = "migrate" => Kind(row[n + 1]) # "migrate"
      <4>1. \A i \in Q(n) : i \in P \union ids /\ i # n + 1
        <5>1. Q(n) \subseteq P \union ids
          BY <1>0, UpToNext
        <5> QED
          BY <2>4, <3>2, <5>1
      <4> HIDE DEF Q
      <4> QED
        BY <2>5, <4>1
    <3> HIDE DEF Q
    <3>4. MarketPart(StateOps(StateAfter(ids)[n], row[n + 1]).market, Q(n) \union {n + 1})
      BY <2>1, <2>2, <2>3, <2>4, <3>2, <3>3, <3>5, MarketStep
    <3> QED
      BY <2>1, <2>5, <3>1, <3>4, AfterNext
  <2>6. CASE n + 1 \notin ids
    <3>1. Q(n + 1) = Q(n)
      BY <1>0, <2>6, UpToNext
    <3> QED
      BY <2>1, <2>3, <2>6, <3>1, AfterNext
  <2> QED
    BY <2>5, <2>6
<1>3. Q(MaxLog) = P \union ids
  BY <1>0, UpToEnds
<1> HIDE DEF G, Q
<1>4. Nat \subseteq G
  BY <1>1, <1>2, SetInduction
<1>5. MaxLog \in G
  BY <1>4, ProjectorAssumption
<1> USE DEF G
<1> QED
  BY <1>0, <1>3, <1>5

-----------------------------------------------------------------------------
(* What TypeOK needs to be inductive: a message in the hands of an         *)
(* ingester is an event, an idle ingester is Idle, a batch consists of     *)
(* rows and has a last.                                                    *)
TypeInv ==
  /\ stream \in Seq(Events)
  /\ nextLogID \in 1..(MaxLog + 1)
  /\ row \in [1..MaxLog -> Values]
  /\ insert \in [Ingesters -> [stage : {"idle", "inserting", "inserted"},
                               event : Values, id : 0..MaxLog]]
  /\ \A p \in Ingesters : insert[p] # Idle => insert[p].event \in Events
  /\ \A p \in Ingesters : insert[p].stage = "idle" => insert[p] = Idle
  /\ \A p \in Ingesters : insert[p].stage = "inserting" => insert[p].id \in 1..MaxLog
  /\ runner \in {"down", "polling", "projecting"}
  /\ lastLogID \in 0..MaxLog /\ checkpoint \in 0..MaxLog
  /\ entries \subseteq LogIDs /\ Cardinality(entries) <= BatchSize
  /\ runner = "projecting" => \E last \in entries : \A i \in entries : i <= last
  /\ view \in Views /\ view.trades \subseteq view.activities
  /\ crashes \in 0..MaxCrash

(* Facts about the constants.                                              *)
LEMMA Numbers == MaxLog \in Nat /\ MaxCrash \in Nat /\ BatchSize \in Nat
  BY ProjectorAssumption

LEMMA ChainEvents ==
  Events = 1..Len(Chain) /\ Len(Chain) \in Nat
  BY ChainAssumption DEF Events

LEMMA EmptyBatch == Cardinality({}) <= BatchSize
<1>1. Cardinality({}) = 0
  BY FS_EmptySet
<1> QED
  BY <1>1, Numbers

(* The type of every variable, action by action.                           *)
LEMMA TypeInit ==
  ASSUME Init
  PROVE  TypeInv
<1>1. stream \in Seq(Events)
  <2>1. stream = [e \in 1..Len(Chain) |-> e] /\ \A e \in 1..Len(Chain) : e \in Events
    BY ChainEvents DEF Init
  <2> QED
    BY <2>1, ChainEvents
<1>2. row \in [1..MaxLog -> Values] /\ LogIDs = {}
  BY DEF Init, Values, LogIDs
<1>3. insert \in [Ingesters -> [stage : {"idle", "inserting", "inserted"},
                                event : Values, id : 0..MaxLog]]
  BY Numbers DEF Init, Idle, Values
<1>4. \A p \in Ingesters : insert[p] = Idle
  BY DEF Init
<1>5. view \in Views /\ view.trades \subseteq view.activities
  BY DEF Init, EmptyView, Views
<1> QED
  BY <1>1, <1>2, <1>3, <1>4, <1>5, Numbers, EmptyBatch DEF Init, TypeInv, Idle

(* What ingesting leaves alone keeps its type.                             *)
LEMMA TypeIngest ==
  ASSUME TypeInv, UNCHANGED <<runnerVars, dbVars, crashes>>,
         stream' \in Seq(Events), nextLogID' \in 1..(MaxLog + 1),
         row' \in [1..MaxLog -> Values], LogIDs \subseteq LogIDs', NEW p \in Ingesters, NEW r,
         insert' = [insert EXCEPT ![p] = r],
         r \in [stage : {"idle", "inserting", "inserted"}, event : Values, id : 0..MaxLog],
         r # Idle => r.event \in Events, r.stage = "idle" => r = Idle,
         r.stage = "inserting" => r.id \in 1..MaxLog
  PROVE  TypeInv'
<1>1. /\ insert' \in [Ingesters -> [stage : {"idle", "inserting", "inserted"},
                                    event : Values, id : 0..MaxLog]]
      /\ \A q \in Ingesters : insert'[q] = IF q = p THEN r ELSE insert[q]
  BY DEF TypeInv
<1>2. entries' \subseteq LogIDs'
  BY DEF TypeInv, runnerVars
<1> QED
  BY <1>1, <1>2 DEF TypeInv, runnerVars, dbVars

LEMMA TypeDeliver ==
  ASSUME TypeInv, NEW p \in Ingesters, Deliver(p)
  PROVE  TypeInv'
<1> DEFINE r == [stage |-> "inserting", event |-> Head(stream), id |-> nextLogID]
<1>1. Head(stream) \in Events /\ Tail(stream) \in Seq(Events)
  BY DEF Deliver, TypeInv
<1>2. nextLogID \in 1..MaxLog /\ nextLogID' \in 1..(MaxLog + 1) /\ nextLogID \in 0..MaxLog
  BY Numbers DEF Deliver, TypeInv
<1>3. LogIDs' = LogIDs
  BY DEF Deliver, LogIDs
<1>4. r \in [stage : {"idle", "inserting", "inserted"}, event : Values, id : 0..MaxLog]
  BY <1>1, <1>2 DEF Values
<1>5. insert' = [insert EXCEPT ![p] = r]
  BY DEF Deliver
<1> QED
  BY <1>1, <1>2, <1>3, <1>4, <1>5, TypeIngest DEF Deliver, TypeInv

LEMMA TypeCommitInsert ==
  ASSUME TypeInv, NEW p \in Ingesters, CommitInsert(p)
  PROVE  TypeInv'
<1> DEFINE r == [insert[p] EXCEPT !.stage = "inserted"]
<1>1. /\ insert[p] \in [stage : {"idle", "inserting", "inserted"}, event : Values, id : 0..MaxLog]
      /\ insert[p] # Idle /\ insert[p].event \in Events /\ insert[p].id \in 1..MaxLog
  BY DEF CommitInsert, TypeInv, Idle
<1>2. row' \in [1..MaxLog -> Values]
  BY <1>1 DEF CommitInsert, TypeInv, Values
<1>3. LogIDs \subseteq LogIDs'
  <2>1. insert[p].event # Null
    BY <1>1, NullAssumption
  <2> QED
    BY <1>1, <2>1 DEF CommitInsert, LogIDs, TypeInv
<1>4. insert' = [insert EXCEPT ![p] = r]
  BY <1>1 DEF CommitInsert, TypeInv
<1>5. /\ r \in [stage : {"idle", "inserting", "inserted"}, event : Values, id : 0..MaxLog]
      /\ r.event \in Events /\ r.stage = "inserted"
  BY <1>1
<1> HIDE DEF r
<1> QED
  BY <1>2, <1>3, <1>4, <1>5, TypeIngest DEF CommitInsert, TypeInv

LEMMA TypeDone ==
  ASSUME TypeInv, NEW p \in Ingesters, Ack(p) \/ Nak(p)
  PROVE  TypeInv'
<1>1. /\ Idle \in [stage : {"idle", "inserting", "inserted"}, event : Values, id : 0..MaxLog]
      /\ Idle.stage = "idle"
  BY Numbers DEF Idle, Values
<1>2. LogIDs' = LogIDs
  BY DEF Ack, Nak, LogIDs
<1>3. stream' \in Seq(Events)
  <2>1. insert[p].stage # "idle" => insert[p].event \in Events
    BY <1>1 DEF TypeInv
  <2>2. stream \in Seq(Events)
    BY DEF TypeInv
  <2>3. Ack(p) => stream' = stream
    BY DEF Ack
  <2>4. Nak(p) => insert[p].stage # "idle" /\ stream' = Append(stream, insert[p].event)
    BY DEF Nak
  <2> QED
    BY <2>1, <2>2, <2>3, <2>4
<1>4. /\ UNCHANGED <<nextLogID, row, runnerVars, dbVars, crashes>>
      /\ insert' = [insert EXCEPT ![p] = Idle]
  BY DEF Ack, Nak
<1>5. nextLogID' \in 1..(MaxLog + 1) /\ row' \in [1..MaxLog -> Values]
  BY <1>4 DEF TypeInv
<1> QED
  BY <1>1, <1>2, <1>3, <1>4, <1>5, TypeIngest

LEMMA TypeCrash ==
  ASSUME IsFiniteSet(Ingesters), TypeInv, Crash
  PROVE  TypeInv'
<1> DEFINE S == {p \in Ingesters : insert[p] # Idle}
<1>1. PICK order \in SetToSeqs(S) :
        stream' = stream \o [k \in 1..Len(order) |-> insert[order[k]].event]
  BY DEF Crash
<1>2. Cardinality(S) \in Nat
  BY FS_Subset, FS_CardinalityType
<1>3. order \in [1..Cardinality(S) -> S]
  BY DEF SetToSeqs
<1>4. Len(order) = Cardinality(S)
  BY <1>2, <1>3
<1> DEFINE again == [k \in 1..Len(order) |-> insert[order[k]].event]
<1>5. again \in Seq(Events)
  <2>1. \A k \in 1..Cardinality(S) : insert[order[k]].event \in Events
    BY <1>3 DEF TypeInv
  <2> QED
    BY <1>2, <1>4, <2>1
<1>6. stream' \in Seq(Events)
  <2> HIDE DEF again
  <2>1. stream' = stream \o again
    BY <1>1 DEF again
  <2> QED
    BY <1>5, <2>1 DEF TypeInv
<1>7. LogIDs' = LogIDs
  BY DEF Crash, LogIDs
<1>8. /\ insert' \in [Ingesters -> [stage : {"idle", "inserting", "inserted"},
                                    event : Values, id : 0..MaxLog]]
      /\ \A p \in Ingesters : insert'[p] = Idle
  BY Numbers DEF Crash, Idle, Values
<1>9. crashes' \in 0..MaxCrash
  BY Numbers DEF Crash, TypeInv
<1> QED
  BY <1>6, <1>7, <1>8, <1>9, Numbers, EmptyBatch DEF Crash, TypeInv, dbVars, Idle

LEMMA TypeReadBatch ==
  ASSUME TypeInv, ReadBatch
  PROVE  TypeInv'
<1>1. LogIDs' = LogIDs
  BY DEF ReadBatch, ingestVars, LogIDs
<1>2. PICK last \in RowsAbove(lastLogID) :
        /\ entries' = Page(lastLogID, last)
        /\ Cardinality(entries') = Limit(lastLogID)
  BY DEF ReadBatch, Batches
<1>3. Limit(lastLogID) <= BatchSize
  <2>1. Cardinality(RowsAbove(lastLogID)) \in Nat
    <3>1. IsFiniteSet(1..MaxLog) /\ RowsAbove(lastLogID) \subseteq 1..MaxLog
      BY Numbers, FS_Interval DEF RowsAbove, LogIDs
    <3> QED
      BY <3>1, FS_Subset, FS_CardinalityType
  <2> QED
    BY <2>1, Numbers DEF Limit, Least
<1>4. entries' \subseteq LogIDs /\ last \in entries' /\ \A i \in entries' : i <= last
  BY <1>2 DEF Page, RowsAbove, LogIDs
<1> QED
  BY <1>1, <1>2, <1>3, <1>4 DEF ReadBatch, ingestVars, dbVars, TypeInv

(* The rows that are there are events.                                     *)
LEMMA RowsAreEvents ==
  ASSUME TypeInv
  PROVE  \A i \in LogIDs : row[i] \in Events /\ i \in 1..MaxLog
  BY DEF TypeInv, LogIDs, Values

(* A flush of rows yields a view.                                          *)
LEMMA FlushType ==
  ASSUME TypeInv, NEW ids \in SUBSET LogIDs
  PROVE  Flush(ids) \in Views /\ Flush(ids).trades \subseteq Flush(ids).activities
<1> DEFINE state == StateAfter(ids)[MaxLog]
           events == {row[i] : i \in ids}
<1>1. state \in Views
  <2>1. MaxLog \in 0..MaxLog /\ \A i \in ids : row[i] \in Events
    BY Numbers, RowsAreEvents
  <2> QED
    BY <2>1, AfterType DEF TypeInv
<1>2. events \subseteq Events
  BY RowsAreEvents
<1>3. Flush(ids) = [token |-> state.token, market |-> state.market,
                    trades |-> view.trades \union {e \in events : IsTrade(e)},
                    activities |-> view.activities \union events]
  BY DEF Flush
<1> HIDE DEF state, events
<1> QED
  BY <1>1, <1>2, <1>3 DEF Views, TypeInv

LEMMA TypeCommitBatch ==
  ASSUME TypeInv, CommitBatch
  PROVE  TypeInv'
<1>1. LogIDs' = LogIDs
  BY DEF CommitBatch, ingestVars, LogIDs
<1>2. view' \in Views /\ view'.trades \subseteq view'.activities
  <2>1. entries \in SUBSET LogIDs
    BY DEF TypeInv
  <2> QED
    BY <2>1, FlushType DEF CommitBatch
<1>3. NewCheckpoint \in 0..MaxLog
  <2>1. PICK last \in entries : \A i \in entries : i <= last
    BY DEF CommitBatch, TypeInv
  <2>2. entries \in SUBSET Nat /\ last \in 0..MaxLog
    BY Numbers DEF TypeInv, LogIDs
  <2> QED
    BY <2>1, <2>2, MaxIsLast DEF NewCheckpoint
<1> QED
  BY <1>1, <1>2, <1>3, EmptyBatch DEF CommitBatch, ingestVars, TypeInv

LEMMA TypeNext ==
  ASSUME IsFiniteSet(Ingesters), TypeInv, [Next]_vars
  PROVE  TypeInv'
<1>1. CASE Start
  BY <1>1 DEF Start, ingestVars, dbVars, TypeInv, LogIDs
<1>2. CASE UNCHANGED vars
  BY <1>2 DEF vars, ingestVars, runnerVars, dbVars, TypeInv, LogIDs
<1> QED
  BY <1>1, <1>2, TypeDeliver, TypeCommitInsert, TypeDone, TypeCrash, TypeReadBatch,
     TypeCommitBatch DEF Next

(* Every variable has its type, whatever the number of ingesters; above    *)
(* all, ReplayBatch never takes more than BatchSize rows, and the trades   *)
(* of a view are among its activities.                                     *)
THEOREM ProjectorTypes ==
  ASSUME IsFiniteSet(Ingesters)
  PROVE  Spec => []TypeOK
<1>1. Init => TypeInv
  BY TypeInit
<1>2. TypeInv /\ [Next]_vars => TypeInv'
  BY TypeNext
<1>3. TypeInv => TypeOK
  BY DEF TypeInv, TypeOK, LogIDs, Views
<1> QED
  BY <1>1, <1>2, <1>3, PTL DEF Spec

-----------------------------------------------------------------------------
(* ON CONFLICT (event_id) DO NOTHING: an event has at most one row.        *)
RowsOnce == \A i, j \in LogIDs : row[i] = row[j] => i = j

(* The token and the markets of the committed view are those of the rows   *)
(* that the checkpoint covers.                                             *)
TokenInv == TokenPart(view.token, Projected)
MarketInv == MarketPart(view.market, Projected)

(* A mint is created once and migrates once.                               *)
OneLife == \A e, f \in Events : Kind(e) = Kind(f) /\ Kind(e) \in {"create", "migrate"} => e = f

(* The inductive invariant of TokenMatchesLog and of the refinement.       *)
ViewInv == TypeInv /\ ProjectorInv /\ RowsOnce /\ TokenInv

(* A step that projects nothing, and adds no row at or below the           *)
(* checkpoint, leaves the projected rows and what the view says of them    *)
(* alone.                                                                  *)
LEMMA SameProjection ==
  ASSUME TypeInv, ProjectorInv, UNCHANGED dbVars, LogIDs \subseteq LogIDs',
         \A i \in LogIDs : row'[i] = row[i], \A i \in LogIDs' : i \in LogIDs \/ checkpoint < i
  PROVE  /\ Projected' = Projected
         /\ TokenInv => TokenInv'
         /\ MarketInv => MarketInv'
<1>1. checkpoint' = checkpoint /\ view' = view /\ checkpoint \in Nat
  BY Numbers DEF dbVars, TypeInv
<1>2. Projected' = Projected
  <2>1. \A i \in LogIDs' : i \in Nat
    BY DEF LogIDs
  <2>2. \A i : i \in Projected' <=> i \in Projected
    <3>1. \A i \in LogIDs' : i <= checkpoint => i \in LogIDs
      BY <1>1, <2>1
    <3> QED
      BY <1>1, <3>1 DEF Projected
  <2> QED
    BY <2>2
<1>3. \A i \in Projected : row'[i] = row[i]
  BY DEF Projected
<1>4. TokenInv => TokenInv'
  <2> DEFINE S == {i \in Projected : Kind(row[i]) \in Setters}
             T == {i \in Projected : Kind(row'[i]) \in Setters}
             times(k) == {row[i] : i \in {j \in Projected : Kind(row[j]) = k}}
             timesN(k) == {row'[i] : i \in {j \in Projected : Kind(row'[j]) = k}}
  <2>1. S = T /\ \A i \in S : row'[i] = row[i]
    BY <1>3
  <2>2. timesN("create") = times("create") /\ timesN("migrate") = times("migrate")
    BY <1>3
  <2> HIDE DEF S, T, times, timesN
  <2>3. TokenPart(view.token, Projected) <=>
          IF S = {} THEN view.token = Null
          ELSE /\ view.token \in Tokens
               /\ \E latest \in S :
                    /\ \A j \in S : j <= latest
                    /\ view.token.stage =
                         IF Kind(row[latest]) = "create" THEN "bonding_curve" ELSE "pool"
                    /\ view.token.active =
                         IF Kind(row[latest]) = "create" THEN "curve" ELSE "pool"
               /\ \A i \in S : view.token.firstSeen <= row[i]
               /\ \E i \in S : view.token.firstSeen = row[i]
               /\ IF times("create") = {} THEN view.token.createEvent = Null
                  ELSE view.token.createEvent \in times("create")
               /\ IF times("migrate") = {} THEN view.token.migratedAt = Null
                  ELSE view.token.migratedAt \in times("migrate")
    BY DEF TokenPart, S, times
  <2>4. TokenInv' <=>
          IF T = {} THEN view.token = Null
          ELSE /\ view.token \in Tokens
               /\ \E latest \in T :
                    /\ \A j \in T : j <= latest
                    /\ view.token.stage =
                         IF Kind(row'[latest]) = "create" THEN "bonding_curve" ELSE "pool"
                    /\ view.token.active =
                         IF Kind(row'[latest]) = "create" THEN "curve" ELSE "pool"
               /\ \A i \in T : view.token.firstSeen <= row'[i]
               /\ \E i \in T : view.token.firstSeen = row'[i]
               /\ IF timesN("create") = {} THEN view.token.createEvent = Null
                  ELSE view.token.createEvent \in timesN("create")
               /\ IF timesN("migrate") = {} THEN view.token.migratedAt = Null
                  ELSE view.token.migratedAt \in timesN("migrate")
    BY <1>1, <1>2 DEF TokenPart, T, timesN, TokenInv
  <2> QED
    BY <2>1, <2>2, <2>3, <2>4 DEF TokenInv
<1>5. MarketInv => MarketInv'
  BY <1>1, <1>2, <1>3 DEF MarketInv, MarketPart
<1> QED
  BY <1>2, <1>4, <1>5

(* An insert that commits puts its row at the end of the log.              *)
LEMMA RowAppended ==
  ASSUME OneIngester, TypeInv, ProjectorInv, NEW p \in Ingesters, CommitInsert(p)
  PROVE  LET id == insert[p].id
             e == insert[p].event
         IN  /\ id \in 1..MaxLog /\ e \in Events /\ checkpoint < id
             /\ \A i \in LogIDs : i < id /\ row'[i] = row[i]
             /\ Logged(e) => row' = row /\ LogIDs' = LogIDs
             /\ ~Logged(e) => LogIDs' = LogIDs \union {id} /\ row'[id] = e
<1> DEFINE id == insert[p].id
           e == insert[p].event
<1>1. /\ id \in 1..MaxLog /\ checkpoint < id
      /\ \A i \in LogIDs : i < id
  BY DEF CommitInsert, ProjectorInv, LogInv
<1>2. e \in Events /\ e # Null
  <2>1. insert[p] # Idle
    BY DEF CommitInsert, Idle
  <2> QED
    BY <2>1, NullAssumption DEF TypeInv
<1>3. Logged(e) => row' = row /\ LogIDs' = LogIDs
  BY DEF CommitInsert, LogIDs
<1>4. ~Logged(e) => row' = [row EXCEPT ![id] = e]
  BY DEF CommitInsert
<1>5. row \in [1..MaxLog -> Values]
  BY DEF TypeInv
<1>6. LogIDs \subseteq 1..MaxLog /\ \A i \in LogIDs : i # id
  BY <1>1 DEF LogIDs
<1> HIDE DEF id, e
<1>7. ~Logged(e) => LogIDs' = LogIDs \union {id} /\ row'[id] = e
  BY <1>1, <1>2, <1>4, <1>5 DEF LogIDs
<1>8. \A i \in LogIDs : row'[i] = row[i]
  BY <1>3, <1>4, <1>5, <1>6
<1> QED
  BY <1>1, <1>2, <1>3, <1>7, <1>8 DEF id, e

(* The commit of a batch projects exactly its rows, which follow those     *)
(* that were projected already.                                            *)
LEMMA BatchProjected ==
  ASSUME TypeInv, ProjectorInv, CommitBatch
  PROVE  /\ entries \in SUBSET (1..MaxLog) /\ entries # {} /\ entries \subseteq LogIDs
         /\ Projected \in SUBSET (1..MaxLog)
         /\ \A i \in Projected, j \in entries : i < j
         /\ \A i \in LogIDs, j \in entries : i <= j => i \in Projected \union entries
         /\ Projected' = Projected \union entries
         /\ row' = row /\ LogIDs' = LogIDs /\ view' = Flush(entries)
<1>1. LogIDs' = LogIDs /\ row' = row /\ LogIDs \subseteq 1..MaxLog
  BY DEF CommitBatch, ingestVars, LogIDs
<1>2. PICK last \in entries : \A i \in entries : i <= last
  BY DEF CommitBatch, TypeInv
<1>3. entries \subseteq LogIDs
  BY DEF TypeInv
<1>4. checkpoint' = last
  <2>1. entries \in SUBSET Nat
    BY <1>1, <1>3
  <2> QED
    BY <1>2, <2>1, MaxIsLast DEF CommitBatch, NewCheckpoint
<1>5. /\ \A i \in entries : checkpoint < i
      /\ \A i \in LogIDs, j \in entries : i > checkpoint /\ i <= j => i \in entries
      /\ checkpoint \in Nat
  BY Numbers DEF CommitBatch, ProjectorInv, BatchInv, TypeInv
<1>6. \A i \in LogIDs : i \in Nat
  BY <1>1
<1>7. \A i \in Projected, j \in entries : i < j
  BY <1>3, <1>5, <1>6 DEF Projected
<1>8. \A i \in LogIDs, j \in entries : i <= j => i \in Projected \union entries
  BY <1>5, <1>6 DEF Projected
<1>9. \A i : i \in Projected' <=> i \in Projected \union entries
  <2>1. ASSUME NEW i \in Projected' PROVE i \in Projected \union entries
    BY <1>1, <1>2, <1>4, <1>8, <2>1 DEF Projected
  <2>2. ASSUME NEW i \in Projected PROVE i \in Projected'
    BY <1>1, <1>2, <1>3, <1>4, <1>5, <1>6, <2>2 DEF Projected
  <2>3. ASSUME NEW i \in entries PROVE i \in Projected'
    BY <1>1, <1>2, <1>3, <1>4, <2>3 DEF Projected
  <2> QED
    BY <2>1, <2>2, <2>3
<1>10. Projected' = Projected \union entries
  BY <1>9
<1>11. Projected \subseteq 1..MaxLog
  BY <1>1 DEF Projected
<1> QED
  BY <1>1, <1>2, <1>3, <1>7, <1>8, <1>10, <1>11 DEF CommitBatch

(* Flush writes the token and the markets of StateAfter.                   *)
LEMMA FlushParts ==
  ASSUME NEW ids
  PROVE  /\ Flush(ids).token = StateAfter(ids)[MaxLog].token
         /\ Flush(ids).market = StateAfter(ids)[MaxLog].market
  BY DEF Flush

(* Null is no value of a view.                                             *)
LEMMA Apart == NullIsApart
  BY NullAssumption DEF NullIsApart

(* At the start there are no rows.                                         *)
LEMMA RowsOnceInit ==
  ASSUME Init
  PROVE  LogIDs = {} /\ Projected = {} /\ RowsOnce /\ TokenInv /\ MarketInv
<1>1. LogIDs = {}
  BY DEF Init, LogIDs
<1> QED
  BY <1>1 DEF Init, EmptyView, Projected, RowsOnce, TokenInv, MarketInv, TokenPart, MarketPart

(* Every step keeps the rows distinct; only the commit of a batch changes  *)
(* what is projected.                                                      *)
LEMMA RowsOnceNext ==
  ASSUME OneIngester, TypeInv, ProjectorInv, RowsOnce, [Next]_vars
  PROVE  /\ RowsOnce'
         /\ ~CommitBatch => (TokenInv => TokenInv') /\ (MarketInv => MarketInv')
<1>1. ASSUME NEW p \in Ingesters, CommitInsert(p)
      PROVE  RowsOnce' /\ (TokenInv => TokenInv') /\ (MarketInv => MarketInv')
  <2> DEFINE id == insert[p].id
             e == insert[p].event
  <2>1. /\ id \in 1..MaxLog /\ e \in Events /\ checkpoint < id
        /\ \A i \in LogIDs : i < id /\ row'[i] = row[i]
        /\ Logged(e) => row' = row /\ LogIDs' = LogIDs
        /\ ~Logged(e) => LogIDs' = LogIDs \union {id} /\ row'[id] = e
    BY <1>1, RowAppended
  <2> HIDE DEF id, e
  <2>2. RowsOnce'
    BY <2>1 DEF RowsOnce, Logged
  <2>3. UNCHANGED dbVars
    BY <1>1 DEF CommitInsert
  <2>4. LogIDs \subseteq LogIDs' /\ \A i \in LogIDs' : i \in LogIDs \/ checkpoint < i
    BY <2>1
  <2> QED
    BY <2>1, <2>2, <2>3, <2>4, SameProjection
<1>2. CASE UNCHANGED <<row, dbVars>>
  <2>1. LogIDs' = LogIDs /\ row' = row
    BY <1>2 DEF LogIDs
  <2>2. RowsOnce'
    BY <2>1 DEF RowsOnce
  <2> QED
    BY <1>2, <2>1, <2>2, SameProjection
<1>3. CASE CommitBatch
  <2>1. LogIDs' = LogIDs /\ row' = row
    BY <1>3 DEF CommitBatch, ingestVars, LogIDs
  <2> QED
    BY <1>3, <2>1 DEF RowsOnce
<1>4. \/ \E p \in Ingesters : CommitInsert(p)
      \/ UNCHANGED <<row, dbVars>>
      \/ CommitBatch
  BY DEF Next, vars, Deliver, Ack, Nak, Start, ReadBatch, Crash, ingestVars, dbVars
<1> QED
  BY <1>1, <1>2, <1>3, <1>4

(* The induction step of ViewInv: only the commit of a batch is new.       *)
LEMMA ViewNext ==
  ASSUME OneIngester, ViewInv, [Next]_vars
  PROVE  ViewInv'
<1>1. IsFiniteSet(Ingesters)
  <2>1. CASE Ingesters = {}
    BY <2>1, FS_EmptySet
  <2>2. ASSUME NEW p \in Ingesters PROVE IsFiniteSet(Ingesters)
    <3>1. Ingesters = {p}
      BY DEF OneIngester
    <3> QED
      BY <3>1, FS_Singleton
  <2> QED
    BY <2>1, <2>2
<1>2. TypeInv' /\ ProjectorInv'
  BY <1>1, TypeNext, NextInv DEF ViewInv
<1>3. RowsOnce' /\ (~CommitBatch => TokenInv')
  BY RowsOnceNext DEF ViewInv
<1>4. ASSUME CommitBatch PROVE TokenInv'
  <2>1. /\ entries \in SUBSET (1..MaxLog) /\ entries \subseteq LogIDs
        /\ Projected \in SUBSET Nat /\ Projected \subseteq LogIDs
        /\ \A i \in Projected, j \in entries : i < j
        /\ Projected' = Projected \union entries
        /\ row' = row /\ view' = Flush(entries)
    BY <1>4, BatchProjected DEF ViewInv, Projected
  <2>2. \A i \in Projected \union entries : row[i] \in Events
    BY <2>1, RowsAreEvents DEF ViewInv
  <2>3. view \in Views /\ TokenPart(view.token, Projected)
    BY DEF ViewInv, TypeInv, TokenInv
  <2>4. TokenPart(StateAfter(entries)[MaxLog].token, Projected \union entries)
    BY <2>1, <2>2, <2>3, Apart, AfterToken
  <2>5. view'.token = StateAfter(entries)[MaxLog].token
    BY <2>1, FlushParts
  <2>6. TokenPart(StateAfter(entries)[MaxLog].token, Projected \union entries) <=>
        TokenPart(view.token, Projected)'
    BY <2>1, <2>5 DEF TokenPart
  <2> QED
    BY <2>4, <2>6 DEF TokenInv
<1> QED
  BY <1>2, <1>3, <1>4 DEF ViewInv

(* The invariant implies the property of the runs.                         *)
LEMMA TokenInvMatches ==
  ASSUME TypeInv, TokenInv
  PROVE  TokenMatchesLog
<1>1. Setting = {i \in Projected : Kind(row[i]) \in Setters}
  BY DEF Setting, Setters
<1> DEFINE latest == CHOOSE i \in Setting : \A j \in Setting : j <= i
<1>2. CASE Setting = {}
  BY <1>1, <1>2 DEF TokenInv, TokenPart, TokenMatchesLog
<1>3. CASE Setting # {}
  <2>1. PICK l \in Setting :
          /\ \A j \in Setting : j <= l
          /\ view.token.stage = IF Kind(row[l]) = "create" THEN "bonding_curve" ELSE "pool"
          /\ view.token.active = IF Kind(row[l]) = "create" THEN "curve" ELSE "pool"
    BY <1>1, <1>3 DEF TokenInv, TokenPart
  <2>2. latest \in Setting /\ \A j \in Setting : j <= latest
    BY <2>1
  <2>3. \A i \in Setting : i \in Nat
    BY DEF Setting, Projected, LogIDs
  <2> HIDE DEF latest
  <2>4. latest = l
    BY <2>1, <2>2, <2>3
  <2>5. /\ view.token.stage = IF Kind(row[latest]) = "create" THEN "bonding_curve" ELSE "pool"
        /\ view.token.active = IF Kind(row[latest]) = "create" THEN "curve" ELSE "pool"
    BY <2>1, <2>4
  <2>6. /\ \A i \in Setting : view.token.firstSeen <= row[i]
        /\ \E i \in Setting : view.token.firstSeen = row[i]
        /\ IF TimesOf("create") = {} THEN view.token.createEvent = Null
           ELSE view.token.createEvent \in TimesOf("create")
        /\ IF TimesOf("migrate") = {} THEN view.token.migratedAt = Null
           ELSE view.token.migratedAt \in TimesOf("migrate")
    BY <1>1, <1>3 DEF TokenInv, TokenPart, TimesOf
  <2> QED
    BY <1>3, <2>5, <2>6 DEF TokenMatchesLog, latest
<1> QED
  BY <1>2, <1>3

(* The induction step of MarketInv.                                        *)
LEMMA MarketNext ==
  ASSUME OneIngester, OneLife, ViewInv, MarketInv, [Next]_vars
  PROVE  MarketInv'
<1>1. ~CommitBatch => MarketInv'
  BY RowsOnceNext DEF ViewInv
<1>2. ASSUME CommitBatch PROVE MarketInv'
  <2>1. /\ entries \in SUBSET (1..MaxLog) /\ entries \subseteq LogIDs
        /\ Projected \in SUBSET Nat /\ Projected \subseteq LogIDs
        /\ \A i \in Projected, j \in entries : i < j
        /\ Projected' = Projected \union entries
        /\ row' = row /\ view' = Flush(entries)
    BY <1>2, BatchProjected DEF ViewInv, Projected
  <2>2. \A i \in Projected \union entries : row[i] \in Events
    BY <2>1, RowsAreEvents DEF ViewInv
  <2>3. view \in Views /\ MarketPart(view.market, Projected)
    BY DEF ViewInv, TypeInv, MarketInv
  <2>4. \A i, j \in Projected \union entries :
          Kind(row[i]) = "migrate" /\ Kind(row[j]) = "migrate" => i = j
    BY <2>1, <2>2 DEF OneLife, ViewInv, RowsOnce
  <2>5. MarketPart(StateAfter(entries)[MaxLog].market, Projected \union entries)
    BY <2>1, <2>2, <2>3, <2>4, Apart, AfterMarket
  <2>6. view'.market = StateAfter(entries)[MaxLog].market
    BY <2>1, FlushParts
  <2>7. MarketPart(StateAfter(entries)[MaxLog].market, Projected \union entries) <=>
        MarketPart(view.market, Projected)'
    BY <2>1, <2>6 DEF MarketPart
  <2> QED
    BY <2>5, <2>7 DEF MarketInv
<1> QED
  BY <1>1, <1>2

(* With one creation, the last row that set the stage is no creation once  *)
(* a migration has followed it.                                            *)
LEMMA MigrationHolds ==
  ASSUME OneLife, ViewInv, MarketInv
  PROVE  MigrationSticks
<1> SUFFICES ASSUME NEW i \in Projected, NEW j \in Projected,
                    i < j, Kind(row[i]) = "create", Kind(row[j]) = "migrate"
             PROVE  /\ view.token.stage = "pool" /\ view.token.active = "pool"
                    /\ view.market["curve"].endedAt = row[j]
                    /\ view.market["pool"] # Null
  BY DEF MigrationSticks
<1>1. view.market["curve"].endedAt = row[j] /\ view.market["pool"] # Null
  BY DEF MarketInv, MarketPart
<1> DEFINE S == {k \in Projected : Kind(row[k]) \in Setters}
<1>2. PICK l \in S :
        /\ \A k \in S : k <= l
        /\ view.token.stage = IF Kind(row[l]) = "create" THEN "bonding_curve" ELSE "pool"
        /\ view.token.active = IF Kind(row[l]) = "create" THEN "curve" ELSE "pool"
  <2>1. j \in S
    BY DEF Setters
  <2> QED
    BY <2>1 DEF ViewInv, TokenInv, TokenPart
<1>3. Kind(row[l]) # "create"
  <2>1. ASSUME Kind(row[l]) = "create" PROVE FALSE
    <3>1. row[l] \in Events /\ row[i] \in Events /\ l \in LogIDs /\ i \in LogIDs
      BY RowsAreEvents DEF ViewInv, Projected
    <3>2. l = i
      BY <2>1, <3>1 DEF OneLife, ViewInv, RowsOnce
    <3>3. j <= l /\ i \in Nat /\ j \in Nat
      BY <1>2 DEF Setters, Projected, LogIDs
    <3> QED
      BY <3>2, <3>3
  <2> QED
    BY <2>1
<1> QED
  BY <1>1, <1>2, <1>3

(* The token's row is what the projected part of the log says, for every   *)
(* history of the token, however the rows fall into batches and wherever   *)
(* the process ends, as long as one goroutine inserts.                     *)
THEOREM TokenRowMatchesLog ==
  ASSUME OneIngester
  PROVE  Spec => []TokenMatchesLog
<1>1. Init => ViewInv
  BY TypeInit, InitInv, RowsOnceInit DEF ViewInv
<1>2. ViewInv /\ [Next]_vars => ViewInv'
  BY ViewNext
<1>3. ViewInv => TokenMatchesLog
  BY TokenInvMatches DEF ViewInv
<1> QED
  BY <1>1, <1>2, <1>3, PTL DEF Spec

(* Once a migration that is logged after the creation is projected, the    *)
(* token stays in its pool and its curve stays closed.                     *)
THEOREM MigrationIsFinal ==
  ASSUME OneIngester, OneLife
  PROVE  Spec => []MigrationSticks
<1>1. Init => ViewInv /\ MarketInv
  BY TypeInit, InitInv, RowsOnceInit DEF ViewInv
<1>2. ViewInv /\ MarketInv /\ [Next]_vars => (ViewInv /\ MarketInv)'
  BY ViewNext, MarketNext
<1>3. ViewInv /\ MarketInv => MigrationSticks
  BY MigrationHolds
<1> QED
  BY <1>1, <1>2, <1>3, PTL DEF Spec

-----------------------------------------------------------------------------
(* The position of a log_id among those of S, and the log_id at a          *)
(* position.                                                               *)
Rank(S, i) == Cardinality(UpTo(S, i))
Nth(S, k) == CHOOSE i \in S : Rank(S, i) = k

(* Positions count from 1 to the size of S.                                *)
LEMMA RankType ==
  ASSUME NEW N \in Nat, NEW S \in SUBSET (1..N)
  PROVE  /\ IsFiniteSet(S) /\ Cardinality(S) \in Nat
         /\ \A i \in S : Rank(S, i) \in 1..Cardinality(S)
<1>1. IsFiniteSet(S) /\ Cardinality(S) \in Nat
  <2>1. IsFiniteSet(1..N)
    BY FS_Interval
  <2> QED
    BY <2>1, FS_Subset, FS_CardinalityType
<1>2. ASSUME NEW i \in S PROVE Rank(S, i) \in 1..Cardinality(S)
  <2>1. UpTo(S, i) \in SUBSET S /\ i \in UpTo(S, i)
    BY DEF UpTo
  <2>2. IsFiniteSet(UpTo(S, i)) /\ Rank(S, i) <= Cardinality(S) /\ Rank(S, i) \in Nat
    BY <1>1, <2>1, FS_Subset, FS_CardinalityType DEF Rank
  <2>3. Rank(S, i) # 0
    BY <2>1, <2>2, FS_EmptySet DEF Rank
  <2> QED
    BY <1>1, <2>2, <2>3
<1> QED
  BY <1>1, <1>2

(* Positions are in the order of the log_ids.                              *)
LEMMA RankGrows ==
  ASSUME NEW N \in Nat, NEW S \in SUBSET (1..N), NEW i \in S, NEW j \in S, i < j
  PROVE  Rank(S, i) < Rank(S, j)
<1>1. /\ UpTo(S, i) \in SUBSET UpTo(S, j)
      /\ j \in UpTo(S, j) /\ j \notin UpTo(S, i)
  <2>1. i \in Nat /\ j \in Nat /\ \A k \in S : k \in Nat
    OBVIOUS
  <2>2. \A k \in S : k <= i => k <= j
    BY <2>1
  <2>3. j <= j /\ ~(j <= i)
    BY <2>1
  <2> QED
    BY <2>2, <2>3 DEF UpTo
<1>2. IsFiniteSet(UpTo(S, j))
  <2>1. UpTo(S, j) \in SUBSET S
    BY DEF UpTo
  <2> QED
    BY <2>1, RankType, FS_Subset
<1>3. Rank(S, i) <= Rank(S, j) /\ Rank(S, i) # Rank(S, j)
  BY <1>1, <1>2, FS_Subset DEF Rank
<1>4. Rank(S, i) \in Nat /\ Rank(S, j) \in Nat
  BY RankType
<1> QED
  BY <1>3, <1>4

(* Two log_ids have different positions.                                   *)
LEMMA RankOne ==
  ASSUME NEW N \in Nat, NEW S \in SUBSET (1..N), NEW i \in S, NEW j \in S,
         Rank(S, i) = Rank(S, j)
  PROVE  i = j
<1>1. i \in Nat /\ j \in Nat
  OBVIOUS
<1>2. ~(Rank(S, i) < Rank(S, j)) /\ ~(Rank(S, j) < Rank(S, i))
  <2> DEFINE r == Rank(S, i)
  <2>1. r \in Nat /\ r = Rank(S, j)
    <3>1. r \in 1..Cardinality(S)
      BY RankType
    <3> QED
      BY <3>1
  <2> HIDE DEF r
  <2>2. ~(r < r)
    BY <2>1
  <2> QED
    BY <2>1, <2>2 DEF r
<1>3. ~(i < j) /\ ~(j < i)
  BY <1>2, RankGrows
<1> QED
  BY <1>1, <1>3

(* Every position is taken: there are as many of them as log_ids.          *)
LEMMA RankOnto ==
  ASSUME NEW N \in Nat, NEW S \in SUBSET (1..N), NEW k \in 1..Cardinality(S)
  PROVE  \E i \in S : Rank(S, i) = k
<1> DEFINE f == [i \in S |-> Rank(S, i)]
           T == 1..Cardinality(S)
<1>1. f \in Injection(S, T)
  <2>1. f \in [S -> T]
    BY RankType
  <2>2. \A i, j \in S : f[i] = f[j] => i = j
    BY RankOne
  <2> HIDE DEF f, T
  <2> QED
    BY <2>1, <2>2 DEF Injection, IsInjective
<1>2. IsFiniteSet(T) /\ Cardinality(T) = Cardinality(S)
  <2>1. Cardinality(S) \in Nat
    BY RankType
  <2> QED
    BY <2>1, FS_Interval
<1>3. f \in Surjection(S, T)
  <2> HIDE DEF f, T
  <2> QED
    BY <1>1, <1>2, FS_Injection
<1>4. \E i \in S : f[i] = k
  <2>1. k \in T
    OBVIOUS
  <2> HIDE DEF f, T
  <2> QED
    BY <1>3, <2>1 DEF Surjection
<1> QED
  BY <1>4

(* Nth is the inverse of Rank.                                             *)
LEMMA NthIs ==
  ASSUME NEW N \in Nat, NEW S \in SUBSET (1..N), NEW i \in S
  PROVE  Nth(S, Rank(S, i)) = i
<1>1. Nth(S, Rank(S, i)) \in S /\ Rank(S, Nth(S, Rank(S, i))) = Rank(S, i)
  BY DEF Nth
<1> QED
  BY <1>1, RankOne

(* InLogOrder lists the row of each log_id at its position.                *)
LEMMA OrderedIs ==
  ASSUME NEW N \in Nat, NEW S \in SUBSET (1..N)
  PROVE  /\ InLogOrder(S) = [k \in 1..Cardinality(S) |-> row[Nth(S, k)]]
         /\ Len(InLogOrder(S)) = Cardinality(S)
         /\ \A i \in S : InLogOrder(S)[Rank(S, i)] = row[i]
<1>1. InLogOrder(S) = [k \in 1..Cardinality(S) |-> row[Nth(S, k)]]
  BY DEF InLogOrder, Nth, Rank, UpTo
<1>2. Len(InLogOrder(S)) = Cardinality(S)
  <2>1. Cardinality(S) \in Nat
    BY RankType
  <2> QED
    BY <1>1, <2>1
<1>3. \A i \in S : InLogOrder(S)[Rank(S, i)] = row[i]
  BY <1>1, NthIs, RankType
<1> QED
  BY <1>1, <1>2, <1>3

(* A log_id above all others comes last.                                   *)
LEMMA RankAppend ==
  ASSUME NEW N \in Nat, NEW S \in SUBSET (1..N), NEW id \in 1..N, \A i \in S : i < id
  PROVE  LET T == S \union {id}
         IN  /\ T \in SUBSET (1..N) /\ Cardinality(T) = Cardinality(S) + 1
             /\ \A i \in S : Rank(T, i) = Rank(S, i)
             /\ Rank(T, id) = Cardinality(S) + 1
<1> DEFINE T == S \union {id}
<1>1. id \notin S /\ T \in SUBSET (1..N)
  OBVIOUS
<1>2. Cardinality(T) = Cardinality(S) + 1
  BY <1>1, RankType, FS_AddElement
<1>3. ASSUME NEW i \in S PROVE Rank(T, i) = Rank(S, i)
  <2>1. \A j : j \in UpTo(T, i) <=> j \in UpTo(S, i)
    BY <1>1 DEF UpTo
  <2>2. UpTo(T, i) = UpTo(S, i)
    BY <2>1
  <2> QED
    BY <2>2 DEF Rank
<1>4. Rank(T, id) = Cardinality(S) + 1
  <2>1. \A j : j \in UpTo(T, id) <=> j \in T
    <3>1. id <= id /\ \A j \in S : j <= id
      <4>1. id \in Nat /\ \A j \in S : j \in Nat
        OBVIOUS
      <4> QED
        BY <4>1
    <3> QED
      BY <3>1 DEF UpTo
  <2>2. UpTo(T, id) = T
    BY <2>1
  <2> QED
    BY <1>2, <2>2 DEF Rank
<1> QED
  BY <1>1, <1>2, <1>3, <1>4

(* A sequence that is one longer and agrees so far is an Append.           *)
LEMMA AppendIs ==
  ASSUME NEW N \in Nat, NEW old, NEW new, NEW e,
         old = [k \in 1..N |-> old[k]], new = [k \in 1..(N + 1) |-> new[k]],
         \A k \in 1..N : new[k] = old[k], new[N + 1] = e
  PROVE  new = Append(old, e)
<1> DEFINE R == {old[k] : k \in 1..N} \union {e}
           long == Append(old, e)
<1>1. old \in Seq(R) /\ Len(old) = N /\ e \in R
  <2>1. (\A k \in 1..N : old[k] \in R) /\ e \in R
    OBVIOUS
  <2> HIDE DEF R
  <2>2. old \in [1..N -> R]
    BY <2>1
  <2>3. old \in Seq(R)
    <3>1. old \in UNION {[1..n -> R] : n \in Nat}
      BY <2>2
    <3>2. Seq(R) = UNION {[1..n -> R] : n \in Nat}
      BY SeqDef, Zenon
    <3> QED
      BY <3>1, <3>2
  <2>4. DOMAIN old = 1..N
    BY <2>2
  <2>5. Len(old) = N
    <3>1. Len(old) \in Nat /\ DOMAIN old = 1..Len(old)
      BY <2>3, LenProperties
    <3>2. 1..Len(old) = 1..N
      BY <2>4, <3>1
    <3> QED
      BY <3>1, <3>2
  <2> QED
    BY <2>1, <2>3, <2>5
<1> HIDE DEF R
<1>2. /\ long \in Seq(R) /\ Len(long) = N + 1
      /\ \A k \in 1..N : long[k] = old[k]
      /\ long[N + 1] = e
  BY <1>1, AppendProperties
<1> HIDE DEF long
<1>3. DOMAIN long = 1..(N + 1)
  BY <1>2
<1>4. \A k \in 1..(N + 1) : new[k] = long[k]
  <2>1. \A k \in 1..(N + 1) : k \in 1..N \/ k = N + 1
    OBVIOUS
  <2> QED
    BY <1>2, <2>1
<1>5. long = [k \in 1..(N + 1) |-> long[k]]
  BY <1>2, <1>3
<1> QED
  BY <1>4, <1>5 DEF long

(* CommitInsert is an Insert of ReadModel, or a stutter when the event is  *)
(* logged already.                                                         *)
LEMMA InsertStep ==
  ASSUME OneIngester, ViewInv, NEW p \in Ingesters, CommitInsert(p)
  PROVE  RM!Insert(insert[p].event) \/ UNCHANGED RM!vars
<1> DEFINE id == insert[p].id
           e == insert[p].event
           N == Cardinality(LogIDs)
           rows == InLogOrder(LogIDs)
<1>1. /\ id \in 1..MaxLog /\ e \in Events /\ checkpoint < id
      /\ \A i \in LogIDs : i < id /\ row'[i] = row[i]
      /\ Logged(e) => row' = row /\ LogIDs' = LogIDs
      /\ ~Logged(e) => LogIDs' = LogIDs \union {id} /\ row'[id] = e
  BY RowAppended DEF ViewInv
<1>2. Projected' = Projected /\ view' = view
  <2>1. UNCHANGED dbVars
    BY DEF CommitInsert
  <2>2. LogIDs \subseteq LogIDs' /\ \A i \in LogIDs' : i \in LogIDs \/ checkpoint < i
    <3> HIDE DEF id, e
    <3> QED
      BY <1>1
  <2> QED
    BY <1>1, <2>1, <2>2, SameProjection DEF ViewInv, dbVars
<1>3. CASE Logged(e)
  <2>1. rows' = rows
    BY <1>1, <1>3 DEF InLogOrder
  <2> QED
    BY <1>2, <2>1 DEF RM!vars
<1>4. CASE ~Logged(e)
  <2>0. MaxLog \in Nat /\ LogIDs \in SUBSET (1..MaxLog)
    BY Numbers DEF LogIDs
  <2> DEFINE T == LogIDs \union {id}
  <2>1. /\ T \in SUBSET (1..MaxLog) /\ Cardinality(T) = N + 1
        /\ \A i \in LogIDs : Rank(T, i) = Rank(LogIDs, i)
        /\ Rank(T, id) = N + 1
    <3>1. id \in 1..MaxLog /\ \A i \in LogIDs : i < id
      BY <1>1
    <3> HIDE DEF id, e, rows
    <3> QED
      BY <2>0, <3>1, RankAppend
  <2>2. /\ rows = [k \in 1..N |-> row[Nth(LogIDs, k)]] /\ Len(rows) = N /\ N \in Nat
        /\ \A i \in LogIDs : rows[Rank(LogIDs, i)] = row[i]
    BY <2>0, OrderedIs, RankType
  <2>3. rows' = [k \in 1..(N + 1) |-> row'[Nth(T, k)]]
    <3>1. rows' = [k \in 1..Cardinality(LogIDs') |-> row'[Nth(LogIDs', k)]]
      BY DEF InLogOrder, Nth, Rank, UpTo
    <3>2. LogIDs' = T
      BY <1>1, <1>4
    <3> QED
      BY <2>1, <3>1, <3>2
  <2>4. rows'[N + 1] = e
    <3>1. Nth(T, N + 1) = id
      <4>1. T \in SUBSET (1..MaxLog) /\ id \in T /\ Rank(T, id) = N + 1
        BY <2>1
      <4> HIDE DEF T, N, id, e, rows
      <4>2. Nth(T, Rank(T, id)) = id
        BY <2>0, <4>1, NthIs
      <4> QED
        BY <4>1, <4>2
    <3> QED
      BY <1>1, <1>4, <2>2, <2>3, <3>1
  <2>5. ASSUME NEW k \in 1..N PROVE rows'[k] = rows[k] /\ rows[k] # e
    <3>1. PICK i \in LogIDs : Rank(LogIDs, i) = k
      BY <2>0, RankOnto
    <3>2. Nth(T, k) = i /\ rows[k] = row[i]
      <4>1. i \in T /\ Rank(T, i) = k
        BY <2>1, <3>1
      <4>2. Nth(T, Rank(T, i)) = i
        BY <2>0, <2>1, <4>1, NthIs
      <4> QED
        BY <2>2, <3>1, <4>1, <4>2
    <3>3. k \in 1..(N + 1)
      BY <2>2
    <3>4. rows'[k] = row'[i]
      BY <2>3, <3>2, <3>3
    <3> QED
      BY <1>1, <1>4, <3>2, <3>4 DEF Logged
  <2> HIDE DEF rows, N, T
  <2>6. rows' = Append(rows, e)
    <3> DEFINE new == rows'
    <3>1. new = [k \in 1..(N + 1) |-> new[k]] /\ rows = [k \in 1..N |-> rows[k]]
      BY <2>2, <2>3
    <3>2. \A k \in 1..N : new[k] = rows[k]
      BY <2>5
    <3>3. new[N + 1] = e
      BY <2>4
    <3> HIDE DEF new
    <3>4. new = Append(rows, e)
      BY <2>2, <3>1, <3>2, <3>3, AppendIs
    <3> QED
      BY <3>4 DEF new
  <2>7. \A k \in 1..Len(rows) : rows[k] # e
    BY <2>2, <2>5
  <2>8. Cardinality(Projected)' = Cardinality(Projected)
    BY <1>2
  <2> HIDE DEF e
  <2> QED
    BY <1>2, <2>6, <2>7, <2>8 DEF RM!Insert, rows, e
<1> QED
  BY <1>3, <1>4

-----------------------------------------------------------------------------
(* ReadModel projects an event as the store does.                          *)
LEMMA SameProject ==
  ASSUME NEW v, NEW e
  PROVE  RM!Project(v, e) = Project(v, e)
<1>1. RM!StateOps(v, e) = StateOps(v, e)
  BY DEF StateOps, ProjectCreate, ProjectMigrate, ProjectCreatePool, UpsertToken, UpsertMarket,
         CloseMarket, MergeToken, Coalesce, Least, Kind,
         RM!StateOps, RM!ProjectCreate, RM!ProjectMigrate, RM!ProjectCreatePool, RM!UpsertToken,
         RM!UpsertMarket, RM!CloseMarket, RM!MergeToken, RM!Coalesce, RM!Least, RM!Kind
<1> QED
  BY <1>1 DEF Project, InsertTradeEvents, InsertActivityEvents, IsTrade, Kind,
              RM!Project, RM!InsertTradeEvents, RM!InsertActivityEvents, RM!IsTrade, RM!Kind

(* The equation of the recursive function of CatchUp; f satisfies it.      *)
Replay(f, lo, v, rows, k) == IF k = lo THEN v ELSE Project(f[k - 1], rows[k])
IsReplay(f, lo, hi, v, rows) == f = [k \in lo..hi |-> Replay(f, lo, v, rows, k)]

(* Such a function exists.                                                 *)
LEMMA ReplayExists ==
  ASSUME NEW lo \in Nat, NEW hi \in Nat, lo <= hi, NEW v, NEW rows
  PROVE  \E f : IsReplay(f, lo, hi, v, rows)
<1> DEFINE F(n, f) == f = [k \in lo..(lo + n) |-> Replay(f, lo, v, rows, k)]
           T == {n \in Nat : ~\E f : F(n, f)}
<1>1. ASSUME T # {} PROVE FALSE
  <2>1. PICK n \in T : \A m \in T : n <= m
    <3> HIDE DEF T
    <3>1. T \in SUBSET Nat
      BY DEF T
    <3> QED
      BY <1>1, <3>1, HasMinimum
  <2>2. CASE n = 0
    <3>1. F(0, [k \in lo..(lo + 0) |-> v])
      BY DEF Replay
    <3> QED
      BY <2>1, <2>2, <3>1
  <2>3. CASE n # 0
    <3>1. n - 1 \in Nat /\ n - 1 \notin T /\ lo + (n - 1) = (lo + n) - 1
      BY <2>1, <2>3
    <3>2. PICK g : F(n - 1, g)
      BY <3>1
    <3> DEFINE N == lo + n
               h == [k \in lo..N |-> IF k = N THEN Replay(g, lo, v, rows, k) ELSE g[k]]
    <3>3. N \in Nat /\ N # lo /\ lo < N /\ g = [k \in lo..(N - 1) |-> Replay(g, lo, v, rows, k)]
      BY <2>3, <3>1, <3>2
    <3> HIDE DEF N
    <3>4. ASSUME NEW k \in lo..N PROVE h[k] = Replay(h, lo, v, rows, k)
      <4>1. CASE k = N
        <5>1. h[k - 1] = g[k - 1]
          BY <3>3, <4>1
        <5>2. h[k] = Replay(g, lo, v, rows, k)
          BY <4>1
        <5> HIDE DEF h
        <5> QED
          BY <5>1, <5>2 DEF Replay
      <4>2. CASE k # N
        <5>1. h[k] = g[k] /\ k \in lo..(N - 1)
          BY <3>3, <4>2
        <5>2. g[k] = Replay(g, lo, v, rows, k)
          BY <3>3, <5>1
        <5>3. k # lo => h[k - 1] = g[k - 1]
          BY <3>3, <5>1
        <5> HIDE DEF h
        <5> QED
          BY <5>1, <5>2, <5>3 DEF Replay
      <4> QED
        BY <4>1, <4>2
    <3>5. h = [k \in lo..N |-> Replay(h, lo, v, rows, k)]
      <4>1. h = [k \in lo..N |-> h[k]]
        OBVIOUS
      <4> HIDE DEF h
      <4> QED
        BY <3>4, <4>1
    <3>6. F(n, h)
      <4> HIDE DEF h
      <4> QED
        BY <3>5 DEF N
    <3> QED
      BY <2>1, <3>6
  <2> QED
    BY <2>2, <2>3
<1>2. hi - lo \in Nat /\ lo + (hi - lo) = hi
  OBVIOUS
<1>3. PICK f : F(hi - lo, f)
  BY <1>1, <1>2
<1> QED
  BY <1>2, <1>3 DEF IsReplay

(* Projecting an event, field by field.                                    *)
LEMMA ProjectIs ==
  ASSUME NEW v \in Views, NEW e \in Events
  PROVE  Project(v, e) = [token |-> StateOps(v, e).token, market |-> StateOps(v, e).market,
                          trades |-> v.trades \union {f \in {e} : IsTrade(f)},
                          activities |-> v.activities \union {e}]
<1> DEFINE w == StateOps(v, e)
<1>1. w \in Views /\ w.trades = v.trades /\ w.activities = v.activities
  BY StateOpsType, SetterIs, OtherIs
<1>2. w = [token |-> w.token, market |-> w.market, trades |-> v.trades,
           activities |-> v.activities]
  <2> HIDE DEF w
  <2> QED
    BY <1>1 DEF Views
<1> HIDE DEF w
<1>3. Project(v, e) = InsertActivityEvents(InsertTradeEvents(w, {f \in {e} : IsTrade(f)}), {e})
  BY DEF Project, w
<1>4. InsertTradeEvents(w, {f \in {e} : IsTrade(f)}) =
        [token |-> w.token, market |-> w.market,
         trades |-> v.trades \union {f \in {e} : IsTrade(f)}, activities |-> v.activities]
  BY <1>1, <1>2 DEF InsertTradeEvents
<1>5. Project(v, e) = [token |-> w.token, market |-> w.market,
                       trades |-> v.trades \union {f \in {e} : IsTrade(f)},
                       activities |-> v.activities \union {e}]
  <2> DEFINE u == InsertTradeEvents(w, {f \in {e} : IsTrade(f)})
  <2>1. Project(v, e) = [u EXCEPT !.activities = u.activities \union {e}]
    BY <1>3 DEF InsertActivityEvents
  <2>2. u = [token |-> w.token, market |-> w.market,
             trades |-> v.trades \union {f \in {e} : IsTrade(f)}, activities |-> v.activities]
    BY <1>4
  <2> DEFINE trades == v.trades \union {f \in {e} : IsTrade(f)}
  <2>3. u = [token |-> w.token, market |-> w.market, trades |-> trades,
             activities |-> v.activities]
    BY <2>2
  <2> HIDE DEF u, trades
  <2>4. u.activities = v.activities
    BY <2>3
  <2>5. [u EXCEPT !.activities = v.activities \union {e}] =
          [token |-> w.token, market |-> w.market, trades |-> trades,
           activities |-> v.activities \union {e}]
    BY <2>3
  <2> QED
    BY <2>1, <2>4, <2>5 DEF trades
<1> QED
  BY <1>5 DEF w

(* The handlers write state that depends on the token and the markets      *)
(* only.                                                                   *)
LEMMA SameState ==
  ASSUME NEW v \in Views, NEW w \in Views, NEW e \in Events,
         v.token = w.token, v.market = w.market
  PROVE  /\ StateOps(v, e).token = StateOps(w, e).token
         /\ StateOps(v, e).market = StateOps(w, e).market
<1>1. CASE Kind(e) \in Setters
  <2> DEFINE side == IF Kind(e) = "create" THEN "curve" ELSE "pool"
             tok(t) == IF t = Null THEN NewToken(e) ELSE MergeToken(t, NewToken(e))
             closed(m) == IF m = Null THEN Null ELSE [startedAt |-> m.startedAt, endedAt |-> e]
             a == StateOps(v, e)
             b == StateOps(w, e)
  <2>1. ASSUME NEW x \in Views
        PROVE  /\ StateOps(x, e) \in Views
               /\ StateOps(x, e).token = tok(x.token)
               /\ StateOps(x, e).market[side] = MergedMarket(x.market[side], e)
               /\ Kind(e) = "create" =>
                    StateOps(x, e).market["pool"] = x.market["pool"]
               /\ Kind(e) = "createPool" =>
                    StateOps(x, e).market["curve"] = x.market["curve"]
               /\ Kind(e) = "migrate" =>
                    StateOps(x, e).market["curve"] = closed(x.market["curve"])
    BY <1>1, SetterIs, Zenon
  <2>2. /\ Kind(e) = "create" => side = "curve"
        /\ Kind(e) \in {"createPool", "migrate"} => side = "pool"
    OBVIOUS
  <2> HIDE DEF side, tok, closed
  <2>3. /\ a \in Views /\ b \in Views
        /\ a.token = tok(v.token) /\ b.token = tok(w.token)
        /\ a.market[side] = MergedMarket(v.market[side], e)
        /\ b.market[side] = MergedMarket(w.market[side], e)
    BY <2>1
  <2>4. /\ Kind(e) = "create" =>
             a.market["pool"] = v.market["pool"] /\ b.market["pool"] = w.market["pool"]
        /\ Kind(e) = "createPool" =>
             a.market["curve"] = v.market["curve"] /\ b.market["curve"] = w.market["curve"]
        /\ Kind(e) = "migrate" =>
             /\ a.market["curve"] = closed(v.market["curve"])
             /\ b.market["curve"] = closed(w.market["curve"])
    BY <2>1
  <2> HIDE DEF a, b
  <2>5. a.token = b.token /\ a.market[side] = b.market[side]
    BY <2>3
  <2>6. a.market["curve"] = b.market["curve"] /\ a.market["pool"] = b.market["pool"]
    BY <1>1, <2>2, <2>4, <2>5 DEF Setters
  <2>7. a.market = b.market
    <3>1. /\ a.market \in [Markets -> MarketRows \union {Null}]
          /\ b.market \in [Markets -> MarketRows \union {Null}]
      BY <2>3 DEF Views
    <3>2. \A m \in Markets : a.market[m] = b.market[m]
      BY <2>6 DEF Markets
    <3> QED
      BY <3>1, <3>2
  <2> QED
    BY <2>5, <2>7 DEF a, b
<1>2. CASE Kind(e) \notin Setters
  BY <1>2, OtherIs
<1> QED
  BY <1>1, <1>2

(* The view after the rows of ids up to i, trades and activities included: *)
(* what Flush would write for this part of the batch.                      *)
Combined(ids, i) ==
  LET events == {row[j] : j \in UpTo(ids, i)}
  IN  [token |-> StateAfter(ids)[i].token, market |-> StateAfter(ids)[i].market,
       trades |-> view.trades \union {e \in events : IsTrade(e)},
       activities |-> view.activities \union events]

(* One more row is one more event projected: grouping the trades and the   *)
(* activities behind the state operations makes no difference.             *)
LEMMA CombinedNext ==
  ASSUME view \in Views, NEW ids \in SUBSET (1..MaxLog), \A i \in ids : row[i] \in Events,
         NEW n \in 0..MaxLog, n + 1 <= MaxLog
  PROVE  /\ Combined(ids, n) \in Views
         /\ n + 1 \in ids => Combined(ids, n + 1) = Project(Combined(ids, n), row[n + 1])
         /\ n + 1 \notin ids => Combined(ids, n + 1) = Combined(ids, n)
<1> DEFINE v == Combined(ids, n)
           s == StateAfter(ids)[n]
           events == {row[j] : j \in UpTo(ids, n)}
           e == row[n + 1]
<1>1. s \in Views /\ n \in Nat /\ MaxLog \in Nat
  <2>1. s \in Views
    BY AfterType
  <2> QED
    BY <2>1, Numbers
<1>2. /\ UpTo(ids, n) \subseteq ids
      /\ n + 1 \in ids => UpTo(ids, n + 1) = UpTo(ids, n) \union {n + 1}
      /\ n + 1 \notin ids => UpTo(ids, n + 1) = UpTo(ids, n)
  BY <1>1, UpToNext
<1>3. events \subseteq Events
  BY <1>2
<1>4. v = [token |-> s.token, market |-> s.market,
           trades |-> view.trades \union {f \in events : IsTrade(f)},
           activities |-> view.activities \union events]
  BY DEF Combined
<1>5. v \in Views
  <2> HIDE DEF v, s, events
  <2> QED
    BY <1>1, <1>3, <1>4 DEF Views
<1>6. ASSUME n + 1 \in ids
      PROVE  Combined(ids, n + 1) = Project(v, e)
  <2> DEFINE more == {row[j] : j \in UpTo(ids, n + 1)}
             t == StateAfter(ids)[n + 1]
  <2>1. e \in Events /\ more = events \union {e}
    BY <1>2, <1>6
  <2>2. t = StateOps(s, e)
    BY <1>1, <1>6, AfterNext
  <2>3. v.token = s.token /\ v.market = s.market
    BY <1>4
  <2>4. StateOps(v, e).token = t.token /\ StateOps(v, e).market = t.market
    <3> HIDE DEF v, s, e, t
    <3> QED
      BY <1>1, <1>5, <2>1, <2>2, <2>3, SameState
  <2>5. Combined(ids, n + 1) =
          [token |-> t.token, market |-> t.market,
           trades |-> view.trades \union {f \in more : IsTrade(f)},
           activities |-> view.activities \union more]
    BY DEF Combined
  <2>6. Project(v, e) = [token |-> t.token, market |-> t.market,
                         trades |-> v.trades \union {f \in {e} : IsTrade(f)},
                         activities |-> v.activities \union {e}]
    <3> HIDE DEF v, e, t
    <3> QED
      BY <1>5, <2>1, <2>4, ProjectIs
  <2>7. /\ v.trades = view.trades \union {f \in events : IsTrade(f)}
        /\ v.activities = view.activities \union events
    BY <1>4
  <2> HIDE DEF v, s, e, t, events, more
  <2>8. /\ view.trades \union {f \in more : IsTrade(f)} =
             v.trades \union {f \in {e} : IsTrade(f)}
        /\ view.activities \union more = v.activities \union {e}
    BY <2>1, <2>7
  <2> QED
    BY <2>5, <2>6, <2>8
<1>7. ASSUME n + 1 \notin ids
      PROVE  Combined(ids, n + 1) = v
  <2>1. StateAfter(ids)[n + 1] = s
    BY <1>1, <1>7, AfterNext
  <2> QED
    BY <1>2, <1>7, <2>1 DEF Combined
<1> QED
  BY <1>5, <1>6, <1>7

-----------------------------------------------------------------------------
(* Where the rows of a batch are in the log: right behind those that were  *)
(* applied, one position per row.                                          *)
LEMMA BatchRanks ==
  ASSUME ViewInv, CommitBatch
  PROVE  LET at(i) == Cardinality(Projected) + Cardinality(UpTo(entries, i))
             rows == InLogOrder(LogIDs)
         IN  /\ Cardinality(Projected) \in Nat /\ Cardinality(LogIDs) \in Nat
             /\ at(0) = Cardinality(Projected)
             /\ at(MaxLog) = Cardinality(Projected')
             /\ Cardinality(Projected) < Cardinality(Projected')
             /\ Cardinality(Projected') <= Cardinality(LogIDs)
             /\ \A n \in 0..MaxLog : at(n) \in Nat /\ at(n) <= at(MaxLog)
             /\ \A n \in 0..MaxLog : n + 1 \in entries =>
                  at(n + 1) = at(n) + 1 /\ rows[at(n + 1)] = row[n + 1]
             /\ \A n \in 0..MaxLog : n + 1 \notin entries => at(n + 1) = at(n)
<1> DEFINE P == Projected
           c == Cardinality(P)
           at(i) == c + Cardinality(UpTo(entries, i))
           rows == InLogOrder(LogIDs)
<1>1. /\ entries \in SUBSET (1..MaxLog) /\ entries # {} /\ entries \subseteq LogIDs
      /\ P \in SUBSET (1..MaxLog) /\ P \subseteq LogIDs /\ LogIDs \in SUBSET (1..MaxLog)
      /\ \A i \in P, j \in entries : i < j
      /\ \A i \in LogIDs, j \in entries : i <= j => i \in P \union entries
      /\ Projected' = P \union entries
  BY BatchProjected DEF ViewInv, Projected, LogIDs
<1>2. MaxLog \in Nat
  BY Numbers
<1>3. IsFiniteSet(P) /\ IsFiniteSet(LogIDs) /\ c \in Nat /\ Cardinality(LogIDs) \in Nat
  BY <1>1, <1>2, RankType
<1>4. \A n \in Nat : UpTo(entries, n) \in SUBSET entries
  BY DEF UpTo
<1>5. IsFiniteSet(entries) /\ Cardinality(entries) \in Nat
  BY <1>1, <1>2, RankType
<1>6. \A n \in Nat : /\ IsFiniteSet(UpTo(entries, n)) /\ Cardinality(UpTo(entries, n)) \in Nat
                     /\ Cardinality(UpTo(entries, n)) <= Cardinality(entries)
  BY <1>4, <1>5, FS_Subset, FS_CardinalityType
<1>7. \A T \in SUBSET entries : IsFiniteSet(T) => Cardinality(P \union T) = c + Cardinality(T)
  <2>1. ASSUME NEW T \in SUBSET entries, IsFiniteSet(T)
        PROVE  Cardinality(P \union T) = c + Cardinality(T)
    <3>1. P \intersect T = {}
      <4>1. \A i \in P : i \in Nat /\ ~(i < i)
        BY <1>1
      <4> QED
        BY <1>1, <2>1, <4>1
    <3>2. Cardinality(P \union T) = c + Cardinality(T) - Cardinality(P \intersect T)
      BY <1>3, <2>1, FS_Union
    <3>3. Cardinality(T) \in Nat /\ Cardinality({}) = 0
      BY <2>1, FS_CardinalityType, FS_EmptySet
    <3> QED
      BY <1>3, <3>1, <3>2, <3>3
  <2> QED
    BY <2>1
<1>8. UpTo(entries, 0) = {} /\ UpTo(entries, MaxLog) = entries
  BY <1>1, <1>2, UpToEnds
<1>9. at(0) = c
  <2>1. Cardinality(UpTo(entries, 0)) = 0
    BY <1>8, FS_EmptySet
  <2> HIDE DEF c
  <2> QED
    BY <1>3, <2>1
<1>10. at(MaxLog) = Cardinality(Projected')
  BY <1>1, <1>5, <1>7, <1>8
<1>11. c < Cardinality(Projected') /\ Cardinality(Projected') <= Cardinality(LogIDs)
  <2>1. Cardinality(entries) # 0
    BY <1>1, <1>5, FS_EmptySet
  <2>2. Cardinality(Projected') = c + Cardinality(entries)
    BY <1>8, <1>10
  <2>3. P \union entries \in SUBSET LogIDs
    BY <1>1
  <2>4. Cardinality(P \union entries) <= Cardinality(LogIDs)
    BY <1>3, <2>3, FS_Subset
  <2> HIDE DEF c, P
  <2> QED
    BY <1>1, <1>3, <1>5, <2>1, <2>2, <2>4
<1>12. \A n \in 0..MaxLog : at(n) \in Nat /\ at(n) <= at(MaxLog)
  <2>1. \A n \in 0..MaxLog : n \in Nat
    BY <1>2
  <2> HIDE DEF c
  <2> QED
    BY <1>3, <1>5, <1>6, <1>8, <2>1
<1>13. ASSUME NEW n \in 0..MaxLog, n + 1 \in entries
       PROVE  at(n + 1) = at(n) + 1 /\ rows[at(n + 1)] = row[n + 1]
  <2>1. n \in Nat /\ n + 1 \in Nat
    BY <1>2
  <2>2. UpTo(entries, n + 1) = UpTo(entries, n) \union {n + 1} /\ n + 1 \notin UpTo(entries, n)
    <3>1. \A i \in UpTo(entries, n) : i < n + 1
      <4>1. \A i \in entries : i \in Nat
        BY <1>1
      <4> QED
        BY <2>1, <4>1 DEF UpTo
    <3>2. UpTo(entries, n + 1) = UpTo(entries, n) \union {n + 1}
      <4>1. entries \in SUBSET (1..MaxLog)
        BY <1>1
      <4> HIDE DEF P, c, at, rows
      <4> QED
        BY <1>2, <1>13, <2>1, <4>1, UpToNext
    <3> QED
      BY <2>1, <3>1, <3>2
  <2>3. Cardinality(UpTo(entries, n + 1)) = Cardinality(UpTo(entries, n)) + 1
    BY <1>6, <2>1, <2>2, FS_AddElement
  <2>4. at(n + 1) = at(n) + 1
    <3> HIDE DEF c
    <3> QED
      BY <1>3, <1>6, <2>1, <2>3
  <2>5. UpTo(LogIDs, n + 1) = P \union UpTo(entries, n + 1)
    <3>1. ASSUME NEW i \in UpTo(LogIDs, n + 1)
          PROVE  i \in P \union UpTo(entries, n + 1)
      BY <1>1, <1>13, <3>1 DEF UpTo
    <3>2. ASSUME NEW i \in P \union UpTo(entries, n + 1)
          PROVE  i \in UpTo(LogIDs, n + 1)
      <4>1. i \in P => i < n + 1 /\ i \in Nat
        BY <1>1, <1>13
      <4>2. i \in P => i <= n + 1
        BY <2>1, <4>1
      <4> HIDE DEF P
      <4> QED
        BY <1>1, <3>2, <4>2 DEF UpTo
    <3> QED
      BY <3>1, <3>2
  <2>6. Rank(LogIDs, n + 1) = at(n + 1)
    BY <1>4, <1>6, <1>7, <2>1, <2>5 DEF Rank
  <2>7. rows[Rank(LogIDs, n + 1)] = row[n + 1]
    BY <1>1, <1>2, <1>13, OrderedIs
  <2> QED
    BY <2>4, <2>6, <2>7
<1>14. ASSUME NEW n \in 0..MaxLog, n + 1 \notin entries
       PROVE  at(n + 1) = at(n)
  <2>1. n \in Nat
    BY <1>2
  <2>2. UpTo(entries, n + 1) = UpTo(entries, n)
    BY <1>1, <1>2, <1>14, <2>1, UpToNext
  <2> QED
    BY <2>2
<1> QED
  BY <1>3, <1>9, <1>10, <1>11, <1>12, <1>13, <1>14

(* Replaying the log from the applied rows to the last of the batch gives  *)
(* the view that Flush writes.                                             *)
LEMMA ReplayIsFlush ==
  ASSUME ViewInv, CommitBatch, NEW f,
         f = [k \in Cardinality(Projected)..Cardinality(Projected') |->
                Replay(f, Cardinality(Projected), view, InLogOrder(LogIDs), k)]
  PROVE  f[Cardinality(Projected')] = Flush(entries)
<1> DEFINE lo == Cardinality(Projected)
           hi == Cardinality(Projected')
           at(i) == lo + Cardinality(UpTo(entries, i))
           rows == InLogOrder(LogIDs)
           G == {n \in Nat : n <= MaxLog => f[at(n)] = Combined(entries, n)}
<1>1. /\ lo \in Nat /\ at(0) = lo /\ at(MaxLog) = hi /\ lo < hi /\ hi \in Nat
      /\ \A n \in 0..MaxLog : at(n) \in Nat /\ at(n) <= hi
      /\ \A n \in 0..MaxLog : n + 1 \in entries =>
           at(n + 1) = at(n) + 1 /\ rows[at(n + 1)] = row[n + 1]
      /\ \A n \in 0..MaxLog : n + 1 \notin entries => at(n + 1) = at(n)
  <2>1. MaxLog \in 0..MaxLog
    BY Numbers
  <2> QED
    BY <2>1, BatchRanks
<1>2. \A n \in 0..MaxLog : lo <= at(n)
  <2>1. \A n \in 0..MaxLog : Cardinality(UpTo(entries, n)) \in Nat
    <3>1. /\ IsFiniteSet(entries)
          /\ \A n \in 0..MaxLog : UpTo(entries, n) \in SUBSET entries
      BY BatchProjected, Numbers, RankType DEF ViewInv, UpTo
    <3> QED
      BY <3>1, FS_Subset, FS_CardinalityType
  <2> HIDE DEF lo
  <2> QED
    BY <1>1, <2>1
<1>3. /\ view \in Views /\ entries \in SUBSET (1..MaxLog)
      /\ \A i \in entries : row[i] \in Events
  BY BatchProjected, RowsAreEvents DEF ViewInv, TypeInv
<1>4. MaxLog \in Nat
  BY Numbers
<1>5. f = [k \in lo..hi |-> Replay(f, lo, view, rows, k)]
  OBVIOUS
<1>6. 0 \in G
  <2>1. f[lo] = view
    <3> HIDE DEF lo, hi, rows
    <3>1. lo \in lo..hi
      BY <1>1
    <3>2. f[lo] = Replay(f, lo, view, rows, lo)
      BY <1>5, <3>1
    <3> QED
      BY <3>2 DEF Replay
  <2>2. Combined(entries, 0) = view
    <3>1. UpTo(entries, 0) = {}
      BY <1>3, <1>4, UpToEnds
    <3>2. StateAfter(entries)[0] = view
      BY AfterFirst
    <3>3. Combined(entries, 0) = [token |-> view.token, market |-> view.market,
                                  trades |-> view.trades, activities |-> view.activities]
      BY <3>1, <3>2 DEF Combined
    <3> QED
      BY <1>3, <3>3 DEF Views
  <2>3. f[at(0)] = Combined(entries, 0)
    <3> HIDE DEF at
    <3> QED
      BY <1>1, <2>1, <2>2
  <2> QED
    BY <2>3
<1>7. ASSUME NEW n \in Nat, n \in G PROVE n + 1 \in G
  <2> SUFFICES ASSUME n + 1 <= MaxLog PROVE f[at(n + 1)] = Combined(entries, n + 1)
    OBVIOUS
  <2>1. n \in 0..MaxLog /\ n + 1 \in 0..MaxLog
    BY <1>4
  <2>2. f[at(n)] = Combined(entries, n)
    BY <1>7, <2>1
  <2>3. /\ n + 1 \in entries =>
             Combined(entries, n + 1) = Project(Combined(entries, n), row[n + 1])
        /\ n + 1 \notin entries => Combined(entries, n + 1) = Combined(entries, n)
    BY <1>3, <2>1, CombinedNext
  <2>4. CASE n + 1 \in entries
    <3>1. at(n + 1) = at(n) + 1 /\ rows[at(n + 1)] = row[n + 1]
      BY <1>1, <2>1, <2>4
    <3>2. /\ at(n) \in Nat /\ lo <= at(n) /\ at(n + 1) <= hi
          /\ lo \in Nat /\ hi \in Nat
      BY <1>1, <1>2, <2>1
    <3> DEFINE a == at(n)
               b == at(n + 1)
    <3>3. b = a + 1 /\ a \in Nat /\ lo <= a /\ b <= hi /\ rows[b] = row[n + 1]
          /\ f[a] = Combined(entries, n)
      BY <2>2, <3>1, <3>2
    <3> HIDE DEF a, b, lo, hi, at, rows
    <3>4. b \in lo..hi /\ b # lo /\ b - 1 = a
      BY <1>1, <3>3
    <3>5. f[b] = Replay(f, lo, view, rows, b)
      BY <1>5, <3>4
    <3>6. f[b] = Project(f[a], row[n + 1])
      BY <3>3, <3>4, <3>5 DEF Replay
    <3> QED
      BY <2>3, <2>4, <3>3, <3>6 DEF b
  <2>5. CASE n + 1 \notin entries
    <3>1. at(n + 1) = at(n)
      BY <1>1, <2>1, <2>5
    <3> HIDE DEF at
    <3> QED
      BY <2>2, <2>3, <2>5, <3>1
  <2> QED
    BY <2>4, <2>5
<1> HIDE DEF G
<1>8. MaxLog \in G
  BY <1>4, <1>6, <1>7, SetInduction
<1>9. f[at(MaxLog)] = Combined(entries, MaxLog)
  BY <1>4, <1>8 DEF G
<1>10. Combined(entries, MaxLog) = Flush(entries)
  <2>1. UpTo(entries, MaxLog) = entries
    BY <1>3, <1>4, UpToEnds
  <2> QED
    BY <2>1 DEF Combined, Flush
<1>11. f[hi] = Flush(entries)
  <2> HIDE DEF at, hi
  <2> QED
    BY <1>1, <1>9, <1>10
<1> QED
  BY <1>11

(* CommitBatch is a CatchUp.                                               *)
LEMMA BatchStep ==
  ASSUME ViewInv, CommitBatch
  PROVE  \E n \in 1..Len(InLogOrder(LogIDs)) : RM!CatchUp(n)
<1> DEFINE lo == Cardinality(Projected)
           hi == Cardinality(Projected')
           rows == InLogOrder(LogIDs)
           Body2(f, k) == IF k = lo THEN view ELSE RM!Project(f[k - 1], rows[k])
<1>1. /\ lo \in Nat /\ hi \in Nat /\ lo < hi /\ hi <= Cardinality(LogIDs)
      /\ Cardinality(LogIDs) \in Nat
  <2>1. 0..MaxLog # {} /\ MaxLog \in 0..MaxLog
    BY Numbers
  <2> QED
    BY <2>1, BatchRanks
<1>2. Len(rows) = Cardinality(LogIDs)
  BY Numbers, OrderedIs DEF LogIDs
<1>3. rows' = rows /\ view' = Flush(entries)
  BY BatchProjected DEF ViewInv, InLogOrder
<1> DEFINE after == CHOOSE f : f = [k \in lo..hi |-> Body2(f, k)]
<1>4. view' = after[hi]
  <2>1. \A f, k : Body2(f, k) = Replay(f, lo, view, rows, k)
    BY SameProject DEF Replay
  <2>2. \E f : IsReplay(f, lo, hi, view, rows)
    <3> HIDE DEF lo, hi, rows, Body2, after
    <3>1. lo \in Nat /\ hi \in Nat /\ lo <= hi
      BY <1>1
    <3> QED
      BY <3>1, ReplayExists, Zenon
  <2>3. after = [k \in lo..hi |-> Replay(after, lo, view, rows, k)]
    <3> HIDE DEF Body2, lo, hi, rows
    <3>1. after = [k \in lo..hi |-> Body2(after, k)]
      <4>1. PICK g : g = [k \in lo..hi |-> Replay(g, lo, view, rows, k)]
        BY <2>2 DEF IsReplay
      <4>2. g = [k \in lo..hi |-> Body2(g, k)]
        BY <2>1, <4>1
      <4> QED
        BY <4>2
    <3> HIDE DEF after
    <3> QED
      BY <2>1, <3>1
  <2>4. after[hi] = Flush(entries)
    <3> HIDE DEF after
    <3> QED
      BY <2>3, ReplayIsFlush
  <2> QED
    BY <1>3, <2>4
<1>5. hi \in (lo + 1)..Len(rows) /\ hi \in 1..Len(rows)
  <2> HIDE DEF lo, hi, rows
  <2> QED
    BY <1>1, <1>2
<1>6. RM!CatchUp(hi)
  BY <1>3, <1>4, <1>5 DEF RM!CatchUp
<1> QED
  BY <1>5, <1>6

(* The refinement of ReadModel: initial states and steps.                  *)
LEMMA RefinedInit ==
  ASSUME Init
  PROVE  RM!Init
<1>1. LogIDs = {} /\ Projected = {}
  BY RowsOnceInit
<1>2. Cardinality({}) = 0
  BY FS_EmptySet
<1>3. InLogOrder({}) = <<>>
  BY <1>2 DEF InLogOrder
<1> QED
  BY <1>1, <1>2, <1>3 DEF Init, RM!Init, EmptyView, RM!EmptyView, Markets, RM!Markets

LEMMA RefinedStep ==
  ASSUME OneIngester, ViewInv, [Next]_vars
  PROVE  [RM!Next]_RM!vars
<1>1. CASE UNCHANGED <<row, dbVars>>
  <2>1. LogIDs' = LogIDs
    BY <1>1 DEF LogIDs
  <2>2. InLogOrder(LogIDs)' = InLogOrder(LogIDs)
    BY <1>1, <2>1 DEF InLogOrder
  <2>3. Projected' = Projected /\ view' = view
    BY <1>1, <2>1 DEF Projected, dbVars
  <2> QED
    BY <2>2, <2>3 DEF RM!vars
<1>2. ASSUME NEW p \in Ingesters, CommitInsert(p) PROVE [RM!Next]_RM!vars
  <2>1. insert[p].event \in Events
    BY <1>2, RowAppended DEF ViewInv
  <2>2. RM!Events = Events
    BY DEF Events, RM!Events
  <2> QED
    BY <1>2, <2>1, <2>2, InsertStep DEF RM!Next
<1>3. CASE CommitBatch
  BY <1>3, BatchStep DEF RM!Next
<1>4. \/ \E p \in Ingesters : CommitInsert(p)
      \/ UNCHANGED <<row, dbVars>>
      \/ CommitBatch
  BY DEF Next, vars, Deliver, Ack, Nak, Start, ReadBatch, Crash, ingestVars, dbVars
<1> QED
  BY <1>1, <1>2, <1>3, <1>4

(* The safety part of ImplementsReadModel: the log is append-only, and     *)
(* every commit of the projector replaces the read model by the            *)
(* projection, event by event in log order, of a longer prefix of the log. *)
(* (Its liveness part, that the projector catches up, is checked by TLC.)  *)
THEOREM ProjectsThePrefix ==
  ASSUME OneIngester
  PROVE  Spec => RM!Init /\ [][RM!Next]_RM!vars
<1>1. Init => ViewInv /\ RM!Init
  BY TypeInit, InitInv, RowsOnceInit, RefinedInit DEF ViewInv
<1>2. ViewInv /\ [Next]_vars => ViewInv' /\ [RM!Next]_RM!vars
  BY ViewNext, RefinedStep
<1> QED
  BY <1>1, <1>2, PTL DEF Spec
=============================================================================
