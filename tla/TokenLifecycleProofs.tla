------------------------ MODULE TokenLifecycleProofs ------------------------
(***************************************************************************)
(* Theorems about TokenLifecycle, for any life of a token and any number   *)
(* of faults: the detail page is not torn and fails only without metadata, *)
(* an image is not lost, the stage follows the log, and the tracker leaves *)
(* nothing out once the mint is in redis.                                  *)
(***************************************************************************)
EXTENDS TokenLifecycle, SequenceTheorems, TLAPS

View == [token : TokenRow \union {Null}, market : [Markets -> MarketRow \union {Null}],
         trades : SUBSET Events, activities : SUBSET Events]
History == [accepted : BOOLEAN, overtaken : BOOLEAN, early : BOOLEAN, forgot : BOOLEAN,
            missed : BOOLEAN]

Results == {Null, "not_found", "error", "ok"}
Request ==
  [pc : {"idle", "done", "snapshot", "markets", "trades", "events", "summary", "create",
         "migrate", "reply"},
   result : Results, snapshot : TokenRow \union {Null}, seen : SUBSET Events,
   markets : SUBSET Markets, trades : SUBSET Events, events : SUBSET Events,
   create : BOOLEAN, migrate : BOOLEAN]

ParserType ==
  /\ parsed \in 0..Len(Chain) /\ parser \in {"up", "reconnecting", "down"}
  /\ tracked \in BOOLEAN /\ redis \in BOOLEAN
  /\ tasks \in Seq({"redis", "pg"})
  /\ queue \in Seq(Events) /\ stream \in Seq(Events)

BackendType ==
  /\ log \in Seq(Events) /\ checkpoint \in 0..Len(log)
  /\ view \in View /\ metadata \in MetadataRow \union {Null}
  /\ fetcher \in {"idle", "fetching", "stored", "failed"}
  /\ history \in History

(* A creation waits for the worker only if there is one.                   *)
TasksInv == tasks # <<>> => \E e \in Events : Kind(e) = "create"

(* Events keep the order of the chain on their way into the log.           *)
Increasing(s) == \A i, j \in 1..Len(s) : i < j => s[i] < s[j]
OrderInv ==
  /\ Increasing(stream) /\ Increasing(queue)
  /\ \A i \in 1..Len(stream) : stream[i] <= parsed
  /\ \A i \in 1..Len(queue) : queue[i] <= parsed
  /\ \A i \in 1..Len(stream), j \in 1..Len(queue) : stream[i] < queue[j]
  /\ Len(log) <= Len(stream)
  /\ \A i \in 1..Len(log) : log[i] = stream[i]

(* What the read model holds of the rows that have been projected.         *)
ViewInv ==
  /\ view.trades \subseteq Projected
  /\ \A m \in Markets : Projected \intersect MarketEvents(m) # {} => view.market[m] # Null
  /\ Has(Projected, "migrate") => view.token # Null /\ view.token.migratedAt # Null

(* The worker's upsert alone takes the stage of a migrated token back.     *)
StageInv ==
  Has(Projected, "migrate") /\ ~history.overtaken => view.token # Null /\ view.token.stage = "pool"

(* A running tracker knows the mint once it has accepted it, unless it     *)
(* started without it.                                                     *)
TrackInv ==
  /\ history.accepted /\ parser # "down" => tracked \/ history.forgot
  /\ history.missed => history.forgot

MetadataInv ==
  /\ Has(Projected, "create") \/ Has(Projected, "createPool") => metadata # Null
  /\ fetcher = "stored" /\ ~history.early => metadata # Null /\ metadata.image

(* What a request has read so far.  Answered(pcs): it is at one of pcs, or *)
(* it has been answered.                                                   *)
Answered(pcs) == req.pc \in pcs \/ (req.pc = "done" /\ req.result = "ok")
RequestInv ==
  /\ req \in Request
  /\ req.seen \subseteq Projected /\ req.trades \subseteq Logged
  /\ Answered({"markets", "trades", "events", "summary", "create", "migrate", "reply"}) =>
       /\ req.snapshot # Null
       /\ Has(req.seen, "migrate") => req.snapshot.migratedAt # Null
  /\ Answered({"trades", "events", "summary", "create", "migrate", "reply"}) =>
       \A m \in Markets : req.seen \intersect MarketEvents(m) # {} => m \in req.markets
  /\ Answered({"summary", "create", "migrate", "reply"}) => req.trades \subseteq req.events
  /\ Answered({"migrate", "reply"}) => (Has(req.seen, "create") => req.create)
  /\ Answered({"reply"}) => (Has(req.seen, "migrate") => req.migrate)

LifecycleInv ==
  /\ ParserType /\ BackendType /\ TasksInv /\ OrderInv /\ ViewInv /\ StageInv /\ TrackInv
  /\ MetadataInv /\ RequestInv

-----------------------------------------------------------------------------
(* What the operators of the read model do.                                *)

Known(v) == v.token # Null
Migrated(v) == Known(v) /\ v.token.migratedAt # Null

LEMMA MergeTokenKeeps ==
  ASSUME NEW old \in TokenRow, NEW new \in TokenRow
  PROVE  /\ MergeToken(old, new) \in TokenRow
         /\ MergeToken(old, new).stage = new.stage
         /\ old.migratedAt # Null \/ new.migratedAt # Null =>
              MergeToken(old, new).migratedAt # Null
<1>1. Least(old.firstSeen, new.firstSeen) \in Events
  BY DEF Least, TokenRow
<1>2. /\ Coalesce(old.createEvent, new.createEvent) \in Events \union {Null}
      /\ Coalesce(new.active, old.active) \in Markets
      /\ Coalesce(new.migratedAt, old.migratedAt) \in Events \union {Null}
  BY DEF Coalesce, TokenRow
<1>3. old.migratedAt # Null \/ new.migratedAt # Null =>
        Coalesce(new.migratedAt, old.migratedAt) # Null
  BY DEF Coalesce
<1>4. new.stage \in {"bonding_curve", "pool"}
  BY DEF TokenRow
<1> QED
  BY <1>1, <1>2, <1>3, <1>4 DEF MergeToken, TokenRow

LEMMA UpsertTokenKeeps ==
  ASSUME NEW v \in View, NEW new \in TokenRow
  PROVE  LET u == UpsertToken(v, new)
         IN /\ u \in View /\ Known(u) /\ u.token.stage = new.stage
            /\ Migrated(v) \/ new.migratedAt # Null => Migrated(u)
            /\ u.trades = v.trades /\ u.market = v.market
<1> DEFINE row == IF v.token = Null THEN new ELSE MergeToken(v.token, new)
           u == UpsertToken(v, new)
<1>1. v.token # Null => v.token \in TokenRow
  BY DEF View
<1>2. /\ row \in TokenRow /\ row.stage = new.stage
      /\ Migrated(v) \/ new.migratedAt # Null => row.migratedAt # Null
  BY <1>1, MergeTokenKeeps DEF Migrated, Known
<1> HIDE DEF row
<1>3. u = [v EXCEPT !.token = row]
  BY DEF UpsertToken, row
<1>4. u \in View /\ u.token = row /\ u.trades = v.trades /\ u.market = v.market
  BY <1>2, <1>3 DEF View
<1>5. row # Null
  BY <1>2, LifecycleAssumption
<1> QED
  BY <1>2, <1>4, <1>5 DEF Known, Migrated

LEMMA UpsertMarketKeeps ==
  ASSUME NEW v \in View, NEW m \in Markets, NEW e \in Events
  PROVE  LET u == UpsertMarket(v, m, e)
         IN /\ u \in View /\ u.token = v.token /\ u.trades = v.trades
            /\ u.market[m] # Null
            /\ \A n \in Markets : v.market[n] # Null => u.market[n] # Null
<1> DEFINE row == IF v.market[m] = Null THEN [startedAt |-> e, endedAt |-> Null]
                  ELSE [v.market[m] EXCEPT !.startedAt = Least(@, e)]
           u == UpsertMarket(v, m, e)
<1>1. v.market[m] # Null => v.market[m] \in MarketRow
  BY DEF View
<1>2. row \in MarketRow
  BY <1>1 DEF MarketRow, Least
<1> HIDE DEF row
<1>3. u = [v EXCEPT !.market[m] = row]
  BY DEF UpsertMarket, row
<1>4. /\ u \in View /\ u.token = v.token /\ u.trades = v.trades
      /\ u.market = [v.market EXCEPT ![m] = row]
  BY <1>2, <1>3 DEF View
<1>5. row # Null
  BY <1>2, LifecycleAssumption
<1>6. v.market \in [Markets -> MarketRow \union {Null}]
  BY DEF View
<1> QED
  BY <1>4, <1>5, <1>6

LEMMA CloseMarketKeeps ==
  ASSUME NEW v \in View, NEW m \in Markets, NEW e \in Events
  PROVE  LET u == CloseMarket(v, m, e)
         IN /\ u \in View /\ u.token = v.token /\ u.trades = v.trades
            /\ \A n \in Markets : v.market[n] # Null => u.market[n] # Null
<1> DEFINE row == IF v.market[m] = Null THEN v.market[m]
                  ELSE [v.market[m] EXCEPT !.endedAt = e]
           u == CloseMarket(v, m, e)
<1>1. v.market[m] # Null => v.market[m] \in MarketRow
  BY DEF View
<1>2. row \in MarketRow \union {Null}
  BY <1>1 DEF MarketRow
<1>3. v.market[m] # Null => row \in MarketRow
  BY <1>1 DEF MarketRow
<1> HIDE DEF row
<1>4. u = [v EXCEPT !.market[m] = row]
  BY DEF CloseMarket, row
<1>5. /\ u \in View /\ u.token = v.token /\ u.trades = v.trades
      /\ u.market = [v.market EXCEPT ![m] = row]
  BY <1>2, <1>4 DEF View
<1>6. v.market \in [Markets -> MarketRow \union {Null}]
  BY DEF View
<1> QED
  BY <1>3, <1>5, <1>6, LifecycleAssumption

(* What projecting e does: rows are not taken away, and those of e are     *)
(* there.                                                                  *)
Projects(v, u, e) ==
  /\ u \in View
  /\ Known(v) => Known(u)
  /\ Kind(e) \in {"create", "migrate", "createPool"} => Known(u)
  /\ Migrated(v) \/ Kind(e) = "migrate" => Migrated(u)
  /\ Kind(e) \in {"migrate", "createPool"} => u.token.stage = "pool"
  /\ Kind(e) \notin {"create", "migrate", "createPool"} => u.token = v.token
  /\ \A m \in Markets : v.market[m] # Null \/ e \in MarketEvents(m) => u.market[m] # Null

LEMMA StateOpsProject ==
  ASSUME NEW v \in View, NEW e \in Events
  PROVE  Projects(v, StateOps(v, e), e) /\ StateOps(v, e).trades = v.trades
<1>1. Kind(e) \in Kinds
  BY ChainAssumption DEF Kind, Events
<1>2. e # Null
  BY LifecycleAssumption
<1>3. CASE Kind(e) = "create"
  <2> DEFINE new == [createEvent |-> e, firstSeen |-> e, stage |-> "bonding_curve",
                     active |-> "curve", migratedAt |-> Null]
             w == UpsertToken(v, new)
             u == UpsertMarket(w, "curve", e)
  <2>1. new \in TokenRow
    BY DEF TokenRow, Markets
  <2> HIDE DEF new
  <2>2. w \in View /\ Known(w) /\ (Migrated(v) => Migrated(w)) /\ w.trades = v.trades
        /\ w.market = v.market
    BY <2>1, UpsertTokenKeeps
  <2> HIDE DEF w
  <2>3. /\ u \in View /\ u.token = w.token /\ u.trades = w.trades /\ u.market["curve"] # Null
        /\ \A n \in Markets : w.market[n] # Null => u.market[n] # Null
    BY <2>2, UpsertMarketKeeps DEF Markets
  <2>4. StateOps(v, e) = u
    BY <1>3 DEF StateOps, ProjectCreate, u, w, new
  <2> HIDE DEF u
  <2>5. Known(u) /\ (Migrated(v) => Migrated(u))
    BY <2>2, <2>3 DEF Known, Migrated
  <2>6. \A m \in Markets : v.market[m] # Null \/ e \in MarketEvents(m) => u.market[m] # Null
    BY <1>3, <2>2, <2>3 DEF MarketEvents, Markets
  <2> QED
    BY <1>3, <2>2, <2>3, <2>4, <2>5, <2>6 DEF Projects
<1>4. CASE Kind(e) = "migrate"
  <2> DEFINE new == [createEvent |-> Null, firstSeen |-> e, stage |-> "pool",
                     active |-> "pool", migratedAt |-> e]
             x == CloseMarket(v, "curve", e)
             w == UpsertToken(x, new)
             u == UpsertMarket(w, "pool", e)
  <2>1. new \in TokenRow /\ new.migratedAt # Null /\ new.stage = "pool"
    BY <1>2 DEF TokenRow, Markets
  <2> HIDE DEF new
  <2>2. /\ x \in View /\ x.token = v.token /\ x.trades = v.trades
        /\ \A n \in Markets : v.market[n] # Null => x.market[n] # Null
    BY CloseMarketKeeps DEF Markets
  <2> HIDE DEF x
  <2>3. w \in View /\ Known(w) /\ Migrated(w) /\ w.trades = x.trades /\ w.market = x.market
        /\ w.token.stage = "pool"
    BY <2>1, <2>2, UpsertTokenKeeps
  <2> HIDE DEF w
  <2>4. /\ u \in View /\ u.token = w.token /\ u.trades = w.trades /\ u.market["pool"] # Null
        /\ \A n \in Markets : w.market[n] # Null => u.market[n] # Null
    BY <2>3, UpsertMarketKeeps DEF Markets
  <2>5. StateOps(v, e) = u
    BY <1>4 DEF StateOps, ProjectMigrate, u, w, x, new
  <2> HIDE DEF u
  <2>6. Known(u) /\ Migrated(u) /\ u.token.stage = "pool"
    BY <2>3, <2>4 DEF Known, Migrated
  <2>7. \A m \in Markets : v.market[m] # Null \/ e \in MarketEvents(m) => u.market[m] # Null
    BY <1>4, <2>2, <2>3, <2>4 DEF MarketEvents, Markets
  <2> QED
    BY <1>4, <2>2, <2>3, <2>4, <2>5, <2>6, <2>7 DEF Projects
<1>5. CASE Kind(e) = "createPool"
  <2> DEFINE new == [createEvent |-> Null, firstSeen |-> e, stage |-> "pool",
                     active |-> "pool", migratedAt |-> Null]
             w == UpsertToken(v, new)
             u == UpsertMarket(w, "pool", e)
  <2>1. new \in TokenRow /\ new.stage = "pool"
    BY DEF TokenRow, Markets
  <2> HIDE DEF new
  <2>2. w \in View /\ Known(w) /\ (Migrated(v) => Migrated(w)) /\ w.trades = v.trades
        /\ w.market = v.market /\ w.token.stage = "pool"
    BY <2>1, UpsertTokenKeeps
  <2> HIDE DEF w
  <2>3. /\ u \in View /\ u.token = w.token /\ u.trades = w.trades /\ u.market["pool"] # Null
        /\ \A n \in Markets : w.market[n] # Null => u.market[n] # Null
    BY <2>2, UpsertMarketKeeps DEF Markets
  <2>4. StateOps(v, e) = u
    BY <1>5 DEF StateOps, ProjectCreatePool, u, w, new
  <2> HIDE DEF u
  <2>5. Known(u) /\ (Migrated(v) => Migrated(u)) /\ u.token.stage = "pool"
    BY <2>2, <2>3 DEF Known, Migrated
  <2>6. \A m \in Markets : v.market[m] # Null \/ e \in MarketEvents(m) => u.market[m] # Null
    BY <1>5, <2>2, <2>3 DEF MarketEvents, Markets
  <2> QED
    BY <1>5, <2>2, <2>3, <2>4, <2>5, <2>6 DEF Projects
<1>6. CASE Kind(e) \notin {"create", "migrate", "createPool"}
  <2>1. StateOps(v, e) = v
    BY <1>6 DEF StateOps
  <2>2. \A m \in Markets : e \notin MarketEvents(m)
    BY <1>6 DEF MarketEvents
  <2> QED
    BY <1>6, <2>1, <2>2 DEF Projects, Known, Migrated
<1> QED
  BY <1>3, <1>4, <1>5, <1>6

LEMMA ProjectKeeps ==
  ASSUME NEW v \in View, NEW e \in Events
  PROVE  /\ Projects(v, Project(v, e), e)
         /\ Project(v, e).trades \subseteq v.trades \union {e}
<1> DEFINE w == StateOps(v, e)
           u == Project(v, e)
<1>1. Projects(v, w, e) /\ w.trades = v.trades /\ w \in View
  BY StateOpsProject DEF Projects
<1> HIDE DEF w
<1> DEFINE T == w.trades \union {f \in {e} : IsTrade(f)}
<1>2. u = [[w EXCEPT !.trades = T] EXCEPT !.activities = @ \union {e}]
  BY DEF Project, InsertTradeEvents, InsertActivityEvents, w
<1>3. T \subseteq w.trades \union {e} /\ T \subseteq Events
  BY <1>1 DEF View
<1> HIDE DEF T, u
<1>4. u \in View /\ u.token = w.token /\ u.market = w.market /\ u.trades = T
  BY <1>1, <1>2, <1>3 DEF View
<1>5. Projects(v, u, e)
  BY <1>1, <1>4 DEF Projects, Known, Migrated
<1> QED
  BY <1>1, <1>3, <1>4, <1>5 DEF u

LEMMA MarkMigratedKeeps ==
  ASSUME view \in View, NEW e \in Events
  PROVE  /\ MarkMigrated(e) \in View
         /\ Known(view) => Migrated(MarkMigrated(e)) /\ MarkMigrated(e).token.stage = "pool"
         /\ ~Known(view) => MarkMigrated(e).token = Null
         /\ MarkMigrated(e).trades = view.trades /\ MarkMigrated(e).market = view.market
<1> DEFINE row == IF view.token = Null THEN view.token
                  ELSE [view.token EXCEPT !.stage = "pool", !.active = "pool", !.migratedAt = e]
<1>1. view.token # Null =>
        row \in TokenRow /\ row.stage = "pool" /\ row.migratedAt = e /\ row # Null /\ e # Null
  <2>1. view.token # Null => view.token \in TokenRow
    BY DEF View
  <2>2. view.token # Null => row \in TokenRow /\ row.stage = "pool" /\ row.migratedAt = e
    BY <2>1 DEF TokenRow, Markets
  <2> QED
    BY <2>2, LifecycleAssumption
<1>2. view.token = Null => row = Null
  OBVIOUS
<1> HIDE DEF row
<1>3. MarkMigrated(e) = [view EXCEPT !.token = row]
  BY DEF MarkMigrated, row
<1>4. /\ MarkMigrated(e) \in View /\ MarkMigrated(e).token = row
      /\ MarkMigrated(e).trades = view.trades /\ MarkMigrated(e).market = view.market
  BY <1>1, <1>2, <1>3 DEF View
<1> QED
  BY <1>1, <1>2, <1>4 DEF Known, Migrated

-----------------------------------------------------------------------------
(* The initial state.                                                      *)
LEMMA EmptyQueues == <<>> \in Seq({"redis", "pg"}) /\ <<>> \in Seq(Events)
<1>1. <<>> \in Seq({"redis", "pg"})
  OBVIOUS
<1>2. <<>> \in Seq(Events)
  OBVIOUS
<1> QED
  BY <1>1, <1>2

LEMMA LifecycleInit ==
  Init => LifecycleInv
<1> SUFFICES ASSUME Init PROVE LifecycleInv
  OBVIOUS
<1>1. Len(Chain) \in Nat
  BY ChainAssumption
<1>2. EmptyView \in View
  BY DEF EmptyView, View
<1>3. NoRequest \in Request
  BY DEF NoRequest, Request, Results
<1>4. Projected = {} /\ Logged = {}
  BY DEF Init, Projected, Logged
<1>5. ParserType /\ BackendType /\ TasksInv /\ OrderInv /\ TrackInv
  <2>1. ParserType
    <3>1. tasks = <<>> /\ queue = <<>> /\ stream = <<>>
      BY DEF Init
    <3>2. tasks \in Seq({"redis", "pg"})
      BY <3>1
    <3>3. queue \in Seq(Events) /\ stream \in Seq(Events)
      BY <3>1
    <3>4. parsed \in 0..Len(Chain) /\ parser \in {"up", "reconnecting", "down"}
      BY <1>1 DEF Init
    <3>5. tracked \in BOOLEAN /\ redis \in BOOLEAN
      BY DEF Init
    <3> QED
      BY <3>2, <3>3, <3>4, <3>5 DEF ParserType
  <2>2. BackendType
    BY <1>2 DEF Init, BackendType, History
  <2>3. TasksInv /\ OrderInv
    BY DEF Init, TasksInv, OrderInv, Increasing
  <2>4. TrackInv
    BY DEF Init, TrackInv
  <2> QED
    BY <2>1, <2>2, <2>3, <2>4
<1>6. ViewInv /\ StageInv /\ MetadataInv
  BY <1>4 DEF Init, EmptyView, ViewInv, StageInv, MetadataInv, Has
<1>7. ~Answered({"markets", "trades", "events", "summary", "create", "migrate", "reply"})
      /\ ~Answered({"trades", "events", "summary", "create", "migrate", "reply"})
      /\ ~Answered({"summary", "create", "migrate", "reply"})
      /\ ~Answered({"migrate", "reply"}) /\ ~Answered({"reply"})
  BY DEF Init, Answered, NoRequest
<1>8. RequestInv
  BY <1>3, <1>4, <1>7 DEF RequestInv, Init, NoRequest
<1> QED
  BY <1>5, <1>6, <1>8 DEF LifecycleInv

-----------------------------------------------------------------------------
(* The parser.                                                             *)

LEMMA ParserTypeKept ==
  ASSUME ParserType, [Next]_vars PROVE ParserType'
<1>1. CASE ParserStep
  <2>1. CASE Parse
    <3>1. parsed + 1 \in Events /\ parsed + 1 \in 0..Len(Chain)
      BY <2>1, ChainAssumption DEF Parse, ParserType, Events
    <3>2. (tracked \/ Kind(parsed + 1) = "create") \in BOOLEAN
      BY DEF ParserType
    <3> QED
      BY <2>1, <3>1, <3>2 DEF Parse, ParserType, Forwards
  <2>2. CASE PersistRedis
    <3>1. tasks \in Seq({"redis", "pg"}) /\ tasks # <<>> /\ redis' \in BOOLEAN
      BY <2>2 DEF PersistRedis, ParserType
    <3>2. Tail(tasks) \in Seq({"redis", "pg"}) /\ <<"pg">> \in Seq({"redis", "pg"})
      BY <3>1
    <3>3. <<"pg">> \o Tail(tasks) \in Seq({"redis", "pg"})
      BY <3>2
    <3> QED
      BY <2>2, <3>1, <3>3 DEF PersistRedis, ParserType
  <2>3. CASE PersistPg
    <3>1. tasks' \in Seq({"redis", "pg"})
      BY <2>3 DEF PersistPg, ParserType
    <3> QED
      BY <2>3, <3>1 DEF PersistPg, ParserType
  <2>4. CASE Emit
    <3>1. Head(queue) \in Events /\ Tail(queue) \in Seq(Events)
      BY <2>4 DEF Emit, ParserType
    <3>2. queue' \in Seq(Events) /\ stream' \in Seq(Events)
      BY <2>4, <3>1 DEF Emit, ParserType
    <3> QED
      BY <2>4, <3>2 DEF Emit, ParserType
  <2>5. CASE SessionEnds \/ Reconnect \/ ParserStart
    BY <2>5 DEF SessionEnds, Reconnect, ParserStart, Loaded, ParserType
  <2>6. CASE ParserCrash
    <3>1. tasks' \in Seq({"redis", "pg"}) /\ queue' \in Seq(Events)
      BY <2>6, EmptyQueues DEF ParserCrash
    <3> QED
      BY <2>6, <3>1 DEF ParserCrash, ParserType
  <2>7. CASE PassBy
    BY <2>7, ChainAssumption DEF PassBy, ParserType
  <2> QED
    BY <1>1, <2>1, <2>2, <2>3, <2>4, <2>5, <2>6, <2>7 DEF ParserStep
<1>2. CASE BackendStep \/ GetTokenDetail \/ UNCHANGED vars
  <2>1. UNCHANGED <<parserVars, stream>>
    BY <1>2 DEF BackendStep, Ingest, ProjectNext, SweepMetrics, FetchBegin, FetchEnd,
         GetTokenDetail, Ask, Begin, FindSnapshot, ListMarkets, ListTrades, ListServiceEvents,
         LoadTradeSummary, LoadCreateSummary, FindLatestMigrate, Reply, vars
  <2> QED
    BY <2>1 DEF ParserType, parserVars
<1> QED
  BY <1>1, <1>2 DEF Next

LEMMA TasksInvKept ==
  ASSUME ParserType, TasksInv, [Next]_vars PROVE TasksInv'
<1>1. CASE Parse
  <2>1. parsed + 1 \in Events
    BY <1>1, ChainAssumption DEF Parse, ParserType, Events
  <2> QED
    BY <1>1, <2>1 DEF Parse, TasksInv
<1>2. CASE PersistRedis \/ PersistPg \/ ParserCrash
  BY <1>2 DEF PersistRedis, PersistPg, ParserCrash, TasksInv
<1>3. CASE UNCHANGED tasks
  BY <1>3 DEF TasksInv
<1> QED
  BY <1>1, <1>2, <1>3 DEF Next, ParserStep, Emit, SessionEnds, Reconnect, PassBy, ParserStart,
       BackendStep, Ingest, ProjectNext, SweepMetrics, FetchBegin, FetchEnd,
       GetTokenDetail, Ask, Begin, FindSnapshot, ListMarkets, ListTrades, ListServiceEvents,
       LoadTradeSummary, LoadCreateSummary, FindLatestMigrate, Reply, parserVars, vars

LEMMA TrackInvKept ==
  ASSUME ParserType, history \in History, TrackInv, [Next]_vars PROVE TrackInv'
<1>1. CASE Parse
  <2> DEFINE e == parsed + 1
  <2>1. /\ tracked' = Forwards(e) /\ parser = "up"
        /\ history'.accepted = (history.accepted \/ Kind(e) = "create")
        /\ history'.missed = (history.missed \/ (history.accepted /\ ~Forwards(e)))
        /\ history'.forgot = history.forgot
    BY <1>1 DEF Parse, History
  <2> HIDE DEF e
  <2> QED
    BY <2>1 DEF TrackInv, Forwards
<1>2. CASE ParserStart
  <2>1. /\ tracked' = redis
        /\ history'.accepted = history.accepted /\ history'.missed = history.missed
        /\ history'.forgot = (history.forgot \/ ~redis)
    BY <1>2 DEF ParserStart, Loaded, History
  <2> QED
    BY <2>1 DEF TrackInv
<1>3. CASE PersistPg \/ FetchEnd
  <2>1. /\ history'.accepted = history.accepted /\ history'.missed = history.missed
        /\ history'.forgot = history.forgot
    BY <1>3 DEF PersistPg, FetchEnd, History
  <2>2. UNCHANGED <<parser, tracked>>
    BY <1>3 DEF PersistPg, FetchEnd, parserVars
  <2> QED
    BY <2>1, <2>2 DEF TrackInv
<1>4. CASE SessionEnds \/ Reconnect \/ ParserCrash
  BY <1>4 DEF SessionEnds, Reconnect, ParserCrash, TrackInv
<1>5. CASE UNCHANGED <<parser, tracked, history>>
  BY <1>5 DEF TrackInv
<1> QED
  BY <1>1, <1>2, <1>3, <1>4, <1>5 DEF Next, ParserStep, PersistRedis, Emit, PassBy,
       BackendStep, Ingest, ProjectNext, SweepMetrics, FetchBegin,
       GetTokenDetail, Ask, Begin, FindSnapshot, ListMarkets, ListTrades, ListServiceEvents,
       LoadTradeSummary, LoadCreateSummary, FindLatestMigrate, Reply, parserVars, vars

(* The order of the chain, from the queue to the stream to the log.        *)
LEMMA OrderInvKept ==
  ASSUME ParserType, BackendType, OrderInv, [Next]_vars PROVE OrderInv'
<1>1. CASE Parse
  <2>1. /\ parsed' = parsed + 1 /\ parsed \in Nat
        /\ queue \in Seq(Events)
        /\ queue' = Append(queue, parsed + 1) \/ queue' = queue
        /\ stream' = stream /\ log' = log
    BY <1>1 DEF Parse, ParserType, backendVars
  <2>2. \A i \in 1..Len(stream) : stream[i] \in Nat
    BY DEF ParserType, Events
  <2>3. \A i \in 1..Len(queue) : queue[i] \in Nat
    BY DEF ParserType, Events
  <2>4. CASE queue' = queue
    BY <2>1, <2>2, <2>3, <2>4 DEF OrderInv, Increasing
  <2>5. CASE queue' = Append(queue, parsed + 1)
    <3>1. /\ Len(queue) \in Nat /\ Len(queue') = Len(queue) + 1
          /\ queue'[Len(queue) + 1] = parsed + 1
          /\ \A i \in 1..Len(queue) : queue'[i] = queue[i]
      BY <2>1, <2>5
    <3>2. ASSUME NEW i \in 1..Len(queue'), NEW j \in 1..Len(queue'), i < j
          PROVE  queue'[i] < queue'[j]
      <4>1. i \in 1..Len(queue) /\ queue[i] <= parsed /\ queue[i] \in Nat
        BY <2>3, <3>1, <3>2 DEF OrderInv
      <4>2. CASE j = Len(queue) + 1
        BY <2>1, <3>1, <4>1, <4>2
      <4>3. CASE j \in 1..Len(queue)
        BY <3>1, <3>2, <4>1, <4>3 DEF OrderInv, Increasing
      <4> QED
        BY <3>1, <4>2, <4>3
    <3>3. \A i \in 1..Len(queue') : queue'[i] <= parsed'
      BY <2>1, <2>3, <3>1 DEF OrderInv
    <3>4. \A i \in 1..Len(stream), j \in 1..Len(queue') : stream[i] < queue'[j]
      <4> SUFFICES ASSUME NEW i \in 1..Len(stream), NEW j \in 1..Len(queue')
                   PROVE  stream[i] < queue'[j]
        OBVIOUS
      <4>1. stream[i] <= parsed /\ stream[i] \in Nat
        BY <2>2 DEF OrderInv
      <4>2. CASE j = Len(queue) + 1
        BY <2>1, <3>1, <4>1, <4>2
      <4>3. CASE j \in 1..Len(queue)
        BY <3>1, <4>3 DEF OrderInv
      <4> QED
        BY <3>1, <4>2, <4>3
    <3>5. \A i \in 1..Len(stream) : stream[i] <= parsed + 1
      BY <2>1, <2>2 DEF OrderInv
    <3> QED
      BY <2>1, <3>2, <3>3, <3>4, <3>5 DEF OrderInv, Increasing
  <2> QED
    BY <2>1, <2>4, <2>5
<1>2. CASE Emit
  <2>1. /\ queue \in Seq(Events) /\ queue # <<>> /\ queue' = Tail(queue)
        /\ stream \in Seq(Events)
        /\ stream' = Append(stream, Head(queue)) \/ stream' = stream
        /\ UNCHANGED <<parsed, log>>
    BY <1>2 DEF Emit, ParserType, backendVars
  <2>2. /\ Len(queue) \in Nat /\ Len(queue) > 0 /\ Len(queue') = Len(queue) - 1
        /\ \A i \in 1..Len(queue') : queue'[i] = queue[i + 1]
        /\ Head(queue) = queue[1]
    BY <2>1
  <2>3. /\ Increasing(queue)'
        /\ \A i \in 1..Len(queue') : queue'[i] <= parsed /\ queue[1] < queue'[i]
        /\ \A i \in 1..Len(stream), j \in 1..Len(queue') : stream[i] < queue'[j]
    <3>1. \A i \in 1..Len(queue') : i + 1 \in 1..Len(queue) /\ i + 1 > 1
      BY <2>2
    <3>2. ASSUME NEW i \in 1..Len(queue') PROVE queue'[i] <= parsed /\ queue[1] < queue'[i]
      <4>1. queue'[i] = queue[i + 1] /\ i + 1 \in 1..Len(queue) /\ 1 \in 1..Len(queue) /\ 1 < i + 1
        BY <2>2, <3>1
      <4> QED
        BY <4>1 DEF OrderInv, Increasing
    <3>3. ASSUME NEW i \in 1..Len(stream), NEW j \in 1..Len(queue') PROVE stream[i] < queue'[j]
      BY <2>2, <3>1 DEF OrderInv
    <3>4. ASSUME NEW i \in 1..Len(queue'), NEW j \in 1..Len(queue'), i < j
          PROVE  queue'[i] < queue'[j]
      <4>1. i + 1 < j + 1
        BY <2>2, <3>4
      <4> QED
        BY <2>2, <3>1, <4>1 DEF OrderInv, Increasing
    <3> QED
      BY <3>2, <3>3, <3>4 DEF Increasing
  <2>4. CASE stream' = stream
    BY <2>1, <2>3, <2>4 DEF OrderInv, Increasing
  <2>5. CASE stream' = Append(stream, Head(queue))
    <3>1. /\ Len(stream) \in Nat /\ Len(stream') = Len(stream) + 1
          /\ stream'[Len(stream) + 1] = queue[1]
          /\ \A i \in 1..Len(stream) : stream'[i] = stream[i]
      BY <2>1, <2>2, <2>5
    <3>2. queue[1] <= parsed /\ \A i \in 1..Len(stream) : stream[i] < queue[1]
      BY <2>2 DEF OrderInv
    <3>3. Increasing(stream)'
      BY <3>1, <3>2 DEF OrderInv, Increasing
    <3>4. /\ \A i \in 1..Len(stream') : stream'[i] <= parsed
          /\ \A i \in 1..Len(stream'), j \in 1..Len(queue') : stream'[i] < queue'[j]
      <4>1. ASSUME NEW i \in 1..Len(stream')
            PROVE  stream'[i] <= parsed /\ \A j \in 1..Len(queue') : stream'[i] < queue'[j]
        <5>1. CASE i = Len(stream) + 1
          BY <2>3, <3>1, <3>2, <5>1
        <5>2. CASE i \in 1..Len(stream)
          BY <2>3, <3>1, <5>2 DEF OrderInv
        <5> QED
          BY <3>1, <5>1, <5>2
      <4> QED
        BY <4>1
    <3>5. Len(log) \in Nat
      BY DEF BackendType
    <3>6. Len(log) <= Len(stream') /\ \A i \in 1..Len(log) : log[i] = stream'[i]
      BY <3>1, <3>5 DEF OrderInv
    <3> QED
      BY <2>1, <2>3, <3>3, <3>4, <3>6 DEF OrderInv, Increasing
  <2> QED
    BY <2>1, <2>4, <2>5
<1>3. CASE ParserCrash
  <2>1. Len(queue') = 0 /\ UNCHANGED <<parsed, stream, log>>
    BY <1>3 DEF ParserCrash, backendVars
  <2> QED
    BY <2>1 DEF OrderInv, Increasing
<1>4. CASE PassBy
  <2>1. parsed' = parsed + 1 /\ parsed \in Nat /\ UNCHANGED <<queue, stream, log>>
    BY <1>4 DEF PassBy, ParserType, backendVars
  <2>2. \A i \in 1..Len(stream) : stream[i] \in Nat
    BY DEF ParserType, Events
  <2>3. \A i \in 1..Len(queue) : queue[i] \in Nat
    BY DEF ParserType, Events
  <2> QED
    BY <2>1, <2>2, <2>3 DEF OrderInv, Increasing
<1>5. CASE Ingest
  <2>1. /\ Len(log) < Len(stream) /\ log' = Append(log, stream[Len(log) + 1])
        /\ log \in Seq(Events) /\ Len(stream) \in Nat
        /\ UNCHANGED <<parsed, queue, stream>>
    BY <1>5 DEF Ingest, parserVars, ParserType, BackendType
  <2>2. Len(log) \in Nat /\ stream[Len(log) + 1] \in Events
    BY <2>1 DEF ParserType
  <2>3. /\ Len(log') = Len(log) + 1 /\ log'[Len(log) + 1] = stream[Len(log) + 1]
        /\ \A i \in 1..Len(log) : log'[i] = log[i]
    BY <2>1, <2>2
  <2>4. Len(log') <= Len(stream) /\ \A i \in 1..Len(log') : log'[i] = stream[i]
    BY <2>1, <2>2, <2>3 DEF OrderInv
  <2> QED
    BY <2>1, <2>4 DEF OrderInv, Increasing
<1>6. CASE UNCHANGED <<parsed, queue, stream, log>>
  BY <1>6 DEF OrderInv, Increasing
<1> QED
  BY <1>1, <1>2, <1>3, <1>4, <1>5, <1>6 DEF Next, ParserStep, PersistRedis, PersistPg, SessionEnds,
       Reconnect, ParserStart, BackendStep, ProjectNext, SweepMetrics, FetchBegin, FetchEnd,
       GetTokenDetail, Ask, Begin, FindSnapshot, ListMarkets, ListTrades, ListServiceEvents,
       LoadTradeSummary, LoadCreateSummary, FindLatestMigrate, Reply, parserVars, backendVars, vars

-----------------------------------------------------------------------------
(* The backend.                                                            *)

(* The projector's next row; every other step leaves what is projected.    *)
LEMMA ProjectedAfter ==
  ASSUME BackendType
  PROVE  /\ Projected \subseteq Logged /\ Logged \subseteq Events
         /\ ProjectNext => /\ log[checkpoint + 1] \in Events
                           /\ Projected' = Projected \union {log[checkpoint + 1]}
                           /\ Logged' = Logged
         /\ stream \in Seq(Events) /\ Ingest => Projected' = Projected /\ Logged \subseteq Logged'
         /\ UNCHANGED <<log, checkpoint>> => Projected' = Projected /\ Logged' = Logged
<1>1. log \in Seq(Events) /\ checkpoint \in 0..Len(log) /\ Len(log) \in Nat
  BY DEF BackendType
<1>2. Projected \subseteq Logged /\ Logged \subseteq Events
  BY <1>1 DEF Projected, Logged
<1>3. ASSUME ProjectNext
      PROVE  /\ log[checkpoint + 1] \in Events
             /\ Projected' = Projected \union {log[checkpoint + 1]}
             /\ Logged' = Logged
  <2>1. log' = log /\ checkpoint' = checkpoint + 1 /\ checkpoint < Len(log)
    BY <1>3 DEF ProjectNext
  <2>2. 1..(checkpoint + 1) = (1..checkpoint) \union {checkpoint + 1}
    BY <1>1
  <2>3. checkpoint + 1 \in 1..Len(log)
    BY <1>1, <2>1
  <2> QED
    BY <1>1, <2>1, <2>2, <2>3 DEF Projected, Logged
<1>4. ASSUME stream \in Seq(Events), Ingest PROVE Projected' = Projected /\ Logged \subseteq Logged'
  <2>1. /\ log' = Append(log, stream[Len(log) + 1]) /\ checkpoint' = checkpoint
        /\ Len(log) < Len(stream)
    BY <1>4 DEF Ingest
  <2>2. stream[Len(log) + 1] \in Events
    BY <1>1, <1>4, <2>1
  <2>3. Len(log') = Len(log) + 1 /\ \A i \in 1..Len(log) : log'[i] = log[i]
    BY <1>1, <2>1, <2>2
  <2>4. 1..checkpoint \subseteq 1..Len(log) /\ 1..Len(log) \subseteq 1..Len(log')
    BY <1>1, <2>3
  <2> QED
    BY <2>1, <2>3, <2>4 DEF Projected, Logged
<1>5. UNCHANGED <<log, checkpoint>> => Projected' = Projected /\ Logged' = Logged
  BY DEF Projected, Logged
<1> QED
  BY <1>2, <1>3, <1>4, <1>5

(* What a step of the parser does to the view: it writes the token alone,  *)
(* and does not forget that it has migrated.                               *)
WritesToken ==
  /\ view' \in View /\ view'.trades = view.trades /\ view'.market = view.market
  /\ Migrated(view) => Migrated(view')
  /\ Known(view) => Known(view')

LEMMA ParserWrites ==
  ASSUME ParserType, TasksInv, view \in View, history \in History
  PROVE  /\ Parse => /\ WritesToken /\ history'.overtaken = history.overtaken
                     /\ Known(view) /\ view.token.stage = "pool" => view'.token.stage = "pool"
         /\ PersistPg => /\ WritesToken
                         /\ (view' = view /\ history' = history) \/
                              history'.overtaken = (history.overtaken \/ Has(Projected, "migrate")
                                                      \/ Has(Projected, "createPool"))
<1>1. ASSUME Parse
      PROVE  /\ WritesToken /\ history'.overtaken = history.overtaken
             /\ Known(view) /\ view.token.stage = "pool" => view'.token.stage = "pool"
  <2>1. parsed + 1 \in Events
    BY <1>1, ChainAssumption DEF Parse, ParserType, Events
  <2>2. view' = view \/ view' = MarkMigrated(parsed + 1)
    BY <1>1 DEF Parse
  <2>3. history'.overtaken = history.overtaken
    BY <1>1 DEF Parse, History
  <2>4. CASE view' = view
    BY <2>3, <2>4 DEF WritesToken
  <2>5. CASE view' = MarkMigrated(parsed + 1)
    <3>1. /\ view' \in View /\ view'.trades = view.trades /\ view'.market = view.market
          /\ Known(view) => Migrated(view') /\ view'.token.stage = "pool"
      BY <2>1, <2>5, MarkMigratedKeeps
    <3>2. WritesToken
      BY <3>1 DEF WritesToken, Migrated, Known
    <3> QED
      BY <2>3, <3>1, <3>2
  <2> QED
    BY <2>2, <2>4, <2>5
<1>2. ASSUME PersistPg
      PROVE  /\ WritesToken
             /\ (view' = view /\ history' = history) \/
                  history'.overtaken = (history.overtaken \/ Has(Projected, "migrate")
                                          \/ Has(Projected, "createPool"))
  <2>1. tasks # <<>>
    BY <1>2 DEF PersistPg
  <2>2. CreateEvent \in Events
    BY <2>1 DEF TasksInv, CreateEvent
  <2>3. CreateRecord(CreateEvent) \in TokenRow
    BY <2>2 DEF CreateRecord, TokenRow, Markets
  <2>4. CASE view' = view /\ history' = history
    BY <2>4 DEF WritesToken
  <2>5. CASE /\ view' = UpsertToken(view, CreateRecord(CreateEvent))
             /\ history' = [history EXCEPT !.overtaken = @ \/ Has(Projected, "migrate")
                                                           \/ Has(Projected, "createPool")]
    <3>1. /\ view' \in View /\ view'.trades = view.trades /\ view'.market = view.market
          /\ Migrated(view) => Migrated(view')
          /\ Known(view')
      BY <2>3, <2>5, UpsertTokenKeeps
    <3>2. history'.overtaken = (history.overtaken \/ Has(Projected, "migrate")
                                          \/ Has(Projected, "createPool"))
      BY <2>5 DEF History
    <3> QED
      BY <3>1, <3>2 DEF WritesToken
  <2> QED
    BY <1>2, <2>4, <2>5 DEF PersistPg
<1> QED
  BY <1>1, <1>2

LEMMA BackendTypeKept ==
  ASSUME ParserType, TasksInv, BackendType, [Next]_vars
  PROVE  BackendType'
<1>1. CASE Parse
  <2>1. view' \in View
    BY <1>1, ParserWrites DEF WritesToken, BackendType
  <2>2. history' \in History
    BY <1>1 DEF Parse, BackendType, History
  <2> QED
    BY <1>1, <2>1, <2>2 DEF Parse, BackendType, backendVars
<1>2. CASE PersistPg
  <2>1. view' \in View
    BY <1>2, ParserWrites DEF WritesToken, BackendType
  <2>2. history' \in History
    BY <1>2 DEF PersistPg, BackendType, History
  <2> QED
    BY <1>2, <2>1, <2>2 DEF PersistPg, BackendType, backendVars
<1>3. CASE ParserStart
  <2>1. history' \in History
    BY <1>3 DEF ParserStart, BackendType, ParserType, History
  <2> QED
    BY <1>3, <2>1 DEF ParserStart, BackendType, backendVars
<1>4. CASE Ingest
  <2>1. log' \in Seq(Events) /\ Len(log') = Len(log) + 1 /\ checkpoint' = checkpoint
    BY <1>4 DEF Ingest, ParserType, BackendType
  <2>2. checkpoint' \in 0..Len(log')
    BY <2>1 DEF BackendType
  <2> QED
    BY <1>4, <2>1, <2>2 DEF Ingest, BackendType
<1>5. CASE ProjectNext
  <2>1. log' = log /\ checkpoint' \in 0..Len(log)
    BY <1>5 DEF ProjectNext, BackendType
  <2>2. view' \in View
    BY <1>5, ProjectedAfter, ProjectKeeps DEF ProjectNext, Projects, BackendType
  <2>3. metadata' \in MetadataRow \union {Null}
    BY <1>5 DEF ProjectNext, UpsertTokenMetadata, MetadataRow, BackendType
  <2> QED
    BY <1>5, <2>1, <2>2, <2>3 DEF ProjectNext, BackendType
<1>6. CASE FetchEnd
  <2>1. metadata' \in MetadataRow \union {Null}
    BY <1>6 DEF FetchEnd, MetadataRow, BackendType
  <2>2. history' \in History
    BY <1>6 DEF FetchEnd, BackendType, History
  <2> QED
    BY <1>6, <2>1, <2>2 DEF FetchEnd, BackendType
<1>7. CASE SweepMetrics \/ FetchBegin
  BY <1>7 DEF SweepMetrics, FetchBegin, BackendType
<1>8. CASE UNCHANGED <<backendVars, view, history>>
  BY <1>8 DEF BackendType, backendVars
<1> QED
  BY <1>1, <1>2, <1>3, <1>4, <1>5, <1>6, <1>7, <1>8 DEF Next, ParserStep, BackendStep,
       PersistRedis, Emit, SessionEnds, Reconnect, ParserCrash, PassBy,
       GetTokenDetail, Ask, Begin, FindSnapshot, ListMarkets, ListTrades, ListServiceEvents,
       LoadTradeSummary, LoadCreateSummary, FindLatestMigrate, Reply, vars

(* Steps that change neither the view nor what is projected.               *)
Aside == UNCHANGED view /\ Projected' = Projected

LEMMA StepsAside ==
  ASSUME ParserType, BackendType, [Next]_vars
  PROVE  /\ ~(Parse \/ PersistPg \/ ProjectNext) => Aside
         /\ Parse \/ PersistPg => Projected' = Projected
         /\ Projected \subseteq Projected' /\ Logged \subseteq Logged'
<1>0. Parse \/ PersistPg => Projected' = Projected
  <2>1. Parse \/ PersistPg => UNCHANGED <<log, checkpoint>>
    BY DEF Parse, PersistPg, backendVars
  <2> QED
    BY <2>1, ProjectedAfter
<1>1. CASE Ingest
  <2>1. Projected' = Projected /\ Logged \subseteq Logged' /\ view' = view
    BY <1>1, ProjectedAfter DEF ParserType, Ingest
  <2> QED
    BY <1>0, <2>1 DEF Aside
<1>2. CASE Parse \/ PersistPg
  <2>1. UNCHANGED <<log, checkpoint>>
    BY <1>2 DEF Parse, PersistPg, backendVars
  <2> QED
    BY <1>2, <2>1, ProjectedAfter
<1>3. CASE ProjectNext
  <2>1. Projected \subseteq Projected' /\ Logged \subseteq Logged'
    BY <1>3, ProjectedAfter
  <2> QED
    BY <1>0, <1>3, <2>1
<1>4. CASE UNCHANGED <<log, checkpoint, view>>
  BY <1>0, <1>4, ProjectedAfter DEF Aside
<1> QED
  BY <1>1, <1>2, <1>3, <1>4 DEF Next, ParserStep, BackendStep,
       PersistRedis, Emit, SessionEnds, Reconnect, ParserCrash, PassBy, ParserStart,
       SweepMetrics, FetchBegin, FetchEnd,
       GetTokenDetail, Ask, Begin, FindSnapshot, ListMarkets, ListTrades, ListServiceEvents,
       LoadTradeSummary, LoadCreateSummary, FindLatestMigrate, Reply, backendVars, vars

LEMMA ViewInvKept ==
  ASSUME ParserType, BackendType, TasksInv, ViewInv, [Next]_vars
  PROVE  ViewInv'
<1>1. CASE Parse \/ PersistPg
  <2>1. WritesToken /\ Projected' = Projected
    BY <1>1, StepsAside, ParserWrites DEF BackendType
  <2> QED
    BY <2>1 DEF ViewInv, WritesToken, Migrated, Known, Has
<1>2. CASE ProjectNext
  <2> DEFINE e == log[checkpoint + 1]
  <2>1. /\ e \in Events /\ Projected' = Projected \union {e}
        /\ Projects(view, view', e) /\ view'.trades \subseteq view.trades \union {e}
    BY <1>2, ProjectedAfter, ProjectKeeps DEF ProjectNext, BackendType
  <2> HIDE DEF e
  <2>2. view'.trades \subseteq Projected'
    BY <2>1 DEF ViewInv
  <2>3. ASSUME NEW m \in Markets, Projected' \intersect MarketEvents(m) # {}
        PROVE  view'.market[m] # Null
    BY <2>1, <2>3 DEF ViewInv, Projects
  <2>4. ASSUME Has(Projected', "migrate") PROVE Migrated(view')
    <3>1. Has(Projected, "migrate") \/ Kind(e) = "migrate"
      BY <2>1, <2>4 DEF Has
    <3> QED
      BY <2>1, <3>1 DEF ViewInv, Projects, Migrated, Known
  <2> QED
    BY <2>2, <2>3, <2>4 DEF ViewInv, Migrated, Known, Has
<1>3. CASE Aside
  BY <1>3 DEF Aside, ViewInv, Has
<1> QED
  BY <1>1, <1>2, <1>3, StepsAside

LEMMA StageInvKept ==
  ASSUME ParserType, BackendType, TasksInv, OrderInv, StageInv, [Next]_vars
  PROVE  StageInv'
<1>1. CASE Parse
  <2>1. /\ WritesToken /\ history'.overtaken = history.overtaken /\ Projected' = Projected
        /\ Known(view) /\ view.token.stage = "pool" => view'.token.stage = "pool"
    BY <1>1, StepsAside, ParserWrites DEF BackendType
  <2> QED
    BY <2>1 DEF StageInv, WritesToken, Known, Has
<1>2. CASE PersistPg
  <2>1. /\ Projected' = Projected
        /\ (view' = view /\ history' = history) \/
             history'.overtaken = (history.overtaken \/ Has(Projected, "migrate")
                                     \/ Has(Projected, "createPool"))
    BY <1>2, StepsAside, ParserWrites DEF BackendType
  <2>2. Has(Projected, "migrate")' <=> Has(Projected, "migrate")
    BY <2>1 DEF Has
  <2> QED
    BY <2>1, <2>2 DEF StageInv
<1>3. CASE ProjectNext
  <2> DEFINE e == log[checkpoint + 1]
  <2>1. /\ e \in Events /\ Projected' = Projected \union {e}
        /\ Projects(view, view', e) /\ history' = history
    BY <1>3, ProjectedAfter, ProjectKeeps DEF ProjectNext, BackendType
  <2>2. ASSUME NEW f \in Projected PROVE f < e
    <3>1. PICK i \in 1..checkpoint : f = log[i]
      BY <2>2 DEF Projected
    <3>2. i \in 1..Len(log) /\ checkpoint + 1 \in 1..Len(log) /\ i < checkpoint + 1
      BY <1>3, <3>1 DEF ProjectNext, BackendType
    <3>3. i \in 1..Len(stream) /\ checkpoint + 1 \in 1..Len(stream)
      BY <3>2 DEF OrderInv, ParserType, BackendType
    <3> QED
      BY <3>1, <3>2, <3>3 DEF OrderInv, Increasing
  <2> HIDE DEF e
  <2>3. Projected \subseteq Events
    BY ProjectedAfter
  <2>4. ASSUME Has(Projected', "migrate"), ~history.overtaken
        PROVE  Known(view') /\ view'.token.stage = "pool"
    <3>1. CASE Kind(e) = "create"
      <4>1. Has(Projected, "migrate")
        BY <2>1, <2>4, <3>1 DEF Has
      <4>2. PICK f \in Projected : Kind(f) = "migrate"
        BY <4>1 DEF Has
      <4>3. e < f /\ f < e /\ e \in Nat /\ f \in Nat
        BY <2>1, <2>2, <2>3, <3>1, <4>2, LifecycleAssumption DEF Events
      <4> QED
        BY <4>3
    <3>2. CASE Kind(e) \in {"migrate", "createPool"}
      BY <2>1, <3>2 DEF Projects
    <3>3. CASE Kind(e) \notin {"create", "migrate", "createPool"}
      <4>1. Has(Projected, "migrate")
        BY <2>1, <2>4, <3>3 DEF Has
      <4> QED
        BY <2>1, <2>4, <3>3, <4>1 DEF StageInv, Projects, Known
    <3> QED
      BY <3>1, <3>2, <3>3
  <2> QED
    BY <2>1, <2>4 DEF StageInv, Known, Has
<1>4. CASE Aside /\ ~(Parse \/ PersistPg \/ ProjectNext)
  <2>1. history'.overtaken = history.overtaken
    BY <1>4 DEF Next, ParserStep, BackendStep, BackendType, History,
         PersistRedis, Emit, SessionEnds, Reconnect, ParserCrash, PassBy, ParserStart,
         Ingest, SweepMetrics, FetchBegin, FetchEnd,
         GetTokenDetail, Ask, Begin, FindSnapshot, ListMarkets, ListTrades, ListServiceEvents,
         LoadTradeSummary, LoadCreateSummary, FindLatestMigrate, Reply, vars
  <2> QED
    BY <1>4, <2>1 DEF Aside, StageInv, Has
<1> QED
  BY <1>1, <1>2, <1>3, <1>4, StepsAside

LEMMA MetadataInvKept ==
  ASSUME ParserType, BackendType, MetadataInv, [Next]_vars
  PROVE  MetadataInv'
<1>1. CASE ProjectNext
  <2> DEFINE e == log[checkpoint + 1]
  <2>1. /\ Projected' = Projected \union {e}
        /\ metadata' = IF WritesMetadata(e) THEN UpsertTokenMetadata ELSE metadata
        /\ UNCHANGED <<fetcher, history>>
    BY <1>1, ProjectedAfter DEF ProjectNext
  <2> HIDE DEF e
  <2>2. [image |-> FALSE] # Null
    <3>1. [image |-> FALSE] \in MetadataRow
      BY DEF MetadataRow
    <3> QED
      BY <3>1, LifecycleAssumption
  <2>3. metadata # Null => metadata' = metadata
    BY <2>1 DEF UpsertTokenMetadata
  <2>4. WritesMetadata(e) => metadata' # Null
    BY <2>1, <2>2 DEF UpsertTokenMetadata
  <2>5. Has(Projected', "create") \/ Has(Projected', "createPool") =>
          Has(Projected, "create") \/ Has(Projected, "createPool") \/ WritesMetadata(e)
    BY <2>1 DEF Has, WritesMetadata
  <2> QED
    BY <2>1, <2>3, <2>4, <2>5 DEF MetadataInv, Has
<1>2. CASE FetchEnd
  <2>1. Aside
    BY <1>2, ProjectedAfter DEF FetchEnd, Aside
  <2>2. CASE fetcher' = "failed" /\ metadata' = metadata
    BY <2>1, <2>2 DEF MetadataInv, Aside, Has
  <2>3. CASE /\ fetcher' = "stored"
             /\ metadata' = IF metadata = Null THEN Null ELSE [metadata EXCEPT !.image = TRUE]
             /\ history' = [history EXCEPT !.early = @ \/ metadata = Null]
    <3>1. history'.early = (history.early \/ metadata = Null)
      BY <2>3 DEF BackendType, History
    <3>2. metadata # Null => metadata' \in MetadataRow /\ metadata'.image
      BY <2>3 DEF BackendType, MetadataRow
    <3>3. metadata # Null => metadata' # Null
      BY <3>2, LifecycleAssumption
    <3> QED
      BY <2>1, <3>1, <3>2, <3>3 DEF MetadataInv, Aside, Has
  <2> QED
    BY <1>2, <2>2, <2>3 DEF FetchEnd
<1>3. CASE ~(ProjectNext \/ FetchEnd)
  <2>1. Projected' = Projected
    BY <1>3, StepsAside DEF Aside
  <2>2. (metadata' = metadata /\ fetcher' # "stored") \/ UNCHANGED <<metadata, fetcher>>
    BY <1>3 DEF Next, ParserStep, BackendStep,
         Parse, PersistRedis, PersistPg, Emit, SessionEnds, Reconnect, ParserCrash, PassBy, ParserStart,
         Ingest, SweepMetrics, FetchBegin,
         GetTokenDetail, Ask, Begin, FindSnapshot, ListMarkets, ListTrades, ListServiceEvents,
         LoadTradeSummary, LoadCreateSummary, FindLatestMigrate, Reply, backendVars, vars
  <2>3. history'.early = history.early
    BY <1>3 DEF Next, ParserStep, BackendStep, BackendType, History,
         Parse, PersistRedis, PersistPg, Emit, SessionEnds, Reconnect, ParserCrash, PassBy, ParserStart,
         Ingest, SweepMetrics, FetchBegin,
         GetTokenDetail, Ask, Begin, FindSnapshot, ListMarkets, ListTrades, ListServiceEvents,
         LoadTradeSummary, LoadCreateSummary, FindLatestMigrate, Reply, vars
  <2> QED
    BY <2>1, <2>2, <2>3 DEF MetadataInv, Has
<1> QED
  BY <1>1, <1>2, <1>3

-----------------------------------------------------------------------------
(* The detail request.                                                     *)

LEMMA AfterIs ==
  /\ After("snapshot") = "markets" /\ After("markets") = "trades" /\ After("trades") = "events"
  /\ After("events") = "summary" /\ After("summary") = "create" /\ After("create") = "migrate"
  /\ After("migrate") = "reply"
<1> DEFINE at(pc) == CHOOSE i \in 1..Len(Queries) : Queries[i] = pc
<1>1. /\ Len(Queries) = 8
      /\ Queries[1] = "snapshot" /\ Queries[2] = "markets" /\ Queries[3] = "trades"
      /\ Queries[4] = "events" /\ Queries[5] = "summary" /\ Queries[6] = "create"
      /\ Queries[7] = "migrate" /\ Queries[8] = "reply"
  BY DEF Queries
<1>2. ASSUME NEW i \in 1..8 PROVE at(Queries[i]) = i
  <2>1. ASSUME NEW j \in 1..8, Queries[j] = Queries[i] PROVE j = i
    BY <1>1, <2>1
  <2> QED
    BY <1>1, <2>1
<1> HIDE DEF at
<1>3. \A i \in 1..7 : After(Queries[i]) = Queries[i + 1]
  <2>1. ASSUME NEW i \in 1..7 PROVE After(Queries[i]) = Queries[1 + at(Queries[i])]
    BY DEF After, at
  <2>2. ASSUME NEW i \in 1..7 PROVE at(Queries[i]) = i
    BY <1>2
  <2> QED
    BY <2>1, <2>2
<1> QED
  BY <1>1, <1>3

(* Other steps only add to what the request compares itself with.          *)
LEMMA RequestWaits ==
  ASSUME RequestInv, UNCHANGED req, Projected \subseteq Projected', Logged \subseteq Logged'
  PROVE  RequestInv'
BY DEF RequestInv, Answered

LEMMA RequestInvKept ==
  ASSUME ParserType, BackendType, ViewInv, RequestInv, [Next]_vars
  PROVE  RequestInv'
<1>1. CASE ParserStep \/ BackendStep \/ UNCHANGED vars
  <2>1. UNCHANGED req
    BY <1>1 DEF ParserStep, BackendStep,
       Parse, PersistRedis, PersistPg, Emit, SessionEnds, Reconnect, ParserCrash, PassBy, ParserStart,
       Ingest, ProjectNext, SweepMetrics, FetchBegin, FetchEnd, vars
  <2> QED
    BY <2>1, StepsAside, RequestWaits
<1>2. CASE GetTokenDetail
  <2>1. UNCHANGED <<log, checkpoint>>
    BY <1>2 DEF GetTokenDetail, Ask, Begin, FindSnapshot, ListMarkets, ListTrades,
         ListServiceEvents, LoadTradeSummary, LoadCreateSummary, FindLatestMigrate, Reply, backendVars
  <2>2. /\ Projected' = Projected /\ Logged' = Logged
        /\ Projected \subseteq Logged /\ Logged \subseteq Events
    BY <2>1, ProjectedAfter
  <2>3. req \in Request /\ req.seen \subseteq Projected /\ req.trades \subseteq Logged
    BY DEF RequestInv
  <2>4. CASE Begin
    <3>1. req' = [NoRequest EXCEPT !.pc = "snapshot"]
      BY <2>4 DEF Begin
    <3>2. /\ req' \in Request /\ req'.pc = "snapshot" /\ req'.seen = {} /\ req'.trades = {}
      BY <3>1 DEF NoRequest, Request, Results
    <3> QED
      BY <3>2 DEF RequestInv, Answered
  <2>5. CASE FindSnapshot
    <3>1. CASE view.token = Null
      <4>1. req' = [NoRequest EXCEPT !.pc = "done", !.result = "not_found"]
        BY <2>5, <3>1 DEF FindSnapshot, TokenSnapshot
      <4>2. /\ req' \in Request /\ req'.pc = "done" /\ req'.result = "not_found"
            /\ req'.seen = {} /\ req'.trades = {}
        BY <4>1 DEF NoRequest, Request, Results
      <4> QED
        BY <4>2 DEF RequestInv, Answered
    <3>2. CASE view.token # Null
      <4>1. req' = [req EXCEPT !.pc = "markets", !.snapshot = view.token, !.seen = Projected]
        BY <2>5, <3>2, AfterIs DEF FindSnapshot, TokenSnapshot, Ask
      <4>2. view.token \in TokenRow
        BY <3>2 DEF BackendType, View
      <4>3. Projected \subseteq Events
        BY <2>2
      <4>4. /\ req' \in Request /\ req'.pc = "markets" /\ req'.snapshot = view.token
            /\ req'.seen = Projected /\ req'.trades = req.trades
        BY <2>3, <4>1, <4>2, <4>3 DEF Request
      <4>5. Has(Projected, "migrate") => view.token.migratedAt # Null
        BY DEF ViewInv
      <4> QED
        BY <2>2, <2>3, <3>2, <4>4, <4>5 DEF RequestInv, Answered
    <3> QED
      BY <3>1, <3>2
  <2>6. CASE ListMarkets
    <3>1. req.pc = "markets" /\ req' = [req EXCEPT !.pc = "trades", !.markets = TokenMarkets]
      BY <2>6, AfterIs DEF ListMarkets, Ask
    <3>2. TokenMarkets \subseteq Markets
      BY DEF TokenMarkets
    <3>3. /\ req' \in Request /\ req'.pc = "trades" /\ req'.markets = TokenMarkets
          /\ req'.seen = req.seen /\ req'.trades = req.trades /\ req'.snapshot = req.snapshot
      BY <2>3, <3>1, <3>2 DEF Request
    <3>4. ASSUME NEW m \in Markets, req.seen \intersect MarketEvents(m) # {}
          PROVE  m \in TokenMarkets
      BY <2>3, <3>4 DEF ViewInv, TokenMarkets
    <3> QED
      BY <2>2, <3>1, <3>3, <3>4 DEF RequestInv, Answered
  <2>7. CASE ListTrades
    <3>1. req.pc = "trades" /\ req' = [req EXCEPT !.pc = "events", !.trades = view.trades]
      BY <2>7, AfterIs DEF ListTrades, TradeEvents, Ask
    <3>2. view.trades \subseteq Logged /\ view.trades \subseteq Events
      BY <2>2 DEF ViewInv
    <3>3. /\ req' \in Request /\ req'.pc = "events" /\ req'.markets = req.markets
          /\ req'.seen = req.seen /\ req'.trades = view.trades /\ req'.snapshot = req.snapshot
      BY <2>3, <3>1, <3>2 DEF Request
    <3> QED
      BY <2>2, <3>1, <3>2, <3>3 DEF RequestInv, Answered
  <2>8. CASE ListServiceEvents
    <3>1. req.pc = "events" /\ req' = [req EXCEPT !.pc = "summary", !.events = Logged]
      BY <2>8, AfterIs DEF ListServiceEvents, ServiceEvents, Ask
    <3>2. /\ req' \in Request /\ req'.pc = "summary" /\ req'.markets = req.markets
          /\ req'.events = Logged
          /\ req'.seen = req.seen /\ req'.trades = req.trades /\ req'.snapshot = req.snapshot
      BY <2>2, <2>3, <3>1 DEF Request
    <3> QED
      BY <2>2, <2>3, <3>1, <3>2 DEF RequestInv, Answered
  <2>9. CASE LoadTradeSummary
    <3>1. CASE req' = [NoRequest EXCEPT !.pc = "done", !.result = "error"]
      <4>1. /\ req' \in Request /\ req'.pc = "done" /\ req'.result = "error"
            /\ req'.seen = {} /\ req'.trades = {}
        BY <3>1 DEF NoRequest, Request, Results
      <4> QED
        BY <4>1 DEF RequestInv, Answered
    <3>2. CASE req' = [req EXCEPT !.pc = After(@)]
      <4>1. req.pc = "summary" /\ req' = [req EXCEPT !.pc = "create"]
        BY <2>9, <3>2, AfterIs DEF LoadTradeSummary, Ask
      <4>2. /\ req' \in Request /\ req'.pc = "create" /\ req'.markets = req.markets
            /\ req'.events = req.events
            /\ req'.seen = req.seen /\ req'.trades = req.trades /\ req'.snapshot = req.snapshot
        BY <2>3, <4>1 DEF Request
      <4> QED
        BY <2>2, <4>1, <4>2 DEF RequestInv, Answered
    <3> QED
      BY <2>9, <3>1, <3>2 DEF LoadTradeSummary
  <2>10. CASE LoadCreateSummary
    <3>1. req.pc = "create" /\ req' = [req EXCEPT !.pc = "migrate", !.create = LatestCreateEvent]
      BY <2>10, AfterIs DEF LoadCreateSummary, Ask
    <3>2. LatestCreateEvent \in BOOLEAN /\ (Has(req.seen, "create") => LatestCreateEvent)
      BY <2>2, <2>3 DEF LatestCreateEvent, Has
    <3>3. /\ req' \in Request /\ req'.pc = "migrate" /\ req'.markets = req.markets
          /\ req'.events = req.events /\ req'.create = LatestCreateEvent
          /\ req'.seen = req.seen /\ req'.trades = req.trades /\ req'.snapshot = req.snapshot
      BY <2>3, <3>1, <3>2 DEF Request
    <3> QED
      BY <2>2, <3>1, <3>2, <3>3 DEF RequestInv, Answered
  <2>11. CASE FindLatestMigrate
    <3> DEFINE found == /\ req.snapshot.migratedAt # Null \/ req.snapshot.stage = "pool"
                        /\ LatestMigrateEvent
    <3>1. req.pc = "migrate" /\ req' = [req EXCEPT !.pc = "reply", !.migrate = found]
      BY <2>11, AfterIs DEF FindLatestMigrate, Ask
    <3>2. Has(req.seen, "migrate") => found
      BY <2>2, <2>3, <3>1 DEF LatestMigrateEvent, Has, RequestInv, Answered
    <3>3. found \in BOOLEAN
      OBVIOUS
    <3> HIDE DEF found
    <3>4. /\ req' \in Request /\ req'.pc = "reply" /\ req'.markets = req.markets
          /\ req'.events = req.events /\ req'.create = req.create /\ req'.migrate = found
          /\ req'.seen = req.seen /\ req'.trades = req.trades /\ req'.snapshot = req.snapshot
      BY <2>3, <3>1, <3>3 DEF Request
    <3> QED
      BY <2>2, <3>1, <3>2, <3>4 DEF RequestInv, Answered
  <2>12. CASE Reply
    <3>1. req.pc = "reply" /\ req' = [req EXCEPT !.pc = "done", !.result = "ok"]
      BY <2>12 DEF Reply, Ask
    <3>2. /\ req' \in Request /\ req'.pc = "done" /\ req'.markets = req.markets
          /\ req'.events = req.events /\ req'.create = req.create /\ req'.migrate = req.migrate
          /\ req'.seen = req.seen /\ req'.trades = req.trades /\ req'.snapshot = req.snapshot
      BY <2>3, <3>1 DEF Request, Results
    <3> QED
      BY <2>2, <3>1, <3>2 DEF RequestInv, Answered
  <2> QED
    BY <1>2, <2>4, <2>5, <2>6, <2>7, <2>8, <2>9, <2>10, <2>11, <2>12 DEF GetTokenDetail
<1> QED
  BY <1>1, <1>2 DEF Next

-----------------------------------------------------------------------------
(* Theorems.                                                               *)

(* The inductive invariant of parser, projector, metadata fetcher and      *)
(* detail page.                                                            *)
THEOREM LifecycleInvariant ==
  Spec => []LifecycleInv
<1>1. Init => LifecycleInv
  BY LifecycleInit
<1>2. LifecycleInv /\ [Next]_vars => LifecycleInv'
  <2> SUFFICES ASSUME LifecycleInv, [Next]_vars PROVE LifecycleInv'
    OBVIOUS
  <2>1. ParserType' /\ TasksInv'
    BY ParserTypeKept, TasksInvKept DEF LifecycleInv
  <2>2. BackendType'
    BY BackendTypeKept DEF LifecycleInv
  <2>3. OrderInv'
    BY OrderInvKept DEF LifecycleInv
  <2>4. ViewInv'
    BY ViewInvKept DEF LifecycleInv
  <2>5. StageInv'
    BY StageInvKept DEF LifecycleInv
  <2>6. TrackInv'
    BY TrackInvKept DEF LifecycleInv, BackendType
  <2>7. MetadataInv'
    BY MetadataInvKept DEF LifecycleInv
  <2>8. RequestInv'
    BY RequestInvKept DEF LifecycleInv
  <2> QED
    BY <2>1, <2>2, <2>3, <2>4, <2>5, <2>6, <2>7, <2>8 DEF LifecycleInv
<1> QED
  BY <1>1, <1>2, PTL DEF Spec

(* The seven queries of the detail page are not one transaction, but the   *)
(* later ones are not older than the snapshot.                             *)
THEOREM DetailIsNotTorn ==
  Spec => []DetailNotTorn
<1>1. LifecycleInv => DetailNotTorn
  <2> SUFFICES ASSUME LifecycleInv, req.pc = "done", req.result = "ok"
               PROVE  /\ req.seen \intersect MarketEvents(req.snapshot.active) # {}
                           => req.snapshot.active \in req.markets
                      /\ Has(req.seen, "create") => req.create
                      /\ Has(req.seen, "migrate") => req.migrate
                      /\ req.trades \subseteq req.events
    BY DEF DetailNotTorn
  <2>1. RequestInv /\ \A pcs : Answered(pcs)
    BY DEF LifecycleInv, Answered
  <2>2. req.snapshot \in TokenRow
    BY <2>1 DEF RequestInv, Request
  <2>3. req.snapshot.active \in Markets
    BY <2>2 DEF TokenRow
  <2> QED
    BY <2>1, <2>3 DEF RequestInv
<1> QED
  BY <1>1, LifecycleInvariant, PTL

(* A null quote_mint fails the detail page only before the creation or     *)
(* that of the pool has been projected.                                    *)
THEOREM DetailFailsEarly ==
  Spec => FailsOnlyWithoutMetadata
<1>1. LifecycleInv /\ [Next]_vars =>
        ((req.result # "error" /\ req'.result = "error")
           => ~(Has(Projected, "create") \/ Has(Projected, "createPool")))
  <2> SUFFICES ASSUME LifecycleInv, [Next]_vars, req.result # "error", req'.result = "error"
               PROVE  ~(Has(Projected, "create") \/ Has(Projected, "createPool"))
    OBVIOUS
  <2>1. req \in Request
    BY DEF LifecycleInv, RequestInv
  <2>2. CASE LoadTradeSummary /\ ScanFails(LoadTradeSummaryByMint)
    <3>1. LoadTradeSummaryByMint # Null /\ LoadTradeSummaryByMint.quoteMint = Null
      BY <2>2 DEF ScanFails
    <3>2. Null # "quote"
      BY LifecycleAssumption
    <3>3. CASE SummaryCurrent # Null
      BY <3>1, <3>2, <3>3 DEF LoadTradeSummaryByMint, SummaryCurrent, LifecycleInv, MetadataInv
    <3>4. CASE SummaryCurrent = Null
      BY <3>1, <3>2, <3>4 DEF LoadTradeSummaryByMint, SummaryFallback
    <3> QED
      BY <3>3, <3>4
  <2>3. CASE LoadTradeSummary /\ ~ScanFails(LoadTradeSummaryByMint)
    <3>1. req' = [req EXCEPT !.pc = After(@)]
      BY <2>3 DEF LoadTradeSummary
    <3> QED
      BY <2>1, <3>1 DEF Request
  <2>4. CASE Begin
    <3>1. req'.result = Null
      BY <2>4 DEF Begin, NoRequest
    <3> QED
      BY <3>1, LifecycleAssumption
  <2>5. CASE FindSnapshot
    <3>1. req'.result = "not_found" \/ req'.result = req.result
      BY <2>1, <2>5 DEF FindSnapshot, NoRequest, Request
    <3> QED
      BY <3>1
  <2>6. CASE ListMarkets \/ ListTrades \/ ListServiceEvents
    BY <2>1, <2>6 DEF ListMarkets, ListTrades, ListServiceEvents, Request
  <2>7. CASE LoadCreateSummary \/ FindLatestMigrate \/ Reply
    BY <2>1, <2>7 DEF LoadCreateSummary, FindLatestMigrate, Reply, Request
  <2>8. CASE UNCHANGED req
    BY <2>8
  <2> QED
    BY <2>2, <2>3, <2>4, <2>5, <2>6, <2>7, <2>8 DEF Next, GetTokenDetail, ParserStep, BackendStep,
       Parse, PersistRedis, PersistPg, Emit, SessionEnds, Reconnect, ParserCrash, PassBy, ParserStart,
       Ingest, ProjectNext, SweepMetrics, FetchBegin, FetchEnd, vars
<1> QED
  BY <1>1, LifecycleInvariant, PTL DEF Spec, FailsOnlyWithoutMetadata

(* Once stored on a row that is there, an image stays.                     *)
THEOREM ImageStays ==
  Spec => []ImageShownUnlessEarly
<1>1. LifecycleInv => ImageShownUnlessEarly
  BY DEF LifecycleInv, MetadataInv, ImageShownUnlessEarly
<1> QED
  BY <1>1, LifecycleInvariant, PTL

(* The stage of a token follows the log unless the worker overtakes it.    *)
THEOREM StageIsThatOfTheLog ==
  Spec => []StageFollowsLog
<1>1. LifecycleInv => StageFollowsLog
  <2> SUFFICES ASSUME LifecycleInv, checkpoint = Len(log), Has(Logged, "migrate"),
                      ~history.overtaken
               PROVE  view.token.stage = "pool"
    BY DEF StageFollowsLog
  <2>1. Projected = Logged
    BY DEF Projected, Logged
  <2>2. Has(Projected, "migrate")
    BY <2>1
  <2> QED
    BY <2>2 DEF LifecycleInv, StageInv
<1> QED
  BY <1>1, LifecycleInvariant, PTL

(* Subscriptions that are lost do not make the tracker forget the mint; a  *)
(* restart does only if redis does not hold it.                            *)
THEOREM TrackerForgetsOnlyAtStart ==
  Spec => []NothingMissedOnceInRedis
<1>1. LifecycleInv => NothingMissedOnceInRedis
  BY DEF LifecycleInv, TrackInv, NothingMissedOnceInRedis
<1> QED
  BY <1>1, LifecycleInvariant, PTL
=============================================================================
