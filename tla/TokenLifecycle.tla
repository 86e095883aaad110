--------------------------- MODULE TokenLifecycle ----------------------------
(***************************************************************************)
(* One token from its creation on chain to its detail page.  Two programs  *)
(* write the row of `tokens`: the parser's tracker (parser/src/tracker.rs), *)
(* whose worker upserts the creation asynchronously and which marks the    *)
(* migration synchronously, and the projector, which projects both again   *)
(* from the log, later.  The parser forwards the events of tracked mints   *)
(* through an in-memory queue to JetStream (service_event/emitter.rs); the *)
(* backend's consumer logs them and the metadata fetcher                   *)
(* (metadatafetcher/consumer.go) fetches an image for the creation.  The   *)
(* detail page is put together from seven queries without a transaction    *)
(* (query/token.go, GetTokenDetail).                                       *)
(*                                                                         *)
(* The projector commits one event at a time here: Projector.tla shows     *)
(* that batches and restarts give the same read model.                     *)
(***************************************************************************)
EXTENDS ReadModelStore

CONSTANT MaxFault  (* bound: crashes and lost subscriptions of the parser   *)

(* Rows of `tokens`, `token_markets` and `token_metadata_current`.         *)
TokenRow ==
  [createEvent : Events \union {Null}, firstSeen : Events, stage : {"bonding_curve", "pool"},
   active : Markets, migratedAt : Events \union {Null}]
MarketRow == [startedAt : Events, endedAt : Events \union {Null}]
MetadataRow == [image : BOOLEAN]

(* A token is created before it migrates, and Null is no other value.      *)
ASSUME LifecycleAssumption ==
  /\ \A e, f \in Events : Kind(e) = "create" /\ Kind(f) = "migrate" => e < f
  /\ Null \notin Events \union TokenRow \union MarketRow \union MetadataRow
  /\ Null \notin {"not_found", "error", "ok", "quote"}

VARIABLES
  parsed,     (* number of chain events the parser's stream has passed      *)
  parser,     (* "up", "reconnecting" or "down"                             *)
  tracked,    (* the mint is in tracked_mints                               *)
  tasks,      (* create persistence tasks: "redis" or "pg", the next write  *)
  redis,      (* the mint is in the redis set tracked:mints                 *)
  queue,      (* the emitter's publish queue                                *)
  stream,     (* messages in JetStream                                      *)
  log,        (* service_events                                             *)
  checkpoint, (* number of rows projected                                   *)
  view,       (* the read model (ReadModelStore)                            *)
  metadata,   (* row of token_metadata_current: [image], or Null            *)
  fetcher,    (* "idle", "fetching", "stored" or "failed"                   *)
  window,     (* the broadcaster has a window with a price                  *)
  metrics,    (* the row of token_metrics_current exists                    *)
  req,        (* the detail request                                         *)
  faults,     (* crashes and lost subscriptions so far                      *)
  history     (* what has happened that the properties make exceptions for  *)

parserVars  == <<parsed, parser, tracked, tasks, redis, queue, faults>>
backendVars == <<log, checkpoint, metadata, fetcher, window, metrics>>
vars == <<parserVars, stream, backendVars, view, req, history>>

Projected == {log[i] : i \in 1..checkpoint}
Logged == {log[i] : i \in 1..Len(log)}
Has(S, kind) == \E e \in S : Kind(e) = kind

NoRequest == [pc |-> "idle", result |-> Null, snapshot |-> Null, seen |-> {},
              markets |-> {}, trades |-> {}, events |-> {},
              create |-> FALSE, migrate |-> FALSE]

Init ==
  /\ parsed = 0 /\ parser = "up" /\ tracked = FALSE /\ tasks = <<>> /\ redis = FALSE
  /\ queue = <<>> /\ stream = <<>> /\ log = <<>> /\ checkpoint = 0
  /\ view = EmptyView /\ metadata = Null
  /\ fetcher = "idle" /\ window = FALSE /\ metrics = FALSE
  /\ req = NoRequest /\ faults = 0
  /\ history = [accepted |-> FALSE, overtaken |-> FALSE, early |-> FALSE, forgot |-> FALSE, missed |-> FALSE]

-----------------------------------------------------------------------------
(* The parser.                                                             *)

(* The record both programs write for a creation.                          *)
CreateRecord(e) == [createEvent |-> e, firstSeen |-> e, stage |-> "bonding_curve",
                    active |-> "curve", migratedAt |-> Null]

(* MARK_MIGRATED_SQL: an update, without effect when there is no row.      *)
MarkMigrated(e) ==
  [view EXCEPT !.token = IF @ = Null THEN @
                         ELSE [@ EXCEPT !.stage = "pool", !.active = "pool", !.migratedAt = e]]

(* should_forward, after accept_create_event.                              *)
Forwards(e) == tracked \/ Kind(e) = "create"

(* process_transaction: accept a creation, forward what is tracked, record *)
(* a migration; a failed update is logged and the event is forwarded.      *)
Parse ==
  /\ parser = "up"
  /\ parsed < Len(Chain)
  /\ LET e == parsed + 1
     IN /\ parsed' = e
        /\ tracked' = Forwards(e)
        /\ tasks' = IF Kind(e) = "create" /\ ~tracked THEN Append(tasks, "redis") ELSE tasks
        /\ queue' = IF Forwards(e) THEN Append(queue, e) ELSE queue
        /\ view' \in IF Kind(e) = "migrate" /\ tracked THEN {MarkMigrated(e), view} ELSE {view}
        /\ history' = [history EXCEPT !.accepted = @ \/ Kind(e) = "create",
                                      !.missed = @ \/ (history.accepted /\ ~Forwards(e))]
  /\ UNCHANGED <<parser, redis, faults, stream, backendVars, req>>

(* write_create_task_to_redis; a failed write is logged.                   *)
PersistRedis ==
  /\ tasks # <<>> /\ Head(tasks) = "redis"
  /\ redis' \in {TRUE, redis}
  /\ tasks' = <<"pg">> \o Tail(tasks)
  /\ UNCHANGED <<parsed, parser, tracked, queue, faults, stream, backendVars, view, req, history>>

CreateEvent == CHOOSE e \in Events : Kind(e) = "create"

(* upsert_create_task_to_postgres; a failed write is logged.               *)
PersistPg ==
  /\ tasks # <<>> /\ Head(tasks) = "pg"
  /\ tasks' = Tail(tasks)
  /\ \/ /\ view' = UpsertToken(view, CreateRecord(CreateEvent))
        /\ history' = [history EXCEPT !.overtaken = @ \/ Has(Projected, "migrate")
                                                      \/ Has(Projected, "createPool")]
     \/ UNCHANGED <<view, history>>
  /\ UNCHANGED <<parsed, parser, tracked, redis, queue, faults, stream, backendVars, req>>

(* ServiceEventEmitter: the head of the queue is published, or the publish *)
(* fails and the event is gone.                                            *)
Emit ==
  /\ queue # <<>>
  /\ queue' = Tail(queue)
  /\ stream' \in {Append(stream, Head(queue)), stream}
  /\ UNCHANGED <<parsed, parser, tracked, tasks, redis, faults, backendVars, view, req, history>>

(* run_subscription_session: the subscription ends; main subscribes again, *)
(* from what is then the tip of the chain.  The queues go on.              *)
SessionEnds ==
  /\ parser = "up" /\ faults < MaxFault
  /\ parser' = "reconnecting" /\ faults' = faults + 1
  /\ UNCHANGED <<parsed, tracked, tasks, redis, queue, stream, backendVars, view, req, history>>

Reconnect ==
  /\ parser = "reconnecting"
  /\ parser' = "up"
  /\ UNCHANGED <<parsed, tracked, tasks, redis, queue, faults, stream, backendVars, view,
                 req, history>>

(* The process ends; both queues are in memory.                            *)
ParserCrash ==
  /\ parser # "down" /\ faults < MaxFault
  /\ parser' = "down" /\ faults' = faults + 1
  /\ tracked' = FALSE /\ tasks' = <<>> /\ queue' = <<>>
  /\ UNCHANGED <<parsed, redis, stream, backendVars, view, req, history>>

(* Chain events go by while the parser is down or reconnects.              *)
PassBy ==
  /\ parser # "up" /\ parsed < Len(Chain)
  /\ parsed' = parsed + 1
  /\ UNCHANGED <<parser, tracked, tasks, redis, queue, faults, stream, backendVars,
                 view, req, history>>

(* bootstrap: from redis, which holds other mints, so that `tokens` is not *)
(* consulted.  (LoadedCold is the mutant for NothingMissedOnceInRedis: the *)
(* set starts empty.)                                                      *)
LoadedCold == FALSE
Loaded == redis

ParserStart ==
  /\ parser = "down"
  /\ parser' = "up" /\ tracked' = Loaded
  /\ history' = [history EXCEPT !.forgot = @ \/ ~redis]
  /\ UNCHANGED <<parsed, tasks, redis, queue, faults, stream, backendVars, view, req>>

ParserStep ==
  \/ Parse \/ PersistRedis \/ PersistPg \/ Emit
  \/ SessionEnds \/ Reconnect \/ ParserCrash \/ PassBy \/ ParserStart

-----------------------------------------------------------------------------
(* The backend.                                                            *)

(* The consumer logs the next message; the broadcaster seeds a window for  *)
(* a trade.                                                                *)
Ingest ==
  /\ Len(log) < Len(stream)
  /\ log' = Append(log, stream[Len(log) + 1])
  /\ window' = (window \/ IsTrade(stream[Len(log) + 1]))
  /\ UNCHANGED <<parserVars, stream, checkpoint, metadata, fetcher, metrics, view, req, history>>

(* upsertTokenMetadataSQL does not name image_uri.  (UpsertTokenMetadataAll *)
(* is the mutant for ImageShownUnlessEarly: it does.)                      *)
UpsertTokenMetadataAll == [image |-> FALSE]
UpsertTokenMetadata == IF metadata = Null THEN [image |-> FALSE] ELSE metadata

(* Handlers that write metadata.  (WritesMetadataPool is the mutant for    *)
(* FailsOnlyWithoutMetadata: only the creation of a pool does.)            *)
WritesMetadataPool(e) == Kind(e) = "createPool"
WritesMetadata(e) == Kind(e) \in {"create", "createPool"}

ProjectNext ==
  /\ checkpoint < Len(log)
  /\ checkpoint' = checkpoint + 1
  /\ LET e == log[checkpoint + 1]
     IN /\ view' = Project(view, e)
        /\ metadata' = IF WritesMetadata(e) THEN UpsertTokenMetadata ELSE metadata
  /\ UNCHANGED <<parserVars, stream, log, fetcher, window, metrics, req, history>>

(* Sweep: the row of token_metrics_current references tokens(mint).        *)
SweepMetrics ==
  /\ window /\ ~metrics /\ view.token # Null
  /\ metrics' = TRUE
  /\ UNCHANGED <<parserVars, stream, log, checkpoint, metadata, fetcher, window, view, req, history>>

(* handleMessage acknowledges the creation and starts processMetadata.     *)
FetchBegin ==
  /\ fetcher = "idle"
  /\ \E i \in 1..Len(stream) : Kind(stream[i]) = "create"
  /\ fetcher' = "fetching"
  /\ UNCHANGED <<parserVars, stream, log, checkpoint, metadata, window, metrics, view, req, history>>

(* processMetadata: the fetch fails, or the image is written by an update  *)
(* that has no effect when there is no row.                                *)
FetchEnd ==
  /\ fetcher = "fetching"
  /\ \/ fetcher' = "failed" /\ UNCHANGED <<metadata, history>>
     \/ /\ fetcher' = "stored"
        /\ metadata' = IF metadata = Null THEN Null ELSE [metadata EXCEPT !.image = TRUE]
        /\ history' = [history EXCEPT !.early = @ \/ metadata = Null]
  /\ UNCHANGED <<parserVars, stream, log, checkpoint, window, metrics, view, req>>

BackendStep == Ingest \/ ProjectNext \/ SweepMetrics \/ FetchBegin \/ FetchEnd

-----------------------------------------------------------------------------
(* What the queries of the detail page return.                             *)
TokenSnapshot == view.token
TokenMarkets == {m \in Markets : view.market[m] # Null}
TradeEvents == view.trades
ServiceEvents == Logged
LatestCreateEvent == Has(Logged, "create")
LatestMigrateEvent == Has(Logged, "migrate")

(* The current row, joined to the metadata, which may not be there; or the *)
(* sums over the trades, if there are any.                                 *)
SummaryCurrent ==
  IF ~metrics THEN Null
  ELSE [from |-> "current", quoteMint |-> IF metadata = Null THEN Null ELSE "quote"]
SummaryFallback ==
  IF view.trades = {} THEN Null ELSE [from |-> "fallback", quoteMint |-> "quote"]
LoadTradeSummaryByMint == IF SummaryCurrent # Null THEN SummaryCurrent ELSE SummaryFallback

(* A null quote_mint does not scan into a string.                          *)
ScanFails(summary) == summary # Null /\ summary.quoteMint = Null

-----------------------------------------------------------------------------
(* GetTokenDetail asks them one after the other.  (QueriesEventsFirst is   *)
(* the mutant for DetailNotTorn: the events are read before the trades.)   *)

QueriesEventsFirst == <<"snapshot", "markets", "events", "trades", "summary", "create", "migrate", "reply">>
Queries == <<"snapshot", "markets", "trades", "events", "summary", "create", "migrate", "reply">>

After(pc) == Queries[1 + CHOOSE i \in 1..Len(Queries) : Queries[i] = pc]

Ask(pc) == req.pc = pc /\ UNCHANGED <<parserVars, stream, backendVars, view, history>>

Begin ==
  /\ req.pc \in {"idle", "done"}
  /\ req' = [NoRequest EXCEPT !.pc = "snapshot"]
  /\ UNCHANGED <<parserVars, stream, backendVars, view, history>>

(* requireTokenSnapshot: no row of `tokens` is a 404.                      *)
FindSnapshot ==
  /\ Ask("snapshot")
  /\ req' = IF TokenSnapshot = Null
            THEN [NoRequest EXCEPT !.pc = "done", !.result = "not_found"]
            ELSE [req EXCEPT !.pc = After(@), !.snapshot = TokenSnapshot, !.seen = Projected]

ListMarkets ==
  /\ Ask("markets")
  /\ req' = [req EXCEPT !.pc = After(@), !.markets = TokenMarkets]

ListTrades ==
  /\ Ask("trades")
  /\ req' = [req EXCEPT !.pc = After(@), !.trades = TradeEvents]

ListServiceEvents ==
  /\ Ask("events")
  /\ req' = [req EXCEPT !.pc = After(@), !.events = ServiceEvents]

(* An error of a query is a 500.  What the summary says is left out.       *)
LoadTradeSummary ==
  /\ Ask("summary")
  /\ req' = IF ScanFails(LoadTradeSummaryByMint)
            THEN [NoRequest EXCEPT !.pc = "done", !.result = "error"]
            ELSE [req EXCEPT !.pc = After(@)]

LoadCreateSummary ==
  /\ Ask("create")
  /\ req' = [req EXCEPT !.pc = After(@), !.create = LatestCreateEvent]

(* Only asked for a token that is known to have migrated.                  *)
FindLatestMigrate ==
  /\ Ask("migrate")
  /\ req' = [req EXCEPT !.pc = After(@),
                        !.migrate = /\ req.snapshot.migratedAt # Null \/ req.snapshot.stage = "pool"
                                    /\ LatestMigrateEvent]

Reply ==
  /\ Ask("reply")
  /\ req' = [req EXCEPT !.pc = "done", !.result = "ok"]

GetTokenDetail ==
  \/ Begin \/ FindSnapshot \/ ListMarkets \/ ListTrades \/ ListServiceEvents
  \/ LoadTradeSummary \/ LoadCreateSummary \/ FindLatestMigrate \/ Reply

Next == ParserStep \/ BackendStep \/ GetTokenDetail

Spec == Init /\ [][Next]_vars

-----------------------------------------------------------------------------
(* Properties.                                                             *)

(* When the projector has caught up, a token whose migration was logged is *)
(* in stage "pool", although the parser's upsert, its update and the       *)
(* projection of creation and migration come in any order; the one         *)
(* exception is a creation the worker writes after the migration has been  *)
(* projected (tracker.rs, UPSERT_TRACKED_TOKEN_SQL overwrites the stage).  *)
StageFollowsLog ==
  (checkpoint = Len(log) /\ Has(Logged, "migrate") /\ ~history.overtaken)
    => view.token.stage = "pool"

(* The later queries of GetTokenDetail are not older than its snapshot:    *)
(* what the projector had written when the snapshot was taken is in the    *)
(* reply, its active market, its creation and its migration event, and no  *)
(* trade is shown without its event (as long as both lists are below their *)
(* limit of 20 rows).                                                      *)
MarketEvents(m) ==
  {e \in Events : IF m = "curve" THEN Kind(e) = "create" ELSE Kind(e) \in {"migrate", "createPool"}}

DetailNotTorn ==
  (req.pc = "done" /\ req.result = "ok") =>
    /\ req.seen \intersect MarketEvents(req.snapshot.active) # {}
         => req.snapshot.active \in req.markets
    /\ Has(req.seen, "create") => req.create
    /\ Has(req.seen, "migrate") => req.migrate
    /\ req.trades \subseteq req.events

(* The detail page fails (500) only as long as neither the creation nor    *)
(* the creation of the pool has been projected, which leave the metadata   *)
(* the summary needs.                                                      *)
FailsOnlyWithoutMetadata ==
  [][(req.result # "error" /\ req'.result = "error")
       => ~(Has(Projected, "create") \/ Has(Projected, "createPool"))]_vars

(* An image that was fetched is shown once the metadata is there, unless   *)
(* the fetcher came before the projector (consumer.go:182); a later        *)
(* projection does not take it away.                                       *)
ImageShownUnlessEarly ==
  (fetcher = "stored" /\ ~history.early /\ metadata # Null) => metadata.image

(* After its creation was accepted no event of a token is left out by      *)
(* should_forward, also over lost subscriptions, unless the parser         *)
(* restarted without the mint in redis: before the worker's write or after *)
(* a failed one.  `tokens` may know the mint all the same.                 *)
NothingMissedOnceInRedis == history.missed => history.forgot

=============================================================================
