# A formal model of solana-dashboard

TLA+ specifications of the data path of solana-dashboard, from an event on chain to
the browser's list, TLC configurations that check them on small instances, and
theorems that TLAPS proves for every instance. Paths are relative to the repository;
`backend/` means `backend/internal/` unless it names `cmd/`.

## The system

A parser (Rust) turns chain transactions into protobuf events and publishes them to
NATS JetStream. The backend (Go, one process) consumes them, appends them to
`service_events` in PostgreSQL and publishes them on an in-process hub; a projector
replays the table into a read model; a stats broadcaster aggregates the hub's global
topic; WebSocket sessions forward the hub's token topics to browsers (Next.js),
which load pages over HTTP and then follow the stream.

| Part | State | Operations | Talks to |
|---|---|---|---|
| Realtime hub, `realtime/hub.go` | topic -> subscriptions behind an RWMutex; per subscription two channels and two flags behind a mutex | Subscribe, Unsubscribe, Publish | called by ingest, broadcaster, sessions |
| Ingest, `ingest/service.go`, `jetstream/consumer.go`, `httpapi/handler.go` (POST) | none of its own; JetStream's ack state | insert, then publish; Ack/Nak | log, hub |
| Event log, `store/service_event.go` | `service_events` with a sequence `log_id`, `projection_offsets` | insert, list after, checkpoint, transaction | PostgreSQL |
| Projector, `projector/` | lastLogID; write batch | Run, ReplayBatch, Flush | log, read model |
| Read model, `store/read_model.go` | tokens, markets, trades, activities, metrics | upserts, pages, aggregates | PostgreSQL |
| WebSocket sessions, `httpapi/ws.go` | subscriptions, outCh, per topic a forwarder and a replay | subscribe, unsubscribe, replay, flush, forward, close | hub, log |
| Stats broadcaster, `broadcaster/stats.go` | per mint a ring of second buckets | handleTrade, seed, Sweep, resubscribe | hub, metrics table |
| HTTP queries, `query/`, `httpapi/handler.go` | none | pages, details, candles | read model |
| Metadata fetcher, `metadatafetcher/` | none | fetch, update image | read model |
| Parser tracker, `parser/src/tracker.rs` | set of tracked mints, persistence queue | accept, forward, record migration, bootstrap | Redis, `tokens` |
| Parser session and emitter | subscription, publish queue | run, reconnect, emit | gRPC, NATS |
| Browser client, `frontend/context/WebSocketContext.tsx` | topics with reference counts and cursors | connect, subscribe, unsubscribe | session |
| Token page, `frontend/app/token/[address]/page.tsx` | activities, bootstrap buffer, snapshot | fetch, merge, apply | HTTP, client |
| Docker monitor, `ops/docker_monitor.go` | cache of directory sizes behind a mutex | Snapshot: walk, sample, df | Docker daemon, file system |
| Event encoding, `events/`, `parser/src/service_event/`, `frontend/utils/tokenRealtime.ts` | none | build, encode, decode, resolve mint, side and amounts | everything that touches an event |

What makes each part correct, and what is hard about it:

- **Hub.** Publish has two critical sections with a gap between them; channels are
  closed by one goroutine while others send. No panic, no silent loss, no gap in what
  one publisher sends, no subscriber skipped.
- **Ingest and log.** `log_id` is drawn before the insert commits, so rows may become
  visible out of order; an insert may commit and still return an error; messages are
  redelivered. Whatever is logged must be published and projected once.
- **Sessions and browser.** Replay and live stream run concurrently and meet in a
  buffer; the browser remembers one number. No hole below that number, no
  reordering, no topic that goes quiet on an open socket.
- **Projector and read model.** Batches, crashes, redelivery. The read model is the
  projection of a prefix of the log and catches up with it.
- **Stats.** Windows in memory are seeded from tables that lag behind the feed; they
  should count each trade once.
- **Parser.** Asynchronous persistence against synchronous updates of the same row.
- **Page.** Snapshot and stream are fetched separately and must be merged without loss.

PROJECT.json lists the hazards at their lines.

## Modules

| Module | Models | State and actions |
|---|---|---|
| `Hub` | `realtime/hub.go` | one action per critical section or channel operation: `Subscribe`; `Remove`, `Close` (Unsubscribe); `PublishBegin`, `Send`, `PublishRUnlock`, `PublishLock`, `Evict`, `PublishUnlock` (Publish); `Receive`, `TakeSignal` (the owner). `pc`, `pending`, `dropped` are Publish's locals; `accepted` and `missed` are history |
| `EventStream` | ingest, `httpapi/ws.go`, `WebSocketContext.tsx` for one token, composed with an instance `H` of `Hub` | `BeginInsert`, `CommitInsert`, `AbortInsert`, `PublishInserted`, `LoseReply` (ingest); `PublishStat`; `Connect`, `Disconnect`, `Cleanup`, `Unsubscribed` (session); `ReplayRead`, `ReplaySend`, `ReplayFail` (replayTopic); `TakeReplayDone`, `Flush`, `TakeEvent`, `TakeOverflow`, `TakeEventsClosed` (the forwarder's select); `Write`, `OnClose` (write loop and browser) |
| `Session` | the subscriptions of a browser: reference counts and delayed unsubscribes of `WebSocketContext.tsx` against the read loop, write loop and deferred cleanup of `ServeWS` | `Mount`, `Unmount`, `DelayedUnsubscribe`, `Connect`, `Open`, `OnClose` (browser); `Read`, `ReadFails`, `HandleSubscribe`, `HandleUnsubscribe`, `WriteLoopReturns`, `Cleanup`, `CloseNow` (server); `Evict`, `Deliver` (hub) |
| `ActivityFeed` | the activity list of `page.tsx` and the paged query behind it | `Log`, `Project`, `Subscribe`, `Disconnect`, `Receive` (stream); `LoadCheckpoint`, `ReadPage` (server); `AnswerReset`, `RefuseReset`, `LoseReset`, `AnswerRefresh`, `AnswerMore`, `LosePage`, `Refresh`, `ScrollAway`, `ScrollToTop`, `LoadMore` (page) |
| `ReadModelStore` | `projector.go`'s handlers and the SQL upserts, as operators on the view of one token | |
| `ReadModel` | what the projector promises: an append-only log, the projection of a prefix of it, catching up | `Insert`, `CatchUp` |
| `Projector` | `jetstream/consumer.go`, `service_event.go`, `projector/runner.go`, `batch_writer.go` | `Deliver`, `CommitInsert`, `Ack`, `Nak`; `Start`, `ReadBatch`, `CommitBatch`; `Crash` |
| `StatsWindow` | `broadcaster/stats.go` and the queries behind it, for one token | `Trade`, `ProjectTrade`, `Tick` (surroundings); `HandleTrade` (handleTrade with its seed), `SweepTargets`, `SweepPersist` (Sweep), `Subscribe` (Run's start and its resubscription, with the backfill), `Restart`. `given` and `overrun` are history |
| `EventPipeline` | what one event becomes: `pumpamm_events.rs`, `pumpfun_events.rs`, `from_proto.go`, `decode.go`, the resolution of mint, side and amounts in the projector, the broadcaster, ingest and the browser | `Forward`, `Post` (an event of the parser or of `POST /internal/events` is stored and published), `ReplayBatch`, `ReplayFails`, `Restart` |
| `TokenLifecycle` | one token from its creation to its detail page: `tracker.rs`, `emitter.rs`, reconnection in `main.rs`, projector, `metadatafetcher/consumer.go`, `query/token.go` | `Parse`, `PersistRedis`, `PersistPg`, `Emit`, `SessionEnds`, `Reconnect`, `ParserCrash`, `PassBy`, `ParserStart`; `Ingest`, `ProjectNext`, `SweepMetrics`, `FetchBegin`, `FetchEnd`; one action per query of `GetTokenDetail` |
| `DockerMonitor` | `ops/docker_monitor.go` | requests beside each other: the cache check, the walk directory by directory, the store, two CPU samples, `df`; cancellation; the container's counters |
| `HubProofs`, `EventStreamProofs`, `ProjectorProofs`, `StatsWindowProofs`, `EventPipelineProofs`, `TokenLifecycleProofs`, `DockerMonitorProofs` | theorems about the module they are named for | |
| `BrowserProofs` | theorems about `Session` and about `ActivityFeed`, which share no state | |
| `MCHub`, `MCEventStream`, `MCProjector`, `MCStatsWindow`, `MCFeed` | instances for TLC | |
| `MCBrowser`, `MCBackend` | extend `Session` and `ActivityFeed`, and `TokenLifecycle`, `EventPipeline` and `DockerMonitor`: modules that share no state; `focus` chooses in the initial state which of them runs | |

Operators commented as mutants are not used by any specification. Each is a
definition with a plausible bug; put in the place of the definition that follows it,
it breaks the property it names, which shows that the property depends on that code.

### Abstractions

- An event in the hub is a publisher and its position; in `EventStream` it is its
  `log_id`, with 0 for a `token_stat`, which has none. Payloads, metrics and log
  lines are left out.
- The global topic is not composed with sessions; in `Hub` it is one of the topics.
- In `EventStream` a session has one subscription, and `Connect` covers dialling, the
  subscribe message and its handling. Several topics, and that message racing the
  session's cleanup, are in `Session`, where an event only gives its topic a cursor
  and the messages sent on opening go out in any order.
- A closed session's channels are garbage and are reset by `Cleanup`. In `EventStream`
  closing the socket and cancelling the context are one step; in `Session` they are not.
- What the write loop writes is received at once; what is lost when the connection
  breaks is what was not written. To lose a message between the two would be the same
  as not having written it, since only reception moves the cursor.
- A browser starts with event 1 seen, as after a page load that left it with a cursor.
  `ActivityFeed` starts without a cursor.
- `ActivityFeed`: `log_id`, chain order and the number of the row are the same (one
  ingester, no redelivery); every event has an activity. The socket is what
  `EventStream` shows it to be: an open subscription delivers in order, a new one first
  replays what lies above the cursor, if there is one.
- `Projector` and `ReadModelStore` follow one token with its curve and its pool. An
  event is its position on the chain, which serves as its timestamp. Amounts
  and addresses are left out, and trades and activities are sets because their inserts
  do nothing on conflict.
- The transaction of a batch is one step, since nothing reads between its statements
  what it has not committed; a failure or a crash before it is `Crash`, after it
  `CommitBatch` followed by `Crash`. `log.Fatalf` ends the process on any error of
  the projector, so there is no other failure of it.
- `StatsWindow`: the windows of different tokens share nothing but the feed and the
  upsert, so one token is followed. A count or a volume is a sum over trades; the model
  keeps which trades are summed, how often. The global subscription is the queue that
  `Hub` promises to a single publisher. Whether the token has subscribers is asked once
  per sweep and may be answered either way. The minute view is read as if it were
  always up to date. The queries of one backfill are one step. A trade has any of
  `Times`, in any order and regardless of the clock, since JetStream delivers a
  backlog or a redelivery as late as it likes and the time is the chain's; it waits in the
  feed for as long as it likes. A trade without a token amount has the price "null" in
  `token_trade_events`, which a seed cannot read and the minute view leaves out, and 0 in
  the ring; one without a quote amount has the price "zero" in both. `Tick` assumes of
  the broadcaster only that it sweeps every second.
- `EventPipeline`: amounts are named after what they are ("token", "quote"), not
  numbers; a fact is what happened on the curve or in a pool of either orientation,
  with SOL or another mint on the other side. A posted event is what the handler lets
  through.
- `TokenLifecycle` follows one mint and commits events one by one, since `Projector`
  shows that batches and restarts give the same view. Redis holds other mints, so that
  `tokens` is not consulted at a restart. The detail page's seven queries are seven
  steps; its lists are taken to be below their limit of 20 rows.
- `DockerMonitor`: a size is the time it was measured. There is one container.
- An insert of a process that died is taken to be finished when the next process
  starts.

## Checks

Each run takes at most about two minutes on two workers. Deadlock is not checked: every
counter is bounded, and the system stops when they are used up.

| Run | Instance | Shows |
|---|---|---|
| `hub` | 2 subscriptions, 1 topic, 2 publishers, 1 unsubscriber, Buffer 1, 3 events | `TypeOK`, `NoPanic`, `EveryoneOffered`, `NoSilentLoss`, `NoGapPerPublisher`; `LossIsTold` under fairness |
| `stream` | 2 connections of one client, 1 ingester, Buffer 1, outCh 2, batches of 2, log_ids to 4 | `TypeOK`, `NoHole`, `LiveInOrder` |
| `stream_live` | 1 connection, 1 ingester, the broadcaster with 1 stat, log_ids to 3, fairness | `Delivered` |
| `stream_lost_reply` | 1 ingester | `NoHoleAtAll` violated |
| `stream_dead_topic` | 1 ingester | `NoDeadTopic` violated |
| `projector` | 5 events of a token that migrates, log_ids to 6, batches of 2, 1 crash | `TypeOK`, `NoSkippedRow`, `TokenMatchesLog`, `MigrationSticks`, `ImplementsReadModel` |
| `projector_gap` | the same with 2 ingesters | `NoSkippedRow` violated |
| `stats` | 2 trades of the times 0, 2, 5, 6, 9 and 10, clock from 8 to 12, 5m = 4 s, 1m = 2 s, 24h = 8 s, a feed of 1, 1 fault, 1 restart | `TypeOK`, `RingHolds`, `SeedDoublesAtMost`, `LongIsShortPlusOlder`, `RowFreshWhileTracked` |
| `stats_stale_row` | trades of one time, clock to 13, no faults | `RowFresh` violated |
| `browser` | feed: pages of 2, 3 events before the page is opened, log_ids to 5, 1 lost connection; session: 3 components on 2 topics, 2 connections, 2 mounts | `ReceivedIsKept`, `PagesHaveNoHole`, `NoLossOnceSubscribed`, `NewestFirst`; `ServerAgrees`, `CursorSurvives`, `NothingLeftInHub`, `GaugeCounts` |
| `feed_gap` | the feed alone | `SnapshotGapIsBridged` violated |
| `backend` | lifecycle: creation, trade, migration and creation of the pool, 1 fault; pipeline: 2 events, each any fact, batches of 2; monitor: 2 requests, 1 directory, TTL 2, 2 CPUs, counters below 64, clock to 3 | `StageFollowsLog`, `DetailNotTorn`, `ImageShownUnlessEarly`, `NothingMissedOnceInRedis`, `FailsOnlyWithoutMetadata`; `OnlyPostedPoison`, `ResolversAgree`, `LiveRowMatchesStored`, `RowsTellTheChain`, `TicksTellTheChain`; `FreshWithinTTL`, `CpuWithinHost` |

The bounds are the smallest at which the interesting cases occur. A buffer of 1 is full
after one event, so overflow, eviction, drain-before-eviction and two publishers that
meet the same full buffer all happen with 3 events. Two publishers and two
subscribers suffice for a Publish that runs while another evicts and a third party
unsubscribes. With log_ids to 4 and batches of 2 a replay has a full batch and a short
one, an outCh of 2 overflows during the replay, during the flush and live, and rows
arrive before, during and after the replay; the second connection starts from the
cursor the first one left. Six log_ids for five events leave room for
one failed insert; a batch of 2 splits the life of the token at every place. In `stats` the
times lie before, at and after the start of the clock: 2, 6 and 10 share a slot and so do
5 and 9, so a trade follows one of 4 or 8 seconds earlier or later into its slot, late, in
time, or ahead of the clock, directly or through the seed; 0 and 2 are older than 24h
before the clock ends, and 2 evicts the window (0 counts as no time); 5 and 6 pass through the ring, the
seam between ring and view, and the view. The second trade overflows a feed of 1; a
fault lets a seed fail that the next trade makes up for. Two trades suffice because what goes wrong is between a trade and
the one whose slot, second or seed it shares. Three rows before a feed with pages of 2
give a first page, a second one and rows that shift the pages while they are fetched;
two more come over the socket before, during and after the first page and the refresh
of the head, and a connection is lost once. Two of the three components share a topic, so
that a reference count goes to two, and each of two mounts can be taken back and
repeated while a timer runs or a connection changes. Two events suffice for the pipeline,
because events meet only in a batch; one fault for the lifecycle, because a crash
in any state is the state that matters; two requests for the monitor, because they
meet in the cache only, which the second one overwrites.

### Fairness

- `Hub`: a goroutine inside Publish or Unsubscribe keeps running (weak fairness); Go's
  RWMutex blocks new readers once a writer waits, so a publisher that waits for the
  write lock gets it (strong fairness). Consumers need not receive.
- `EventStream`: the same, and the replay, forwarder and write loops of an open
  session run; `PublishInserted` follows a committed insert unless its reply is lost.
  The network, the browser and new events are not fair.
- `Projector`: the container's restart policy starts the process again, and the
  projector polls and commits. Crashes are bounded. Nothing is assumed of the ingest.
- The other modules state safety only.

### What the violations say

- `NoSkippedRow` holds with one ingester and fails with two. In the
  deployed compose files JetStream is the only regular source, and
  `POST /internal/events` is the second one the code offers. A row that commits after
  a larger `log_id` is skipped by the projector for good. The same holds of a browser
  whose cursor has passed the row: `NoHole` of `EventStream` fails with two `Ingesters`.
- `NoHoleAtAll`: insert first and publish after is not atomic, and the redelivery is
  swallowed by `on conflict do nothing`. The projector still projects the row: a
  reload of the page shows it, the stream never does.
- `NoDeadTopic`: `markOverflow` fills `Overflow` and closes `Events` together, and the
  forwarder's select treats a closed `Events` as a normal end.
- `SnapshotGapIsBridged`: README.md says that snapshot and replay bridge the gap between
  the first page and the subscription, but the response of the activity page
  (`handler.go:415`) leaves out the `snapshot_log_id` that the service computed. The
  page's first subscription then has no cursor and replays nothing.
- `RowFresh`: Sweep refreshes tokens with a window in memory. After a restart there is
  none until the token is traded, and the backfill at startup takes only tokens without
  a row, so the row of a quiet token keeps the counts of before the restart.

### Exceptions the properties state

Where the code deviates from what one might expect but no document promises
otherwise, the property names the exception and PROJECT.json has the hazard.

- `MigrationSticks` is about a creation that is logged before the migration. When
  a failed creation is redelivered after it, the code shows the token on its curve again.
- A minute that straddles now - 5m is counted in the view and again in the ring, and a
  trade exactly 5m old at a full minute in neither (`LongIsShortPlusOlder` allows both).
  A trade without a price stops the records (`RowFreshWhileTracked`), and one without a
  token amount is not in the view at all (`LongIsShortPlusOlder`).
- `appendSecondBucket` takes a trade of any second. One that is more than 5m old, or ahead of
  the clock, resets the bucket of a newer second in its slot, whose trades then miss
  from 1m and 5m; a seed after a failed seed does the same, as it reads one second more than
  the ring has room for. `RingHolds` names the trades it is not about: those that such a
  trade found in its slot, or came together with, which `overrun` collects. All others
  stay, whatever their order.
- `ReceivedIsKept`: what was buffered stays in the buffer when the first page is answered
  with an error. `NewestFirst`: a head page that was read before the projector had
  the newest events is put on top of them.
- `NothingLeftInHub`, `GaugeCounts`: a subscribe message that the read loop handles after
  the deferred cleanup leaves its subscription in the hub, and moves the gauge for good.
- `StageFollowsLog`: the tracker's worker may write the creation after the projector has
  projected the migration, and takes the stage back. `ImageShownUnlessEarly`: the
  fetcher's update finds no row when it comes before the projector.
  `NothingMissedOnceInRedis`: a restart before the worker's write to redis, or after a
  failed one, forgets the mint.
- `TicksTellTheChain`: the broadcaster counts `buy_exact_sol_in` on the curve as a sale.
  `OnlyPostedPoison`: a posted event can make the projector fail again and again.
- `CpuWithinHost`: a container restarted between the two samples.

## Proofs

What the theorems assume of the constants has a name in the module that declares them,
and TLC evaluates it on every instance. Three hypotheses remain in statements:

- `OneIngester`: one goroutine inserts. Where it is missing the theorem holds for any number
  of them (`ProjectorTypes`: any finite number).
- `OneLife`: a mint is created once and migrates once.
- `PipelineAssumption`: the three mints differ, and nil is no mint, no side, no amount and no
  record, which TLC knows of a model value without being able to evaluate it.

`Spec` stands for `MonitorSpec`, `PipelineSpec` and `FeedSpec` in the rows about those modules.

| Theorem | Statement |
|---|---|
| `HubInvariant` | `Spec => []HubInv`, for any sets of subscriptions, topics, publishers and callers and any positive `Buffer` |
| `TypeCorrect`, `HubNeverPanics`, `PublishOffersToAll`, `LossIsNeverSilent`, `NoGap` | `[]TypeOK`, `[]NoPanic`, `[]EveryoneOffered`, `[]NoSilentLoss`, `[]NoGapPerPublisher` |
| `StreamTypes` | `Spec => []TypeOK` of `EventStream`, with the capacity of every queue, channel and buffer, for any number of ingesters |
| `StreamInvariant`, `NoHoleWithOneIngester` | `OneIngester` implies `Spec => []StreamInv` and `[]NoHole`, for any number of connections and of publishers of `token_stat`, any capacities and batch size |
| `OrderWithOneIngester` | `OneIngester` implies `Spec => LiveInOrder` |
| `ProjectorTypes` | `Spec => []TypeOK` of `Projector`, for any finite set of ingesters |
| `NothingIsSkipped`, `TokenRowMatchesLog` | `OneIngester` implies `[]NoSkippedRow` and `[]TokenMatchesLog`, for any life of the token, batch size and number of crashes |
| `MigrationIsFinal` | `OneIngester` and `OneLife` imply `[]MigrationSticks` |
| `ProjectsThePrefix` | `OneIngester` implies `Spec => RM!Init /\ [][RM!Next]_RM!vars`: every step of the projector is a step of `ReadModel` or leaves it alone |
| `StatsInvariant` | `Spec => []StatsInv`, for windows, minutes and days of any length, trades of any time in any order and any number of failures and restarts |
| `StatsTypes`, `RingKeepsYoungTrades`, `OnlySeedDoubles`, `LongJoinsShort`, `SweptRowIsFresh` | `[]TypeOK`, `[]RingHolds`, `[]SeedDoublesAtMost`, `[]LongIsShortPlusOlder`, `[]RowFreshWhileTracked` of `StatsWindow` |
| `SessionInvariant` | `Spec => []SessionInv`, for any finite sets of components, topics and connections and any number of mounts |
| `BrowserAndServerAgree`, `CursorsSurvive`, `OnlyLateIsLeft`, `GaugeIsRight` | `[]ServerAgrees`, `CursorSurvives`, `[]NothingLeftInHub`, `[]GaugeCounts` |
| `FeedInvariant` | `Spec => []FeedInv`, for any page size, any number of events, of them logged before the page is opened, and of lost connections |
| `ReceivedStays`, `PagesAreContiguous`, `NothingLostWhileOpen`, `ListIsNewestFirst` | `[]ReceivedIsKept`, `[]PagesHaveNoHole`, `[]NoLossOnceSubscribed`, `[]NewestFirst` |
| `OnlyPostedStops`, `OneTokenEverywhere`, `LiveIsStored`, `RowsAreTrue`, `TicksAreTrue` | `PipelineAssumption` implies `[]OnlyPostedPoison`, `[]ResolversAgree`, `[]LiveRowMatchesStored`, `[]RowsTellTheChain`, `[]TicksTellTheChain`, for logs and batches of any length |
| `LifecycleInvariant` | `Spec => []LifecycleInv`, for any life of a token in which the creation comes before the migration and any number of faults |
| `DetailIsNotTorn`, `DetailFailsEarly`, `ImageStays`, `StageIsThatOfTheLog`, `TrackerForgetsOnlyAtStart` | `[]DetailNotTorn`, `FailsOnlyWithoutMetadata`, `[]ImageShownUnlessEarly`, `[]StageFollowsLog`, `[]NothingMissedOnceInRedis` |
| `MonitorInvariant`, `NeverStale`, `CpuWithinHostUnlessRestarted` | `Spec => []MonitorInv`, `[]FreshWithinTTL`, `[]CpuWithinHost`, for any requests, directories, TTL, clock, number of CPUs and width of the counters |

None of the safety properties is inductive.

- `HubInv` adds: the lock is exclusive and only an
  evicting publisher holds it between steps (`LockInv`); a registered subscription is
  open and registered only where it was created (`RegisteredInv`), which is why a send
  cannot meet a closed channel; the flags tell exactly which channels are closed
  (`FlagsInv`), which is why nothing is closed twice; a subscription about to be closed
  is registered nowhere (`ClosingInv`); what a publisher has yet to visit or evict is
  registered while it holds the read lock (`PublisherInv`); a subscription that missed
  an event is still in its publisher's slice or out of the hub for good (`MissedInv`),
  which excludes a gap; sequence numbers only grow (`AcceptedInv`).
- `StreamInv` contains `HubInv` of the hub inside the stream (`HP`, an instance of
  `HubProofs`, whose lemmas it uses step by step) and adds: rows become visible and are published
  in the order of their log_ids (`IngestInv`), which is where one ingester is needed. Of
  the open connection: the replay leaves nothing out between the cursor and where it stands
  (`ReplayInv`); a row it will not read has been accepted by the subscription, is on its way
  there, or the subscription is evicted (`LiveInv`), and nothing is accepted before its
  predecessors (`AcceptInv`, from the hub's `AcceptedInv` and `PublisherInv`); what was
  accepted is still in the queue or the buffer, in order (`HeldInv`), or in outCh or
  covered by the replay (`KeptInv`); so that every row enters outCh after all the rows
  before it (`OutInv`), and the cursor moves over no hole.
- `DeliveryInv`, on top of `StreamInv`: whatever has gone into outCh came from the replay or
  precedes all that the forwarder still holds (`Behind`), and so does the cursor.
- `BoundsInv`, which `StreamTypes` rests on, needs no order of the log: `HubInv`, what one
  batch, one queue and the queue of a subscription hold at most, and that no log_id
  anywhere is above `MaxLog`.
- `ProjectorInv` says that log_ids are drawn above everything visible or projected
  (`LogInv`) and that a batch is a page of the log that follows the checkpoint, and
  remains one while rows are added (`BatchInv`).
- `ViewInv` is what `TokenMatchesLog` and the refinement need: `ProjectorInv`; `TypeInv`
  (what is in an ingester's hands is an event, a batch is not empty); an event has at most
  one row (`RowsOnce`); and the token's row is that of the projected rows (`TokenInv`).
  `MarketInv` adds the curve and the pool. A batch groups state operations, trades
  and activities before it writes them, while `ReadModel` projects one event after the other.
  That both give the same view is shown along the batch: the function that folds a batch
  is determined step by step, and an operation on the token commutes with the inserts of trades and
  activities.
- `StatsInv` relates the feed, the ring, a sweep, the row, `given` and `overrun`, for trades
  that come in any order and at any time. Two seconds of the last 5m that share a slot
  are the same (`SlotApart`, `SlotOne`), so a trade that is in time takes a slot from no other
  of them, and what an out-of-time one takes is in `overrun` (`AppendRing`, `RingOf`). A seed
  appends the stored trades in ascending order of time (`InTimeOrder`): a late one
  comes before the younger ones of the same seed and harms only what the window had before, one
  ahead of the clock comes after them (`SeedTradesRing`, along the seed's loop). Only what
  the seed has read can come again over the feed (`GivenInv`), which bounds a count by
  two. A record shows in 5m the buckets of the last 5m alone, each with trades of its own
  second (`SlotsOwn`), and of the view what `LongOf` says (`RecordIs`). A sweep is carried
  out at most one second after its targets were chosen (`TimeInv`), and the row is that of the
  last sweep, in the minute that the window remembers (`TrackInv`, `MinuteBegan`).
- `SessionInv` relates what is under way to what is wanted (`AgreeInv`, over `Agreed`): the
  last message about a topic that has not been handled, in the queue or in the read
  loop's hand, says whether the browser wants it, and without one the session's `subs`
  does. Lemmas show that sending, reading, handling and opening preserve it. `CountInv`
  makes a reference count the number of mounted components, by cardinality theorems;
  `RegisteredInv` keeps `subs` and the hub together until the cleanup.
- `FeedInv`: what the client has received is all that lies at or below its cursor, except
  what was logged before a subscription without a cursor, and the rest is on the wire in
  order (`SocketInv`), so the next event is newer than all before it. An answered request
  is a page of contiguous rows below its keyset cursor, and a further page is asked for
  below the next cursor that the list still has when it arrives (`RequestInv`, `IsPage`),
  although events and head pages come in between. Until the first page has come the
  buffer holds all that was received, in order (`BootInv`). What is pending is newer than
  all else that came (`PendingInv`), and a head page is fetched only when something
  received is shown (`RefreshInv`). `OrderInv` holds unless a stale head page came: the
  list is newest first among what was received, and what was received and is not shown,
  because the first page was refused, is older than all received events that are shown
  and lies below the loaded pages, which is why a further page can show it at the bottom.
  Before anything has been received the list is made of pages only.
  The lemmas about `Without`, `Prepend`, `Extend` and `PrependEach` say which events
  `mergeActivities` leaves and which can stand above which.
- `LifecycleInv` keeps the events in chain order from the queue over the stream to the log
  (`OrderInv`), without which a creation could follow its migration; says what the view
  holds of what has been projected (`ViewInv`), from lemmas about each upsert and each
  handler; and says, query by query, what a request has read (`RequestInv`).
- `PipelineInv`: the log holds rows that the parser forwarded or somebody posted, each
  published to the topic of the mint that ingest found (`LogInv`); what is stored or
  counted is what the handler makes of such a row (`StoreInv`); and the process is down only over
  a row that cannot be projected (`DownInv`). The work is in the lemmas about single
  events, one per kind of event and orientation of the pool (`CurveRow`, `SwapRow`,
  `PoolChangeRow`, `ParsedSwap`, `ParsedRow`).
- `MonitorInv` says that what is in the cache was measured no earlier than TTL before it
  expires (`CacheInv`), and that a walk measures after its request began. `SampleInv`: since its
  first sample the container has used no more than the host had, or restarted.

There is one step per action and one per conjunct the action can disturb.

The prover's library states induction over data only for operators, which none of the
provers can instantiate. Where a proof needs it (batches, seeds, the smallest element of
a set of log_ids, the lists of the page) it is done in first-order form: the set of
counterexamples, a set of numbers, has a smallest element (`HasMinimum`,
`SetInduction`).

Only model-checked:

- `LossIsTold`, `Delivered` and the catching up of `ReadModel`: liveness under fairness and
  ENABLED are out of the prover's reach.
- The properties of the runs that expect a violation.

## Not modelled

- Transaction parsing (`unified_parser.rs`, `transaction_view.rs`, `event_origin.rs`):
  sequential decoding of bytes without state. `EventPipeline` starts from the events it yields.
- The generated protobuf code: `EventPipeline`'s messages are what it carries.
- Database schema, connection pool, metrics and configuration: no state of their own on
  the data path. Keys and conflict clauses appear in the models that rely on them.
- Candles, token lists, holders and prices: queries that only read, and arithmetic.
- The broadcaster's NATS feed, used only without a hub, and its fallback payloads.

## What would come next

Candles, which are patched from the stream as the activity list is; two tokens in one
broadcaster sweep.
