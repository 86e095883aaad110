---------------------------- MODULE StatsWindow ----------------------------
(***************************************************************************)
(* The stats broadcaster (backend/internal/broadcaster/stats.go) for one   *)
(* token.  Run's loop takes trades from the hub's global topic into a ring *)
(* of second buckets, and once a second Sweep writes the token's row of    *)
(* token_metrics_current: 1m and 5m from the ring, 1h, 4h and 24h from the *)
(* minute view of token_trade_events plus the ring.  The projector fills   *)
(* token_trade_events behind the feed; a window that is new is seeded from *)
(* it.  What the feed loses is not repaired in the ring.                   *)
(*                                                                         *)
(* A trade is its log_id, with its time and what its price is.  The time   *)
(* is the chain's and has no bound: JetStream may deliver a trade as late  *)
(* as it likes, and the chain's clock may be ahead of this one.            *)
(* Counts and volumes are sums over trades, so a bucket is the bag of the  *)
(* trades it holds.  The long windows differ in their length only: one of  *)
(* them is modelled, 24h, and 1m is as long as a bucket of the minute view.*)
(***************************************************************************)
EXTENDS Integers, Sequences, FiniteSets

CONSTANTS
  W,           (* seconds of 5m and length of SecondBuckets (300)             *)
  M,           (* seconds of 1m (60)                                          *)
  L,           (* seconds of 24h, and the idle time that evicts a window      *)
  Buffer,      (* globalHubBufferSize (8192)                                  *)
  Start,       (* the clock when the process starts for the first time        *)
  Times,       (* bound: the times that trades may have                       *)
  MaxTrades,   (* bound: trades                                               *)
  MaxNow,      (* bound: the clock                                            *)
  MaxFaults,   (* bound: queries and upserts that fail                        *)
  MaxRestarts, (* bound: restarts of the process                              *)
  None

ASSUME WindowAssumption ==
  /\ {W, M, L, Buffer} \subseteq Nat \ {0} /\ W > 1
  /\ W % M = 0 /\ L % M = 0 /\ M <= W /\ W <= L
  /\ Start \in Nat /\ Times \subseteq Int
  /\ {MaxTrades, MaxNow, MaxFaults, MaxRestarts} \subseteq Nat

VARIABLES
  now,        (* the clock, in seconds                                        *)
  trades,     (* the trades of the log, in log_id order: [ts, price]          *)
  projected,  (* how many of them token_trade_events holds                    *)
  queue,      (* the global subscription's Events                             *)
  feed,       (* that subscription: "down" before Run, "up", "evicted"        *)
  window,     (* the token's TokenWindowState, or None                        *)
  sweep,      (* Sweep between its first loop and its second, or None         *)
  swept,      (* a sweep has begun in this second                             *)
  row,        (* the token's row of token_metrics_current, or None            *)
  faults, restarts,
  given,      (* history: how often each trade was appended to the window     *)
  overrun     (* history: trades whose slot another has since taken, which    *)
              (* came late or ahead of the clock; and those ahead themselves  *)

history == <<given, overrun>>

vars == <<now, trades, projected, queue, feed, window, sweep, swept, row,
          faults, restarts, given, overrun>>

Ids == 1..MaxTrades
Nothing == [i \in Ids |-> 0]
Counts == [Ids -> Nat]
Published == 1..Len(trades)

(* Without a token amount a trade has no price: trade_price_quote is null, *)
(* handleTrade sets 0.  Without a quote amount both are 0.                 *)
Prices == {"positive", "zero", "null"}
Priced(i) == trades[i].price = "positive"

MinuteOf(t) == (t \div M) * M

(* A fresh TokenWindowState, as getWindow creates it. *)
NewWindow ==
  [seeded |-> FALSE, seededAt |-> 0, last |-> 0, priced |-> FALSE, minute |-> 0,
   ring |-> [k \in 0..(W - 1) |-> [start |-> 0, priced |-> FALSE, count |-> Nothing]]]

(* The values of a window, of a sweep in progress and of the row.          *)
Buckets == [start : Int, priced : BOOLEAN, count : Counts]
Windows == [seeded : BOOLEAN, seededAt : Nat, last : Int, priced : BOOLEAN, minute : Nat,
            ring : [0..(W - 1) -> Buckets]]
Sweeps == [at : Nat, subscribed : BOOLEAN, long : Counts, loaded : Nat]
Records == [at : Nat, latest : Int, m1 : Counts, m5 : Counts, h24 : Counts, loaded : Nat]

ASSUME NoneAssumption == None \notin Windows \union Sweeps \union Records

Init ==
  /\ now = Start /\ trades = <<>> /\ projected = 0
  /\ queue = <<>> /\ feed = "down"
  /\ window = None /\ sweep = None /\ swept = FALSE /\ row = None
  /\ faults = 0 /\ restarts = 0 /\ given = Nothing /\ overrun = {}

-----------------------------------------------------------------------------
(* Mutant, for RingHolds: a bucket of an older second is not reset. *)
BucketKept(bucket, t) == bucket

(* The bucket of second t: the slot's own one, or a new one in its place.  *)
BucketFor(bucket, t) ==
  IF bucket.start = t THEN bucket ELSE [bucket EXCEPT !.start = t, !.count = Nothing]

(* appendSecondBucket: the bucket counts the trade and keeps its price.    *)
OneMore(counts, i) == [counts EXCEPT ![i] = @ + 1]

CountTrade(bucket, i) ==
  [bucket EXCEPT !.priced = Priced(i), !.count = OneMore(@, i)]

AppendSecondBucket(w, i) ==
  LET t == trades[i].ts IN
  [w EXCEPT !.last = t, !.priced = Priced(i),
            !.ring[t % W] = CountTrade(BucketFor(@, t), i)]

(* summarizeSecondBuckets: how often each trade counts.  A bucket whose    *)
(* last trade had no price is passed over with all its trades.             *)
Summarize(w, at, seconds) ==
  [i \in Ids |->
     IF i \notin Published THEN 0
     ELSE LET b == w.ring[trades[i].ts % W] IN
          IF b.start > at - seconds /\ b.start <= at /\ b.priced THEN b.count[i] ELSE 0]

(* ListRecentTradeMetricsByMint: by event_time, then in insertion order.   *)
Recent(since) == {i \in 1..projected : trades[i].ts >= since}

Earlier(i, j) ==
  \/ trades[i].ts < trades[j].ts
  \/ trades[i].ts = trades[j].ts /\ i < j

InTimeOrder(ids) ==
  LET Nth(k) == CHOOSE i \in ids : Cardinality({j \in ids : ~Earlier(i, j)}) = k
  IN  [k \in 1..Cardinality(ids) |-> Nth(k)]

(* The loop over the trades the query has returned.                        *)
AppendAll(w, ids) ==
  LET after[n \in 0..Len(ids)] ==
        IF n = 0 THEN w ELSE AppendSecondBucket(after[n - 1], ids[n])
  IN  after[Len(ids)]

SeedTrades(w, since) == AppendAll(w, InTimeOrder(Recent(since)))

(* Mutant, for SeedDoublesAtMost: the window does not remember its seed. *)
SeedForgotten(w, since) == [SeedTrades(w, since) EXCEPT !.seededAt = projected]

(* rows.Scan cannot read a null price into a float64: the query fails.     *)
ReadsNull(since) == \E i \in Recent(since) : trades[i].price = "null"

(* ensureWindowSeeded, once its query has been sent: a seed that cannot be *)
(* read leaves the window unseeded.                                        *)
Seed(w, since) ==
  IF ReadsNull(since) THEN w
  ELSE [SeedTrades(w, since) EXCEPT !.seeded = TRUE, !.seededAt = projected]

(* Mutant, for LongIsShortPlusOlder: the view is read up to the present. *)
LongMetricsToNow(at) ==
  [i \in Ids |-> IF i <= projected /\ MinuteOf(trades[i].ts) >= at - L THEN 1 ELSE 0]

(* ListLongWindowMetricsByMints: minutes of the view, which start at least *)
(* 5m back and at most 24h.  The view has no trade without a token amount. *)
LongMetrics(at) ==
  [i \in Ids |->
     IF /\ i <= projected /\ trades[i].price # "null"
        /\ MinuteOf(trades[i].ts) >= at - L /\ MinuteOf(trades[i].ts) < at - W
     THEN 1 ELSE 0]

(* buildCurrentRecord.  loaded, which the program does not keep, is the    *)
(* number of trades the long windows were read from.                       *)
BuildCurrentRecord(w, long, loaded, at) ==
  LET short1m == Summarize(w, at, M)
      short5m == Summarize(w, at, W)
  IN  [at |-> at, latest |-> w.last, m1 |-> short1m, m5 |-> short5m,
       h24 |-> [i \in Ids |-> long[i] + short5m[i]], loaded |-> loaded]

HasRecord(w) == w.priced /\ w.last > 0

(* BackfillCurrentMetrics: only a token without a row is a candidate.  Its *)
(* window is made for the occasion and thrown away.                        *)
BackfillCandidate == row = None /\ projected > 0

Latest ==
  CHOOSE i \in 1..projected :
    \A j \in 1..projected : \/ trades[j].ts < trades[i].ts
                            \/ trades[j].ts = trades[i].ts /\ j <= i

BackfillWindow ==
  [Seed(NewWindow, now - W) EXCEPT !.last = trades[Latest].ts,
                                   !.priced = Priced(Latest)]

BackfillCurrentMetrics ==
  row' = IF BackfillCandidate /\ ~ReadsNull(now - W) /\ HasRecord(BackfillWindow)
         THEN BuildCurrentRecord(BackfillWindow, LongMetrics(now), projected, now)
         ELSE row

-----------------------------------------------------------------------------
(* Mutant, for TypeOK: the send blocks one event too late. *)
HasRoomOffByOne == Len(queue) <= Buffer

HasRoom == Len(queue) < Buffer

(* The log gets a trade and Publish offers it to the global topic: a full  *)
(* Events is closed and the subscription evicted (see Hub).                *)
Trade(ts, price) ==
  /\ Len(trades) < MaxTrades
  /\ trades' = Append(trades, [ts |-> ts, price |-> price])
  /\ \/ /\ feed = "up" /\ HasRoom
        /\ queue' = Append(queue, Len(trades'))
        /\ UNCHANGED feed
     \/ /\ feed = "up" /\ ~HasRoom
        /\ feed' = "evicted"
        /\ UNCHANGED queue
     \/ feed # "up" /\ UNCHANGED <<queue, feed>>
  /\ UNCHANGED <<now, projected, window, sweep, swept, row, faults,
                 restarts, history>>

(* The projector inserts the next trade into token_trade_events.           *)
ProjectTrade ==
  /\ projected < Len(trades)
  /\ projected' = projected + 1
  /\ UNCHANGED <<now, trades, queue, feed, window, sweep, swept, row,
                 faults, restarts, history>>

(* A second passes.  Run's ticker has the broadcaster sweep every second.  *)
Tick ==
  /\ now < MaxNow
  /\ feed # "down" => swept
  /\ now' = now + 1
  /\ swept' = FALSE
  /\ UNCHANGED <<trades, projected, queue, feed, window, sweep, row,
                 faults, restarts, history>>

-----------------------------------------------------------------------------
Fail == faults < MaxFaults /\ faults' = faults + 1

(* The trades that a seed from since appends, if it can be read.           *)
SeedIds(since) == IF ReadsNull(since) THEN {} ELSE Recent(since)

(* What a window has been given that had g, once it is given ids as well.  *)
Given(g, ids) == [i \in Ids |-> g[i] + (IF i \in ids THEN 1 ELSE 0)]

(* Trades whose second is not among the last W when they are appended, and *)
(* the trades they share a slot with: those given before, and those given  *)
(* before or together with a trade ahead of the clock, itself among them.  *)
OutOfTime(i) == trades[i].ts <= now - W \/ trades[i].ts > now

Overrun(g, ids) ==
  {j \in Published : \E i \in ids :
     /\ OutOfTime(i) /\ trades[i].ts % W = trades[j].ts % W
     /\ g[j] > 0 \/ (trades[i].ts > now /\ j \in ids)}

(* handleTrade: recordTrade, after a seed that appended ids and made the   *)
(* window w of it.                                                         *)
RecordTrade(w, ids, i) ==
  /\ window' = AppendSecondBucket(w, i)
  /\ given' = OneMore(Given(given, ids), i)
  /\ overrun' = overrun \union Overrun(given, ids) \union Overrun(Given(given, ids), {i})

(* handleTrade: ensureWindowSeeded, whose error is only logged, and        *)
(* recordTrade.                                                            *)
HandleTrade ==
  /\ feed # "down" /\ sweep = None /\ queue # <<>>
  /\ queue' = Tail(queue)
  /\ LET i == Head(queue)
         since == trades[i].ts - W
         w == IF window = None THEN NewWindow ELSE window IN
     \/ w.seeded /\ RecordTrade(w, {}, i) /\ UNCHANGED faults
     \/ ~w.seeded /\ RecordTrade(Seed(w, since), SeedIds(since), i) /\ UNCHANGED faults
     \/ ~w.seeded /\ RecordTrade(w, {}, i) /\ Fail
  /\ UNCHANGED <<now, trades, projected, feed, sweep, swept, row, restarts>>

ShortActive(w) == w.last > 0 /\ now - w.last <= W

(* Mutant, for RowFreshWhileTracked: no refresh when a minute begins. *)
NeedsRefreshActive(w, subscribed) == subscribed \/ ShortActive(w)

(* The token is followed, had a trade within 5m, or a new minute began.    *)
NeedsRefresh(w, subscribed) == subscribed \/ ShortActive(w) \/ w.minute # MinuteOf(now)

(* Sweep up to the long windows, which on an error stay empty.  Sessions   *)
(* come and go as they like: HasSubscribers may say either.                *)
SweepTargets ==
  /\ feed # "down" /\ sweep = None /\ ~swept
  /\ swept' = TRUE
  /\ \/ window = None /\ UNCHANGED <<window, sweep, faults, history>>
     \/ /\ window # None
        /\ \E subscribed \in BOOLEAN :
             LET evicts == ~subscribed /\ window.last > 0 /\ now - window.last > L IN
             \/ /\ evicts
                /\ window' = None /\ given' = Nothing /\ overrun' = {}
                /\ UNCHANGED <<sweep, faults>>
             \/ /\ ~evicts /\ ~NeedsRefresh(window, subscribed)
                /\ UNCHANGED <<window, sweep, faults, history>>
             \/ /\ ~evicts /\ NeedsRefresh(window, subscribed)
                /\ sweep' = [at |-> now, subscribed |-> subscribed,
                             long |-> LongMetrics(now), loaded |-> projected]
                /\ UNCHANGED <<window, faults, history>>
             \/ /\ ~evicts /\ NeedsRefresh(window, subscribed) /\ Fail
                /\ sweep' = [at |-> now, subscribed |-> subscribed,
                             long |-> Nothing, loaded |-> 0]
                /\ UNCHANGED <<window, history>>
  /\ UNCHANGED <<now, trades, projected, queue, feed, row, restarts>>

(* The record of window w is built and upserted, after f faults.           *)
PersistRecord(w, f) ==
  /\ window' = [w EXCEPT !.minute = MinuteOf(sweep.at)]
  /\ \/ /\ HasRecord(w)
        /\ row' = BuildCurrentRecord(w, sweep.long, sweep.loaded, sweep.at)
        /\ faults' = f
     \/ /\ HasRecord(w) /\ f < MaxFaults
        /\ faults' = f + 1 /\ UNCHANGED row
     \/ ~HasRecord(w) /\ faults' = f /\ UNCHANGED row

(* Sweep's second loop: a followed window is seeded if it has not been,    *)
(* and its record is persisted whether or not the seed succeeds.           *)
SweepPersist ==
  /\ sweep # None
  /\ LET seeds == sweep.subscribed /\ ~window.seeded
         since == sweep.at - W IN
     \/ ~seeds /\ PersistRecord(window, faults) /\ UNCHANGED history
     \/ /\ seeds /\ PersistRecord(Seed(window, since), faults)
        /\ given' = Given(given, SeedIds(since))
        /\ overrun' = overrun \union Overrun(given, SeedIds(since))
     \/ /\ seeds /\ faults < MaxFaults
        /\ PersistRecord(window, faults + 1) /\ UNCHANGED history
  /\ sweep' = None
  /\ UNCHANGED <<now, trades, projected, queue, feed, swept, restarts>>

(* Run starts, or its subscription was evicted and it subscribes again:    *)
(* what the old Events still held is gone.                                 *)
Subscribe ==
  /\ feed # "up" /\ sweep = None
  /\ feed' = "up" /\ queue' = <<>>
  /\ \/ BackfillCurrentMetrics /\ UNCHANGED faults
     \/ Fail /\ UNCHANGED row
  /\ UNCHANGED <<now, trades, projected, window, sweep, swept,
                 restarts, history>>

(* The process dies and is started again.                                  *)
Restart ==
  /\ restarts < MaxRestarts
  /\ restarts' = restarts + 1
  /\ feed' = "down" /\ queue' = <<>>
  /\ window' = None /\ sweep' = None /\ swept' = FALSE
  /\ given' = Nothing /\ overrun' = {}
  /\ UNCHANGED <<now, trades, projected, row, faults>>

Next ==
  \/ \E ts \in Times, price \in Prices : Trade(ts, price)
  \/ ProjectTrade \/ Tick
  \/ HandleTrade \/ SweepTargets \/ SweepPersist \/ Subscribe \/ Restart

Spec == Init /\ [][Next]_vars

-----------------------------------------------------------------------------
(* The window: every bucket lies in the slot of its second.                *)
WindowOK ==
  /\ window.last \in Times /\ window.seeded \in BOOLEAN
  /\ DOMAIN window.ring = 0..(W - 1)
  /\ \A k \in 0..(W - 1) :
       /\ window.ring[k].start % W = k \/ window.ring[k].start = 0
       /\ \A i \in Ids : window.ring[k].count[i] \in 0..2

(* Every variable has its type, and the feed holds at most Buffer trades.  *)
TypeOK ==
  /\ now \in Nat /\ trades \in Seq([ts : Times, price : Prices])
  /\ projected \in 0..Len(trades)
  /\ queue \in Seq(Published) /\ Len(queue) <= Buffer
  /\ feed \in {"down", "up", "evicted"}
  /\ window # None => WindowOK
  /\ swept \in BOOLEAN
  /\ faults \in 0..MaxFaults /\ restarts \in 0..MaxRestarts
  /\ given \in [Ids -> 0..2] /\ overrun \subseteq Published

(* The trades of the last 5m that the window was given are in the ring, as *)
(* often as it was given them, whatever came before and after them: the    *)
(* ring goes round, a failed seed is made up for, and a trade of any time  *)
(* comes late or ahead of the clock.  Such a trade takes its slot from a   *)
(* newer second, whose trades are lost, but from no other.  And no bucket  *)
(* counts a trade of a second other than its own.                          *)
RingHolds ==
  window # None =>
    /\ \A i \in Published : given[i] > 0 /\ ~OutOfTime(i) /\ i \notin overrun =>
         LET b == window.ring[trades[i].ts % W] IN
         b.start = trades[i].ts /\ b.count[i] = given[i]
    /\ \A k \in 0..(W - 1), i \in Published :
         LET b == window.ring[k] IN
         b.count[i] > 0 => b.start = trades[i].ts /\ b.count[i] <= given[i]

(* Only the seed counts twice: a trade that token_trade_events held before *)
(* the seed may also come over the feed, any other is counted once.        *)
SeedDoublesAtMost ==
  window # None =>
    \A i \in Ids : /\ given[i] <= 2
                   /\ given[i] = 2 => i <= window.seededAt

(* 5m shows trades of the last 5m alone: a late one, or one ahead of the   *)
(* clock, is not counted in another second's place.  The long windows are  *)
(* the view up to 5m back and the ring after it, with one minute of doubt  *)
(* at the seam: younger trades count as in 5m, older ones once, and those  *)
(* of the seam at most once more than in 5m.  The view leaves out trades   *)
(* without a token amount, which the ring counts beside others.            *)
LongIsShortPlusOlder ==
  row # None =>
    \A i \in Published :
      LET age == row.at - trades[i].ts IN
      /\ row.m1[i] <= row.m5[i]
      /\ row.m5[i] > 0 => age \in 0..(W - 1)
      /\ row.h24[i] \in {row.m5[i], row.m5[i] + 1}
      /\ age <= W - M \/ trades[i].price = "null" => row.h24[i] = row.m5[i]
      /\ age > W /\ age <= L - M /\ i <= row.loaded /\ trades[i].price # "null"
           => row.h24[i] = 1
      /\ age > L => row.h24[i] = 0

(* After the sweep of a second the row shows in 5m no trade that has left  *)
(* 5m for a minute.  (The minute is needed: a trade that arrives late sets *)
(* LastActiveTs back, so that the refresh each second ends early.)         *)
RowFresh ==
  feed = "up" /\ swept /\ sweep = None /\ row # None =>
    \A i \in Published : row.m5[i] > 0 => now < trades[i].ts + W + M

(* It holds once a window has been swept and as long as it is kept, unless *)
(* a query failed or a trade without a price or time stopped the records.  *)
RowFreshWhileTracked ==
  window # None /\ window.minute > 0 /\ faults = 0
    /\ (\A i \in Published : Priced(i) /\ trades[i].ts > 0) => RowFresh
=============================================================================
