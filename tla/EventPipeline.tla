---------------------------- MODULE EventPipeline ----------------------------
(***************************************************************************)
(* What one chain event becomes on its way through the system: the parser  *)
(* builds an envelope, the backend decodes and stores it, publishes it to  *)
(* a topic, projects it to a trade and an activity row, counts it in the   *)
(* windows of the stats broadcaster, and the browser turns the live        *)
(* envelope into an activity of its own.  The mint, the side and the       *)
(* amounts of an event are worked out four times, in three languages:      *)
(* trackedMint/buildPumpAmmTrade (projector), trackedMint/                 *)
(* pumpAmmTradeMetrics (broadcaster), extractMint (ingest) and             *)
(* resolveTrackedMint/buildTradeFields (browser).                          *)
(*                                                                         *)
(* The data of an event is what these decisions depend on: which side of   *)
(* the pair the token is on, the direction, the variant of the             *)
(* instruction, and which amount is the token's ("token") and which the    *)
(* quote's ("quote").  Ids, time stamps, fees and reserves are copied and  *)
(* left out.                                                               *)
(***************************************************************************)
EXTENDS Naturals, Sequences

CONSTANTS Sol,        \* the mint of wrapped SOL
          Token,      \* the mint of the tracked token
          Other,      \* a mint that is neither
          None,       \* nil, "" or undefined
          BatchSize,  \* rows of one projector batch
          MaxLog      \* bound of the model: rows of service_events

VARIABLES serviceEvents, \* service_events: [env, fact, posted], the index is the log_id
          topic,         \* topic[i]: mint of the token topic row i was published to
          lastID,        \* projection checkpoint
          backend,       \* "up", or "down" after log.Fatalf
          trades,        \* token_trade_events: [id, mint, side, token, quote, quoteMint, market]
          activities,    \* token_activity_events
          ticks          \* trades counted by the broadcaster since it started

pipelineVars == <<serviceEvents, topic, lastID, backend, trades, activities, ticks>>

-----------------------------------------------------------------------------
(* Chain facts: what really happened, from the token's point of view.       *)

Fact(what, venue, inverted, dir, exact, other) ==
  [what |-> what, venue |-> venue, inverted |-> inverted, dir |-> dir,
   exact |-> exact, other |-> other]

\* inverted: the token is the quote side of the pool; exact: the
\* "exact in" variant of the buy instruction.
CurveFacts ==
  {Fact("trade", "curve", FALSE, "sell", FALSE, Sol)}
    \cup {Fact("trade", "curve", FALSE, "buy", x, Sol) : x \in BOOLEAN}
    \cup {Fact(w, "curve", FALSE, None, FALSE, Sol) : w \in {"create", "migrate"}}

PoolTrades ==
  {f \in {Fact("trade", "pool", i, d, x, o) :
            i \in BOOLEAN, d \in {"buy", "sell"}, x \in BOOLEAN, o \in {Sol, Other}} :
      f.exact => (f.dir = "buy") /= f.inverted}

PoolChanges ==
  {Fact(w, "pool", i, None, FALSE, o) :
     w \in {"create_pool", "deposit", "withdraw"}, i \in BOOLEAN, o \in {Sol, Other}}

Facts == CurveFacts \cup PoolTrades \cup PoolChanges

-----------------------------------------------------------------------------
(* The parser: payload and references of the service event.                 *)

BaseMint(f)    == IF f.inverted THEN f.other ELSE Token
QuoteMint(f)   == IF f.inverted THEN Token ELSE f.other
BaseAmount(f)  == IF f.inverted THEN "quote" ELSE "token"
QuoteAmount(f) == IF f.inverted THEN "token" ELSE "quote"

\* The instruction buys the base side of the pool.
BuysBase(f) == (f.dir = "buy") /= f.inverted

CurvePayload(f) ==
  [kind |-> f.what, mint |-> Token,
   side |-> CASE f.dir = "buy" /\ f.exact  -> "buy_exact_sol_in"
              [] f.dir = "buy" /\ ~f.exact -> "buy"
              [] f.dir = "sell"            -> "sell"
              [] OTHER                     -> None,
   market |-> IF f.what = "migrate" THEN "pool" ELSE "curve",
   tokenAmount |-> IF f.what = "create" THEN None ELSE "token",
   solAmount   |-> IF f.what = "create" THEN None ELSE "quote"]

SwapSide(f) ==
  IF ~BuysBase(f) THEN "sell" ELSE IF f.exact THEN "buy_exact_quote_in" ELSE "buy"

PoolPayload(f) ==
  LET in  == f.what \in {"create_pool", "deposit"}
      out == f.what = "withdraw"
      buy == f.what = "trade" /\ BuysBase(f)
      sell == f.what = "trade" /\ ~BuysBase(f)
  IN [kind |-> IF f.what = "trade" THEN "swap" ELSE f.what,
      side |-> IF f.what = "trade" THEN SwapSide(f) ELSE None,
      base |-> BaseMint(f), quote |-> QuoteMint(f),
      baseIn   |-> IF in \/ sell THEN BaseAmount(f)  ELSE None,
      baseOut  |-> IF out \/ buy THEN BaseAmount(f)  ELSE None,
      quoteIn  |-> IF in \/ buy  THEN QuoteAmount(f) ELSE None,
      quoteOut |-> IF out \/ sell THEN QuoteAmount(f) ELSE None]

\* tracker.rs, resolve_non_sol_mint: nothing when both or neither are SOL.
ParserMint(base, quote) ==
  CASE base = Sol /\ quote /= Sol -> quote
    [] base /= Sol /\ quote = Sol -> base
    [] OTHER -> None

Message(f) ==
  IF f.venue = "curve"
  THEN [protocol |-> "pumpfun", type |-> f.what,
        refs |-> [mint |-> Token, base |-> None, quote |-> None],
        payload |-> CurvePayload(f)]
  ELSE [protocol |-> "pumpamm", type |-> PoolPayload(f).kind,
        refs |-> [mint |-> ParserMint(BaseMint(f), QuoteMint(f)),
                  base |-> BaseMint(f), quote |-> QuoteMint(f)],
        payload |-> PoolPayload(f)]

\* should_forward: the tracked mint of the event is known.
Forwarded(msg) == msg.refs.mint = Token

-----------------------------------------------------------------------------
(* events/from_proto.go: the envelope from the message, field by field; an   *)
(* absent optional stays nil.                                               *)

PumpfunTradeFromProto(p) ==
  [kind |-> "trade", mint |-> p.mint, side |-> p.side, market |-> p.market,
   tokenAmount |-> p.tokenAmount, solAmount |-> p.solAmount]
PumpfunCreateFromProto(p) ==
  [kind |-> "create", mint |-> p.mint, side |-> None, market |-> p.market,
   tokenAmount |-> None, solAmount |-> None]
PumpfunMigrateFromProto(p) ==
  [kind |-> "migrate", mint |-> p.mint, side |-> None, market |-> p.market,
   tokenAmount |-> p.tokenAmount, solAmount |-> p.solAmount]
PumpAmmSwapFromProto(p) ==
  [kind |-> "swap", side |-> p.side, base |-> p.base, quote |-> p.quote,
   baseIn |-> p.baseIn, baseOut |-> p.baseOut, quoteIn |-> p.quoteIn, quoteOut |-> p.quoteOut]
PumpAmmCreatePoolFromProto(p) ==
  [kind |-> "create_pool", side |-> None, base |-> p.base, quote |-> p.quote,
   baseIn |-> p.baseIn, baseOut |-> None, quoteIn |-> p.quoteIn, quoteOut |-> None]
PumpAmmLiquidityFromProto(p) ==
  [kind |-> p.kind, side |-> None, base |-> p.base, quote |-> p.quote,
   baseIn |-> p.baseIn, baseOut |-> p.baseOut, quoteIn |-> p.quoteIn, quoteOut |-> p.quoteOut]

RefsFromProto(refs) == [mint |-> refs.mint, base |-> refs.base, quote |-> refs.quote]

PayloadFromProto(p) ==
  CASE p.kind = "trade"       -> PumpfunTradeFromProto(p)
    [] p.kind = "create"      -> PumpfunCreateFromProto(p)
    [] p.kind = "migrate"     -> PumpfunMigrateFromProto(p)
    [] p.kind = "swap"        -> PumpAmmSwapFromProto(p)
    [] p.kind = "create_pool" -> PumpAmmCreatePoolFromProto(p)
    [] p.kind \in {"deposit", "withdraw"} -> PumpAmmLiquidityFromProto(p)

ProtocolFromProto(x) == IF x \in {"pumpfun", "pumpamm"} THEN x ELSE None
EventTypeFromProto(x) ==
  IF x \in {"trade", "create", "migrate", "swap", "create_pool", "deposit", "withdraw"}
  THEN x ELSE None

EnvelopeFromProto(msg) ==
  [protocol |-> ProtocolFromProto(msg.protocol), type |-> EventTypeFromProto(msg.type),
   refs |-> RefsFromProto(msg.refs), payload |-> PayloadFromProto(msg.payload)]

\* DecodePayload: the stored JSON is decoded again by protocol and type.
Decodable(env) ==
  \/ env.protocol = "pumpfun" /\ env.type \in {"trade", "create", "migrate"}
  \/ env.protocol = "pumpamm" /\ env.type \in {"swap", "create_pool", "deposit", "withdraw"}

-----------------------------------------------------------------------------
(* ingest.Service: the topic of the live publication.                       *)

\* Mutant, for ResolversAgree: the base side whatever it is.
ResolveFirstMint(base, quote) == base

ResolveNonSolMint(base, quote) ==
  CASE base = Sol /\ quote /= None -> quote
    [] quote = Sol /\ base /= None -> base
    [] OTHER -> IF base /= None THEN base ELSE quote

ExtractMint(env) ==
  IF env.refs.mint /= None THEN env.refs.mint
  ELSE IF env.protocol = "pumpfun" THEN env.payload.mint
  ELSE ResolveNonSolMint(env.payload.base, env.payload.quote)

-----------------------------------------------------------------------------
(* The projector's and the broadcaster's reading of a pump AMM event.       *)

TrackedMint(env) ==
  LET p == env.payload
  IN IF env.refs.mint /= None THEN env.refs.mint
     ELSE CASE p.base = Sol /\ p.quote /= None -> p.quote
            [] p.quote = Sol /\ p.base /= None -> p.base
            [] OTHER -> None

OtherMint(mint, p) ==
  CASE mint = p.base -> p.quote [] mint = p.quote -> p.base [] OTHER -> None

\* trackedPairAmounts: <<token amount, quote amount>> of the mint's side.
PairAmounts(mint, p, baseAmount, quoteAmount) ==
  IF mint = p.quote THEN <<quoteAmount, baseAmount>> ELSE <<baseAmount, quoteAmount>>

\* Mutant, for OnlyPostedPoison: one variant of the instruction is forgotten.
BuySidesPlain == {"buy"}
BuySides == {"buy", "buy_exact_quote_in"}

\* Selling SOL for the token, when the token is the quote side, is a purchase.
\* (TokenSideUnflipped is the mutant for RowsTellTheChain.)
TokenSideUnflipped(flip, side) == IF side = "sell" THEN "sell" ELSE "buy"
TokenSide(flip, side) == IF flip = (side = "sell") THEN "buy" ELSE "sell"

\* buildPumpAmmTrade; None is an error: no mint, an unknown side or a
\* missing amount.
BuildPumpAmmTrade(env) ==
  LET p    == env.payload
      mint == TrackedMint(env)
      flip == mint = p.quote
      row(token, quote) ==
        IF None \in {mint, token, quote} THEN None
        ELSE [mint |-> mint, side |-> TokenSide(flip, p.side), token |-> token, quote |-> quote,
              quoteMint |-> IF flip THEN p.base ELSE p.quote, market |-> "pool"]
  IN CASE flip /\ p.side = "sell"      -> row(p.quoteOut, p.baseIn)
       [] flip /\ p.side \in BuySides  -> row(p.quoteIn, p.baseOut)
       [] ~flip /\ p.side = "sell"     -> row(p.baseIn, p.quoteOut)
       [] ~flip /\ p.side \in BuySides -> row(p.baseOut, p.quoteIn)
       [] OTHER -> None

\* projectPumpfunTrade; the amounts are `numeric not null`, so the insert of
\* a trade without one fails.
BuildPumpfunTrade(env) ==
  LET p == env.payload
  IN IF None \in {p.tokenAmount, p.solAmount} THEN None
     ELSE [mint |-> p.mint, side |-> p.side, token |-> p.tokenAmount,
           quote |-> p.solAmount, quoteMint |-> Sol, market |-> p.market]

IsTradeEvent(env) == env.type \in {"trade", "swap"}

TradeRow(env) ==
  IF env.type = "trade" THEN BuildPumpfunTrade(env) ELSE BuildPumpAmmTrade(env)

Activity(type, mint, side, market, quoteMint, amounts) ==
  [type |-> type, mint |-> mint, side |-> side, market |-> market,
   quoteMint |-> quoteMint, token |-> amounts[1], quote |-> amounts[2]]

\* projectPumpAmmLiquidity, liquidityTrackedAmounts; projectPumpAmmCreatePool.
\* (PoolActivityIn is the mutant for LiveRowMatchesStored: a withdrawal's
\* amounts are taken for a deposit's.)
PoolActivityIn(env) ==
  LET p    == env.payload
      mint == TrackedMint(env)
  IN IF mint = None THEN None
     ELSE Activity(p.kind, mint, None, "pool", OtherMint(mint, p),
                   PairAmounts(mint, p, p.baseIn, p.quoteIn))

PoolActivity(env) ==
  LET p    == env.payload
      mint == TrackedMint(env)
      amounts == IF p.kind = "withdraw" THEN PairAmounts(mint, p, p.baseOut, p.quoteOut)
                                        ELSE PairAmounts(mint, p, p.baseIn, p.quoteIn)
  IN IF mint = None THEN None
     ELSE Activity(p.kind, mint, None, "pool", OtherMint(mint, p), amounts)

\* The activity row of an event; None: Project returns an error.
ActivityRow(env) ==
  LET p == env.payload
      t == TradeRow(env)
  IN CASE IsTradeEvent(env) ->
            IF t = None THEN None
            ELSE Activity("trade", t.mint, t.side, t.market, t.quoteMint, <<t.token, t.quote>>)
       [] env.type = "create" -> Activity("create", p.mint, None, p.market, None, <<None, None>>)
       [] env.type = "migrate" ->
            Activity("migrate", p.mint, None, p.market, Sol, <<p.tokenAmount, p.solAmount>>)
       [] OTHER -> PoolActivity(env)

Projects(env) == Decodable(env) /\ ActivityRow(env) /= None

\* The broadcaster's own trackedMint.
StatsMint(env) ==
  LET p == env.payload
  IN IF env.refs.mint /= None THEN env.refs.mint
     ELSE CASE p.base = Sol /\ p.quote /= None -> p.quote
            [] p.quote = Sol /\ p.base /= None -> p.base
            [] OTHER -> None

\* pumpAmmTradeMetrics: <<mint, isBuy, token amount, quote amount>> or None.
PumpAmmTradeMetrics(env) ==
  LET p    == env.payload
      mint == StatsMint(env)
      tick(isBuy, token, quote) ==
        IF None \in {mint, token, quote} THEN None ELSE <<mint, isBuy, token, quote>>
  IN IF mint = p.quote
     THEN CASE p.side = "sell"     -> tick(TRUE, p.quoteOut, p.baseIn)
            [] p.side \in BuySides -> tick(FALSE, p.quoteIn, p.baseOut)
            [] OTHER -> None
     ELSE CASE p.side = "sell"     -> tick(FALSE, p.baseIn, p.quoteOut)
            [] p.side \in BuySides -> tick(TRUE, p.baseOut, p.quoteIn)
            [] OTHER -> None

\* handlePumpfunTrade: only the side "buy" is a buy.  (PumpfunTickSwapped is
\* the mutant for TicksTellTheChain.)
PumpfunTickSwapped(env) ==
  <<env.payload.mint, env.payload.side = "buy", env.payload.solAmount, env.payload.tokenAmount>>
PumpfunTick(env) ==
  <<env.payload.mint, env.payload.side = "buy", env.payload.tokenAmount, env.payload.solAmount>>

HandleTrade(env) ==
  CASE env.type = "trade" -> PumpfunTick(env)
    [] env.type = "swap"  -> PumpAmmTradeMetrics(env)
    [] OTHER -> None

-----------------------------------------------------------------------------
(* The browser: frontend/utils/tokenRealtime.ts.                            *)

\* resolveTrackedMint
BrowserMint(env) ==
  LET p == env.payload
  IN IF env.refs.mint /= None THEN env.refs.mint
     ELSE IF env.protocol = "pumpfun" THEN p.mint
     ELSE CASE p.base = Sol  -> p.quote
            [] p.quote = Sol -> p.base
            [] OTHER -> None

\* eventBelongsToMint
BelongsToMint(env, mint) ==
  \/ env.refs.mint = mint
  \/ env.protocol = "pumpfun" /\ env.payload.mint = mint
  \/ BrowserMint(env) = mint

\* buildTradeFields, as an activity; None when a field is missing.
BrowserTrade(env) ==
  LET p     == env.payload
      mint  == BrowserMint(env)
      other == OtherMint(mint, p)
      act(side, token, quote) ==
        IF None \in {mint, other, token, quote} THEN None
        ELSE Activity("trade", mint, side, "pool", other, <<token, quote>>)
  IN IF env.type = "trade"
     THEN IF None \in {p.tokenAmount, p.solAmount} THEN None
          ELSE Activity("trade", p.mint, p.side, p.market, Sol, <<p.tokenAmount, p.solAmount>>)
     ELSE IF mint = p.quote
     THEN CASE p.side = "sell"     -> act("buy", p.quoteOut, p.baseIn)
            [] p.side \in BuySides -> act("sell", p.quoteIn, p.baseOut)
            [] OTHER -> None
     ELSE CASE p.side = "sell"     -> act("sell", p.baseIn, p.quoteOut)
            [] p.side \in BuySides -> act("buy", p.baseOut, p.quoteIn)
            [] OTHER -> None

\* The create_pool and liquidity branches of buildRealtimeActivity.
BrowserPool(env) ==
  LET p    == env.payload
      mint == BrowserMint(env)
      amounts == IF p.kind = "withdraw" THEN PairAmounts(mint, p, p.baseOut, p.quoteOut)
                                        ELSE PairAmounts(mint, p, p.baseIn, p.quoteIn)
  IN IF mint = None \/ (p.kind = "create_pool" /\ None \in {p.baseIn, p.quoteIn}) THEN None
     ELSE Activity(p.kind, mint, None, "pool", OtherMint(mint, p), amounts)

BuildRealtimeActivity(env) ==
  LET p == env.payload
  IN CASE IsTradeEvent(env)      -> BrowserTrade(env)
       [] env.type = "create"  -> Activity("create", p.mint, None, p.market, None, <<None, None>>)
       [] env.type = "migrate" -> Activity("migrate", p.mint, None, "pool", Sol,
                                           <<p.tokenAmount, p.solAmount>>)
       [] OTHER -> BrowserPool(env)

-----------------------------------------------------------------------------
(* The state machine.                                                       *)

PipelineInit ==
  /\ serviceEvents = <<>> /\ topic = <<>> /\ lastID = 0 /\ backend = "up"
  /\ trades = {} /\ activities = {} /\ ticks = {}

\* HandleDecodedEvent: insert, publish to the token's topic and to "global";
\* the broadcaster takes the event from "global".
Store(env, fact, posted) ==
  /\ backend = "up"
  /\ Len(serviceEvents) < MaxLog
  /\ serviceEvents' = Append(serviceEvents, [env |-> env, fact |-> fact, posted |-> posted])
  /\ topic' = Append(topic, ExtractMint(env))
  /\ ticks' = IF HandleTrade(env) = None THEN ticks
              ELSE ticks \cup {<<Len(serviceEvents) + 1, HandleTrade(env)>>}
  /\ UNCHANGED <<lastID, backend, trades, activities>>

\* The parser forwards an event, and the JetStream consumer handles it.
Forward(f) ==
  /\ Forwarded(Message(f))
  /\ Store(EnvelopeFromProto(Message(f)), f, FALSE)

\* An envelope, and the same without refs.mint, without amounts, with another
\* side, or of another type.
Variants(env) ==
  {env, [env EXCEPT !.refs.mint = None], [env EXCEPT !.type = "burn"],
   [env EXCEPT !.payload.side = IF IsTradeEvent(env) THEN "swap" ELSE @],
   IF env.protocol = "pumpfun"
   THEN [env EXCEPT !.payload.tokenAmount = None]
   ELSE [env EXCEPT !.payload.baseIn = None, !.payload.baseOut = None]}

\* Envelopes that POST /internal/events gets: what the parser would send, or a
\* variant of it.
Posted(f) == Variants(EnvelopeFromProto(Message(f)))

\* IngestEvent: an event that DecodePayload does not know is refused.
Post(f) ==
  \E env \in Posted(f) : Decodable(env) /\ Store(env, f, TRUE)

\* Rows of the next batch.
Batch == {i \in 1..Len(serviceEvents) : lastID < i /\ i <= lastID + BatchSize}

\* ReplayBatch: the batch is one transaction; an event that cannot be
\* projected rolls it back, Run returns the error and main ends the process.
ReplayBatch ==
  /\ backend = "up"
  /\ Batch /= {}
  /\ \A i \in Batch : Projects(serviceEvents[i].env)
  /\ trades' = trades \cup {[id |-> i, row |-> TradeRow(serviceEvents[i].env)] :
                              i \in {j \in Batch : IsTradeEvent(serviceEvents[j].env)}}
  /\ activities' = activities
                     \cup {[id |-> i, row |-> ActivityRow(serviceEvents[i].env)] : i \in Batch}
  /\ lastID' = IF Len(serviceEvents) < lastID + BatchSize
               THEN Len(serviceEvents) ELSE lastID + BatchSize
  /\ UNCHANGED <<serviceEvents, topic, backend, ticks>>

ReplayFails ==
  /\ backend = "up"
  /\ \E i \in Batch : ~Projects(serviceEvents[i].env)
  /\ backend' = "down"
  /\ UNCHANGED <<serviceEvents, topic, lastID, trades, activities, ticks>>

\* The container restarts: the windows in memory are gone.
Restart ==
  /\ backend = "down"
  /\ backend' = "up" /\ ticks' = {}
  /\ UNCHANGED <<serviceEvents, topic, lastID, trades, activities>>

PipelineNext ==
  \/ \E f \in Facts : Forward(f) \/ Post(f)
  \/ ReplayBatch \/ ReplayFails \/ Restart

PipelineSpec == PipelineInit /\ [][PipelineNext]_pipelineVars

-----------------------------------------------------------------------------
(* Properties.                                                              *)

\* The projector ends the process (runner.go, log.Fatalf in main.go) only
\* over an event that came in through POST /internal/events: whatever the
\* parser sends can be projected, for both orientations of a pool and every
\* variant of the instructions.
OnlyPostedPoison ==
  backend = "down" => \E i \in Batch : serviceEvents[i].posted /\ ~Projects(serviceEvents[i].env)

\* The four resolvers name the same token: when the projector files an event
\* under a mint, it was published to that mint's topic, the page of the mint
\* takes it, and, for an event of the parser, the replay of the topic
\* (refs->>'mint') finds it.
ResolversAgree ==
  \A a \in activities :
    LET r == serviceEvents[a.id]
    IN /\ topic[a.id] = a.row.mint
       /\ BelongsToMint(r.env, a.row.mint)
       /\ ~r.posted => r.env.refs.mint = a.row.mint

\* The activity the browser makes of a live envelope and the row it will get
\* from the API after a reload are the same; only for a posted event may the
\* browser show nothing.
LiveRowMatchesStored ==
  \A a \in activities :
    LET live == BuildRealtimeActivity(serviceEvents[a.id].env)
    IN IF live = None THEN serviceEvents[a.id].posted ELSE live = a.row

\* What a trade row says happened to the token is what happened on chain: the
\* direction, which amount is the token's, and against which mint, through
\* the parser's encoding and the projector's decoding, also when the token is
\* the quote side of the pool.
RowsTellTheChain ==
  \A t \in trades :
    LET f == serviceEvents[t.id].fact
    IN ~serviceEvents[t.id].posted =>
         /\ t.row.mint = Token /\ t.row.quoteMint = f.other
         /\ t.row.token = "token" /\ t.row.quote = "quote"
         /\ t.row.side = IF f.venue = "curve" /\ f.exact THEN "buy_exact_sol_in" ELSE f.dir

\* The broadcaster counts a trade for the token, with the right amounts and the
\* right direction, and can count every trade the projector stores, except that
\* it counts a purchase on the
\* curve with buy_exact_sol_in as a sale (stats.go:362; the SQL windows count
\* it as neither, read_model.go and 0014_add_token_metrics.sql).
TicksTellTheChain ==
  /\ \A t \in ticks :
       LET f == serviceEvents[t[1]].fact
       IN ~serviceEvents[t[1]].posted =>
            /\ <<t[2][1], t[2][3], t[2][4]>> = <<Token, "token", "quote">>
            /\ ~(f.venue = "curve" /\ f.exact) => t[2][2] = (f.dir = "buy")
  /\ \A t \in trades : HandleTrade(serviceEvents[t.id].env) /= None

=============================================================================
