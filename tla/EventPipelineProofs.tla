------------------------ MODULE EventPipelineProofs -------------------------
(***************************************************************************)
(* Theorems about EventPipeline, for any batch size and any number of      *)
(* events, posted or parsed, in any order: the four readings of an event   *)
(* (topic, projector, broadcaster, browser) agree with one another and     *)
(* with what happened on chain.                                            *)
(*                                                                         *)
(* A row of the log is an envelope the parser sent or a variant of one     *)
(* that DecodePayload accepts (Rows); what was stored and counted is what  *)
(* the handlers make of the row with its id (StoreInv).  The theorems are  *)
(* then facts about single rows.                                           *)
(***************************************************************************)
EXTENDS EventPipeline, TLAPS

IsFunction(v) == v = [x \in DOMAIN v |-> v[x]]

(* The mints are different addresses; nil is no mint, no side, no amount,  *)
(* and neither a row nor a tick (a record or a tuple).                     *)
PipelineAssumption ==
  /\ Sol # Token /\ Sol # Other /\ Token # Other
  /\ None \notin {Sol, Token, Other} /\ None \notin {"buy", "sell", "token", "quote"} /\ ~IsFunction(None)
  /\ BatchSize \in Nat \ {0}

(* What a fact can be, field by field.                                     *)
LEMMA FactFields ==
  ASSUME NEW f \in Facts
  PROVE  \/ /\ f.venue = "curve" /\ f.what \in {"trade", "create", "migrate"}
            /\ f.inverted = FALSE /\ f.other = Sol
            /\ IF f.what = "trade" THEN f.dir \in {"buy", "sell"} ELSE f.dir = None
            /\ f.exact \in BOOLEAN /\ (f.exact => f.dir = "buy")
         \/ /\ f.venue = "pool" /\ f.what \in {"trade", "create_pool", "deposit", "withdraw"}
            /\ f.inverted \in BOOLEAN /\ f.other \in {Sol, Other}
            /\ IF f.what = "trade" THEN f.dir \in {"buy", "sell"} ELSE f.dir = None
            /\ f.exact \in BOOLEAN /\ (f.exact => (f.dir = "buy") /= f.inverted)
<1>1. CASE f \in CurveFacts
  <2>1. CASE f \in {Fact("trade", "curve", FALSE, "buy", x, Sol) : x \in BOOLEAN}
    <3>1. PICK x \in BOOLEAN : f = Fact("trade", "curve", FALSE, "buy", x, Sol)
      BY <2>1
    <3> QED
      BY <3>1 DEF Fact
  <2>2. CASE f \in {Fact(w, "curve", FALSE, None, FALSE, Sol) : w \in {"create", "migrate"}}
    <3>1. PICK w \in {"create", "migrate"} : f = Fact(w, "curve", FALSE, None, FALSE, Sol)
      BY <2>2
    <3> QED
      BY <3>1 DEF Fact
  <2>3. CASE f = Fact("trade", "curve", FALSE, "sell", FALSE, Sol)
    BY <2>3 DEF Fact
  <2> QED
    BY <1>1, <2>1, <2>2, <2>3 DEF CurveFacts
<1>2. CASE f \in PoolTrades
  <2>1. f.exact => (f.dir = "buy") /= f.inverted
    BY <1>2 DEF PoolTrades
  <2>2. PICK i \in BOOLEAN, d \in {"buy", "sell"}, x \in BOOLEAN, o \in {Sol, Other} :
          f = Fact("trade", "pool", i, d, x, o)
    BY <1>2 DEF PoolTrades
  <2>3. /\ f.what = "trade" /\ f.venue = "pool" /\ f.inverted = i /\ f.dir = d /\ f.exact = x
        /\ f.other = o
    BY <2>2 DEF Fact
  <2> QED
    BY <2>1, <2>3
<1>3. CASE f \in PoolChanges
  <2>1. PICK w \in {"create_pool", "deposit", "withdraw"}, i \in BOOLEAN, o \in {Sol, Other} :
          f = Fact(w, "pool", i, None, FALSE, o)
    BY <1>3 DEF PoolChanges, Fact
  <2>2. /\ f.what = w /\ f.venue = "pool" /\ f.inverted = i /\ f.dir = None /\ f.exact = FALSE
        /\ f.other = o
    BY <2>1 DEF Fact
  <2> QED
    BY <2>2
<1> QED
  BY <1>1, <1>2, <1>3 DEF Facts

(* A row that is stored is not nil, and neither is a tick.                 *)
LEMMA NoRecord ==
  ASSUME PipelineAssumption, NEW type, NEW mint, NEW side, NEW market, NEW quoteMint, NEW amounts
  PROVE  Activity(type, mint, side, market, quoteMint, amounts) # None
BY DEF PipelineAssumption, IsFunction, Activity

LEMMA NoTuple ==
  ASSUME PipelineAssumption, NEW a, NEW b, NEW c, NEW d
  PROVE  <<a, b, c, d>> # None
BY DEF PipelineAssumption, IsFunction


-----------------------------------------------------------------------------
(* What EnvelopeFromProto makes of the parser's messages.                  *)
Env(protocol, type, mint, base, quote, payload) ==
  [protocol |-> protocol, type |-> type,
   refs |-> [mint |-> mint, base |-> base, quote |-> quote], payload |-> payload]

LEMMA CurveMessage ==
  ASSUME PipelineAssumption, NEW f \in Facts, f.venue = "curve"
  PROVE  EnvelopeFromProto(Message(f)) =
           Env("pumpfun", f.what, Token, None, None,
               [kind |-> f.what, mint |-> Token,
                side |-> CurvePayload(f).side,
                market |-> IF f.what = "migrate" THEN "pool" ELSE "curve",
                tokenAmount |-> IF f.what = "create" THEN None ELSE "token",
                solAmount   |-> IF f.what = "create" THEN None ELSE "quote"])
<1> DEFINE p == CurvePayload(f)
<1>1. f.what \in {"trade", "create", "migrate"} /\ (f.what # "trade" => f.dir = None)
  BY FactFields
<1>2. EnvelopeFromProto(Message(f)) =
        Env("pumpfun", f.what, Token, None, None, PayloadFromProto(p))
  BY <1>1 DEF EnvelopeFromProto, Message, ProtocolFromProto, EventTypeFromProto, RefsFromProto, Env
<1>3. /\ p.kind = f.what /\ p.mint = Token
      /\ p.market = IF f.what = "migrate" THEN "pool" ELSE "curve"
      /\ p.tokenAmount = IF f.what = "create" THEN None ELSE "token"
      /\ p.solAmount   = IF f.what = "create" THEN None ELSE "quote"
      /\ f.what # "trade" => p.side = None
  <2>1. p.kind = f.what /\ p.mint = Token
    BY DEF CurvePayload
  <2>2. p.market = IF f.what = "migrate" THEN "pool" ELSE "curve"
    BY DEF CurvePayload
  <2>3. /\ p.tokenAmount = IF f.what = "create" THEN None ELSE "token"
        /\ p.solAmount   = IF f.what = "create" THEN None ELSE "quote"
    BY DEF CurvePayload
  <2>4. f.what # "trade" => p.side = None
    <3>1. None # "buy" /\ None # "sell"
      BY DEF PipelineAssumption
    <3> QED
      BY <1>1, <3>1 DEF CurvePayload
  <2> QED
    BY <2>1, <2>2, <2>3, <2>4
<1>4. PayloadFromProto(p) = [kind |-> f.what, mint |-> Token,
                side |-> p.side,
                market |-> IF f.what = "migrate" THEN "pool" ELSE "curve",
                tokenAmount |-> IF f.what = "create" THEN None ELSE "token",
                solAmount   |-> IF f.what = "create" THEN None ELSE "quote"]
  <2> HIDE DEF p
  <2>1. CASE f.what = "trade"
    BY <1>3, <2>1 DEF PayloadFromProto, PumpfunTradeFromProto
  <2>2. CASE f.what = "create"
    BY <1>3, <2>2 DEF PayloadFromProto, PumpfunCreateFromProto
  <2>3. CASE f.what = "migrate"
    BY <1>3, <2>3 DEF PayloadFromProto, PumpfunMigrateFromProto
  <2> QED
    BY <1>1, <2>1, <2>2, <2>3
<1> QED
  BY <1>2, <1>4

LEMMA PoolMessage ==
  ASSUME PipelineAssumption, NEW f \in Facts, f.venue = "pool"
  PROVE  EnvelopeFromProto(Message(f)) =
           Env("pumpamm", PoolPayload(f).kind, ParserMint(BaseMint(f), QuoteMint(f)),
               BaseMint(f), QuoteMint(f), PoolPayload(f))
<1> DEFINE p == PoolPayload(f)
<1>1. f.what \in {"trade", "create_pool", "deposit", "withdraw"}
  BY FactFields
<1>2. p.kind \in {"swap", "create_pool", "deposit", "withdraw"}
  BY <1>1 DEF PoolPayload
<1>3. EnvelopeFromProto(Message(f)) =
        Env("pumpamm", p.kind, ParserMint(BaseMint(f), QuoteMint(f)),
            BaseMint(f), QuoteMint(f), PayloadFromProto(p))
  <2>1. f.venue # "curve"
    OBVIOUS
  <2> HIDE DEF p
  <2>2. Message(f) = 
        [protocol |-> "pumpamm", type |-> p.kind,
        refs |-> [mint |-> ParserMint(BaseMint(f), QuoteMint(f)),
                  base |-> BaseMint(f), quote |-> QuoteMint(f)],
        payload |-> p]
    BY <2>1 DEF Message, p
  <2> QED
    BY <1>2, <2>2 DEF EnvelopeFromProto, ProtocolFromProto, EventTypeFromProto, RefsFromProto, Env
<1>4. PayloadFromProto(p) = p
  <2>1. CASE f.what = "trade"
    BY <2>1 DEF PayloadFromProto, PumpAmmSwapFromProto, PoolPayload
  <2>2. CASE f.what = "create_pool"
    BY <2>2 DEF PayloadFromProto, PumpAmmCreatePoolFromProto, PoolPayload
  <2>3. CASE f.what \in {"deposit", "withdraw"}
    BY <2>3 DEF PayloadFromProto, PumpAmmLiquidityFromProto, PoolPayload
  <2> QED
    BY <1>1, <2>1, <2>2, <2>3
<1> QED
  BY <1>3, <1>4

-----------------------------------------------------------------------------
(* The rows that can be in the log: of the JetStream consumer, and of the  *)
(* POST handler, which DecodePayload has accepted.                         *)
ParsedRows ==
  {[env |-> EnvelopeFromProto(Message(f)), fact |-> f, posted |-> FALSE] :
     f \in {g \in Facts : Forwarded(Message(g))}}

PostedRows ==
  UNION {{[env |-> env, fact |-> f, posted |-> TRUE] : env \in {e \in Posted(f) : Decodable(e)}} :
           f \in Facts}

Rows == ParsedRows \union PostedRows

(* What the resolvers rely on, whoever sent the event.                     *)
CurveShape(env) ==
  /\ env.protocol = "pumpfun" /\ env.type \in {"trade", "create", "migrate"}
  /\ env.refs.mint \in {Token, None}
  /\ env.payload.mint = Token
  /\ env.type = "migrate" => env.payload.market = "pool"

PoolShape(env) ==
  /\ env.protocol = "pumpamm" /\ env.type \in {"swap", "create_pool", "deposit", "withdraw"}
  /\ env.refs.mint \in {Token, None}
  /\ env.payload.kind = env.type
  /\ \/ env.payload.base = Token /\ env.payload.quote \in {Sol, Other}
     \/ env.payload.quote = Token /\ env.payload.base \in {Sol, Other}

(* Both kinds of rows have one of the two shapes.                          *)
LEMMA MessageShape ==
  ASSUME PipelineAssumption, NEW f \in Facts
  PROVE  LET env == EnvelopeFromProto(Message(f)) IN CurveShape(env) \/ PoolShape(env)
<1>1. CASE f.venue = "curve"
  <2>1. f.what \in {"trade", "create", "migrate"}
    BY <1>1, FactFields
  <2> QED
    BY <1>1, <2>1, CurveMessage DEF Env, CurveShape
<1>2. CASE f.venue = "pool"
  <2>1. /\ f.what \in {"trade", "create_pool", "deposit", "withdraw"}
        /\ f.inverted \in BOOLEAN /\ f.other \in {Sol, Other}
    BY <1>2, FactFields
  <2>2. /\ PoolPayload(f).kind \in {"swap", "create_pool", "deposit", "withdraw"}
        /\ PoolPayload(f).base = BaseMint(f) /\ PoolPayload(f).quote = QuoteMint(f)
    BY <2>1 DEF PoolPayload
  <2>3. ParserMint(BaseMint(f), QuoteMint(f)) \in {Token, None}
    BY <2>1 DEF ParserMint, BaseMint, QuoteMint, PipelineAssumption
  <2> QED
    BY <1>2, <2>1, <2>2, <2>3, PoolMessage DEF Env, PoolShape, BaseMint, QuoteMint
<1> QED
  BY <1>1, <1>2, FactFields

LEMMA PostedShape ==
  ASSUME PipelineAssumption, NEW f \in Facts, NEW env \in Posted(f), Decodable(env)
  PROVE  CurveShape(env) \/ PoolShape(env)
<1> DEFINE e == EnvelopeFromProto(Message(f))
<1>1. CurveShape(e) \/ PoolShape(e)
  BY MessageShape
<1>2. \/ f.venue = "curve" /\ \E p : e = Env("pumpfun", f.what, Token, None, None,
          [kind |-> f.what, mint |-> Token, side |-> p.side, market |-> p.market,
           tokenAmount |-> p.tokenAmount, solAmount |-> p.solAmount])
      \/ f.venue = "pool" /\ \E p, mint : e = Env("pumpamm", p.kind, mint, p.base, p.quote,
          [kind |-> p.kind, side |-> p.side, base |-> p.base, quote |-> p.quote,
           baseIn |-> p.baseIn, baseOut |-> p.baseOut,
           quoteIn |-> p.quoteIn, quoteOut |-> p.quoteOut])
  <2>1. CASE f.venue = "curve"
    <3> DEFINE p == [side |-> CurvePayload(f).side,
                market |-> IF f.what = "migrate" THEN "pool" ELSE "curve",
                tokenAmount |-> IF f.what = "create" THEN None ELSE "token",
                solAmount   |-> IF f.what = "create" THEN None ELSE "quote"]
    <3>1. e = Env("pumpfun", f.what, Token, None, None,
          [kind |-> f.what, mint |-> Token, side |-> p.side, market |-> p.market,
           tokenAmount |-> p.tokenAmount, solAmount |-> p.solAmount])
      BY <2>1, CurveMessage
    <3> QED
      BY <2>1, <3>1
  <2>2. CASE f.venue = "pool"
    <3> DEFINE p == PoolPayload(f)
               m == ParserMint(BaseMint(f), QuoteMint(f))
    <3>1. p = [kind |-> p.kind, side |-> p.side, base |-> BaseMint(f), quote |-> QuoteMint(f),
           baseIn |-> p.baseIn, baseOut |-> p.baseOut,
           quoteIn |-> p.quoteIn, quoteOut |-> p.quoteOut]
      BY DEF PoolPayload
    <3>2. e = Env("pumpamm", p.kind, m, BaseMint(f), QuoteMint(f), p)
      BY <2>2, PoolMessage
    <3> HIDE DEF p, m, e
    <3>3. p.base = BaseMint(f) /\ p.quote = QuoteMint(f)
      BY <3>1
    <3>4. e = Env("pumpamm", p.kind, m, p.base, p.quote, [kind |-> p.kind, side |-> p.side, base |-> p.base, quote |-> p.quote,
           baseIn |-> p.baseIn, baseOut |-> p.baseOut,
           quoteIn |-> p.quoteIn, quoteOut |-> p.quoteOut])
      BY <3>1, <3>2, <3>3
    <3> QED
      BY <2>2, <3>4
  <2> QED
    BY <2>1, <2>2, FactFields
<1> HIDE DEF e
<1>3. env \in Variants(e)
  BY DEF Posted, e
<1>4. CASE env = e
  BY <1>1, <1>4
<1>5. CASE env = [e EXCEPT !.refs.mint = None]
  BY <1>1, <1>2, <1>5 DEF Env, CurveShape, PoolShape
<1>6. CASE env = [e EXCEPT !.type = "burn"]
  BY <1>2, <1>6 DEF Env, Decodable
<1>7. CASE env = [e EXCEPT !.payload.side = IF IsTradeEvent(e) THEN "swap" ELSE @]
  BY <1>1, <1>2, <1>7 DEF Env, CurveShape, PoolShape
<1>8. CASE env = IF e.protocol = "pumpfun"
                 THEN [e EXCEPT !.payload.tokenAmount = None]
                 ELSE [e EXCEPT !.payload.baseIn = None, !.payload.baseOut = None]
  BY <1>1, <1>2, <1>8 DEF Env, CurveShape, PoolShape
<1> QED
  BY <1>3, <1>4, <1>5, <1>6, <1>7, <1>8 DEF Variants

LEMMA RowShape ==
  ASSUME PipelineAssumption, NEW r \in Rows
  PROVE  /\ CurveShape(r.env) \/ PoolShape(r.env)
         /\ r.posted \in BOOLEAN /\ r.fact \in Facts
         /\ ~r.posted => /\ r.env = EnvelopeFromProto(Message(r.fact))
                         /\ Forwarded(Message(r.fact))
<1>1. CASE r \in ParsedRows
  <2>1. PICK f \in Facts : /\ Forwarded(Message(f))
                           /\ r = [env |-> EnvelopeFromProto(Message(f)), fact |-> f, posted |-> FALSE]
    BY <1>1 DEF ParsedRows
  <2>2. r.env = EnvelopeFromProto(Message(f)) /\ r.fact = f /\ r.posted = FALSE
    BY <2>1
  <2> QED
    BY <2>1, <2>2, MessageShape
<1>2. CASE r \in PostedRows
  <2>1. PICK f \in Facts : \E env \in Posted(f) :
          Decodable(env) /\ r = [env |-> env, fact |-> f, posted |-> TRUE]
    BY <1>2 DEF PostedRows
  <2>2. r.env \in Posted(f) /\ Decodable(r.env) /\ r.fact = f /\ r.posted = TRUE
    BY <2>1
  <2> QED
    BY <2>2, PostedShape
<1> QED
  BY <1>1, <1>2 DEF Rows

-----------------------------------------------------------------------------
(* The resolvers on a pool event: extractMint, the two trackedMint and     *)
(* resolveTrackedMint.                                                     *)
LEMMA PoolMints ==
  ASSUME PipelineAssumption, NEW env, PoolShape(env)
  PROVE  /\ TrackedMint(env) \in {Token, None} /\ StatsMint(env) = TrackedMint(env)
         /\ BrowserMint(env) = TrackedMint(env)
         /\ TrackedMint(env) # None => ExtractMint(env) = Token
         /\ env.refs.mint # None => TrackedMint(env) = env.refs.mint
<1> DEFINE p == env.payload
<1>1. /\ Token # Sol /\ Token # None /\ Sol # None /\ Sol # Other /\ Other # None
      /\ env.protocol # "pumpfun" /\ env.refs.mint \in {Token, None}
      /\ \/ p.base = Token /\ p.quote \in {Sol, Other}
         \/ p.quote = Token /\ p.base \in {Sol, Other}
  BY DEF PoolShape, PipelineAssumption
<1>2. CASE env.refs.mint = Token
  BY <1>1, <1>2 DEF TrackedMint, StatsMint, BrowserMint, ExtractMint
<1>3. CASE env.refs.mint = None
  <2>1. CASE p.base = Sol
    BY <1>1, <1>3, <2>1 DEF TrackedMint, StatsMint, BrowserMint, ExtractMint, ResolveNonSolMint
  <2>2. CASE p.base # Sol /\ p.quote = Sol
    BY <1>1, <1>3, <2>2 DEF TrackedMint, StatsMint, BrowserMint, ExtractMint, ResolveNonSolMint
  <2>3. CASE p.base # Sol /\ p.quote # Sol
    BY <1>1, <1>3, <2>3 DEF TrackedMint, StatsMint, BrowserMint, ExtractMint, ResolveNonSolMint
  <2> QED
    BY <2>1, <2>2, <2>3
<1> QED
  BY <1>1, <1>2, <1>3

(* ... and on an event of the curve, which names its mint.                 *)
LEMMA CurveMints ==
  ASSUME PipelineAssumption, NEW env, CurveShape(env)
  PROVE  ExtractMint(env) = Token /\ BrowserMint(env) = Token
<1>1. Token # None /\ env.refs.mint \in {Token, None}
  BY DEF CurveShape, PipelineAssumption
<1>2. CASE env.refs.mint = Token
  BY <1>1, <1>2 DEF BrowserMint, ExtractMint
<1>3. CASE env.refs.mint = None
  BY <1>1, <1>3 DEF CurveShape, BrowserMint, ExtractMint
<1> QED
  BY <1>1, <1>2, <1>3

(* The browser makes of a curve event what the projector stores.           *)
LEMMA CurveRow ==
  ASSUME PipelineAssumption, NEW env, CurveShape(env), ActivityRow(env) # None
  PROVE  ActivityRow(env).mint = Token /\ BuildRealtimeActivity(env) = ActivityRow(env)
<1> USE DEF CurveShape, IsTradeEvent
<1>1. CASE env.type = "trade"
  BY <1>1 DEF ActivityRow, TradeRow, BuildPumpfunTrade, BuildRealtimeActivity, BrowserTrade, Activity
<1>2. CASE env.type = "create"
  BY <1>2 DEF ActivityRow, BuildRealtimeActivity, Activity
<1>3. CASE env.type = "migrate"
  BY <1>3 DEF ActivityRow, BuildRealtimeActivity, Activity
<1> QED
  BY <1>1, <1>2, <1>3

(* A swap that can be stored is shown and counted as it is stored, for     *)
(* both sides of the pool and each variant of the instruction.             *)
LEMMA SwapRow ==
  ASSUME PipelineAssumption, NEW env, PoolShape(env), env.type = "swap", TradeRow(env) # None
  PROVE  /\ TradeRow(env).mint = Token /\ TrackedMint(env) = Token
         /\ BrowserTrade(env) = ActivityRow(env)
         /\ PumpAmmTradeMetrics(env) # None
<1> DEFINE p == env.payload
           t == TradeRow(env)
<1>1. /\ TrackedMint(env) \in {Token, None} /\ StatsMint(env) = TrackedMint(env)
      /\ BrowserMint(env) = TrackedMint(env)
  BY PoolMints
<1>2. TradeRow(env) = BuildPumpAmmTrade(env)
  BY DEF TradeRow
<1>3. TrackedMint(env) = Token
  BY <1>1, <1>2 DEF BuildPumpAmmTrade
<1>4. \/ p.base = Token /\ p.quote # Token /\ OtherMint(Token, p) = p.quote /\ p.quote # None
      \/ p.quote = Token /\ p.base # Token /\ OtherMint(Token, p) = p.base /\ p.base # None
  <2>1. \/ p.base = Token /\ p.quote # Token /\ p.quote # None
        \/ p.quote = Token /\ p.base # Token /\ p.base # None
    <3>1. Token # None /\ Sol # None /\ Other # None /\ Token # Sol /\ Token # Other
      BY DEF PipelineAssumption
    <3>2. \/ p.base = Token /\ p.quote \in {Sol, Other}
          \/ p.quote = Token /\ p.base \in {Sol, Other}
      BY DEF PoolShape
    <3> QED
      BY <3>1, <3>2
  <2>2. CASE p.base = Token /\ p.quote # Token
    BY <2>1, <2>2 DEF OtherMint
  <2>3. CASE p.quote = Token /\ p.base # Token
    BY <2>1, <2>3 DEF OtherMint
  <2> QED
    BY <2>1, <2>2, <2>3
<1>5. PICK side, token, quote, quoteMint :
        /\ t = [mint |-> Token, side |-> side, token |-> token, quote |-> quote,
                quoteMint |-> quoteMint, market |-> "pool"]
        /\ token # None /\ quote # None /\ quoteMint = OtherMint(Token, p)
        /\ \/ p.quote = Token /\ p.side = "sell" /\ side = "buy" /\ token = p.quoteOut /\ quote = p.baseIn
           \/ p.quote = Token /\ p.side \in BuySides /\ side = "sell" /\ token = p.quoteIn /\ quote = p.baseOut
           \/ p.quote # Token /\ p.side = "sell" /\ side = "sell" /\ token = p.baseIn /\ quote = p.quoteOut
           \/ p.quote # Token /\ p.side \in BuySides /\ side = "buy" /\ token = p.baseOut /\ quote = p.quoteIn
  <2> DEFINE row(token, quote) ==
        [mint |-> Token, side |-> TokenSide(Token = p.quote, p.side), token |-> token, quote |-> quote,
         quoteMint |-> OtherMint(Token, p), market |-> "pool"]
  <2>1. CASE p.quote = Token /\ p.side = "sell"
    <3>1. t = row(p.quoteOut, p.baseIn) /\ p.quoteOut # None /\ p.baseIn # None
      BY <1>2, <1>3, <1>4, <2>1 DEF BuildPumpAmmTrade, BuySides
    <3>2. TokenSide(Token = p.quote, p.side) = "buy"
      BY <2>1 DEF TokenSide
    <3> QED
      BY <2>1, <3>1, <3>2, ZenonT(40)
  <2>2. CASE p.quote = Token /\ p.side \in BuySides
    <3>1. t = row(p.quoteIn, p.baseOut) /\ p.quoteIn # None /\ p.baseOut # None
      BY <1>2, <1>3, <1>4, <2>2 DEF BuildPumpAmmTrade, BuySides
    <3>2. TokenSide(Token = p.quote, p.side) = "sell"
      BY <2>2 DEF TokenSide, BuySides
    <3> QED
      BY <2>2, <3>1, <3>2, ZenonT(40)
  <2>3. CASE p.quote # Token /\ p.side = "sell"
    <3>1. t = row(p.baseIn, p.quoteOut) /\ p.baseIn # None /\ p.quoteOut # None
      BY <1>2, <1>3, <1>4, <2>3 DEF BuildPumpAmmTrade, BuySides
    <3>2. TokenSide(Token = p.quote, p.side) = "sell"
      BY <2>3 DEF TokenSide
    <3> QED
      BY <2>3, <3>1, <3>2, ZenonT(40)
  <2>4. CASE p.quote # Token /\ p.side \in BuySides
    <3>1. t = row(p.baseOut, p.quoteIn) /\ p.baseOut # None /\ p.quoteIn # None
      BY <1>2, <1>3, <1>4, <2>4 DEF BuildPumpAmmTrade, BuySides
    <3>2. TokenSide(Token = p.quote, p.side) = "buy"
      BY <2>4 DEF TokenSide, BuySides
    <3> QED
      BY <2>4, <3>1, <3>2, ZenonT(40)
  <2>5. p.side = "sell" \/ p.side \in BuySides
    BY <1>2 DEF BuildPumpAmmTrade
  <2> QED
    BY <2>1, <2>2, <2>3, <2>4, <2>5
<1>6. ActivityRow(env) = Activity("trade", Token, side, "pool", quoteMint, <<token, quote>>)
  BY <1>5 DEF ActivityRow, IsTradeEvent
<1>7. BrowserTrade(env) = Activity("trade", Token, side, "pool", quoteMint, <<token, quote>>)
  <2>1. BrowserMint(env) = Token /\ OtherMint(Token, p) # None /\ Token # None /\ env.type # "trade"
    BY <1>1, <1>3, <1>4 DEF PipelineAssumption
  <2> QED
    BY <1>5, <2>1 DEF BrowserTrade, BuySides
<1>8. PumpAmmTradeMetrics(env) = <<Token, side = "buy", token, quote>>
  <2>1. StatsMint(env) = Token /\ Token # None
    BY <1>1, <1>3 DEF PipelineAssumption
  <2> QED
    BY <1>5, <2>1 DEF PumpAmmTradeMetrics, BuySides
<1> QED
  BY <1>3, <1>5, <1>6, <1>7, <1>8, NoTuple

(* A new pool or a change of its liquidity; the browser needs both amounts *)
(* of a new pool.                                                          *)
LEMMA PoolChangeRow ==
  ASSUME PipelineAssumption, NEW env, PoolShape(env), env.type # "swap", ActivityRow(env) # None
  PROVE  /\ TrackedMint(env) = Token /\ ActivityRow(env).mint = Token
         /\ BuildRealtimeActivity(env) \in {ActivityRow(env), None}
         /\ (env.payload.kind = "create_pool" => None \notin {env.payload.baseIn, env.payload.quoteIn})
              => BuildRealtimeActivity(env) = ActivityRow(env)
<1>1. TrackedMint(env) \in {Token, None} /\ BrowserMint(env) = TrackedMint(env)
  BY PoolMints
<1>2. /\ env.type \in {"create_pool", "deposit", "withdraw"}
  BY DEF PoolShape
<1>3. ActivityRow(env) = PoolActivity(env) /\ BuildRealtimeActivity(env) = BrowserPool(env)
  BY <1>2 DEF ActivityRow, BuildRealtimeActivity, IsTradeEvent
<1>4. TrackedMint(env) = Token /\ BrowserMint(env) = Token
  BY <1>1, <1>3 DEF PoolActivity
<1>5. PoolActivity(env).mint = Token
  BY <1>4 DEF PoolActivity, PipelineAssumption, Activity
<1>6. BrowserPool(env) \in {PoolActivity(env), None}
  BY <1>4 DEF PoolActivity, BrowserPool
<1>7. (env.payload.kind = "create_pool" => None \notin {env.payload.baseIn, env.payload.quoteIn})
              => BrowserPool(env) = PoolActivity(env)
  <2>1. Token # None
    BY DEF PipelineAssumption
  <2> QED
    BY <1>4, <2>1 DEF PoolActivity, BrowserPool
<1> QED
  BY <1>3, <1>4, <1>5, <1>6, <1>7

(* Any row: the resolvers agree and the browser shows what is stored.      *)
LEMMA RowAgrees ==
  ASSUME PipelineAssumption, NEW r \in Rows, ActivityRow(r.env) # None
  PROVE  /\ ActivityRow(r.env).mint = Token /\ ExtractMint(r.env) = Token
         /\ BelongsToMint(r.env, Token)
         /\ BuildRealtimeActivity(r.env) \in {ActivityRow(r.env), None}
<1>1. CASE CurveShape(r.env)
  BY <1>1, CurveRow, CurveMints DEF BelongsToMint
<1>2. CASE PoolShape(r.env) /\ r.env.type = "swap"
  <2>1. TradeRow(r.env) # None /\ BuildRealtimeActivity(r.env) = BrowserTrade(r.env)
        /\ ActivityRow(r.env).mint = TradeRow(r.env).mint
    BY <1>2 DEF ActivityRow, BuildRealtimeActivity, IsTradeEvent, Activity
  <2> QED
    BY <1>2, <2>1, SwapRow, PoolMints DEF BelongsToMint, PipelineAssumption
<1>3. CASE PoolShape(r.env) /\ r.env.type # "swap"
  BY <1>3, PoolChangeRow, PoolMints DEF BelongsToMint, PipelineAssumption
<1> QED
  BY <1>1, <1>2, <1>3, RowShape

(* A row that the projector files as a trade is counted by the broadcaster. *)
LEMMA TradeIsCounted ==
  ASSUME PipelineAssumption, NEW r \in Rows, IsTradeEvent(r.env), TradeRow(r.env) # None
  PROVE  HandleTrade(r.env) # None
<1>1. CASE r.env.type = "trade"
  BY <1>1, NoTuple DEF HandleTrade, PumpfunTick
<1>2. CASE r.env.type = "swap"
  <2>1. PoolShape(r.env)
    BY <1>2, RowShape DEF CurveShape
  <2> QED
    BY <1>2, <2>1, SwapRow DEF HandleTrade
<1> QED
  BY <1>1, <1>2 DEF IsTradeEvent

-----------------------------------------------------------------------------
(* The parser's own trades: what is stored and counted of them is what     *)
(* happened on chain.                                                      *)
LEMMA ParsedCurveTrade ==
  ASSUME PipelineAssumption, NEW f \in Facts, f.venue = "curve", f.what = "trade"
  PROVE  LET env == EnvelopeFromProto(Message(f))
             side == IF f.exact THEN "buy_exact_sol_in" ELSE f.dir
         IN  /\ TradeRow(env) = [mint |-> Token, side |-> side, token |-> "token", quote |-> "quote",
                                 quoteMint |-> Sol, market |-> "curve"]
             /\ HandleTrade(env) = <<Token, side = "buy", "token", "quote">>
<1> DEFINE env == EnvelopeFromProto(Message(f))
           side == IF f.exact THEN "buy_exact_sol_in" ELSE f.dir
<1>1. f.dir \in {"buy", "sell"} /\ f.exact \in BOOLEAN /\ (f.exact => f.dir = "buy")
  BY FactFields
<1>2. CurvePayload(f).side = side
  BY <1>1 DEF CurvePayload
<1>3. env = Env("pumpfun", "trade", Token, None, None,
               [kind |-> "trade", mint |-> Token, side |-> side, market |-> "curve",
                tokenAmount |-> "token", solAmount |-> "quote"])
  BY <1>2, CurveMessage
<1> HIDE DEF env, side
<1>4. env.type = "trade"
  BY <1>3 DEF Env
<1>5. TradeRow(env) = [mint |-> Token, side |-> side, token |-> "token", quote |-> "quote",
                       quoteMint |-> Sol, market |-> "curve"]
  <2>1. None \notin {"token", "quote"}
    BY DEF PipelineAssumption
  <2> QED
    BY <1>3, <1>4, <2>1 DEF Env, TradeRow, BuildPumpfunTrade
<1>6. HandleTrade(env) = <<Token, side = "buy", "token", "quote">>
  BY <1>3, <1>4 DEF Env, HandleTrade, PumpfunTick
<1> QED
  BY <1>5, <1>6 DEF env, side

(* Only pools against SOL are forwarded.                                   *)
LEMMA ForwardedPool ==
  ASSUME PipelineAssumption, NEW f \in Facts, f.venue = "pool", Forwarded(Message(f))
  PROVE  f.other = Sol /\ ParserMint(BaseMint(f), QuoteMint(f)) = Token
<1>1. f.other \in {Sol, Other} /\ f.inverted \in BOOLEAN
  BY FactFields
<1>2. ParserMint(BaseMint(f), QuoteMint(f)) = Token
  BY DEF Forwarded, Message
<1>3. f.other # Other
  BY <1>1, <1>2 DEF ParserMint, BaseMint, QuoteMint, PipelineAssumption
<1> QED
  BY <1>1, <1>2, <1>3

(* Of a swap the parser says what the pool took and gave; the projector    *)
(* turns it back into the token's side of it.                              *)
LEMMA ParsedSwap ==
  ASSUME PipelineAssumption, NEW f \in Facts, f.venue = "pool", f.what = "trade",
         Forwarded(Message(f))
  PROVE  LET env == EnvelopeFromProto(Message(f))
         IN  /\ TradeRow(env) = [mint |-> Token, side |-> f.dir, token |-> "token", quote |-> "quote",
                                 quoteMint |-> Sol, market |-> "pool"]
             /\ HandleTrade(env) = <<Token, f.dir = "buy", "token", "quote">>
<1> DEFINE env == EnvelopeFromProto(Message(f))
           p == PoolPayload(f)
<1>1. f.dir \in {"buy", "sell"} /\ f.exact \in BOOLEAN /\ f.inverted \in BOOLEAN /\ f.other = Sol
  BY FactFields, ForwardedPool
<1>2. env = Env("pumpamm", "swap", Token, BaseMint(f), QuoteMint(f), p)
  BY PoolMessage, ForwardedPool DEF PoolPayload
<1>3. /\ p.base = BaseMint(f) /\ p.quote = QuoteMint(f)
      /\ p.side = SwapSide(f)
      /\ BuysBase(f) => p.baseOut = BaseAmount(f) /\ p.quoteIn = QuoteAmount(f)
      /\ ~BuysBase(f) => p.baseIn = BaseAmount(f) /\ p.quoteOut = QuoteAmount(f)
  BY DEF PoolPayload
<1>4. BuysBase(f) <=> ((f.dir = "buy" /\ ~f.inverted) \/ (f.dir = "sell" /\ f.inverted))
  BY <1>1 DEF BuysBase
<1> HIDE DEF env, p
<1>5. env.type = "swap" /\ env.payload = p /\ TrackedMint(env) = Token /\ StatsMint(env) = Token
  BY <1>2 DEF Env, TrackedMint, StatsMint, PipelineAssumption
<1>6. None \notin {Token, "token", "quote"} /\ Sol # Token
  BY DEF PipelineAssumption
<1>7. CASE f.inverted /\ f.dir = "buy"
  <2>1. p.baseIn = "quote" /\ p.quoteOut = "token"
    BY <1>1, <1>3, <1>4, <1>7 DEF BaseAmount, QuoteAmount
  <2>2. p.base = Sol /\ p.quote = Token /\ p.side \in {"sell"}
    BY <1>1, <1>3, <1>4, <1>7 DEF BaseMint, QuoteMint, SwapSide, BuySides
  <2>3. TokenSide(Token = p.quote, p.side) = f.dir
    BY <1>6, <1>7, <2>2 DEF TokenSide, BuySides
  <2>4. TradeRow(env) = [mint |-> Token, side |-> f.dir, token |-> "token", quote |-> "quote",
                         quoteMint |-> Sol, market |-> "pool"]
    BY <1>5, <1>6, <2>1, <2>2, <2>3 DEF TradeRow, BuildPumpAmmTrade, BuySides
  <2>5. HandleTrade(env) = <<Token, f.dir = "buy", "token", "quote">>
    BY <1>5, <1>6, <1>7, <2>1, <2>2 DEF HandleTrade, PumpAmmTradeMetrics, BuySides
  <2> QED
    BY <2>4, <2>5 DEF env
<1>8. CASE f.inverted /\ f.dir = "sell"
  <2>1. p.baseOut = "quote" /\ p.quoteIn = "token"
    BY <1>1, <1>3, <1>4, <1>8 DEF BaseAmount, QuoteAmount
  <2>2. p.base = Sol /\ p.quote = Token /\ p.side \in BuySides
    BY <1>1, <1>3, <1>4, <1>8 DEF BaseMint, QuoteMint, SwapSide, BuySides
  <2>3. TokenSide(Token = p.quote, p.side) = f.dir
    BY <1>6, <1>8, <2>2 DEF TokenSide, BuySides
  <2>4. TradeRow(env) = [mint |-> Token, side |-> f.dir, token |-> "token", quote |-> "quote",
                         quoteMint |-> Sol, market |-> "pool"]
    BY <1>5, <1>6, <2>1, <2>2, <2>3 DEF TradeRow, BuildPumpAmmTrade, BuySides
  <2>5. HandleTrade(env) = <<Token, f.dir = "buy", "token", "quote">>
    BY <1>5, <1>6, <1>8, <2>1, <2>2 DEF HandleTrade, PumpAmmTradeMetrics, BuySides
  <2> QED
    BY <2>4, <2>5 DEF env
<1>9. CASE ~f.inverted /\ f.dir = "buy"
  <2>1. p.baseOut = "token" /\ p.quoteIn = "quote"
    BY <1>1, <1>3, <1>4, <1>9 DEF BaseAmount, QuoteAmount
  <2>2. p.base = Token /\ p.quote = Sol /\ p.side \in BuySides
    BY <1>1, <1>3, <1>4, <1>9 DEF BaseMint, QuoteMint, SwapSide, BuySides
  <2>3. TokenSide(Token = p.quote, p.side) = f.dir
    BY <1>6, <1>9, <2>2 DEF TokenSide, BuySides
  <2>4. TradeRow(env) = [mint |-> Token, side |-> f.dir, token |-> "token", quote |-> "quote",
                         quoteMint |-> Sol, market |-> "pool"]
    BY <1>5, <1>6, <2>1, <2>2, <2>3 DEF TradeRow, BuildPumpAmmTrade, BuySides
  <2>5. HandleTrade(env) = <<Token, f.dir = "buy", "token", "quote">>
    BY <1>5, <1>6, <1>9, <2>1, <2>2 DEF HandleTrade, PumpAmmTradeMetrics, BuySides
  <2> QED
    BY <2>4, <2>5 DEF env
<1>10. CASE ~f.inverted /\ f.dir = "sell"
  <2>1. p.baseIn = "token" /\ p.quoteOut = "quote"
    BY <1>1, <1>3, <1>4, <1>10 DEF BaseAmount, QuoteAmount
  <2>2. p.base = Token /\ p.quote = Sol /\ p.side \in {"sell"}
    BY <1>1, <1>3, <1>4, <1>10 DEF BaseMint, QuoteMint, SwapSide, BuySides
  <2>3. TokenSide(Token = p.quote, p.side) = f.dir
    BY <1>6, <1>10, <2>2 DEF TokenSide, BuySides
  <2>4. TradeRow(env) = [mint |-> Token, side |-> f.dir, token |-> "token", quote |-> "quote",
                         quoteMint |-> Sol, market |-> "pool"]
    BY <1>5, <1>6, <2>1, <2>2, <2>3 DEF TradeRow, BuildPumpAmmTrade, BuySides
  <2>5. HandleTrade(env) = <<Token, f.dir = "buy", "token", "quote">>
    BY <1>5, <1>6, <1>10, <2>1, <2>2 DEF HandleTrade, PumpAmmTradeMetrics, BuySides
  <2> QED
    BY <2>4, <2>5 DEF env
<1> QED
  BY <1>1, <1>7, <1>8, <1>9, <1>10

(* What the parser sends can be projected, and shown.                      *)
LEMMA ParsedRow ==
  ASSUME PipelineAssumption, NEW r \in Rows, ~r.posted
  PROVE  Projects(r.env) /\ BuildRealtimeActivity(r.env) # None
<1> DEFINE f == r.fact
           env == r.env
<1>1. /\ f \in Facts /\ env = EnvelopeFromProto(Message(f)) /\ Forwarded(Message(f))
      /\ CurveShape(env) \/ PoolShape(env)
  BY RowShape
<1>2. Decodable(env)
  BY <1>1 DEF Decodable, CurveShape, PoolShape
<1>3. CASE f.what = "trade"
  <2>1. PICK side, market :
          TradeRow(env) = [mint |-> Token, side |-> side, token |-> "token", quote |-> "quote",
                           quoteMint |-> Sol, market |-> market]
    <3>1. CASE f.venue = "curve"
      BY <1>1, <1>3, <3>1, ParsedCurveTrade
    <3>2. CASE f.venue = "pool"
      BY <1>1, <1>3, <3>2, ParsedSwap
    <3> QED
      BY <1>1, <3>1, <3>2, FactFields
  <2>2. TradeRow(env) # None
    BY <2>1 DEF PipelineAssumption, IsFunction
  <2>3. IsTradeEvent(env)
    <3>1. CASE f.venue = "curve"
      BY <1>1, <1>3, <3>1, CurveMessage DEF Env, IsTradeEvent
    <3>2. CASE f.venue = "pool"
      BY <1>1, <1>3, <3>2, PoolMessage DEF Env, IsTradeEvent, PoolPayload
    <3> QED
      BY <1>1, <3>1, <3>2, FactFields
  <2>4. ActivityRow(env) # None
    BY <2>2, <2>3, NoRecord DEF ActivityRow
  <2>5. CASE CurveShape(env)
    BY <1>2, <2>4, <2>5, CurveRow DEF Projects
  <2>6. CASE PoolShape(env)
    <3>1. env.type = "swap"
      BY <2>3, <2>6 DEF PoolShape, IsTradeEvent
    <3>2. BuildRealtimeActivity(env) = ActivityRow(env)
      BY <2>2, <2>3, <2>6, <3>1, SwapRow DEF BuildRealtimeActivity
    <3> QED
      BY <1>2, <2>4, <3>2 DEF Projects
  <2> QED
    BY <1>1, <2>5, <2>6
<1>4. CASE f.venue = "curve" /\ f.what # "trade"
  <2>1. env.type \in {"create", "migrate"} /\ CurveShape(env)
    <3>1. f.what \in {"create", "migrate"}
      BY <1>1, <1>4, FactFields
    <3>2. env.protocol = "pumpfun" /\ env.type = f.what
      BY <1>1, <1>4, CurveMessage DEF Env
    <3> QED
      BY <1>1, <3>1, <3>2 DEF PoolShape
  <2>2. ActivityRow(env) # None
    <3>1. CASE env.type = "create"
      BY <3>1, NoRecord DEF ActivityRow, IsTradeEvent
    <3>2. CASE env.type = "migrate"
      BY <3>2, NoRecord DEF ActivityRow, IsTradeEvent
    <3> QED
      BY <2>1, <3>1, <3>2
  <2> QED
    BY <1>2, <2>1, <2>2, CurveRow DEF Projects
<1>5. CASE f.venue = "pool" /\ f.what # "trade"
  <2>1. f.what \in {"create_pool", "deposit", "withdraw"} /\ f.inverted \in BOOLEAN
    BY <1>1, <1>5, FactFields
  <2> DEFINE p == PoolPayload(f)
  <2>2. env = Env("pumpamm", p.kind, Token, BaseMint(f), QuoteMint(f), p)
    BY <1>1, <1>5, PoolMessage, ForwardedPool
  <2>3. p.kind = f.what
    BY <1>5 DEF PoolPayload
  <2>4. p.kind = "create_pool" => None \notin {p.baseIn, p.quoteIn}
    <3>1. None \notin {"token", "quote"}
      BY DEF PipelineAssumption
    <3> QED
      BY <1>5, <2>3, <3>1 DEF PoolPayload, BaseAmount, QuoteAmount
  <2> HIDE DEF p
  <2>5. env.type = p.kind /\ env.payload = p /\ env.refs.mint = Token /\ Token # None
    BY <2>2 DEF Env, PipelineAssumption
  <2>6. PoolShape(env) /\ env.type # "swap" /\ env.type \in {"create_pool", "deposit", "withdraw"}
    BY <1>1, <2>1, <2>3, <2>5 DEF CurveShape
  <2>7. ActivityRow(env) # None
    <3>1. TrackedMint(env) = Token
      BY <2>5 DEF TrackedMint
    <3> QED
      BY <2>5, <2>6, <3>1, NoRecord DEF ActivityRow, IsTradeEvent, PoolActivity
  <2> QED
    BY <1>2, <2>4, <2>5, <2>6, <2>7, PoolChangeRow DEF Projects
<1> QED
  BY <1>1, <1>3, <1>4, <1>5, FactFields

(* What is stored of a trade of the parser, and what is counted.           *)
LEMMA ParsedTrade ==
  ASSUME PipelineAssumption, NEW r \in Rows, ~r.posted, IsTradeEvent(r.env)
  PROVE  LET f == r.fact
             exactCurve == f.venue = "curve" /\ f.exact
             side == IF exactCurve THEN "buy_exact_sol_in" ELSE f.dir
             t == TradeRow(r.env)
         IN  /\ t.mint = Token /\ t.quoteMint = f.other /\ t.token = "token" /\ t.quote = "quote"
             /\ t.side = side
             /\ HandleTrade(r.env) = <<Token, side = "buy", "token", "quote">>
<1> DEFINE f == r.fact
<1>1. f \in Facts /\ r.env = EnvelopeFromProto(Message(f)) /\ Forwarded(Message(f))
  BY RowShape
<1>2. CASE f.venue = "curve"
  <2>1. f.what = "trade"
    <3>1. f.what \in {"trade", "create", "migrate"}
      BY <1>1, <1>2, FactFields
    <3>2. r.env.type = f.what
      BY <1>1, <1>2, CurveMessage DEF Env
    <3> QED
      BY <3>1, <3>2 DEF IsTradeEvent
  <2>2. f.other = Sol
    BY <1>1, <1>2, FactFields
  <2> QED
    BY <1>1, <1>2, <2>1, <2>2, ParsedCurveTrade
<1>3. CASE f.venue = "pool"
  <2>1. f.what = "trade"
    <3>1. f.what \in {"trade", "create_pool", "deposit", "withdraw"}
      BY <1>1, <1>3, FactFields
    <3> QED
      BY <1>1, <1>3, <3>1, PoolMessage DEF Env, IsTradeEvent, PoolPayload
  <2>2. f.other = Sol
    BY <1>1, <1>3, ForwardedPool
  <2> QED
    BY <1>1, <1>3, <2>1, <2>2, ParsedSwap
<1> QED
  BY <1>1, <1>2, <1>3, FactFields

-----------------------------------------------------------------------------
(* The inductive invariant: the log holds rows of these kinds, published   *)
(* to the topic that extractMint names; what is stored or counted is what  *)
(* the handlers make of a row; the backend is down only over a row of its  *)
(* next batch that cannot be projected.                                    *)
LogInv ==
  /\ serviceEvents \in Seq(Rows)
  /\ topic \in Seq({ExtractMint(r.env) : r \in Rows}) /\ Len(topic) = Len(serviceEvents)
  /\ \A i \in 1..Len(serviceEvents) : topic[i] = ExtractMint(serviceEvents[i].env)
  /\ lastID \in Nat

StoreInv ==
  /\ \A a \in activities : /\ a.id \in 1..Len(serviceEvents) /\ a.row = ActivityRow(serviceEvents[a.id].env)
                           /\ a.row # None
  /\ \A t \in trades : /\ t.id \in 1..Len(serviceEvents) /\ t.row = TradeRow(serviceEvents[t.id].env)
                       /\ IsTradeEvent(serviceEvents[t.id].env) /\ t.row # None
  /\ \A t \in ticks : t[1] \in 1..Len(serviceEvents) /\ t[2] = HandleTrade(serviceEvents[t[1]].env) /\ t[2] # None

DownInv == backend = "down" => \E i \in Batch : ~Projects(serviceEvents[i].env)

PipelineInv == LogInv /\ StoreInv /\ DownInv

LEMMA InitInv ==
  ASSUME PipelineAssumption, PipelineInit
  PROVE  PipelineInv
<1>1. serviceEvents = <<>> /\ topic = <<>> /\ lastID = 0 /\ backend = "up" /\ trades = {} /\ activities = {} /\ ticks = {}
  BY DEF PipelineInit
<1> QED
  BY <1>1 DEF PipelineInv, LogInv, StoreInv, DownInv

(* A row is logged, published and counted.                                 *)
LEMMA StoreStep ==
  ASSUME PipelineAssumption, PipelineInv, NEW env, NEW fact, NEW posted,
         [env |-> env, fact |-> fact, posted |-> posted] \in Rows, Store(env, fact, posted)
  PROVE  PipelineInv'
<1> DEFINE r == [env |-> env, fact |-> fact, posted |-> posted]
           n == Len(serviceEvents) + 1
<1>1. /\ serviceEvents' = Append(serviceEvents, r) /\ topic' = Append(topic, ExtractMint(r.env))
      /\ ticks' = IF HandleTrade(env) = None THEN ticks ELSE ticks \union {<<n, HandleTrade(env)>>}
      /\ UNCHANGED <<lastID, backend, trades, activities>> /\ backend = "up"
  BY DEF Store
<1>2. /\ serviceEvents \in Seq(Rows) /\ topic \in Seq({ExtractMint(q.env) : q \in Rows}) /\ r \in Rows
      /\ Len(topic) = Len(serviceEvents) /\ Len(serviceEvents) \in Nat
  BY DEF PipelineInv, LogInv
<1> HIDE DEF r
<1>3. /\ serviceEvents' \in Seq(Rows) /\ Len(serviceEvents') = n /\ serviceEvents'[n] = r
      /\ \A i \in 1..Len(serviceEvents) : serviceEvents'[i] = serviceEvents[i]
  BY <1>1, <1>2
<1>4. /\ topic' \in Seq({ExtractMint(q.env) : q \in Rows}) /\ Len(topic') = n
      /\ topic'[n] = ExtractMint(r.env)
      /\ \A i \in 1..Len(serviceEvents) : topic'[i] = topic[i]
  BY <1>1, <1>2
<1>5. 1..n = 1..Len(serviceEvents) \union {n}
  BY <1>2
<1>6. LogInv'
  <2>1. \A i \in 1..Len(serviceEvents') : topic'[i] = ExtractMint(serviceEvents'[i].env)
    BY <1>3, <1>4, <1>5 DEF PipelineInv, LogInv
  <2> QED
    BY <1>1, <1>3, <1>4, <2>1 DEF PipelineInv, LogInv
<1>7. StoreInv'
  <2>1. \A a \in activities' : /\ a.id \in 1..Len(serviceEvents') /\ a.row = ActivityRow(serviceEvents'[a.id].env)
                               /\ a.row # None
    BY <1>1, <1>3, <1>5 DEF PipelineInv, StoreInv
  <2>2. \A t \in trades' : /\ t.id \in 1..Len(serviceEvents') /\ t.row = TradeRow(serviceEvents'[t.id].env)
                           /\ IsTradeEvent(serviceEvents'[t.id].env) /\ t.row # None
    BY <1>1, <1>3, <1>5 DEF PipelineInv, StoreInv
  <2>3. ASSUME NEW t \in ticks'
        PROVE  t[1] \in 1..Len(serviceEvents') /\ t[2] = HandleTrade(serviceEvents'[t[1]].env) /\ t[2] # None
    <3>1. CASE t \in ticks
      BY <1>3, <1>5, <3>1 DEF PipelineInv, StoreInv
    <3>2. CASE t = <<n, HandleTrade(env)>> /\ HandleTrade(env) # None
      BY <1>3, <1>5, <3>2 DEF r
    <3> QED
      BY <1>1, <2>3, <3>1, <3>2
  <2> QED
    BY <2>1, <2>2, <2>3 DEF StoreInv
<1>8. DownInv'
  BY <1>1 DEF DownInv
<1> QED
  BY <1>6, <1>7, <1>8 DEF PipelineInv

LEMMA ParseStep ==
  ASSUME PipelineAssumption, PipelineInv, NEW f \in Facts, Forward(f) \/ Post(f)
  PROVE  PipelineInv'
<1>1. CASE Forward(f)
  <2> DEFINE e == EnvelopeFromProto(Message(f))
  <2>1. [env |-> e, fact |-> f, posted |-> FALSE] \in Rows
    BY <1>1 DEF Forward, Rows, ParsedRows
  <2>2. Store(e, f, FALSE)
    BY <1>1 DEF Forward
  <2> QED
    BY <2>1, <2>2, StoreStep
<1>2. CASE Post(f)
  <2>1. PICK env \in Posted(f) : Decodable(env) /\ Store(env, f, TRUE)
    BY <1>2 DEF Post
  <2>2. [env |-> env, fact |-> f, posted |-> TRUE] \in Rows
    <3> DEFINE S == {[env |-> e, fact |-> f, posted |-> TRUE] :
                       e \in {e \in Posted(f) : Decodable(e)}}
    <3>1. env \in {e \in Posted(f) : Decodable(e)}
      BY <2>1
    <3>2. [env |-> env, fact |-> f, posted |-> TRUE] \in S
      BY <3>1
    <3>3. S \subseteq PostedRows
      BY DEF PostedRows
    <3> QED
      BY <3>2, <3>3 DEF Rows
  <2> QED
    BY <2>1, <2>2, StoreStep
<1> QED
  BY <1>1, <1>2

(* A batch is projected.                                                   *)
LEMMA ReplayStep ==
  ASSUME PipelineAssumption, PipelineInv, ReplayBatch
  PROVE  PipelineInv'
<1>1. /\ activities' = activities \union {[id |-> i, row |-> ActivityRow(serviceEvents[i].env)] : i \in Batch}
      /\ trades' = trades \union {[id |-> i, row |-> TradeRow(serviceEvents[i].env)] :
                                   i \in {j \in Batch : IsTradeEvent(serviceEvents[j].env)}}
      /\ UNCHANGED <<serviceEvents, topic, backend, ticks>> /\ backend = "up"
      /\ \A i \in Batch : ActivityRow(serviceEvents[i].env) # None
  BY DEF ReplayBatch, Projects
<1>2. Batch \subseteq 1..Len(serviceEvents)
  BY DEF Batch
<1>3. LogInv'
  <2>1. lastID' \in Nat
    BY DEF ReplayBatch, PipelineInv, LogInv, PipelineAssumption
  <2> QED
    BY <1>1, <2>1 DEF PipelineInv, LogInv
<1>4. ASSUME NEW a \in activities'
      PROVE  a.id \in 1..Len(serviceEvents) /\ a.row = ActivityRow(serviceEvents[a.id].env) /\ a.row # None
  <2>1. CASE a \in activities
    BY <2>1 DEF PipelineInv, StoreInv
  <2>2. CASE \E i \in Batch : a = [id |-> i, row |-> ActivityRow(serviceEvents[i].env)]
    <3>1. PICK i \in Batch : a = [id |-> i, row |-> ActivityRow(serviceEvents[i].env)]
      BY <2>2
    <3>2. a.id = i /\ a.row = ActivityRow(serviceEvents[i].env)
      BY <3>1
    <3> QED
      BY <1>1, <1>2, <3>2
  <2> QED
    BY <1>1, <1>4, <2>1, <2>2
<1>5. ASSUME NEW t \in trades'
      PROVE  /\ t.id \in 1..Len(serviceEvents) /\ t.row = TradeRow(serviceEvents[t.id].env)
             /\ IsTradeEvent(serviceEvents[t.id].env) /\ t.row # None
  <2>1. CASE t \in trades
    BY <2>1 DEF PipelineInv, StoreInv
  <2>2. CASE \E i \in Batch : IsTradeEvent(serviceEvents[i].env) /\ t = [id |-> i, row |-> TradeRow(serviceEvents[i].env)]
    <3>1. PICK i \in Batch : IsTradeEvent(serviceEvents[i].env) /\ t = [id |-> i, row |-> TradeRow(serviceEvents[i].env)]
      BY <2>2
    <3>2. TradeRow(serviceEvents[i].env) # None
      BY <1>1, <3>1 DEF ActivityRow, IsTradeEvent
    <3> QED
      BY <1>2, <3>1, <3>2
  <2> QED
    BY <1>1, <1>5, <2>1, <2>2
<1>6. StoreInv'
  BY <1>1, <1>4, <1>5 DEF PipelineInv, StoreInv
<1>7. DownInv'
  BY <1>1 DEF DownInv
<1> QED
  BY <1>3, <1>6, <1>7 DEF PipelineInv

(* The induction step, one case per action.                                *)
LEMMA NextStep ==
  ASSUME PipelineAssumption, PipelineInv, [PipelineNext]_pipelineVars
  PROVE  PipelineInv'
<1>1. CASE ReplayFails
  <2>1. UNCHANGED <<serviceEvents, topic, lastID, trades, activities, ticks>> /\ Batch' = Batch
        /\ \E i \in Batch : ~Projects(serviceEvents[i].env)
    BY <1>1 DEF ReplayFails, Batch
  <2> QED
    BY <2>1 DEF PipelineInv, LogInv, StoreInv, DownInv
<1>2. CASE Restart
  <2>1. UNCHANGED <<serviceEvents, topic, lastID, trades, activities>> /\ ticks' = {} /\ backend' = "up"
    BY <1>2 DEF Restart
  <2> QED
    BY <2>1 DEF PipelineInv, LogInv, StoreInv, DownInv
<1>3. CASE UNCHANGED pipelineVars
  <2>1. UNCHANGED <<serviceEvents, topic, lastID, backend, trades, activities, ticks>> /\ Batch' = Batch
    BY <1>3 DEF pipelineVars, Batch
  <2> QED
    BY <2>1 DEF PipelineInv, LogInv, StoreInv, DownInv
<1> QED
  BY <1>1, <1>2, <1>3, ParseStep, ReplayStep DEF PipelineNext

LEMMA Inductive ==
  ASSUME PipelineAssumption
  PROVE  PipelineSpec => []PipelineInv
<1>1. PipelineInit => PipelineInv
  BY InitInv
<1>2. PipelineInv /\ [PipelineNext]_pipelineVars => PipelineInv'
  BY NextStep
<1> QED
  BY <1>1, <1>2, PTL DEF PipelineSpec

LEMMA LogRows ==
  ASSUME PipelineInv, NEW i \in 1..Len(serviceEvents)
  PROVE  serviceEvents[i] \in Rows
BY DEF PipelineInv, LogInv

-----------------------------------------------------------------------------
(* The projector ends the process (log.Fatalf in main.go) only over an     *)
(* event that came in through POST /internal/events.                       *)
THEOREM OnlyPostedStops ==
  ASSUME PipelineAssumption
  PROVE  PipelineSpec => []OnlyPostedPoison
<1>1. ASSUME PipelineInv PROVE OnlyPostedPoison
  <2> SUFFICES ASSUME backend = "down"
               PROVE  \E i \in Batch : serviceEvents[i].posted /\ ~Projects(serviceEvents[i].env)
    BY DEF OnlyPostedPoison
  <2>1. PICK i \in Batch : ~Projects(serviceEvents[i].env)
    BY <1>1 DEF PipelineInv, DownInv
  <2>2. serviceEvents[i] \in Rows
    BY <1>1, LogRows DEF Batch
  <2>3. serviceEvents[i].posted
    BY <2>1, <2>2, ParsedRow
  <2> QED
    BY <2>1, <2>3
<1> QED
  BY <1>1, Inductive, PTL

(* extractMint (ingest), trackedMint (projector and broadcaster) and       *)
(* resolveTrackedMint (browser) name the same token for every row that is  *)
(* projected, posted or parsed.                                            *)
THEOREM OneTokenEverywhere ==
  ASSUME PipelineAssumption
  PROVE  PipelineSpec => []ResolversAgree
<1>1. ASSUME PipelineInv PROVE ResolversAgree
  <2> SUFFICES ASSUME NEW a \in activities
               PROVE  LET r == serviceEvents[a.id]
                      IN /\ topic[a.id] = a.row.mint
                         /\ BelongsToMint(r.env, a.row.mint)
                         /\ ~r.posted => r.env.refs.mint = a.row.mint
    BY DEF ResolversAgree
  <2> DEFINE r == serviceEvents[a.id]
  <2>1. a.id \in 1..Len(serviceEvents) /\ a.row = ActivityRow(r.env) /\ a.row # None
    BY <1>1 DEF PipelineInv, StoreInv
  <2>2. topic[a.id] = ExtractMint(r.env) /\ r \in Rows
    BY <1>1, <2>1, LogRows DEF PipelineInv, LogInv
  <2>3. a.row.mint = Token /\ ExtractMint(r.env) = Token /\ BelongsToMint(r.env, Token)
    BY <2>1, <2>2, RowAgrees
  <2>4. ASSUME ~r.posted PROVE r.env.refs.mint = Token
    <3>1. r.env = EnvelopeFromProto(Message(r.fact)) /\ Message(r.fact).refs.mint = Token
      BY <2>2, <2>4, RowShape DEF Forwarded
    <3> QED
      BY <3>1 DEF EnvelopeFromProto, RefsFromProto
  <2> QED
    BY <2>2, <2>3, <2>4
<1> QED
  BY <1>1, Inductive, PTL

(* buildRealtimeActivity shows what the projector stores, and for an event *)
(* of the parser it shows something.                                       *)
THEOREM LiveIsStored ==
  ASSUME PipelineAssumption
  PROVE  PipelineSpec => []LiveRowMatchesStored
<1>1. ASSUME PipelineInv PROVE LiveRowMatchesStored
  <2> SUFFICES ASSUME NEW a \in activities
               PROVE  LET live == BuildRealtimeActivity(serviceEvents[a.id].env)
                      IN IF live = None THEN serviceEvents[a.id].posted ELSE live = a.row
    BY DEF LiveRowMatchesStored
  <2> DEFINE r == serviceEvents[a.id]
  <2>1. a.id \in 1..Len(serviceEvents) /\ a.row = ActivityRow(r.env) /\ a.row # None
    BY <1>1 DEF PipelineInv, StoreInv
  <2>2. r \in Rows
    BY <1>1, <2>1, LogRows
  <2>3. BuildRealtimeActivity(r.env) \in {a.row, None}
    BY <2>1, <2>2, RowAgrees
  <2>4. ~r.posted => BuildRealtimeActivity(r.env) # None
    BY <2>2, ParsedRow
  <2> QED
    BY <2>2, <2>3, <2>4, RowShape
<1> QED
  BY <1>1, Inductive, PTL

(* Of an event of the parser, the trade row says what happened on chain:   *)
(* the encoding of parser/src and buildPumpAmmTrade cancel out.            *)
THEOREM RowsAreTrue ==
  ASSUME PipelineAssumption
  PROVE  PipelineSpec => []RowsTellTheChain
<1>1. ASSUME PipelineInv PROVE RowsTellTheChain
  <2> SUFFICES ASSUME NEW t \in trades, ~serviceEvents[t.id].posted
               PROVE  LET f == serviceEvents[t.id].fact
                      IN /\ t.row.mint = Token /\ t.row.quoteMint = f.other
                         /\ t.row.token = "token" /\ t.row.quote = "quote"
                         /\ t.row.side = IF f.venue = "curve" /\ f.exact THEN "buy_exact_sol_in" ELSE f.dir
    BY DEF RowsTellTheChain
  <2>1. t.id \in 1..Len(serviceEvents) /\ t.row = TradeRow(serviceEvents[t.id].env) /\ IsTradeEvent(serviceEvents[t.id].env)
    BY <1>1 DEF PipelineInv, StoreInv
  <2>2. serviceEvents[t.id] \in Rows
    BY <1>1, <2>1, LogRows
  <2> QED
    BY <2>1, <2>2, ParsedTrade
<1> QED
  BY <1>1, Inductive, PTL

(* pumpAmmTradeMetrics counts what happened on chain, and every trade that *)
(* is stored is counted.                                                   *)
THEOREM TicksAreTrue ==
  ASSUME PipelineAssumption
  PROVE  PipelineSpec => []TicksTellTheChain
<1>1. ASSUME PipelineInv PROVE TicksTellTheChain
  <2>1. ASSUME NEW t \in ticks, ~serviceEvents[t[1]].posted
        PROVE  LET f == serviceEvents[t[1]].fact
               IN /\ <<t[2][1], t[2][3], t[2][4]>> = <<Token, "token", "quote">>
                  /\ ~(f.venue = "curve" /\ f.exact) => t[2][2] = (f.dir = "buy")
    <3> DEFINE r == serviceEvents[t[1]]
    <3>1. t[1] \in 1..Len(serviceEvents) /\ t[2] = HandleTrade(r.env) /\ t[2] # None
      BY <1>1 DEF PipelineInv, StoreInv
    <3>2. r \in Rows /\ IsTradeEvent(r.env)
      BY <1>1, <3>1, LogRows DEF HandleTrade, IsTradeEvent
    <3> DEFINE side == IF r.fact.venue = "curve" /\ r.fact.exact THEN "buy_exact_sol_in"
                       ELSE r.fact.dir
    <3>3. HandleTrade(r.env) = <<Token, side = "buy", "token", "quote">>
      BY <2>1, <3>2, ParsedTrade
    <3>4. ~(r.fact.venue = "curve" /\ r.fact.exact) => side = r.fact.dir
      OBVIOUS
    <3> HIDE DEF side
    <3>5. t[2] = <<Token, side = "buy", "token", "quote">>
      BY <3>1, <3>3
    <3> QED
      BY <3>4, <3>5
  <2>2. ASSUME NEW t \in trades PROVE HandleTrade(serviceEvents[t.id].env) # None
    <3>1. /\ t.id \in 1..Len(serviceEvents) /\ t.row = TradeRow(serviceEvents[t.id].env) /\ IsTradeEvent(serviceEvents[t.id].env)
          /\ t.row # None
      BY <1>1 DEF PipelineInv, StoreInv
    <3>2. serviceEvents[t.id] \in Rows
      BY <1>1, <3>1, LogRows
    <3> QED
      BY <3>1, <3>2, TradeIsCounted
  <2> QED
    BY <2>1, <2>2 DEF TicksTellTheChain
<1> QED
  BY <1>1, Inductive, PTL
=============================================================================
