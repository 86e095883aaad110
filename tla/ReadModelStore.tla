--------------------------- MODULE ReadModelStore ---------------------------
(***************************************************************************)
(* What projecting one event does to the read model of one token: the      *)
(* projector's handlers (backend/internal/projector/projector.go), the     *)
(* upserts behind them (backend/internal/store/read_model.go) and the      *)
(* write batch that groups them (batch_writer.go).                         *)
(*                                                                         *)
(* An event is its position on the chain, which is also its timestamp.     *)
(* Kind names its payload type.  The token has a bonding curve and, after  *)
(* migration, a pool: its two markets.  Amounts, addresses and metadata    *)
(* are left out; the rows of token_trade_events and token_activity_events  *)
(* are the set of the events they were inserted for, because their inserts *)
(* do nothing on conflict.                                                 *)
(***************************************************************************)
EXTENDS Naturals, Sequences, SequencesExt

CONSTANTS
  Chain,  (* the kinds of the token's events, in chain order *)
  Null    (* SQL null *)

Kinds == {"create", "trade", "migrate", "createPool", "swap", "liquidity"}
Events == 1..Len(Chain)
Kind(e) == Chain[e]
Markets == {"curve", "pool"}

ASSUME ChainAssumption == Chain \in Seq(Kinds)

(* A view is the token's row of `tokens`, its rows of `token_markets`, and *)
(* its trades and activities.  A row that does not exist is Null.          *)
EmptyView == [token |-> Null, market |-> [m \in Markets |-> Null],
              trades |-> {}, activities |-> {}]

Coalesce(a, b) == IF a # Null THEN a ELSE b
Least(a, b) == IF a < b THEN a ELSE b

-----------------------------------------------------------------------------
(* Mutants, for TokenMatchesLog and MigrationSticks: first_seen_at is      *)
(* overwritten; the stage is kept once it is known, as the ids are.        *)
MergeTokenOverwrites(old, new) ==
  [createEvent |-> Coalesce(old.createEvent, new.createEvent),
   firstSeen   |-> new.firstSeen,
   stage       |-> new.stage,
   active      |-> Coalesce(new.active, old.active),
   migratedAt  |-> Coalesce(new.migratedAt, old.migratedAt)]

MergeTokenKeepsStage(old, new) ==
  [createEvent |-> Coalesce(old.createEvent, new.createEvent),
   firstSeen   |-> Least(old.firstSeen, new.firstSeen),
   stage       |-> Coalesce(old.stage, new.stage),
   active      |-> Coalesce(new.active, old.active),
   migratedAt  |-> Coalesce(new.migratedAt, old.migratedAt)]

(* upsertTokenSQL: the new stage wins, other columns keep what they know.  *)
MergeToken(old, new) ==
  [createEvent |-> Coalesce(old.createEvent, new.createEvent),
   firstSeen   |-> Least(old.firstSeen, new.firstSeen),
   stage       |-> new.stage,
   active      |-> Coalesce(new.active, old.active),
   migratedAt  |-> Coalesce(new.migratedAt, old.migratedAt)]

UpsertToken(view, new) ==
  [view EXCEPT !.token = IF @ = Null THEN new ELSE MergeToken(@, new)]

(* upsertTokenMarketSQL; the projector's records carry no ended_at.        *)
UpsertMarket(view, m, e) ==
  LET old == view.market[m]
  IN [view EXCEPT !.market[m] =
        IF old = Null THEN [startedAt |-> e, endedAt |-> Null]
        ELSE [old EXCEPT !.startedAt = Least(old.startedAt, e)]]

(* closeTokenMarketSQL updates a row that exists, and creates none.        *)
CloseMarket(view, m, e) ==
  [view EXCEPT !.market[m] = IF @ = Null THEN @ ELSE [@ EXCEPT !.endedAt = e]]

-----------------------------------------------------------------------------
(* The store calls each handler makes, apart from its activity and trade.  *)
ProjectCreate(view, e) ==
  UpsertMarket(UpsertToken(view, [createEvent |-> e, firstSeen |-> e,
                                  stage |-> "bonding_curve", active |-> "curve",
                                  migratedAt |-> Null]),
               "curve", e)

ProjectMigrate(view, e) ==
  UpsertMarket(UpsertToken(CloseMarket(view, "curve", e),
                           [createEvent |-> Null, firstSeen |-> e,
                            stage |-> "pool", active |-> "pool",
                            migratedAt |-> e]),
               "pool", e)

ProjectCreatePool(view, e) ==
  UpsertMarket(UpsertToken(view, [createEvent |-> Null, firstSeen |-> e,
                                  stage |-> "pool", active |-> "pool",
                                  migratedAt |-> Null]),
               "pool", e)

StateOps(view, e) ==
  CASE Kind(e) = "create"     -> ProjectCreate(view, e)
    [] Kind(e) = "migrate"    -> ProjectMigrate(view, e)
    [] Kind(e) = "createPool" -> ProjectCreatePool(view, e)
    [] OTHER                  -> view

IsTrade(e) == Kind(e) \in {"trade", "swap"}

(* The inserts, which do nothing on conflict.                              *)
InsertTradeEvents(view, events) == [view EXCEPT !.trades = @ \union events]
InsertActivityEvents(view, events) == [view EXCEPT !.activities = @ \union events]

(* Project without a batch: an event's writes before the next event's.     *)
Project(view, e) ==
  InsertActivityEvents(InsertTradeEvents(StateOps(view, e), {f \in {e} : IsTrade(f)}), {e})
=============================================================================
