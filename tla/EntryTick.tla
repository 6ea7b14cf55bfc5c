------------------------------ MODULE EntryTick ------------------------------
(***************************************************************************)
(* One _tick() of the trading loop after another: the trades it manages,   *)
(* the gates before a buy, the window in which opportunity signals are     *)
(* ranked, and the order.  The loop scans one ticker per tick; meanwhile   *)
(* minutes pass, settings change, trades are closed by hand, and orders    *)
(* whose answer was lost are executed and found again.                     *)
(*                                                                         *)
(* What makes a signal, a quote or a size good enough is data: every gate  *)
(* that looks at nothing the tick shares may refuse or not.  The broker is *)
(* the one of OrderRecovery: a fill is booked with its answer.             *)
(***************************************************************************)
EXTENDS Naturals, FiniteSets

CONSTANTS
  Tickers, Contracts,
  TickerOf,           \* Contracts -> Tickers
  MaxPositions,       \* max_concurrent_positions
  Ranks,              \* confidence of opportunity signals
  WindowMinutes,      \* WINDOW_MINUTES
  CooldownMinutes,    \* WIN_COOLDOWN_MINUTES
  Nothing

ASSUME EntryAssumption ==
  /\ TickerOf \in [Contracts -> Tickers] /\ MaxPositions \in Nat \ {0}
  /\ Ranks \subseteq Nat \ {0}
  /\ WindowMinutes \in Nat \ {0} /\ CooldownMinutes \in Nat \ {0}
  /\ Nothing \notin Tickers \cup Contracts

VARIABLES
  tick,        \* where _tick() is, and what it has read
  settings,    \* mode "trade", "signal_only" or "collection_only"; opportunity tier
  journal,     \* contracts of the open trades
  buys,        \* Contracts -> the attempt to buy it that is not resolved
  seen,        \* _US["open_trades"]
  cooldown,    \* Tickers -> minutes of ticker_win_cooldown that are left
  window,      \* opportunity_scheduler
  opened,      \* history: best rank since the window opened, and its age
  lastKey,     \* the contract of _last_order_key, if its minute is this one
  doubled      \* history: bought though a buy in the ticker was unresolved

entryVars == <<tick, settings, journal, buys, seen, cooldown, window, opened, lastKey, doubled>>
memory == <<seen, cooldown, window, opened, lastKey>>

NoWindow == [ticker |-> Nothing, rank |-> 0, left |-> 0]
Closed == [best |-> 0, age |-> 0]
Idle == [at |-> "idle", ticker |-> Nothing, trades |-> {}, unsure |-> {}, mode |-> "trade",
         opportunity |-> FALSE, contract |-> Nothing, exposed |-> {}]

Settings == [mode : {"trade", "signal_only", "collection_only"}, opportunity : BOOLEAN]
Unresolved == {c \in Contracts : buys[c] # "none"}
TickersOf(cs) == {TickerOf[c] : c \in cs}

EntryInit ==
  /\ tick = Idle /\ settings \in Settings
  /\ journal = {} /\ buys = [c \in Contracts |-> "none"]
  /\ seen = {} /\ cooldown = [t \in Tickers |-> 0]
  /\ window = NoWindow /\ opened = Closed
  /\ lastKey = Nothing /\ doubled = {}

GoOn(where) == tick' = [tick EXCEPT !.at = where]
Return == tick' = Idle

-----------------------------------------------------------------------------
(* A tick: the day, the trades, and whether it may look for an entry. *)

MutantOpenTrades(trades) == seen      \* the list of the last change is used
OpenTrades(trades) == trades

(* A new day, or a closed market, ends the window; a day also the cooldowns. *)
NewSession ==
  /\ tick = Idle
  /\ window' = NoWindow /\ opened' = Closed
  /\ cooldown' \in {cooldown, [t \in Tickers |-> 0]}
  /\ UNCHANGED <<tick, settings, journal, buys, seen, lastKey, doubled>>

(* The scan of a ticker, or of none, with the trades the journal shows. *)
BeginTick(t) ==
  /\ tick = Idle
  /\ tick' = [Idle EXCEPT !.at = "manage", !.ticker = t, !.trades = journal,
                          !.unsure = TickersOf(Unresolved), !.mode = settings.mode]
  /\ seen' = OpenTrades(journal)
  /\ UNCHANGED <<settings, journal, buys, cooldown, window, opened, lastKey, doubled>>

(* _manage_open_position() closes a trade; a win starts the cooldown. *)
CloseTrade(c, won) ==
  /\ tick.at = "manage" /\ tick.mode # "collection_only"
  /\ c \in tick.trades \cap journal
  /\ journal' = journal \ {c} /\ seen' = OpenTrades(journal')
  /\ cooldown' = IF won THEN [cooldown EXCEPT ![TickerOf[c]] = CooldownMinutes] ELSE cooldown
  /\ UNCHANGED <<tick, settings, buys, window, opened, lastKey, doubled>>

(* The slots are counted in the list that was read before the trades were   *)
(* managed.  Settings are read now; whether to observe only was read before.*)
SlotsTaken == Cardinality(tick.trades) >= MaxPositions /\ tick.mode # "collection_only"

ReadSettings ==
  /\ tick.at = "manage"
  /\ IF tick.ticker = Nothing \/ SlotsTaken
     THEN Return
     ELSE tick' = [tick EXCEPT !.at = "gate", !.trades = {}, !.opportunity = settings.opportunity,
                     !.mode = IF @ = "collection_only" THEN @
                              ELSE IF settings.mode = "signal_only" THEN "signal_only" ELSE "trade"]
  /\ UNCHANGED <<settings, journal, buys, memory, doubled>>

(* can_trade() of the risk manager may refuse; the window of a tier that is *)
(* switched off is dropped.                                                 *)
SelectTicker ==
  /\ tick.at = "gate"
  /\ \/ /\ GoOn("ticker")
        /\ IF tick.opportunity THEN UNCHANGED <<window, opened>>
           ELSE window' = NoWindow /\ opened' = Closed
     \/ tick.mode # "collection_only" /\ Return /\ UNCHANGED <<window, opened>>
  /\ UNCHANGED <<settings, journal, buys, seen, cooldown, lastKey, doubled>>

(* No second position in a ticker, and ten minutes after a win. *)
TickerFree == tick.ticker \notin TickersOf(seen) /\ cooldown[tick.ticker] = 0

TickerGates ==
  /\ tick.at = "ticker"
  /\ \/ TickerFree /\ GoOn("route")
     \/ Return      \* or earnings are near, or there are no bars
  /\ UNCHANGED <<settings, journal, buys, memory, doubled>>

-----------------------------------------------------------------------------
(* The router, and select() of the opportunity scheduler.  rank is the best *)
(* opportunity signal of the ticker now, 0 if there is none.                *)

Accepted(signal) ==
  IF signal THEN tick' = [tick EXCEPT !.at = "policy", !.opportunity = FALSE] ELSE Return

MutantReplaced(rank) == [ticker |-> tick.ticker, rank |-> rank, left |-> WindowMinutes]
(* A stronger later signal replaces rank, not the clock. *)
Replaced(rank) == [ticker |-> tick.ticker, rank |-> rank, left |-> window.left]

StartWindow(rank) ==
  /\ window = NoWindow /\ rank > 0
  /\ window' = [ticker |-> tick.ticker, rank |-> rank, left |-> WindowMinutes]
  /\ opened' = [best |-> rank, age |-> 0]
  /\ Return

Collect(rank) ==
  /\ window.left > 0
  /\ window' = IF rank > window.rank THEN Replaced(rank) ELSE window
  /\ opened' = [opened EXCEPT !.best = IF rank > @ THEN rank ELSE @]
  /\ Return

(* At its end the window's own ticker decides: the setup is still there, or *)
(* has expired.  Another ticker leaves the window alone.                    *)
Confirm(rank) ==
  /\ window # NoWindow /\ window.left = 0
  /\ IF tick.ticker = window.ticker
     THEN /\ window' = NoWindow /\ opened' = Closed
          /\ \E matching \in {FALSE, rank > 0} : Accepted(matching)
     ELSE Return /\ UNCHANGED <<window, opened>>

Route(main, rank) ==
  /\ tick.at = "route"
  /\ CASE ~tick.opportunity -> Accepted(main) /\ UNCHANGED <<window, opened>>
       [] tick.opportunity /\ main -> Accepted(TRUE) /\ window' = NoWindow /\ opened' = Closed
       [] tick.opportunity /\ ~main ->
            \/ StartWindow(rank) \/ Collect(rank) \/ Confirm(rank)
            \/ window = NoWindow /\ rank = 0 /\ Return /\ UNCHANGED <<window, opened>>
  /\ UNCHANGED <<settings, journal, buys, seen, cooldown, lastKey, doubled>>

-----------------------------------------------------------------------------
(* From a signal to an order. *)

Gate(here, next) ==
  /\ tick.at = here
  /\ GoOn(next) \/ Return
  /\ UNCHANGED <<settings, journal, buys, memory, doubled>>

(* The hold must fit the session, and strategy and portfolio policies pass. *)
PolicyGates == Gate("policy", "price")

(* The underlying has a price, far enough from that of the last loss. *)
PriceGates == Gate("price", "market")

(* SPY on the right side of its VWAP. *)
MarketVetoes == Gate("market", "contract")

(* A contract is chosen anew from the chain, so a setup may name another *)
(* one each time; or none is affordable and liquid.                      *)
SelectContract ==
  /\ tick.at = "contract"
  /\ \/ \E c \in Contracts : TickerOf[c] = tick.ticker /\ tick' = [tick EXCEPT !.at = "quote", !.contract = c]
     \/ Return
  /\ UNCHANGED <<settings, journal, buys, memory, doubled>>

(* The quote of the contract itself, fresh; the size; spread and reward for *)
(* the risk; and the review by a model.                                     *)
QuoteContract == Gate("quote", "size")
SizeOrder == Gate("size", "reward")
RewardGates == Gate("reward", "review")
ReviewOrder == Gate("review", "positions")

(* check_broker_entry_capacity(): positions, then working orders; a read *)
(* that fails ends the tick, as an account without cash does.            *)
CapacityPositions ==
  /\ tick.at = "positions"
  /\ \/ tick' = [tick EXCEPT !.at = "orders", !.exposed = journal \cup {c \in Contracts : buys[c] = "filled"}]
     \/ Return
  /\ UNCHANGED <<settings, journal, buys, memory, doubled>>

CapacityOrders ==
  /\ tick.at = "orders"
  /\ LET exposed == tick.exposed \cup {c \in Contracts : buys[c] = "working"}
     IN \/ /\ tick.contract \notin exposed /\ Cardinality(exposed) < MaxPositions
           /\ tick' = [tick EXCEPT !.at = "intent", !.exposed = {}]
        \/ Return
  /\ UNCHANGED <<settings, journal, buys, memory, doubled>>

(* An intent that is only shown, or that repeats the last order within its *)
(* minute, is recorded and ends the tick.                                  *)
OrderIntent ==
  /\ tick.at = "intent"
  /\ IF tick.mode # "trade" \/ lastKey = tick.contract
     THEN Return /\ UNCHANGED lastKey
     ELSE GoOn("send") /\ lastKey' = tick.contract
  /\ UNCHANGED <<settings, journal, buys, seen, cooldown, window, opened, doubled>>

(* A strategy that was removed meanwhile ends the tick, and the broker     *)
(* declines a contract that an attempt is unresolved for.                  *)
SendBuy ==
  /\ tick.at = "send"
  /\ \/ /\ buys[tick.contract] = "none"
        /\ buys' = [buys EXCEPT ![tick.contract] = "working"]
        /\ doubled' = IF tick.ticker \in tick.unsure THEN doubled \cup {tick.contract}
                      ELSE doubled \ {tick.contract}
        /\ GoOn("wait")
     \/ Return /\ UNCHANGED <<buys, doubled>>
  /\ UNCHANGED <<settings, journal, memory>>

Resolve(c) ==
  /\ buys[c] \in {"filled", "dead"}
  /\ journal' = IF buys[c] = "filled" THEN journal \cup {c} ELSE journal
  /\ buys' = [buys EXCEPT ![c] = "none"]

(* A fill is recorded; an order that ended without one is a price that was *)
(* not reached; and what nobody knows stays for reconcile_orders().        *)
RecordEntry ==
  /\ tick.at = "wait"
  /\ \/ Resolve(tick.contract) /\ seen' = OpenTrades(journal')
     \/ UNCHANGED <<journal, buys, seen>>
  /\ Return
  /\ UNCHANGED <<settings, cooldown, window, opened, lastKey, doubled>>

-----------------------------------------------------------------------------
(* What happens beside the tick. *)

Execute(c) ==
  /\ buys[c] = "working"
  /\ \E fate \in {"filled", "dead"} : buys' = [buys EXCEPT ![c] = fate]
  /\ UNCHANGED <<tick, settings, journal, memory, doubled>>

Reconciled(c) ==
  /\ ~(tick.at = "wait" /\ tick.contract = c)
  /\ Resolve(c)
  /\ UNCHANGED <<tick, settings, memory, doubled>>

(* close_trade_by_id() reads the list and stores it in one moment. *)
CloseByHand(c) ==
  /\ c \in journal
  /\ journal' = journal \ {c} /\ seen' = OpenTrades(journal')
  /\ UNCHANGED <<tick, settings, buys, cooldown, window, opened, lastKey, doubled>>

ChangeSettings ==
  /\ settings' \in Settings
  /\ UNCHANGED <<tick, journal, buys, memory, doubled>>

Less(n) == IF n > 0 THEN n - 1 ELSE 0

MinutePasses ==
  /\ cooldown' = [t \in Tickers |-> Less(cooldown[t])]
  /\ window' = [window EXCEPT !.left = Less(@)]
  /\ opened' = [opened EXCEPT !.age = IF window # NoWindow /\ @ < WindowMinutes THEN @ + 1 ELSE @]
  /\ lastKey' = Nothing
  /\ UNCHANGED <<tick, settings, journal, buys, seen, doubled>>

(* A process ends; what the next one remembers is empty. *)
LoseMemory ==
  /\ Return
  /\ seen' = {} /\ cooldown' = [t \in Tickers |-> 0]
  /\ window' = NoWindow /\ opened' = Closed /\ lastKey' = Nothing
  /\ UNCHANGED <<settings, journal, buys, doubled>>

EntryNext ==
  \/ NewSession \/ \E t \in Tickers \cup {Nothing} : BeginTick(t)
  \/ \E c \in Contracts, won \in BOOLEAN : CloseTrade(c, won)
  \/ ReadSettings \/ SelectTicker \/ TickerGates
  \/ \E main \in BOOLEAN, rank \in Ranks \cup {0} : Route(main, rank)
  \/ PolicyGates \/ PriceGates \/ MarketVetoes \/ SelectContract
  \/ QuoteContract \/ SizeOrder \/ RewardGates \/ ReviewOrder
  \/ CapacityPositions \/ CapacityOrders
  \/ OrderIntent \/ SendBuy \/ RecordEntry
  \/ \E c \in Contracts : Execute(c) \/ Reconciled(c) \/ CloseByHand(c)
  \/ ChangeSettings \/ MinutePasses \/ LoseMemory

EntrySpec == EntryInit /\ [][EntryNext]_entryVars

-----------------------------------------------------------------------------
EntryTypeOK ==
  /\ tick \in [at : {"idle", "manage", "gate", "ticker", "route", "policy", "price", "market", "contract",
                     "quote", "size", "reward", "review", "positions", "orders", "intent", "send",
                     "wait"},
               ticker : Tickers \cup {Nothing}, trades : SUBSET Contracts, unsure : SUBSET Tickers,
               mode : {"trade", "signal_only", "collection_only"}, opportunity : BOOLEAN,
               contract : Contracts \cup {Nothing}, exposed : SUBSET Contracts]
  /\ settings \in Settings
  /\ journal \subseteq Contracts /\ seen \subseteq Contracts /\ doubled \subseteq Contracts
  /\ buys \in [Contracts -> {"none", "working", "filled", "dead"}]
  /\ cooldown \in [Tickers -> 0..CooldownMinutes]
  /\ window \in [ticker : Tickers \cup {Nothing}, rank : Ranks \cup {0}, left : 0..WindowMinutes]
  /\ opened \in [best : Ranks \cup {0}, age : 0..WindowMinutes]
  /\ lastKey \in Contracts \cup {Nothing}

(* Two slots are for two tickers: no second contract of a ticker is held,  *)
(* though the guard looks at a list in memory that other threads write and *)
(* that is older than the order; unless an earlier buy in the ticker was   *)
(* still unresolved when the tick began, which the guard does not look at. *)
Exposed == journal \cup {c \in Contracts : buys[c] \in {"working", "filled"}}
OnePerTicker ==
  \A c, d \in Exposed : TickerOf[c] = TickerOf[d] => c = d \/ c \in doubled \/ d \in doubled

(* A window belongs to the best signal that was observed while it was open, *)
(* and ends when the first one said, whatever signals, restarts, switches   *)
(* and tickers that cannot be scanned come between.                         *)
WindowRanks ==
  window # NoWindow => window.rank = opened.best /\ window.left + opened.age = WindowMinutes
=============================================================================
