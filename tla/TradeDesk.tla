------------------------------ MODULE TradeDesk ------------------------------
(***************************************************************************)
(* The trading loop over a broker that keeps no record of attempts         *)
(* (Tradier), the journal it keeps of what it holds, and an API thread     *)
(* that closes a trade by hand.                                            *)
(*                                                                         *)
(* A tick compares positions with the journal, adopts or closes what the   *)
(* journal does not know, cancels orders it takes for orphans, manages     *)
(* every open trade and, if a slot is free, opens one.  Between any two    *)
(* of these steps the broker executes, the API thread sells, or the        *)
(* process ends.                                                           *)
(***************************************************************************)
EXTENDS TradierExecution

CONSTANTS
  Loop, Api,      \* the two threads
  Rows,           \* open rows the journal can hold: a bound
  Tickers,
  TickerOf,       \* Contracts -> Tickers
  MaxPositions,   \* max_concurrent_positions
  NoRow

ASSUME DeskAssumption ==
  /\ Procs = {Loop, Api} /\ Loop # Api
  /\ Nobody \notin Rows \cup Slots /\ NoRow \notin Rows \cup {Nobody}
  /\ TickerOf \in [Contracts -> Tickers] /\ Tickers \cap Contracts = {}
  /\ IsFiniteSet(Contracts)
  /\ MaxQty \in Nat \ {0} /\ MaxPositions \in Nat

VARIABLES
  rows,       \* the open rows of the table trades
  closed,     \* contracts of the trades closed today
  at,         \* where the tick is
  seen,       \* the positions it read
  todo,       \* what the step it is in has still to handle: rows or contracts
  snap,       \* the trades as the tick, or the API thread, read them
  due,        \* the row whose exit is under way
  child,      \* the row of a partial exit: Nobody, the row inserted, NoRow when closed
  api,        \* the trade that the API thread closes, or Nobody
  missed,     \* history: contracts sold while no open row was to be booked for it
  hidden      \* history: contracts of entries the capacity check could not see

deskVars == <<rows, closed, at, seen, todo, snap, due, child, api, missed, hidden>>
vars == <<orders, held, call, rows, closed, at, seen, todo, snap, due, child, api, missed, hidden>>

(* "bot": opened by this program; "recovered": RECOVERED_UNTRACKED, adopted. *)
Kinds == {"bot", "recovered"}
Trade == [contract : Contracts, qty : 1..MaxQty, kind : Kinds]

(* get_open_trades() *)
Open == {r \in Rows : rows[r] # NoRow}
OpenContracts == {rows[r].contract : r \in Open}
Unused(r) == rows[r] = NoRow /\ r \notin todo \cup {due, api}

NothingSeen == [c \in Contracts |-> 0]
Positions == {c \in Contracts : held[c] > 0}
Journaled(rs, c) ==
  Cardinality(Units(Rows, [r \in Rows |-> IF rs[r] # NoRow /\ rs[r].contract = c THEN rs[r].qty ELSE 0]))

DeskInit ==
  /\ ExecutionInit
  /\ rows = [r \in Rows |-> NoRow]
  /\ closed = {}
  /\ at = "idle"
  /\ seen = NothingSeen
  /\ todo = {}
  /\ snap = [r \in Rows |-> NoRow]
  /\ due = Nobody /\ child = Nobody
  /\ api = Nobody
  /\ missed = {}
  /\ hidden = {}

Place(p, c, s, q) == call' = [call EXCEPT ![p] = Placing(c, s, q)]
Answered(p) == call[p] # Idle /\ call[p].at = "done"
Take(p) == call' = [call EXCEPT ![p] = Idle]
Selling(p) == call[p] # Idle /\ call[p].side = "sell"

(* A sale is booked to the row r, which another thread may have closed. *)
Misbooked(r, c) ==
  missed' = IF rows[r] = NoRow THEN missed \cup {c} ELSE missed

-----------------------------------------------------------------------------
(* _check_ghost_positions *)

(* A tick begins with the positions.  Where they cannot be read nothing is *)
(* done, as when every retry and every insert below fails.                 *)
ReadPositions ==
  /\ at = "idle"
  /\ seen' = held /\ at' = "journal"
  /\ missed' = missed \cap OpenContracts
  /\ UNCHANGED <<orders, held, call, rows, closed, todo, snap, due, child, api, hidden>>

(* Positions without an open row are ghosts.  One whose contract was closed *)
(* today is a close that failed, the others were never recorded.            *)
MutantGhosts ==      \* adopted trades are left out, as they are where slots are counted
  {c \in Contracts : seen[c] > 0} \ {rows[r].contract : r \in {x \in Open : rows[x].kind = "bot"}}
Ghosts == {c \in Contracts : seen[c] > 0} \ OpenContracts

Classify ==
  /\ at = "journal"
  /\ todo' = Ghosts \cap closed
  /\ seen' = [c \in Contracts |-> IF c \in Ghosts \ closed THEN seen[c] ELSE 0]
  /\ at' = "ghosts"
  /\ UNCHANGED <<orders, held, call, rows, closed, snap, due, child, api, missed, hidden>>

(* close_position() looks at the position again and sells what it finds. *)
RetryClose(c) ==
  /\ at = "ghosts" /\ call[Loop] = Idle
  /\ c \in todo
  /\ todo' = todo \ {c}
  /\ \/ held[c] > 0 /\ Place(Loop, c, "sell", Min({held[c], MaxQty}))
     \/ UNCHANGED call
  /\ UNCHANGED <<orders, held, rows, closed, at, seen, snap, due, child, api, missed, hidden>>

(* Its fill is not booked: the row it belongs to is closed. *)
RetryAnswered ==
  /\ at = "ghosts" /\ Answered(Loop)
  /\ Take(Loop)
  /\ UNCHANGED <<orders, held, rows, closed, at, seen, todo, snap, due, child, api, missed, hidden>>

(* insert_trade() of a ghost, with the quantity that was read. *)
Retried == at = "ghosts" /\ todo = {} /\ call[Loop] = Idle
Adopt(c) ==
  /\ Retried /\ seen[c] > 0
  /\ \E r \in Rows :
       /\ Unused(r)
       /\ rows' = [rows EXCEPT ![r] = [contract |-> c, qty |-> Min({seen[c], MaxQty}), kind |-> "recovered"]]
  /\ seen' = [seen EXCEPT ![c] = 0]
  /\ UNCHANGED <<orders, held, call, closed, at, todo, snap, due, child, api, missed, hidden>>

(* An insert may fail: that ghost is reported and left for the next tick. *)
AdoptionsDone ==
  /\ Retried
  /\ at' = "trades" /\ seen' = NothingSeen
  /\ UNCHANGED <<orders, held, call, rows, closed, todo, snap, due, child, api, missed, hidden>>

-----------------------------------------------------------------------------
(* The open trades: orphaned orders, management, cutoff. *)

Cancelled(S) ==
  orders' = Listed([o \in Slots |-> IF o \in S THEN [orders[o] EXCEPT !.status = "ended"] ELSE orders[o]], call)

(* After 15:55: every working order is cancelled, every trade closed. *)
SessionCutoff ==
  /\ at = "trades"
  /\ snap' = rows /\ todo' = Open /\ at' = "cutoff"
  /\ \E S \in SUBSET OpenOrders : Cancelled(S)
  /\ UNCHANGED <<held, call, rows, closed, seen, due, child, api, missed, hidden>>

ReadTrades ==
  /\ at = "trades"
  /\ snap' = rows /\ todo' = Open /\ at' = "sweep"
  /\ UNCHANGED <<orders, held, call, rows, closed, seen, due, child, api, missed, hidden>>

(* The symbol of a listed option order is its underlying, at Tradier. *)
Symbol(o) == TickerOf[orders[o].contract]
Tracked == {snap[r].contract : r \in {r \in todo : snap[r].kind # "recovered"}}
Orphans == {o \in OpenOrders : Symbol(o) \notin Tracked}

(* A cancel may not be carried out, and the list may not be available. *)
SweepOrphanedOrders ==
  /\ at = "sweep"
  /\ \E S \in SUBSET Orphans : Cancelled(S)
  /\ at' = "manage"
  /\ UNCHANGED <<held, call, rows, closed, seen, todo, snap, due, child, api, missed, hidden>>

(* _manage_open_position holds, or cannot price the contract. *)
Hold(r) ==
  /\ at = "manage" /\ due = Nobody
  /\ r \in todo
  /\ todo' = todo \ {r}
  /\ UNCHANGED <<orders, held, call, rows, closed, at, seen, snap, due, child, api, missed, hidden>>

(* An exit for the whole trade or, as a profit is taken, for half of it: of *)
(* the trade as it was read.                                                *)
ExitTrade(r) ==
  /\ at \in {"manage", "cutoff"} /\ due = Nobody
  /\ r \in todo
  /\ \E q \in {snap[r].qty} \cup (IF at = "manage" THEN {Max({1, snap[r].qty \div 2})} ELSE {}) :
       Place(Loop, snap[r].contract, "sell", q)
  /\ due' = r /\ todo' = todo \ {r}
  /\ UNCHANGED <<orders, held, rows, closed, at, seen, snap, child, api, missed, hidden>>

(* Not confirmed: the trade stays open, the next tick tries again. *)
ExitUnconfirmed ==
  /\ at \in {"manage", "cutoff"} /\ due # Nobody /\ Answered(Loop)
  /\ call[Loop].filled = 0
  /\ Take(Loop) /\ due' = Nobody
  /\ UNCHANGED <<orders, held, rows, closed, at, seen, todo, snap, child, api, missed, hidden>>

(* close_trade() closes the row, whatever became of it meanwhile. *)
ExitFilled ==
  /\ at \in {"manage", "cutoff"} /\ due # Nobody /\ Answered(Loop)
  /\ call[Loop].filled >= snap[due].qty
  /\ rows' = [rows EXCEPT ![due] = NoRow]
  /\ closed' = closed \cup {snap[due].contract}
  /\ Misbooked(due, snap[due].contract)
  /\ Take(Loop) /\ due' = Nobody
  /\ UNCHANGED <<orders, held, at, seen, todo, snap, child, api, hidden>>

(* A part was sold: it gets a row of its own, which is closed, and then the *)
(* row of the trade is shrunk; each is a commit of its own.                 *)
ExitPartly ==
  /\ at \in {"manage", "cutoff"} /\ due # Nobody /\ Answered(Loop)
  /\ call[Loop].filled \in 1..(snap[due].qty - 1)
  /\ child = Nobody
  /\ \E r \in Rows :
       /\ Unused(r)
       /\ rows' = [rows EXCEPT ![r] = [snap[due] EXCEPT !.qty = call[Loop].filled]]
       /\ child' = r
  /\ UNCHANGED <<orders, held, call, closed, at, seen, todo, snap, due, api, missed, hidden>>

CloseChild ==
  /\ child \in Rows
  /\ rows' = [rows EXCEPT ![child] = NoRow]
  /\ closed' = closed \cup {snap[due].contract}
  /\ child' = NoRow
  /\ Misbooked(child, snap[due].contract)
  /\ UNCHANGED <<orders, held, call, at, seen, todo, snap, due, api, hidden>>

MutantUnshrunk == snap[due].qty      \* the parent row is left as it is
Remainder == snap[due].qty - call[Loop].filled

ShrinkTrade ==
  /\ child = NoRow
  /\ rows' = [rows EXCEPT ![due] = IF @ = NoRow THEN @ ELSE [@ EXCEPT !.qty = Remainder]]
  /\ Misbooked(due, snap[due].contract)
  /\ Take(Loop) /\ due' = Nobody /\ child' = Nobody
  /\ UNCHANGED <<orders, held, closed, at, seen, todo, snap, api, hidden>>

(* All trades are handled.  The entry works with the trades as they were read. *)
ManageDone ==
  /\ at \in {"manage", "cutoff"} /\ due = Nobody /\ todo = {}
  /\ at' = IF at = "manage" THEN "entry" ELSE "idle"
  /\ snap' = IF at = "manage" THEN snap ELSE [r \in Rows |-> NoRow]
  /\ UNCHANGED <<orders, held, call, rows, closed, seen, todo, due, child, api, missed, hidden>>

-----------------------------------------------------------------------------
(* The entry. *)

EndTick ==
  /\ at' = "idle"
  /\ seen' = NothingSeen
  /\ snap' = [r \in Rows |-> NoRow]

(* No ticker, no slot, no signal, a veto. *)
NoEntry ==
  /\ at = "entry"
  /\ EndTick
  /\ UNCHANGED <<orders, held, call, rows, closed, todo, due, child, api, missed, hidden>>

(* A signal of a ticker that no open trade has, a slot that no trade of the *)
(* program fills; check_broker_entry_capacity reads the positions.          *)
CapacityPositions ==
  /\ at = "entry"
  /\ Cardinality({r \in Rows : snap[r] # NoRow /\ snap[r].kind # "recovered"}) < MaxPositions
  /\ at' = "capacity" /\ seen' = held
  /\ UNCHANGED <<orders, held, call, rows, closed, todo, snap, due, child, api, missed, hidden>>

(* ... then the working orders, and decides. *)
MutantOccupied == {c \in Contracts : seen[c] > 0}      \* working orders are not counted
Occupied == {c \in Contracts : seen[c] > 0} \cup {orders[o].contract : o \in OpenOrders}

NoCapacity ==
  /\ at = "capacity"
  /\ EndTick
  /\ UNCHANGED <<orders, held, call, rows, closed, todo, due, child, api, missed, hidden>>

PlaceEntry(c) ==
  /\ at = "capacity"
  /\ \A r \in Open : TickerOf[rows[r].contract] # TickerOf[c]
  /\ c \notin Occupied /\ Cardinality(Occupied) < MaxPositions
  /\ \E q \in 1..MaxQty : Place(Loop, c, "buy", q)
  /\ at' = "buy" /\ seen' = NothingSeen
  /\ hidden' = hidden \ {c} /\ missed' = missed \ {c}
  /\ UNCHANGED <<orders, held, rows, closed, todo, snap, due, child, api>>

(* insert_trade() with what was filled; without a fill nothing is recorded. *)
RecordEntry ==
  /\ at = "buy" /\ Answered(Loop)
  /\ IF call[Loop].filled = 0
     THEN UNCHANGED rows
     ELSE \E r \in Rows :
            /\ Unused(r)
            /\ rows' = [rows EXCEPT ![r] = [contract |-> call[Loop].contract, qty |-> call[Loop].filled,
                                            kind |-> "bot"]]
  /\ Take(Loop) /\ EndTick
  /\ UNCHANGED <<orders, held, closed, todo, due, child, api, missed, hidden>>

-----------------------------------------------------------------------------
(* close_trade_by_id(), in a thread of the API: the trade is read, sold at *)
(* market and closed; of a part of it that is sold the code knows nothing. *)
CloseTradeById(r) ==
  /\ api = Nobody /\ rows[r] # NoRow
  /\ api' = r
  /\ Place(Api, rows[r].contract, "sell", rows[r].qty)
  /\ UNCHANGED <<orders, held, rows, closed, at, seen, todo, snap, due, child, missed, hidden>>

ManualAnswered ==
  /\ api # Nobody /\ Answered(Api)
  /\ IF call[Api].filled = 0
     THEN UNCHANGED <<rows, closed, missed>>
     ELSE /\ rows' = [rows EXCEPT ![api] = NoRow]
          /\ closed' = closed \cup {call[Api].contract}
          /\ Misbooked(api, call[Api].contract)
  /\ Take(Api) /\ api' = Nobody
  /\ UNCHANGED <<orders, held, at, seen, todo, snap, due, child, hidden>>

-----------------------------------------------------------------------------
(* The broker, the day and the process. *)

(* Contracts the program holds or is buying. *)
Exposed == Positions \cup {orders[o].contract : o \in {x \in OpenOrders : orders[x].side = "buy"}}

(* A buy that the last look at positions and orders could not show: it was *)
(* executed between the two, or nobody waited for it when it arrived.      *)
Unseen(o) ==
  /\ orders[o] # NoOrder /\ orders[o].side = "buy"
  /\ \/ at = "capacity" /\ Working(o) /\ orders'[o] = NoOrder /\ seen[orders[o].contract] = 0
     \/ orders[o].status = "transit" /\ orders'[o].status = "working" /\ ~Awaited(o, call)

(* A sale that nobody waits for any more. *)
Untold(o) ==
  /\ Working(o) /\ orders[o].side = "sell"
  /\ held'[orders[o].contract] < held[orders[o].contract] /\ orders'[o] # orders[o]
  /\ ~Awaited(o, call)

BrokerStep ==
  /\ Broker
  /\ missed' = missed \cup {orders[o].contract : o \in {x \in Slots : Untold(x)}}
  /\ hidden' = (hidden \cup {orders[o].contract : o \in {x \in Slots : Unseen(x)}}) \cap Exposed'
  /\ UNCHANGED <<rows, closed, at, seen, todo, snap, due, child, api>>

(* A thread is told of fewer contracts than were executed. *)
Execute(p) ==
  /\ PlaceOptionOrder(p)
  /\ missed' = IF /\ Selling(p) /\ call'[p].at = "done" /\ call[p].slot # Nobody
                  /\ call'[p].filled < orders[call[p].slot].filled
               THEN missed \cup {call[p].contract} ELSE missed
  /\ UNCHANGED <<rows, closed, at, seen, todo, snap, due, child, api, hidden>>

(* No trade was closed today any more: at night, when no tick looks at *)
(* positions and nobody sells.                                         *)
MutantNewDay ==      \* trades closed on any day count as closed today
  /\ at = "idle" /\ api = Nobody /\ closed # {}
  /\ UNCHANGED vars
NewDay ==
  /\ at = "idle" /\ api = Nobody /\ closed # {}
  /\ closed' = {}
  /\ UNCHANGED <<orders, held, call, rows, at, seen, todo, snap, due, child, api, missed, hidden>>

(* The process ends and starts again: the journal is what it knows.  An end *)
(* between the two first reads loses nothing that one before them keeps.    *)
Restart ==
  /\ at # "journal"
  /\ call' = [p \in Procs |-> Idle]
  /\ orders' = Listed(orders, call')
  /\ todo' = {} /\ due' = Nobody /\ child' = Nobody /\ api' = Nobody
  /\ EndTick
  /\ missed' = missed \cup {call[p].contract : p \in {q \in Procs : Selling(q)}}
  /\ UNCHANGED <<held, rows, closed, hidden>>

Tick ==
  \/ ReadPositions \/ Classify \/ (\E c \in Contracts : RetryClose(c)) \/ RetryAnswered
  \/ (\E c \in Contracts : Adopt(c)) \/ AdoptionsDone
  \/ SessionCutoff \/ ReadTrades \/ SweepOrphanedOrders
  \/ (\E r \in Rows : Hold(r) \/ ExitTrade(r)) \/ ExitUnconfirmed \/ ExitFilled
  \/ ExitPartly \/ CloseChild \/ ShrinkTrade \/ ManageDone
  \/ NoEntry \/ CapacityPositions \/ NoCapacity \/ (\E c \in Contracts : PlaceEntry(c)) \/ RecordEntry

ManualClose == (\E r \in Rows : CloseTradeById(r)) \/ ManualAnswered

Next ==
  \/ Tick \/ ManualClose \/ (\E p \in Procs : Execute(p))
  \/ BrokerStep \/ NewDay \/ Restart

Spec == DeskInit /\ [][Next]_vars

(* The threads go on and the day ends; the insert of a ghost does not always *)
(* fail, nor does the process always end before it.  Nothing is assumed of   *)
(* the broker.                                                               *)
Fairness ==
  /\ WF_vars(Tick \/ Execute(Loop)) /\ WF_vars(ManualAnswered \/ Execute(Api))
  /\ SF_vars(\E c \in Contracts : Adopt(c))
  /\ SF_vars(NewDay)

FairSpec == Spec /\ Fairness

-----------------------------------------------------------------------------
TypeOK ==
  /\ ExecutionTypeOK
  /\ rows \in [Rows -> Trade \cup {NoRow}]
  /\ closed \subseteq Contracts
  /\ at \in {"idle", "journal", "ghosts", "trades", "sweep", "manage", "cutoff",
             "entry", "capacity", "buy"}
  /\ seen \in [Contracts -> Nat]
  /\ todo \subseteq Rows \cup Contracts
  /\ snap \in [Rows -> Trade \cup {NoRow}]
  /\ due \in Rows \cup {Nobody}
  /\ child \in Rows \cup {Nobody, NoRow}
  /\ api \in Rows \cup {Nobody}
  /\ missed \subseteq Contracts
  /\ hidden \subseteq Contracts

(* Between two ticks, with no exit under way, what the journal shows open is *)
(* held: no entry is recorded larger than executed, no position adopted      *)
(* beside its trade, no sale the program knows of left unbooked.  Excused    *)
(* are contracts sold when no thread could book it: one that had given the   *)
(* order up, or ended, or booked the row that another thread had closed.     *)
Quiet == at = "idle" /\ \A p \in Procs : call[p] = Idle
JournalIsBacked == Quiet => \A c \in Contracts \ missed : Journaled(rows, c) <= held[c]

(* Contracts the program holds or is buying never exceed max_positions, but  *)
(* by entries that no reading of positions and orders could have shown.      *)
CapacityKept == Cardinality(Exposed \ hidden) <= MaxPositions

(* A position that no open row shows, whatever lost it (a crash before the *)
(* insert, an order given up that was executed, a close that booked more   *)
(* than was sold) gets a row, or is sold.                                  *)
Lost(c) == held[c] > 0 /\ c \notin OpenContracts
GhostsSettle == \A c \in Contracts : Lost(c) ~> ~Lost(c)

(* orphaned_orders.py: the sweep cancels orders "whose symbol doesn't belong *)
(* to a currently-tracked open trade", and no others.                        *)
SweepSparesTracked ==
  [][(at = "sweep" /\ at' = "manage") =>
       \A o \in OpenOrders : orders[o].contract \in Tracked => orders'[o] = orders[o]]_vars
=============================================================================
