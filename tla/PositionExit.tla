----------------------------- MODULE PositionExit -----------------------------
(***************************************************************************)
(* The exits of one journaled trade, as the loop manages it tick by tick:  *)
(* which exit is due, that it stays due until the broker confirms it, and  *)
(* what of that decision is kept where.  The memory of a process is lost   *)
(* in a restart; bot_state.json survives, but every heartbeat drops the    *)
(* positions from it; the journal survives, with the profit takes booked   *)
(* in it and the giveback state of the trade.                              *)
(*                                                                         *)
(* Prices, bars and indicators are what the market may ask for in a tick;  *)
(* the broker is the one of OrderRecovery: an order is booked with its     *)
(* answer, or stays unresolved and declines further orders until it is.    *)
(***************************************************************************)
EXTENDS Integers

CONSTANTS
  Sizes,          \* contracts that a trade may start with: a bound
  MaxRestarts     \* bound of the restarts

ASSUME ExitAssumption == Sizes \subseteq Nat \ {0} /\ MaxRestarts \in Nat

(* Which exit policy manages the trade.  "adaptive" is the generic manager *)
(* in either mode; the others are reviewed strategies: "timed" a fixed     *)
(* hold, "structural" bars, "giveback" a fixed hold with the TSLA giveback, *)
(* "atr10" the research order that takes profit on half.                   *)
Policies == {"adaptive", "timed", "structural", "giveback", "atr10"}

(* Exit reasons: a profit take (stage1...), or one that liquidates. *)
Reasons == {"hold", "stage1", "full"}

VARIABLES
  policy,       \* of the strategy of the trade
  size,         \* contracts at entry
  age,          \* 0; 1: the hold time is over; 2: five minutes to the session's end
  trade,        \* its rows: contracts still open, and those sold by profit takes
  giveback,     \* strategy_context_json: "no", "armed" or "pending"
  ps,           \* position state in memory
  saved,        \* the position in bot_state.json
  order,        \* the order the loop waits for, or its answer
  unresolved,   \* an attempt whose outcome the journal does not know yet
  restarts

exitVars == <<policy, size, age, trade, giveback, ps, saved, order, unresolved, restarts>>

(* pending: exit_pending_reason; floor: stage1_be_price; priced: a mark was *)
(* had in this process.                                                     *)
PositionState == [pending : Reasons, stage1_done : BOOLEAN, floor : BOOLEAN, priced : BOOLEAN]
Forgotten == [pending |-> "hold", stage1_done |-> FALSE, floor |-> FALSE, priced |-> FALSE]

InFile(p) == [pending |-> p.pending, stage1_done |-> p.stage1_done]

NoOrder == [at |-> "none"]
NoAttempt == [kind |-> "hold", sold |-> 0]

Smaller(m, n) == IF m < n THEN m ELSE n
Larger(m, n) == IF m > n THEN m ELSE n

Open == trade.contracts > 0
Reviewed == policy # "adaptive"

ExitInit ==
  /\ policy \in Policies /\ size \in Sizes /\ age = 0
  /\ trade = [contracts |-> size, taken |-> 0]
  /\ giveback = "no"
  /\ ps = Forgotten /\ saved = InFile(Forgotten)
  /\ order = NoOrder /\ unresolved = NoAttempt /\ restarts = 0

-----------------------------------------------------------------------------
(* What a tick decides. *)

(* partial_remaining(): what the profit take of a research order still may *)
(* sell, by the journal.                                                   *)
PartialRemaining == Larger(0, Larger(1, (trade.contracts + trade.taken) \div 2) - trade.taken)

MutantRestoreStage1(p) == p      \* memory and file are trusted
(* restore_stage1(): the profit takes that the journal shows. *)
RestoreStage1(p) ==
  CASE policy = "atr10" ->
         [p EXCEPT !.stage1_done = PartialRemaining = 0,
                   !.pending = IF PartialRemaining = 0 /\ p.pending = "stage1" THEN "hold" ELSE p.pending]
    [] policy # "atr10" /\ ~p.stage1_done /\ trade.taken > 0 ->
         [p EXCEPT !.stage1_done = TRUE, !.floor = TRUE,
                   !.pending = IF p.pending = "stage1" THEN "hold" ELSE p.pending]
    [] OTHER -> p

(* The fixed hold is over; five minutes are left of the broker's session. *)
HoldIsOver == policy \in {"timed", "giveback"} /\ age > 0
SessionEnds == Reviewed /\ age = 2

(* Before anything is priced: the end of the session, the deadline or the *)
(* giveback of TSLA, a liquidation that is pending, a hold that is over.  *)
MutantFullExitReason == SessionEnds      \* a pending exit waits for a price
FullExitReason ==
  SessionEnds \/ HoldIsOver \/ ps.pending = "full" \/ (policy = "giveback" /\ giveback = "pending")

(* The generic manager: stops, trails and targets, of which the profit      *)
(* take is asked for once, and time caps, which need a price.  The stop at  *)
(* the profit floor is one of the "full".                                   *)
AdaptiveAsks(p) ==
  IF age > 0 THEN {"full"} ELSE {"hold", "full"} \cup (IF p.stage1_done THEN {} ELSE {"stage1"})

(* A research order: its exit by bars, and a profit take while there is one. *)
ResearchAsks == {"hold", "full"} \cup (IF PartialRemaining > 0 THEN {"stage1"} ELSE {})

(* What bars and quote may ask for, by policy. *)
Asked(p) ==
  CASE policy = "adaptive" -> AdaptiveAsks(p)
    [] policy = "atr10" -> ResearchAsks
    [] policy = "structural" -> {"hold", "full"}
    [] policy \in {"timed", "giveback"} -> {"hold"}

(* _resolve_latched_exit(): the first reason stays, but the liquidation of *)
(* a research order replaces its profit take.                              *)
Resolved(p, asked) ==
  IF p.pending = "hold" \/ (policy = "atr10" /\ p.pending = "stage1" /\ asked = "full")
  THEN asked ELSE p.pending

(* giveback_exit(): arms at a gain, asks for the exit when enough of the *)
(* peak is gone; a stale quote changes nothing.                          *)
Giveback ==
  IF policy = "giveback"
  THEN giveback' \in {giveback, "armed"} \cup (IF giveback = "armed" THEN {"pending"} ELSE {})
  ELSE UNCHANGED giveback

(* A write of bot_state.json that fails is logged, and nothing more. *)
Write(file) == saved' \in {file, saved}

MutantSend(kind, qty) == order' = [at |-> "sent", kind |-> kind, qty |-> qty]      \* it does not
(* An unresolved attempt for the contract declines the order. *)
Send(kind, qty) ==
  order' = IF unresolved = NoAttempt THEN [at |-> "sent", kind |-> kind, qty |-> qty] ELSE NoOrder

Half ==
  IF policy = "atr10" THEN Smaller(trade.contracts, PartialRemaining)
  ELSE Larger(1, trade.contracts \div 2)

(* _close_position(), and a profit take of all that is left. *)
SellAll(reason) == Send(reason, trade.contracts)

Liquidate ==
  /\ FullExitReason
  /\ ps' = [ps EXCEPT !.pending = "full"]
  /\ Write([saved EXCEPT !.pending = "full"])
  /\ SellAll("full")
  /\ UNCHANGED giveback

(* A mark was had: the position state is there, and what the journal shows. *)
Marked == [RestoreStage1(ps) EXCEPT !.priced = TRUE]

(* The position is written down, and the exits that need a price are *)
(* evaluated.                                                        *)
Evaluate ==
  /\ ~FullExitReason
  /\ Giveback
  /\ LET p == Marked
     IN \E asked \in Asked(p) :
          LET due == IF giveback' = "pending" THEN "full" ELSE Resolved(p, asked)
              q == [p EXCEPT !.pending = due]
          IN IF due = "stage1" /\ Half = 0
             THEN /\ ps' = [p EXCEPT !.pending = "hold"]
                  /\ Write(InFile(ps')) /\ order' = NoOrder
             ELSE /\ ps' = q
                  /\ Write(InFile(q))
                  /\ CASE due = "hold" -> order' = NoOrder
                       [] due = "full" -> SellAll("full")
                       [] due = "stage1" /\ Half >= trade.contracts -> SellAll("full")
                       [] OTHER -> Send("stage1", Half)

(* _manage_open_position().  A reviewed strategy is managed in an open *)
(* session that the broker's clock confirms; without a mark the others *)
(* hold.                                                               *)
Manage(session, mark) ==
  /\ Open /\ order = NoOrder
  /\ Reviewed => session
  /\ Liquidate \/ (mark /\ Evaluate)
  /\ UNCHANGED <<policy, size, age, trade, unresolved, restarts>>

-----------------------------------------------------------------------------
(* The order, its booking, and what follows in memory. *)

Booked(kind, n) ==
  [contracts |-> trade.contracts - n, taken |-> trade.taken + (IF kind = "stage1" THEN n ELSE 0)]

(* The answer: sold, in part or not at all, and booked with it; or nobody *)
(* knows.                                                                 *)
Answer(n) ==
  /\ order.at = "sent" /\ n \in 0..order.qty
  /\ trade' = Booked(order.kind, n)
  /\ order' = [at |-> "answered", kind |-> order.kind, qty |-> order.qty, sold |-> n]
  /\ UNCHANGED <<policy, size, age, giveback, ps, saved, unresolved, restarts>>

NoAnswer(n) ==
  /\ order.at = "sent" /\ n \in 0..order.qty
  /\ unresolved' = [kind |-> order.kind, sold |-> n]
  /\ order' = NoOrder
  /\ UNCHANGED <<policy, size, age, trade, giveback, ps, saved, restarts>>

(* After a profit take its intent is retired, unless part of it is left. *)
AfterStage1 ==
  LET part == policy = "atr10" /\ order.sold < order.qty
  IN [ps EXCEPT !.stage1_done = ~part, !.floor = policy # "atr10",
                !.pending = IF part THEN "stage1" ELSE "hold"]

(* A closed trade leaves memory and file; a partial liquidation goes on. *)
Report ==
  /\ order.at = "answered"
  /\ order' = NoOrder
  /\ CASE ~Open -> ps' = Forgotten /\ Write(InFile(Forgotten))
       [] Open /\ order.kind = "stage1" /\ order.sold > 0 ->
            ps' = AfterStage1 /\ Write([saved EXCEPT !.pending = ps'.pending])
       [] OTHER -> UNCHANGED <<ps, saved>>
  /\ UNCHANGED <<policy, size, age, trade, giveback, unresolved, restarts>>

(* reconcile_orders() finds out what became of the attempt, and books it. *)
Reconcile ==
  /\ unresolved # NoAttempt /\ order = NoOrder
  /\ trade' = Booked(unresolved.kind, unresolved.sold)
  /\ unresolved' = NoAttempt
  /\ UNCHANGED <<policy, size, age, giveback, ps, saved, order, restarts>>

-----------------------------------------------------------------------------
TradeAges ==
  /\ age < 2
  /\ age' = age + 1
  /\ UNCHANGED <<policy, size, trade, giveback, ps, saved, order, unresolved, restarts>>

(* The tick's heartbeat replaces the file, without the positions. *)
Heartbeat ==
  /\ Open /\ order = NoOrder
  /\ saved' = InFile(Forgotten)
  /\ UNCHANGED <<policy, size, age, trade, giveback, ps, order, unresolved, restarts>>

(* A process ends, and the next one takes the position from the file. *)
Restart ==
  /\ Open /\ restarts < MaxRestarts
  /\ restarts' = restarts + 1
  /\ ps' = [Forgotten EXCEPT !.pending = saved.pending, !.stage1_done = saved.stage1_done]
  /\ order' = NoOrder
  /\ \/ order.at = "sent" /\ \E n \in 0..order.qty : unresolved' = [kind |-> order.kind, sold |-> n]
     \/ order.at # "sent" /\ UNCHANGED unresolved
  /\ UNCHANGED <<policy, size, age, trade, giveback, saved>>

ExitNext ==
  \/ \E session, mark \in BOOLEAN : Manage(session, mark)
  \/ \E n \in 0..size : Answer(n) \/ NoAnswer(n)
  \/ Report \/ Reconcile \/ TradeAges \/ Heartbeat \/ Restart

ExitSpec == ExitInit /\ [][ExitNext]_exitVars

(* The loop ticks in open sessions and reconciles; the market takes a sell *)
(* that is offered again and again.  Of marks and bars nothing is assumed. *)
ExitFairness ==
  /\ WF_exitVars(\E mark \in BOOLEAN : Manage(TRUE, mark))
  /\ WF_exitVars(Report) /\ WF_exitVars(Reconcile)
  /\ SF_exitVars(order.at = "sent" /\ Answer(order.qty))

-----------------------------------------------------------------------------
ExitTypeOK ==
  /\ policy \in Policies /\ size \in Sizes /\ age \in 0..2
  /\ trade \in [contracts : 0..size, taken : 0..size]
  /\ giveback \in {"no", "armed", "pending"}
  /\ ps \in PositionState
  /\ saved \in [pending : Reasons, stage1_done : BOOLEAN]
  /\ order \in {NoOrder} \cup [at : {"sent"}, kind : {"stage1", "full"}, qty : 1..size]
       \cup [at : {"answered"}, kind : {"stage1", "full"}, qty : 1..size, sold : 0..size]
  /\ unresolved \in [kind : Reasons, sold : 0..size]
  /\ restarts \in 0..MaxRestarts

(* Profit is taken on half of the position, whatever is sold in part, lost  *)
(* and found again, or forgotten in a restart between the fill and the file.*)
HalfAtMost == trade.taken <= Larger(1, size \div 2)

(* A liquidation that is decided, by a reason that memory, the journal or   *)
(* the clock shows, ends the position, though no price and no bar is ever   *)
(* had again; a restart may lose only what memory alone knew.               *)
Decided ==
  /\ Open
  /\ \/ ps.pending = "full"
     \/ giveback = "pending"
     \/ policy \in {"timed", "giveback"} /\ age > 0
     \/ policy # "adaptive" /\ age = 2
FullExitEnds == Decided ~> ~Decided

(* "Stage-2 trail floor: remainder stops at entry x1.15" (manage.py:21): a  *)
(* runner of the generic manager that this process has marked has its floor.*)
FloorKept == policy = "adaptive" /\ ps.priced /\ ps.stage1_done => ps.floor
=============================================================================
