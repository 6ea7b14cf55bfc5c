--------------------------- MODULE DailyLossHalt ---------------------------
(***************************************************************************)
(* The daily-loss halt of one account: the guard that persists a halt when *)
(* the day's loss crosses a limit, the loop that then flattens the account *)
(* and confirms it flat, the halt's expiry, and the user who reviews the   *)
(* halt and resumes, with or without a temporary limit.                    *)
(*                                                                         *)
(* The Loop is the trading thread: it alone enters positions and confirms  *)
(* a flatten. Requests are API threads: they close, panic and resume.      *)
(* check_daily_loss and resume_after_review run under one lock per account *)
(* (review); confirm_flattened does not.                                   *)
(*                                                                         *)
(* Losses are levels above which a limit is crossed, time is in ticks, and *)
(* one entry order is unresolved or unbooked at a time. What an order does *)
(* is OrderRecovery's business: here it works until it fills or ends, and  *)
(* a close is one step.                                                    *)
(***************************************************************************)
EXTENDS Integers

CONSTANTS
  Loop,          \* the trading thread
  Requests,      \* API threads
  Nobody,        \* holds the review lock when nobody does
  Durable,       \* the broker has durable_order_recovery (Alpaca; not Tradier)
  Soft, Hard,    \* max_daily_loss_pct (realized) and daily_loss_hard_cap_pct
  MaxLoss,       \* bound on losses
  MaxHeld,       \* bound on positions
  DayLength,     \* ticks in a trading day
  Freeze,        \* kill_lock_hours
  MaxTime        \* bound on the clock

Threads == Requests \cup {Loop}
Levels  == 0 .. MaxLoss

ASSUME ThreadAssumption == Loop \notin Requests /\ Nobody \notin Threads
ASSUME LimitAssumption  == /\ MaxLoss \in Nat
                           /\ Soft \in Levels \ {0}
                           /\ Hard \in Levels \ {0}
ASSUME HeldAssumption   == MaxHeld \in Nat
ASSUME ClockAssumption  == /\ DayLength \in Nat \ {0}
                           /\ Freeze \in Nat \ {0}
                           /\ MaxTime \in Nat
ASSUME BrokerAssumption == Durable \in BOOLEAN

VARIABLES
  halt,          \* the kill-lock file
  override,      \* the override file: a temporary limit for one day
  unpersisted,   \* RiskManager._unpersisted_loss_halt (memory)
  review,        \* holder of the account's review lock
  now,
  realized,      \* the day's realized loss, from the journal
  equity,        \* the day's loss of account equity, at the broker
  balance,       \* the equity loss the loop fetched last
  order,         \* an entry order: "none" or "working"
  position,      \* positions of the broker account
  trade,         \* open trades of the journal
  pc,            \* where each thread is
  back,          \* who awaits the answer of a thread's check_daily_loss
  verdict,       \* the halt a check is about to persist
  seen,          \* what a thread has read and not used yet
  next           \* where the loop goes on after a service of the halt

files   == <<halt, override>>
losses  == <<realized, equity, balance>>
account == <<order, position, trade>>
vars    == <<halt, override, unpersisted, review, now, realized, equity, balance,
             order, position, trade, pc, back, verdict, seen, next>>

----------------------------------------------------------------------------
Reasons   == {"none", "soft", "hard"}
Latest    == MaxTime + Freeze + DayLength
HaltType  == [reason : Reasons, until : 0 .. Latest, pending : BOOLEAN]
VerdictType == [reason : Reasons, until : 0 .. Latest]
LimitType == [day : 0 .. MaxTime, limit : Levels]
SeenType  == [halt : HaltType, pending : BOOLEAN, realized : Levels,
              limit : LimitType]

NoHalt    == [reason |-> "none", until |-> 0, pending |-> FALSE]
NoVerdict == [reason |-> "none", until |-> 0]
NoLimit   == [day |-> 0, limit |-> 0]
Nothing   == [halt |-> NoHalt, pending |-> FALSE, realized |-> 0,
              limit |-> NoLimit]

LoopPlaces    == {"top", "service", "flatten", "orders", "sweep", "confirm",
                "confirmed", "fetch", "gate", "execute", "place", "wait",
                  "boot"}
RequestPlaces == {"idle", "resume", "positions"}
CheckPlaces   == {"check", "reread", "persist"}
Places        == LoopPlaces \cup RequestPlaces \cup CheckPlaces
Callers       == {"guard", "entry", "manage", "flatten", "request"}

At(t, where) == pc[t] = where
Later(a, b)  == IF a > b THEN a ELSE b
Today        == now \div DayLength
Midnight     == (Today + 1) * DayLength

----------------------------------------------------------------------------
\* effective_limits(): a temporary limit replaces both limits on its own day.
LimitOr(x) == IF override.limit > 0 /\ override.day = Today
              THEN override.limit ELSE x

\* check_kill_lock(): no entries while the flatten is pending, or before expiry.
MutantLocked == halt.reason # "none" /\ now < halt.until      \* it expires, flattened or not
Locked == halt.reason # "none" /\ (halt.pending \/ now < halt.until)

\* set_kill_lock(): a new halt, or a live soft one made hard; any other live
\* halt stays as it is. (Its read and its write are one step: what a
\* confirm_flattened in between would write is overwritten anyway.)
MutantHalted(v) ==      \* a repeated halt asks for no new flatten
  [reason |-> v.reason, pending |-> ~Locked,
   until |-> IF v.reason = "hard" THEN now + Freeze ELSE v.until]
Halted(v) ==
  LET expires == IF v.reason = "hard" THEN now + Freeze ELSE v.until
  IN  IF ~Locked
      THEN [reason |-> v.reason, until |-> expires, pending |-> TRUE]
      ELSE IF halt.reason = "soft" /\ v.reason = "hard"
      THEN [reason |-> "hard", until |-> Later(expires, halt.until), pending |-> TRUE]
      ELSE halt

----------------------------------------------------------------------------
Init ==
  /\ halt = NoHalt /\ override = NoLimit /\ unpersisted = NoVerdict
  /\ review = Nobody /\ now = 0
  /\ realized = 0 /\ equity = 0 /\ balance = 0
  /\ order = "none" /\ position = 0 /\ trade = 0
  /\ pc      = [t \in Threads |-> IF t = Loop THEN "top" ELSE "idle"]
  /\ back    = [t \in Threads |-> "request"]
  /\ verdict = [t \in Threads |-> NoVerdict]
  /\ seen    = [t \in Threads |-> Nothing]
  /\ next    = "top"

Goto(t, where) == pc' = [pc EXCEPT ![t] = where]

\* check_daily_loss is called; `caller` awaits its answer.
Check(t, caller) == /\ Goto(t, "check")
                    /\ back' = [back EXCEPT ![t] = caller]

----------------------------------------------------------------------------
(* check_daily_loss, called before a batch (guard), before an entry        *)
(* (entry), after a close in a batch (manage), in a flatten (flatten), and *)
(* after a close of an API thread (request).                               *)

\* Where the caller goes on: nothing found; a halt found; an exception.
Fine == [guard |-> "gate", entry |-> "place", manage |-> "execute",
         flatten |-> "flatten", request |-> "idle"]
Found == [guard |-> "gate", entry |-> "execute", manage |-> "top",
          flatten |-> "flatten", request |-> "idle"]
Raised == [guard |-> "top", entry |-> "top", manage |-> "top",
           flatten |-> "flatten", request |-> "idle"]

\* The guard services the halt before the gate; a batch that ends, however it
\* ends, services it before the next cycle.
Answer(t, table) ==
  LET where == table[back[t]] IN
  IF where \in {"gate", "top"}
  THEN Goto(t, "service") /\ next' = where
  ELSE Goto(t, where) /\ UNCHANGED next

Return(t, table) ==
  /\ Answer(t, table)
  /\ back'    = [back EXCEPT ![t] = "request"]
  /\ verdict' = [verdict EXCEPT ![t] = NoVerdict]
  /\ review'  = Nobody

\* What the losses, as read now, call for. The first reading of a breach by
\* equity alone is read again before it counts.
RealizedHard == realized >= LimitOr(Hard)
RealizedSoft == realized >= LimitOr(Soft)
EquityHard   == balance >= LimitOr(Hard)
CallsForHard == RealizedHard \/ (EquityHard /\ (Locked \/ RealizedSoft))

ToPersist(t, v) ==
  /\ verdict' = [verdict EXCEPT ![t] = v]
  /\ Goto(t, "persist")
  /\ review' = t
  /\ UNCHANGED <<back, next>>
HardHalt == [reason |-> "hard", until |-> 0]
SoftHalt == [reason |-> "soft", until |-> Midnight]

\* A halt that could not be written comes first, whatever the losses are now.
Retry(t) ==
  /\ At(t, "check") /\ review = Nobody
  /\ unpersisted.reason # "none"
  /\ ToPersist(t, unpersisted)
  /\ UNCHANGED <<files, unpersisted, now, losses, account, seen>>

Review(t) ==
  /\ At(t, "check") /\ review = Nobody
  /\ unpersisted.reason = "none"
  /\ \/ CallsForHard /\ ToPersist(t, HardHalt)
     \/ ~CallsForHard /\ Locked /\ Return(t, Found)
     \/ ~CallsForHard /\ ~Locked /\ RealizedSoft /\ ToPersist(t, SoftHalt)
     \/ /\ ~CallsForHard /\ ~Locked /\ ~RealizedSoft /\ EquityHard
        /\ Goto(t, "reread")
        /\ review' = t
        /\ UNCHANGED <<back, verdict, next>>
     \/ /\ ~CallsForHard /\ ~Locked /\ ~RealizedSoft /\ ~EquityHard
        /\ Return(t, Fine)
  /\ UNCHANGED <<files, unpersisted, now, losses, account, seen>>

\* Unreadable limits, override, losses or lock file.
ReviewRaises(t) ==
  /\ At(t, "check") /\ review = Nobody
  /\ unpersisted.reason = "none"
  /\ Return(t, Raised)
  /\ UNCHANGED <<files, unpersisted, now, losses, account, seen>>

\* The broker is asked again; when it cannot answer, the breach stands.
Reread(t) ==
  /\ At(t, "reread")
  /\ \/ ToPersist(t, HardHalt)
     \/ /\ equity < LimitOr(Hard)
        /\ Return(t, Fine)
  /\ UNCHANGED <<files, unpersisted, now, losses, account, seen>>

Persist(t) ==
  /\ At(t, "persist")
  /\ halt' = Halted(verdict[t])
  /\ unpersisted' = NoVerdict
  /\ Return(t, Found)
  /\ UNCHANGED <<override, now, losses, account, seen>>

MutantPersistFails(t) ==      \* forgotten before it is written
  /\ At(t, "persist")
  /\ unpersisted' = NoVerdict
  /\ Return(t, Raised)
  /\ UNCHANGED <<files, now, losses, account, seen>>

PersistFails(t) ==
  /\ At(t, "persist")
  /\ unpersisted' = verdict[t]
  /\ Return(t, Raised)
  /\ UNCHANGED <<files, now, losses, account, seen>>

----------------------------------------------------------------------------
(* service_daily_loss_halt: flatten, and confirm when the account is flat. *)

\* reconcile_orders books what the order of an open attempt has executed.
Reconciled == IF Durable /\ order = "none" THEN position ELSE trade
Unresolved == Durable /\ order = "working"

Carry(t) == Goto(t, next) /\ UNCHANGED next

TopOfCycle ==
  /\ At(Loop, "top")
  /\ trade' = Reconciled
  /\ Goto(Loop, "service") /\ next' = "fetch"
  /\ UNCHANGED <<files, unpersisted, review, now, losses, order, position,
                 back, verdict, seen>>

\* Not pending, or tried less than 30 seconds ago.
SkipService ==
  /\ At(Loop, "service")
  /\ Carry(Loop)
  /\ UNCHANGED <<files, unpersisted, review, now, losses, account, back,
                 verdict, seen>>

MutantBeginFlatten ==      \* a flatten is given up when the halt expires
  /\ At(Loop, "service")
  /\ halt.pending /\ now < halt.until
  /\ trade' = Reconciled
  /\ seen' = [seen EXCEPT ![Loop].pending = Unresolved]
  /\ Goto(Loop, "flatten")
  /\ UNCHANGED <<files, unpersisted, review, now, losses, order, position,
                 back, verdict, next>>

BeginFlatten ==
  /\ At(Loop, "service")
  /\ halt.pending
  /\ trade' = Reconciled
  /\ seen' = [seen EXCEPT ![Loop].pending = Unresolved]
  /\ Goto(Loop, "flatten")
  /\ UNCHANGED <<files, unpersisted, review, now, losses, order, position,
                 back, verdict, next>>

\* _close_position: a confirmed exit of one of the trades, booked. The last one
\* makes the day's loss the realized loss.
Close(trades) ==
  /\ trades > 0
  /\ trade' = trades - 1 /\ position' = position - 1
  /\ realized' \in IF position = 1 THEN {equity} ELSE Levels

CloseTrade(t, trades, caller) ==
  /\ Close(trades)
  /\ Check(t, caller)
  /\ UNCHANGED <<files, unpersisted, review, now, equity, balance, order,
                 verdict, seen, next>>

FlattenTrade == At(Loop, "flatten") /\ CloseTrade(Loop, trade, "flatten")

\* An exit is not confirmed, or a snapshot of the broker is unavailable.
FlattenFails ==
  /\ pc[Loop] \in {"flatten", "orders", "sweep"}
  /\ seen' = [seen EXCEPT ![Loop] = Nothing]
  /\ Carry(Loop)
  /\ UNCHANGED <<files, unpersisted, review, now, losses, account, back, verdict>>

\* An attempt was unresolved when the flatten began.
FlattenPending ==
  /\ At(Loop, "flatten") /\ trade = 0 /\ seen[Loop].pending
  /\ seen' = [seen EXCEPT ![Loop] = Nothing]
  /\ Carry(Loop)
  /\ UNCHANGED <<files, unpersisted, review, now, losses, account, back, verdict>>

\* The journal is flat: the broker's positions are read, then its orders.
ReadPositions ==
  /\ At(Loop, "flatten") /\ trade = 0 /\ ~seen[Loop].pending
  /\ Goto(Loop, IF position > 0 THEN "sweep" ELSE "orders")
  /\ UNCHANGED <<files, unpersisted, review, now, losses, account, back,
                 verdict, seen, next>>

ReadOrders ==
  /\ At(Loop, "orders")
  /\ IF order = "working" THEN Goto(Loop, next) ELSE Goto(Loop, "confirm")
  /\ UNCHANGED <<files, unpersisted, review, now, losses, account, back,
                 verdict, seen, next>>

\* close_all_positions, for what the journal does not know, unless an order
\* works; then positions and orders once more.
Sweep ==
  /\ At(Loop, "sweep")
  /\ IF order = "working" THEN Goto(Loop, next) /\ UNCHANGED position
     ELSE Goto(Loop, "confirm") /\ position' = 0
  /\ UNCHANGED <<files, unpersisted, review, now, losses, order, trade, back,
                 verdict, seen, next>>

\* confirm_flattened(): read, change, write.
ConfirmRead ==
  /\ At(Loop, "confirm")
  /\ seen' = [seen EXCEPT ![Loop].halt = halt]
  /\ Goto(Loop, "confirmed")
  /\ UNCHANGED <<files, unpersisted, review, now, losses, account, back,
                 verdict, next>>

ConfirmWrite ==
  /\ At(Loop, "confirmed")
  /\ halt' = IF seen[Loop].halt.reason = "none" THEN halt
             ELSE [seen[Loop].halt EXCEPT !.pending = FALSE]
  /\ seen' = [seen EXCEPT ![Loop] = Nothing]
  /\ Carry(Loop)
  /\ UNCHANGED <<override, unpersisted, review, now, losses, account, back,
                 verdict>>

\* The file cannot be written: the cycle ends, the flatten stays pending.
ConfirmFails ==
  /\ At(Loop, "confirmed")
  /\ Goto(Loop, "top") /\ next' = "top"
  /\ seen' = [seen EXCEPT ![Loop] = Nothing]
  /\ UNCHANGED <<files, unpersisted, review, now, losses, account, back, verdict>>

----------------------------------------------------------------------------
(* run_guarded_execution.                                                  *)

Fetch ==
  /\ At(Loop, "fetch")
  /\ balance' = equity
  /\ Check(Loop, "guard")
  /\ UNCHANGED <<files, unpersisted, review, now, realized, equity, account,
                 verdict, seen, next>>

\* No valid balance: nothing is checked or executed, the halt is serviced.
FetchFails ==
  /\ At(Loop, "fetch")
  /\ Goto(Loop, "service") /\ next' = "top"
  /\ UNCHANGED <<files, unpersisted, review, now, losses, account, back,
                 verdict, seen>>

Gate ==
  /\ At(Loop, "gate")
  /\ IF Locked THEN Goto(Loop, "service") /\ next' = "top"
               ELSE Goto(Loop, "execute") /\ UNCHANGED next
  /\ UNCHANGED <<files, unpersisted, review, now, losses, account, back,
                 verdict, seen>>

\* A tick that manages the open trade closes it.
ManageTrade == At(Loop, "execute") /\ CloseTrade(Loop, trade, "manage")

\* A tick that looks for an entry: can_trade first.
CanTrade ==
  /\ At(Loop, "execute")
  /\ order = "none" /\ position = trade      \* the bounds: one unbooked order,
  /\ trade < MaxHeld                         \* and MaxHeld
  /\ Check(Loop, "entry")
  /\ UNCHANGED <<files, unpersisted, review, now, losses, account, verdict,
                 seen, next>>

\* The order goes out, whatever was halted since can_trade.
Place ==
  /\ At(Loop, "place")
  /\ order' = "working"
  /\ Goto(Loop, "wait")
  /\ UNCHANGED <<files, unpersisted, review, now, losses, position, trade, back,
                 verdict, seen, next>>

\* The fill is journaled; an order that outlives the wait is not (for a
\* Durable broker, its attempt stays in the ledger).
WaitOver ==
  /\ At(Loop, "wait")
  /\ trade' = IF order = "none" THEN position ELSE trade
  /\ Goto(Loop, "execute")
  /\ UNCHANGED <<files, unpersisted, review, now, losses, order, position, back,
                 verdict, seen, next>>

EndBatch ==
  /\ At(Loop, "execute")
  /\ Goto(Loop, "service") /\ next' = "top"
  /\ UNCHANGED <<files, unpersisted, review, now, losses, account, back,
                 verdict, seen>>

----------------------------------------------------------------------------
(* API threads: a manual close, the panic button, and a resume.            *)

\* close_trade_by_id does not check the loss; a panic reconciles and closes
\* through _close_position, which does. The lock of an attempt still waited for
\* keeps it from being reconciled.
ManualClose(t) ==
  /\ At(t, "idle")
  /\ Close(trade)
  /\ UNCHANGED <<files, unpersisted, review, now, equity, balance, order, pc,
                 back, verdict, seen, next>>

PanicClose(t) ==
  /\ At(t, "idle")
  /\ CloseTrade(t, IF At(Loop, "wait") THEN trade ELSE Reconciled, "request")

\* A panic also sweeps positions the journal does not know, but not while an
\* order works.
PanicSweep(t) ==
  /\ At(t, "idle")
  /\ Reconciled = 0 /\ order = "none" /\ ~At(Loop, "wait")
  /\ position > 0
  /\ position' = 0
  /\ UNCHANGED <<files, unpersisted, review, now, losses, order, trade, pc, back,
                 verdict, seen, next>>

\* The endpoint reads the realized loss before the review starts. A temporary
\* limit, if any, is for the day the user's page shows.
AskResume(t) ==
  /\ At(t, "idle")
  /\ \E l \in Levels :
       seen' = [seen EXCEPT ![t] =
         [Nothing EXCEPT !.realized = realized,
                         !.limit = [day |-> Today, limit |-> l]]]
  /\ Goto(t, "resume")
  /\ UNCHANGED <<files, unpersisted, review, now, losses, account, back,
                 verdict, next>>

\* resume_after_review: halted, the flatten confirmed, journal and positions flat.
ResumeReview(t) ==
  /\ At(t, "resume") /\ review = Nobody
  /\ Locked /\ ~halt.pending /\ trade = 0 /\ position = 0
  /\ review' = t
  /\ Goto(t, "positions")
  /\ UNCHANGED <<files, unpersisted, now, losses, account, back, verdict, seen,
                 next>>

\* The limits the resumed day is held to.
LimitFor(t, x) == IF seen[t].limit.limit > 0 THEN seen[t].limit.limit ELSE LimitOr(x)
MutantAllowed(t) ==      \* the broker's equity is not asked for
  /\ order = "none"
  /\ seen[t].limit.limit > 0 => seen[t].limit.day = Today
  /\ seen[t].realized < LimitFor(t, Hard)
  /\ seen[t].realized < LimitFor(t, Soft)

Allowed(t) ==
  /\ order = "none"
  /\ seen[t].limit.limit > 0 => seen[t].limit.day = Today
  /\ equity < LimitFor(t, Hard)
  /\ seen[t].realized < LimitFor(t, Hard)
  /\ seen[t].realized < LimitFor(t, Soft)

EndResume(t) ==
  /\ seen'   = [seen EXCEPT ![t] = Nothing]
  /\ review' = IF review = t THEN Nobody ELSE review
  /\ Goto(t, "idle")

\* Orders and equity are read, the temporary limit saved, the halt cleared.
Resume(t) ==
  /\ At(t, "positions")
  /\ Allowed(t)
  /\ override' = IF seen[t].limit.limit > 0 THEN seen[t].limit ELSE override
  /\ halt' = NoHalt
  /\ EndResume(t)
  /\ UNCHANGED <<unpersisted, now, losses, account, back, verdict, next>>

\* Refused, or nothing to resume.
ResumeRefused(t) ==
  /\ \/ At(t, "resume") /\ review = Nobody
     \/ At(t, "positions")
  /\ EndResume(t)
  /\ UNCHANGED <<files, unpersisted, now, losses, account, back, verdict, next>>

----------------------------------------------------------------------------
(* The market, the clock, and the process.                                 *)

EquityMoves ==
  /\ position > 0
  /\ \E l \in Levels : l \in {equity - 1, equity + 1} /\ equity' = l
  /\ UNCHANGED <<files, unpersisted, review, now, realized, balance, account, pc,
                 back, verdict, seen, next>>

OrderFills ==
  /\ order = "working"
  /\ order' = "none" /\ position' = position + 1
  /\ UNCHANGED <<files, unpersisted, review, now, losses, trade, pc, back,
                 verdict, seen, next>>

OrderEnds ==
  /\ order = "working"
  /\ order' = "none"
  /\ UNCHANGED <<files, unpersisted, review, now, losses, position, trade, pc,
                 back, verdict, seen, next>>

\* A new day starts with no loss; the loop refreshes the day-open equity and
\* its balance before the market opens.
Tick ==
  /\ now < MaxTime
  /\ now' = now + 1
  /\ IF (now + 1) \div DayLength = Today
     THEN UNCHANGED losses
     ELSE realized' = 0 /\ equity' = 0 /\ balance' = 0
  /\ UNCHANGED <<files, unpersisted, review, account, pc, back, verdict, seen,
                 next>>

\* The process ends: what the threads and RiskManager held in memory is gone.
Restart ==
  /\ unpersisted' = NoVerdict /\ review' = Nobody
  /\ pc'      = [t \in Threads |-> IF t = Loop THEN "boot" ELSE "idle"]
  /\ back'    = [t \in Threads |-> "request"]
  /\ verdict' = [t \in Threads |-> NoVerdict]
  /\ seen'    = [t \in Threads |-> Nothing]
  /\ next'    = "top"
  /\ UNCHANGED <<files, now, losses, account>>

Boot ==
  /\ At(Loop, "boot")
  /\ Goto(Loop, "top")
  /\ UNCHANGED <<files, unpersisted, review, now, losses, account, back,
                 verdict, seen, next>>

----------------------------------------------------------------------------
Checking(t) == Retry(t) \/ Review(t) \/ Reread(t) \/ Persist(t)

Service == \/ TopOfCycle \/ SkipService \/ BeginFlatten \/ FlattenTrade
           \/ FlattenPending \/ ReadPositions \/ ReadOrders \/ Sweep
           \/ ConfirmRead \/ ConfirmWrite

Batch == \/ Fetch \/ Gate \/ ManageTrade \/ CanTrade \/ Place \/ WaitOver
         \/ EndBatch

Request(t) == \/ ManualClose(t) \/ PanicClose(t) \/ PanicSweep(t)
              \/ AskResume(t) \/ ResumeReview(t) \/ Resume(t) \/ ResumeRefused(t)

World == EquityMoves \/ OrderFills \/ OrderEnds \/ Tick

LoopStep == Service \/ Batch \/ Boot \/ Checking(Loop)

Work == \/ LoopStep
        \/ \E t \in Requests : Request(t) \/ Checking(t)
        \/ World

\* What the storage, the broker and the process do wrong.
Failure == \/ FetchFails \/ FlattenFails \/ ConfirmFails \/ Restart
           \/ \E t \in Threads : ReviewRaises(t) \/ PersistFails(t)

Next == Work \/ Failure

Spec == Init /\ [][Next]_vars

----------------------------------------------------------------------------
(* What the halt promises.                                                 *)

TypeOK ==
  /\ halt \in HaltType /\ override \in LimitType
  /\ unpersisted \in VerdictType
  /\ review \in Threads \cup {Nobody}
  /\ now \in 0 .. MaxTime
  /\ realized \in Levels /\ equity \in Levels /\ balance \in Levels
  /\ order \in {"none", "working"}
  /\ position \in 0 .. MaxHeld /\ trade \in 0 .. MaxHeld
  /\ pc \in [Threads -> Places]
  /\ back \in [Threads -> Callers]
  /\ verdict \in [Threads -> VerdictType]
  /\ seen \in [Threads -> SeenType]
  /\ next \in {"fetch", "gate", "top"}

Flat == trade = 0 /\ position = 0 /\ order = "none"

\* While a halt is in force, its flatten confirmed, the account is flat: no entry
\* that was past can_trade when the halt came, no order that filled during the
\* flatten, escapes it.
HaltedIsFlat == Locked /\ ~halt.pending => Flat

\* A review lifts a halt only of a flat account, confirmed so, and below the
\* hard limit that holds from then on.
ResumeIsSound ==
  [][Locked /\ halt' = NoHalt =>
       Flat /\ ~halt.pending /\ equity < LimitOr(Hard)']_vars

\* risk/guard.py:66: "Keep checking a pending soft halt: losses during an
\* unconfirmed close can cross the hard limit and require the longer freeze".
\* So a live hard halt stays hard, and as long, until a review lifts it.
HardFreezeKept ==
  [][halt.reason = "hard" /\ Locked =>
       \/ halt' = NoHalt
       \/ halt'.reason = "hard" /\ halt'.until >= halt.until]_vars

\* risk/kill_lock.py:70, on confirm_flattened: "Only after journal AND broker
\* confirm flat with no pending orders".
ConfirmsFlat == [][halt.pending /\ ~halt'.pending => Flat]_vars

----------------------------------------------------------------------------
(* The implementation of the abstract halt.                                *)
Phase == IF ~Locked THEN "open" ELSE IF halt.pending THEN "flattening" ELSE "halted"

Promise == INSTANCE TradingHalt WITH
             phase   <- Phase,
             exposed <- ~Flat,
             until   <- IF Locked THEN halt.until ELSE 0,
             now     <- now

\* Seen through the kill lock and the account, every interleaving of the loop, the
\* requests, the clock and the failures is a run of TradingHalt: a flattening ends
\* only with a flat account, and while it is halted nothing is entered.
ImplementsHalt == Promise!Spec

----------------------------------------------------------------------------
(* Liveness. The loop and the API threads run, the review lock starves     *)
(* nobody, a batch has finitely many tickers, 30 seconds pass between two  *)
(* flattens, an order fills or ends; and the failures end some day.        *)

Fairness ==
  /\ SF_vars(LoopStep) /\ SF_vars(EndBatch) /\ SF_vars(BeginFlatten)
  /\ \A t \in Requests :
       SF_vars(Checking(t) \/ ResumeReview(t) \/ Resume(t) \/ ResumeRefused(t))
  /\ WF_vars(OrderFills \/ OrderEnds)
  /\ <>[][Work]_vars

FairSpec == Spec /\ Fairness

\* A pending flatten is confirmed in the end: whatever fails, expires or is
\* asked for meanwhile, the loop keeps at it.
HaltsSettle == halt.pending ~> ~halt.pending

\* A hard breach once found is not lost to a failed write or to a recovered quote:
\* a live hard halt is persisted in the end, unless the process ends first.
BreachIsKept ==
  (\E t \in Threads : verdict[t].reason = "hard")
    ~> (Locked /\ halt.reason = "hard") \/ At(Loop, "boot")
=============================================================================
