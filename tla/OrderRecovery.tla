--------------------------- MODULE OrderRecovery ---------------------------
(***************************************************************************)
(* Durable execution of option orders at Alpaca, for ONE contract symbol   *)
(* of one account (the lock, the ledger query and the unique index are all *)
(* per account and symbol, so contracts do not interact here).             *)
(*                                                                         *)
(* Callers (the trading loop, manual close, panic) run place_option_order  *)
(* under @recoverable; the loop and the startup path run reconcile_orders. *)
(* The broker, and the network in between, are external: a request can be  *)
(* refused, lost, or answered late, orders fill and end at any moment, and *)
(* a PATCH replaces an order by a child that keeps the fills so far.       *)
(*                                                                         *)
(* Prices, wording, audit rows and credentials are left out; a fill that   *)
(* has no price yet is the nondeterministic ApplyRaises.                   *)
(***************************************************************************)
EXTENDS Units

CONSTANTS
  Procs,        \* threads and processes that place or reconcile orders
  Attempts,     \* ids of execution_recovery rows (an intent hash or a uuid)
  MaxQty,       \* largest order, in contracts
  Nobody        \* no process holds the lock / no attempt is being executed

ASSUME QtyAssumption == MaxQty \in Nat \ {0}
ASSUME NobodyAssumption == Nobody \notin Procs /\ Nobody \notin Attempts

VARIABLES
  rec,      \* rec[a]: the committed body of execution_recovery row a
  row,      \* row[a]: the trades row that the buy attempt a created
  lock,     \* holder of the per-contract flock
  pc,       \* where each process is
  cur,      \* the attempt a process is executing or recovering
  watch,    \* the order a process posts, polls or scans
  plan,     \* the arguments of a process's call
  ord,      \* ord[a][k]: the order at the broker (external)
  patch     \* patch[a]: a PATCH of a's limit order is under way (external)

durable == <<rec, row>>
broker  == <<ord, patch>>
local   == <<pc, cur, watch, plan>>
vars    == <<rec, row, lock, pc, cur, watch, plan, ord, patch>>

----------------------------------------------------------------------------
\* The orders an attempt can have: the first order, the order that replaced
\* it after a price step, and the market fallback of an emergency exit.
Kinds    == {"limit", "child", "market"}
Requests == {"limit", "market"}
Qty      == 0 .. MaxQty

TERMINAL == {"filled", "dead"}      \* dead: canceled, expired or rejected
OnBook   == {"working", "filled", "dead", "replaced"}  \* GET finds the order

SnapType == [st : OnBook \cup {"unseen"}, filled : Qty]

RecordType ==
  [state      : {"unused", "active", "closed"},
   side       : {"buy", "sell"},
   trade      : Attempts \cup {Nobody},
   qty        : Qty,
   applied    : Qty,
   req        : [Requests -> {"none", "unknown", "known", "rejected"}],
   snap       : [Kinds -> SnapType],
   replacing  : BOOLEAN,
   unverified : BOOLEAN,
   execs      : [parent : Qty, child : Qty]]

RowType   == [st : {"none", "open", "closed"}, contracts : Qty, sold : Qty]
OrderType == [st : {"unsent", "sent", "lost", "refused"} \cup OnBook,
              qty : Qty, filled : Qty, cancel : BOOLEAN]
PlanType  == [side : {"buy", "sell"}, trade : Attempts \cup {Nobody},
              expected : Qty, qty : Qty, fallback : BOOLEAN]

Unseen   == [st |-> "unseen", filled |-> 0]
NoRow    == [st |-> "none", contracts |-> 0, sold |-> 0]
NoOrder  == [st |-> "unsent", qty |-> 0, filled |-> 0, cancel |-> FALSE]
NoPlan   == [side |-> "buy", trade |-> Nobody, expected |-> 0, qty |-> 0,
             fallback |-> FALSE]
NoRecord ==
  [state |-> "unused", side |-> "buy", trade |-> Nobody, qty |-> 0,
   applied |-> 0, req |-> [k \in Requests |-> "none"],
   snap |-> [k \in Kinds |-> Unseen], replacing |-> FALSE,
   unverified |-> FALSE, execs |-> [parent |-> 0, child |-> 0]]

Locations == {"idle", "sized", "record", "send", "await", "poll", "patching",
              "cancel", "confirm", "finish", "verify", "recover", "apply",
              "unfetched"}

----------------------------------------------------------------------------
\* store.pending(symbol): the rows with active = 1.
Pending == {a \in Attempts : rec[a].state = "active"}

Snapshot(a, k) == [st |-> ord[a][k].st, filled |-> ord[a][k].filled]

\* snapshot(): the broker's answer to a GET, kept in the record.
Saw(a, k) == [rec[a] EXCEPT !.snap[k] = Snapshot(a, k)]

\* activity_totals(): executions listed so far for the replaced order and for
\* its child; complete when they reach the filled quantity of each snapshot.
\* The child's cum_qty goes on from the fills of the order it replaced.
ChildCum(r) == IF r.execs.child = 0 THEN 0
               ELSE r.snap["limit"].filled + r.execs.child
Covered(r)  == /\ r.execs.parent >= r.snap["limit"].filled
               /\ ChildCum(r) >= r.snap["child"].filled

NeedsExecutions(r) == r.snap["limit"].st = "replaced" /\ r.snap["limit"].filled > 0

\* The confirmed quantity of the order that worked last.
LastFilled(r) == IF r.snap["limit"].st = "replaced" THEN r.snap["child"].filled
                 ELSE r.snap["limit"].filled

\* totals(): confirmed contracts of one request, and whether it can still fill.
\* (The definitions named Mutant... are the mistakes the runs must notice.)
MutantRequestQty(r, k) ==      \* parent and child added, though the child carries on
  IF r.req[k] # "known" THEN 0
  ELSE r.snap[k].filled + IF k = "limit" THEN r.snap["child"].filled ELSE 0
MutantRequestFinal(r, k) ==    \* no order id is taken for no order
  r.req[k] = "known" => r.snap[k].st \in TERMINAL
MutantParentFinal(r, k) ==     \* a replaced order is taken for a finished one
  /\ r.req[k] # "unknown"
  /\ r.req[k] = "known" => r.snap[k].st \in TERMINAL \cup {"replaced"}

ChainQty(r)      == IF NeedsExecutions(r) THEN r.execs.parent + r.execs.child
                    ELSE LastFilled(r)
ChainFinal(r)    == IF r.snap["limit"].st = "replaced"
                    THEN /\ r.snap["child"].st \in TERMINAL
                         /\ NeedsExecutions(r) => Covered(r)
                    ELSE r.snap["limit"].st \in TERMINAL

RequestQty(r, k) ==
  IF r.req[k] # "known" THEN 0
  ELSE IF k = "limit" THEN ChainQty(r) ELSE r.snap[k].filled
RequestFinal(r, k) ==
  /\ r.req[k] # "unknown"
  /\ r.req[k] = "known" =>
       IF k = "limit" THEN ChainFinal(r) ELSE r.snap[k].st \in TERMINAL

Total(r) == RequestQty(r, "limit") + RequestQty(r, "market")
Final(r) == /\ RequestFinal(r, "limit")
            /\ RequestFinal(r, "market")
            /\ ~r.replacing

\* What the order that worked last left to send.
MutantFullSize(r)  == r.qty                    \* the whole order again
Remaining(r)       == r.qty - LastFilled(r)
----------------------------------------------------------------------------
Init ==
  /\ rec     = [a \in Attempts |-> NoRecord]
  /\ row     = [a \in Attempts |-> NoRow]
  /\ lock    = Nobody
  /\ pc      = [p \in Procs |-> "idle"]
  /\ cur     = [p \in Procs |-> Nobody]
  /\ watch   = [p \in Procs |-> "limit"]
  /\ plan    = [p \in Procs |-> NoPlan]
  /\ ord     = [a \in Attempts |-> [k \in Kinds |-> NoOrder]]
  /\ patch   = [a \in Attempts |-> FALSE]

Goto(p, where)    == pc' = [pc EXCEPT ![p] = where]
Observe(p, k)     == watch' = [watch EXCEPT ![p] = k]
Put(a, r)         == rec' = [rec EXCEPT ![a] = r]
At(p, where)      == pc[p] = where

\* The call returns: the context manager releases the flock.
Return(p) ==
  /\ pc'    = [pc EXCEPT ![p] = "idle"]
  /\ cur'   = [cur EXCEPT ![p] = Nobody]
  /\ watch' = [watch EXCEPT ![p] = "limit"]
  /\ plan'  = [plan EXCEPT ![p] = NoPlan]
  /\ lock'  = IF lock = p THEN Nobody ELSE lock

----------------------------------------------------------------------------
(* The call: sized from the journal before the lock is taken.              *)

\* A tick decides to buy q contracts.
SizeBuy(p) ==
  /\ At(p, "idle")
  /\ \E q \in 1 .. MaxQty :
       plan' = [plan EXCEPT ![p] = [NoPlan EXCEPT !.qty = q]]
  /\ Goto(p, "sized")
  /\ UNCHANGED <<rec, row, lock, cur, watch, ord, patch>>

\* A close (all contracts, with the market fallback when urgent) or a stage-1
\* exit (part of them, never with it) reads the open trade it will sell.
SizeSell(p) ==
  /\ At(p, "idle")
  /\ \E t \in Attempts : \E q \in 1 .. MaxQty : \E urgent \in BOOLEAN :
       /\ row[t].st = "open"
       /\ q <= row[t].contracts
       /\ urgent => q = row[t].contracts
       /\ plan' = [plan EXCEPT ![p] =
            [side |-> "sell", trade |-> t, expected |-> row[t].contracts,
             qty |-> q, fallback |-> urgent]]
  /\ Goto(p, "sized")
  /\ UNCHANGED <<rec, row, lock, cur, watch, ord, patch>>

MutantValid(pl) == pl.qty > 0      \* the journal is not read again

\* _validate(): an exit plan must still match the open journal trade.
Valid(pl) ==
  pl.side = "sell" =>
    /\ row[pl.trade].st = "open"
    /\ row[pl.trade].contracts = pl.expected
    /\ pl.qty <= row[pl.trade].contracts

\* Lock busy, plan stale, or (for an entry) an intent already processed.
Decline(p) ==
  /\ At(p, "sized")
  /\ \/ lock # Nobody
     \/ Pending = {} /\ ~Valid(plan[p])
     \/ Pending = {} /\ plan[p].side = "buy"
                     /\ \E a \in Attempts : rec[a].state # "unused"
     \/ \A a \in Attempts : rec[a].state # "unused"   \* the bound Attempts
  /\ Return(p)
  /\ UNCHANGED <<rec, row, ord, patch>>

\* The contract has an unresolved attempt: recover it, send nothing.
RecoverFirst(p) ==
  /\ At(p, "sized")
  /\ lock = Nobody
  /\ \E a \in Pending : cur' = [cur EXCEPT ![p] = a]
  /\ lock' = p
  /\ Goto(p, "recover")
  /\ Observe(p, "limit")
  /\ UNCHANGED <<rec, row, plan, ord, patch>>

MutantOpen(p) ==      \* the pending attempts are not looked at
  /\ At(p, "sized")
  /\ lock = Nobody
  /\ Valid(plan[p])
  /\ \E a \in Attempts :
       /\ rec[a].state = "unused"
       /\ Put(a, [NoRecord EXCEPT
            !.state = "active", !.side = plan[p].side, !.qty = plan[p].qty,
            !.trade = IF plan[p].side = "buy" THEN a ELSE plan[p].trade])
       /\ cur' = [cur EXCEPT ![p] = a]
  /\ lock' = p
  /\ Goto(p, "record")
  /\ Observe(p, "limit")
  /\ UNCHANGED <<row, plan, ord, patch>>

\* The attempt is on disk before anything is sent.
Open(p) ==
  /\ At(p, "sized")
  /\ lock = Nobody
  /\ Pending = {}
  /\ Valid(plan[p])
  /\ \E a \in Attempts :
       /\ rec[a].state = "unused"
       /\ Put(a, [NoRecord EXCEPT
            !.state = "active", !.side = plan[p].side, !.qty = plan[p].qty,
            !.trade = IF plan[p].side = "buy" THEN a ELSE plan[p].trade])
       /\ cur' = [cur EXCEPT ![p] = a]
  /\ lock' = p
  /\ Goto(p, "record")
  /\ Observe(p, "limit")
  /\ UNCHANGED <<row, plan, ord, patch>>

----------------------------------------------------------------------------
(* TrackingBroker._post, twice at most: the order and its market fallback. *)

\* The credentials are missing, or the commit of the request fails: the
\* call ends without a submission.
NotSent(p) ==
  /\ At(p, "record")
  /\ Goto(p, "finish")
  /\ UNCHANGED <<rec, row, lock, cur, watch, plan, ord, patch>>

MutantRecordRequest(p) ==      \* the request is saved only with its answer
  /\ At(p, "record")
  /\ Goto(p, "send")
  /\ UNCHANGED <<rec, row, lock, cur, watch, plan, ord, patch>>

RecordRequest(p) ==
  /\ At(p, "record")
  /\ Put(cur[p], [rec[cur[p]] EXCEPT !.req[watch[p]] = "unknown"])
  /\ Goto(p, "send")
  /\ UNCHANGED <<row, lock, cur, watch, plan, ord, patch>>

OrderQty(r, k) == IF k = "limit" THEN r.qty ELSE Remaining(r)

Send(p) ==
  /\ At(p, "send")
  /\ ord' = [ord EXCEPT ![cur[p]][watch[p]] =
               [NoOrder EXCEPT !.st = "sent",
                               !.qty = OrderQty(rec[cur[p]], watch[p])]]
  /\ Goto(p, "await")
  /\ UNCHANGED <<rec, row, lock, cur, watch, plan, patch>>

PostAccepted(p) ==
  /\ At(p, "await")
  /\ ord[cur[p]][watch[p]].st \in OnBook
  /\ Put(cur[p], [Saw(cur[p], watch[p]) EXCEPT !.req[watch[p]] = "known"])
  /\ Goto(p, "poll")
  /\ UNCHANGED <<row, lock, cur, watch, plan, ord, patch>>

PostRefused(p) ==
  /\ At(p, "await")
  /\ ord[cur[p]][watch[p]].st = "refused"
  /\ Put(cur[p], [rec[cur[p]] EXCEPT !.req[watch[p]] = "rejected"])
  /\ Goto(p, "finish")
  /\ UNCHANGED <<row, lock, cur, watch, plan, ord, patch>>

\* Timeout, reset, 5xx: the outcome is unknown, the request id is kept.
PostUncertain(p) ==
  /\ At(p, "await")
  /\ Goto(p, "finish")
  /\ UNCHANGED <<rec, row, lock, cur, watch, plan, ord, patch>>

----------------------------------------------------------------------------
(* _wait_for_fill.                                                         *)

Poll(p) ==
  /\ At(p, "poll")
  /\ Put(cur[p], Saw(cur[p], watch[p]))
  /\ \/ ord[cur[p]][watch[p]].st \in TERMINAL /\ Goto(p, "finish")
     \/ ord[cur[p]][watch[p]].st # "dead" /\ UNCHANGED pc   \* or filled, unpriced
  /\ UNCHANGED <<row, lock, cur, watch, plan, ord, patch>>

\* TrackingBroker._patch: never after a partial fill, and marked before it is
\* sent. A crash between mark and PATCH is a PATCH that the network lost.
StepPrice(p) ==
  /\ At(p, "poll")
  /\ watch[p] = "limit"
  /\ ~rec[cur[p]].replacing
  /\ rec[cur[p]].snap["limit"].filled = 0
  /\ Put(cur[p], [rec[cur[p]] EXCEPT !.replacing = TRUE])
  /\ patch' = [patch EXCEPT ![cur[p]] = TRUE]
  /\ Goto(p, "patching")
  /\ UNCHANGED <<row, lock, cur, watch, plan, ord>>

\* The child is recorded, and its parent as replaced by it; the parent's
\* filled quantity is still the one seen before the PATCH.
PatchAnswered(p) ==
  /\ At(p, "patching")
  /\ ord[cur[p]]["limit"].st = "replaced"
  /\ Put(cur[p], [Saw(cur[p], "child") EXCEPT
                    !.snap["limit"].st = "replaced", !.replacing = FALSE])
  /\ Observe(p, "child")
  /\ Goto(p, "poll")
  /\ UNCHANGED <<row, lock, cur, plan, ord, patch>>

PatchFailed(p) ==
  /\ At(p, "patching")
  /\ Goto(p, "poll")
  /\ UNCHANGED <<rec, row, lock, cur, watch, plan, ord, patch>>

\* The wait is over: a fallback is left working, the first order cancelled.
WaitOver(p) ==
  /\ At(p, "poll")
  /\ Goto(p, IF watch[p] = "market" THEN "finish" ELSE "cancel")
  /\ UNCHANGED <<rec, row, lock, cur, watch, plan, ord, patch>>

\* cancel_order: the broker takes note if the order still works.
RequestCancel(a, k) ==
  /\ ord[a][k].st = "working"
  /\ ord' = [ord EXCEPT ![a][k].cancel = TRUE]

CancelRemainder(p) ==
  /\ At(p, "cancel")
  /\ \/ RequestCancel(cur[p], watch[p])
     \/ UNCHANGED ord             \* the DELETE failed or came too late
  /\ Goto(p, "confirm")
  /\ UNCHANGED <<rec, row, lock, cur, watch, plan, patch>>

MutantFallbackAllowed(p) ==      \* an accepted cancellation is taken for a cancel
  /\ plan[p].fallback
  /\ ord[cur[p]][watch[p]].filled < rec[cur[p]].qty

\* Only a terminal status lets an emergency exit send the remainder at market.
FallbackAllowed(p) ==
  /\ plan[p].fallback
  /\ ord[cur[p]][watch[p]].st \in TERMINAL
  /\ ord[cur[p]][watch[p]].filled < rec[cur[p]].qty

Confirm(p) ==
  /\ At(p, "confirm")
  /\ Put(cur[p], Saw(cur[p], watch[p]))
  /\ \/ /\ FallbackAllowed(p)
        /\ Observe(p, "market")
        /\ Goto(p, "record")
     \/ /\ ~FallbackAllowed(p) \/ ord[cur[p]][watch[p]].filled > 0
        /\ Goto(p, "finish")     \* partial fill without a price, or no fallback
        /\ UNCHANGED watch
  /\ UNCHANGED <<row, lock, cur, plan, ord, patch>>

\* No status within five reads.
GiveUp(p) ==
  /\ At(p, "confirm")
  /\ Goto(p, "finish")
  /\ UNCHANGED <<rec, row, lock, cur, watch, plan, ord, patch>>

\* Back in execute(): a replaced order is verified before anything is booked.
Finish(p) ==
  /\ At(p, "finish")
  /\ IF rec[cur[p]].snap["limit"].st = "replaced"
     THEN /\ Put(cur[p], [rec[cur[p]] EXCEPT !.unverified = TRUE])
          /\ Goto(p, "verify")
     ELSE /\ Goto(p, "apply")
          /\ UNCHANGED rec
  /\ Observe(p, "limit")
  /\ UNCHANGED <<row, lock, cur, plan, ord, patch>>

----------------------------------------------------------------------------
(* poll_pending: by the caller after a replacement ("verify"), or by       *)
(* reconcile_orders and a caller that found a pending attempt ("recover"). *)

Reconcile(p) ==
  /\ At(p, "idle")
  /\ lock = Nobody
  /\ \E a \in Pending : cur' = [cur EXCEPT ![p] = a]
  /\ lock' = p
  /\ Goto(p, "recover")
  /\ UNCHANGED <<rec, row, watch, plan, ord, patch>>

Scanning(p) == pc[p] \in {"verify", "recover"}

NextToScan(k) == IF k = "market" THEN "done" ELSE "market"

\* Nothing to read: the request was never recorded, or was refused.
Unsent(p) == /\ watch[p] \in Requests
             /\ rec[cur[p]].req[watch[p]] \in {"none", "rejected"}

ScanSkip(p) ==
  /\ Scanning(p)
  /\ Unsent(p)
  /\ Observe(p, NextToScan(watch[p]))
  /\ UNCHANGED <<rec, row, lock, pc, cur, plan, ord, patch>>

\* The submission's answer was lost: the saved client id finds the order.
ScanByClientId(p) ==
  /\ Scanning(p)
  /\ watch[p] \in Requests
  /\ rec[cur[p]].req[watch[p]] = "unknown"
  /\ ord[cur[p]][watch[p]].st \in OnBook
  /\ Put(cur[p], [Saw(cur[p], watch[p]) EXCEPT !.req[watch[p]] = "known"])
  /\ UNCHANGED <<row, lock, pc, cur, watch, plan, ord, patch>>

\* Follow a replacement; ask for the cancellation of what still works.
ScanOrder(p, k) ==
  /\ Scanning(p)
  /\ watch[p] = k
  /\ k \in Requests => rec[cur[p]].req[k] = "known"
  /\ Put(cur[p], Saw(cur[p], k))
  /\ Observe(p, IF ord[cur[p]][k].st = "replaced" THEN "child" ELSE NextToScan(k))
  /\ RequestCancel(cur[p], k) \/ UNCHANGED ord
  /\ UNCHANGED <<row, lock, pc, cur, plan, patch>>

\* A read fails, or no order has that client id (yet): in execute() the call
\* ends with nothing booked; a recovery books what is already confirmed.
ScanFails(p) ==
  /\ Scanning(p)
  /\ watch[p] # "done" /\ ~Unsent(p)
  /\ UNCHANGED <<rec, row, ord, patch>>
  /\ IF pc[p] = "verify" THEN Return(p)
     ELSE Goto(p, "apply") /\ UNCHANGED <<lock, cur, watch, plan>>

MutantVerified(r) == [r EXCEPT !.unverified = FALSE]   \* the mark of the PATCH stays

Verified(r) == [r EXCEPT !.replacing = FALSE, !.unverified = FALSE]

\* Executions of the replaced order and of its child listed by the broker now:
\* at least those listed before, at most those that happened.
Listed(a) ==
  {e \in [parent : Qty, child : Qty] :
     /\ rec[a].execs.parent <= e.parent
     /\ e.parent <= ord[a]["limit"].filled
     /\ rec[a].execs.child <= e.child
     /\ e.child <= ord[a]["child"].filled - ord[a]["limit"].filled}

ScanDone(p) ==
  /\ Scanning(p)
  /\ watch[p] = "done"
  /\ IF NeedsExecutions(rec[cur[p]])
     THEN \E e \in Listed(cur[p]) :
            Put(cur[p], [Verified(rec[cur[p]]) EXCEPT !.execs = e])
     ELSE Put(cur[p], Verified(rec[cur[p]]))
  /\ Goto(p, "apply")
  /\ UNCHANGED <<row, lock, cur, watch, plan, ord, patch>>

\* The flags are cleared in memory; the listing that follows fails.
FetchFails(p) ==
  /\ Scanning(p)
  /\ watch[p] = "done"
  /\ NeedsExecutions(rec[cur[p]])
  /\ UNCHANGED <<rec, row, ord, patch>>
  /\ IF pc[p] = "verify" THEN Return(p)
     ELSE Goto(p, "unfetched") /\ UNCHANGED <<lock, cur, watch, plan>>

----------------------------------------------------------------------------
(* apply_fills: journal, ledger cursor and active flag in ONE transaction. *)

InMemory(p) == IF pc[p] = "unfetched" THEN Verified(rec[cur[p]])
               ELSE rec[cur[p]]

\* _entry: insert the trade, or grow it if nobody touched it.
EntryRow(a, r, total) ==
  IF r.applied = 0 THEN [NoRow EXCEPT !.st = "open", !.contracts = total]
  ELSE [row[a] EXCEPT !.contracts = total]
EntryFits(a, r) == r.applied = 0 \/ /\ row[a].st = "open"
                                    /\ row[a].contracts = r.applied

\* _exit: close the trade, or a child of it with the contracts sold.
ExitRow(t, delta) ==
  [row[t] EXCEPT !.contracts = @ - delta, !.sold = @ + delta,
                 !.st = IF row[t].contracts = delta THEN "closed" ELSE "open"]
ExitFits(t, delta) == row[t].st = "open" /\ delta <= row[t].contracts

Bookable(a, r) ==
  /\ ~r.unverified
  /\ Total(r) <= r.qty
  /\ r.applied <= Total(r)
  /\ Total(r) # r.applied =>
       IF r.side = "buy" THEN EntryFits(a, r)
       ELSE ExitFits(r.trade, Total(r) - r.applied)

MutantBookedRow(a, r, total) ==      \* the total is booked again, not the increment
  IF total = r.applied THEN row
  ELSE IF r.side = "buy" THEN [row EXCEPT ![a] = EntryRow(a, r, total)]
  ELSE [row EXCEPT ![r.trade] = ExitRow(r.trade, total)]

\* The trades table after the attempt's total has become `total`.
BookedRow(a, r, total) ==
  IF total = r.applied THEN row
  ELSE IF r.side = "buy" THEN [row EXCEPT ![a] = EntryRow(a, r, total)]
  ELSE [row EXCEPT ![r.trade] = ExitRow(r.trade, total - r.applied)]

Apply(p) ==
  /\ pc[p] \in {"apply", "unfetched"}
  /\ LET r == InMemory(p) IN
       /\ Bookable(cur[p], r)
       /\ row' = BookedRow(cur[p], r, Total(r))
       /\ Put(cur[p], [r EXCEPT !.applied = Total(r),
                                !.state = IF Final(r) THEN "closed" ELSE "active"])
  /\ Return(p)
  /\ UNCHANGED <<ord, patch>>

\* Conflicting evidence, or a fill whose price is not there yet: rolled back.
ApplyRaises(p) ==
  /\ pc[p] \in {"apply", "unfetched"}
  /\ ~Bookable(cur[p], InMemory(p)) \/ Total(InMemory(p)) > 0
  /\ Return(p)
  /\ UNCHANGED <<rec, row, ord, patch>>

----------------------------------------------------------------------------
(* A process dies: the kernel releases its flock, the databases stay.      *)
Crash(p) ==
  /\ lock = p
  /\ Return(p)
  /\ UNCHANGED <<rec, row, ord, patch>>

----------------------------------------------------------------------------
(* The broker and the network (external).                                  *)

SetOrder(a, k, o) == ord' = [ord EXCEPT ![a][k] = o]

\* A submission is accepted, refused (4xx), or never arrives.
Deliver(a, k, outcome) ==
  /\ ord[a][k].st = "sent"
  /\ SetOrder(a, k, [ord[a][k] EXCEPT !.st = outcome])
  /\ UNCHANGED <<durable, lock, local, patch>>

Fill(a, k) ==
  /\ ord[a][k].st = "working"
  /\ SetOrder(a, k,
       IF ord[a][k].filled + 1 = ord[a][k].qty
       THEN [ord[a][k] EXCEPT !.filled = @ + 1, !.st = "filled", !.cancel = FALSE]
       ELSE [ord[a][k] EXCEPT !.filled = @ + 1])
  /\ UNCHANGED <<durable, lock, local, patch>>

\* Canceled on request, or expired or rejected late.
End(a, k) ==
  /\ ord[a][k].st = "working"
  /\ SetOrder(a, k, [ord[a][k] EXCEPT !.st = "dead", !.cancel = FALSE])
  /\ UNCHANGED <<durable, lock, local, patch>>

Replace(a) ==
  /\ patch[a]
  /\ ord[a]["limit"].st = "working"
  /\ ord' = [ord EXCEPT ![a] =
       [@ EXCEPT !["limit"].st = "replaced", !["limit"].cancel = FALSE,
                 !["child"] = [ord[a]["limit"] EXCEPT !.cancel = FALSE]]]
  /\ patch' = [patch EXCEPT ![a] = FALSE]
  /\ UNCHANGED <<durable, lock, local>>

DropPatch(a) ==
  /\ patch[a]
  /\ patch' = [patch EXCEPT ![a] = FALSE]
  /\ UNCHANGED <<durable, lock, local, ord>>

----------------------------------------------------------------------------
Caller(p) ==
  \/ SizeBuy(p) \/ SizeSell(p) \/ Decline(p) \/ RecoverFirst(p) \/ Open(p)
  \/ NotSent(p) \/ RecordRequest(p) \/ Send(p)
  \/ PostAccepted(p) \/ PostRefused(p) \/ PostUncertain(p)
  \/ Poll(p) \/ StepPrice(p) \/ PatchAnswered(p) \/ PatchFailed(p)
  \/ WaitOver(p) \/ CancelRemainder(p) \/ Confirm(p) \/ GiveUp(p) \/ Finish(p)

Recovery(p) ==
  \/ Reconcile(p) \/ ScanSkip(p) \/ ScanByClientId(p)
  \/ \E k \in Kinds : ScanOrder(p, k)
  \/ ScanFails(p) \/ ScanDone(p) \/ FetchFails(p)
  \/ Apply(p) \/ ApplyRaises(p)

Broker ==
  \E a \in Attempts :
    \/ \E k \in Requests : \E outcome \in {"working", "refused", "lost"} :
         Deliver(a, k, outcome)
    \/ \E k \in Kinds : Fill(a, k) \/ End(a, k)
    \/ Replace(a)
    \/ DropPatch(a)

Work == Broker \/ \E p \in Procs : Caller(p) \/ Recovery(p)

Next == Work \/ \E p \in Procs : Crash(p)

Spec == Init /\ [][Next]_vars
----------------------------------------------------------------------------
(* What the ledger promises.                                               *)

TypeOK ==
  /\ rec     \in [Attempts -> RecordType]
  /\ row     \in [Attempts -> RowType]
  /\ lock    \in Procs \cup {Nobody}
  /\ pc      \in [Procs -> Locations]
  /\ cur     \in [Procs -> Attempts \cup {Nobody}]
  /\ watch   \in [Procs -> Kinds \cup {"done"}]
  /\ plan    \in [Procs -> PlanType]
  /\ ord     \in [Attempts -> [Kinds -> OrderType]]
  /\ patch   \in [Attempts -> BOOLEAN]

\* An order that can still fill.
Live(a, k) == ord[a][k].st \in {"sent", "working"}

\* Contracts the broker has executed for an attempt: the child of a replaced
\* order carries the fills of its parent.
ChainFills(a) == IF ord[a]["child"].st = "unsent" THEN ord[a]["limit"].filled
                 ELSE ord[a]["child"].filled
Fills(a)      == ChainFills(a) + ord[a]["market"].filled

\* Contracts an order may still execute.
Room(a, k)    == IF Live(a, k) THEN ord[a][k].qty - ord[a][k].filled ELSE 0
WorstCase(a)  == Fills(a) + Room(a, "limit") + Room(a, "child") + Room(a, "market")

\* However requests, cancels and replacements race with fills, an attempt never
\* executes more contracts than it was asked for: the market fallback sends
\* only the remainder of an order whose terminal status was read.
NeverOverfilled == \A a \in Attempts : WorstCase(a) <= rec[a].qty

\* An attempt is taken off the ledger only when none of its orders can fill any
\* more, and then the journal holds exactly what the broker executed.
ClosedIsComplete ==
  \A a \in Attempts : rec[a].state = "closed" =>
    /\ \A k \in Kinds : ~Live(a, k)
    /\ rec[a].applied = Fills(a)

\* An order the broker may still fill always belongs to an active attempt that
\* remembers having sent it, whatever crash came in between.
NoOrphanOrder ==
  \A a \in Attempts : \A k \in Kinds : Live(a, k) =>
    /\ rec[a].state = "active"
    /\ k \in Requests => rec[a].req[k] \in {"unknown", "known"}

\* No second order for the contract while one can still fill.
OneLiveOrder ==
  \A a, b \in Attempts : \A j, k \in Kinds :
    Live(a, j) /\ Live(b, k) => a = b /\ j = k

\* The journal never shows a contract the broker did not execute.
BookedIsExecuted == \A a \in Attempts : rec[a].applied <= Fills(a)

\* The contracts of a trade, open and sold, are those its entry has booked.
JournalMatchesEntry ==
  \A t \in Attempts :
    /\ row[t].contracts + row[t].sold =
         IF rec[t].side = "buy" THEN rec[t].applied ELSE 0
    /\ row[t].st = "open" <=> row[t].contracts > 0

SalesOf(t) == {s \in Attempts : /\ rec[s].state # "unused" /\ rec[s].side = "sell"
                                /\ rec[s].trade = t}

\* Two closers with stale sizes, a crash, a fallback: the orders that sell one
\* trade, in the worst case, never sell more than its entry bought.
NeverShort ==
  \A t \in Attempts : rec[t].side = "buy" =>
    Cardinality(Units(SalesOf(t), [s \in Attempts |-> WorstCase(s)])) <= Fills(t)

\* A closed attempt is never reopened, and nothing fills behind its back; what
\* is booked is never taken back.
SettledForGood ==
  [][\A a \in Attempts :
       /\ rec[a].state = "closed" => rec'[a] = rec[a] /\ Fills(a)' = Fills(a)
       /\ rec[a].applied <= rec'[a].applied]_vars

----------------------------------------------------------------------------
(* The implementation of the abstract ledger.                              *)
Ledger == INSTANCE FillLedger WITH
            state    <- [a \in Attempts |-> rec[a].state],
            size     <- [a \in Attempts |-> rec[a].qty],
            executed <- [a \in Attempts |-> Fills(a)],
            booked   <- [a \in Attempts |-> rec[a].applied]

\* Seen through attempts, executed and booked contracts, every interleaving of
\* calls, recoveries, crashes and broker events is a run of FillLedger.
ImplementsLedger == Ledger!Spec

----------------------------------------------------------------------------
(* Liveness. The loop calls reconcile_orders on every tick, after hours    *)
(* too; a read, a cancel request, a listing of executions or a price that  *)
(* can succeed again and again succeeds some day; the broker delivers or   *)
(* loses what is sent and ends an order whose cancellation it accepted;    *)
(* processes stop crashing.                                                *)

Proceed(p) == ~At(p, "idle") /\ (Caller(p) \/ Recovery(p))

Everything(a) == [parent |-> ord[a]["limit"].filled,
                  child  |-> ord[a]["child"].filled - ord[a]["limit"].filled]

ServiceFairness(p) ==
  /\ WF_vars(Proceed(p))
  /\ SF_vars(ScanByClientId(p))
  /\ \A k \in Kinds : /\ SF_vars(ScanOrder(p, k))
                      /\ SF_vars(ScanOrder(p, k) /\ ord' # ord)
  /\ SF_vars(ScanDone(p))
  /\ SF_vars(ScanDone(p) /\ rec'[cur[p]].execs = Everything(cur[p]))
  /\ SF_vars(Apply(p))

BrokerFairness(a) ==
  /\ \A k \in Requests :
       WF_vars(\E outcome \in {"working", "refused", "lost"} : Deliver(a, k, outcome))
  /\ \A k \in Kinds : WF_vars(ord[a][k].cancel /\ End(a, k))
  /\ WF_vars(Replace(a) \/ DropPatch(a))

Fairness ==
  /\ SF_vars(\E p \in Procs : Reconcile(p))
  /\ \A p \in Procs : ServiceFairness(p)
  /\ \A a \in Attempts : BrokerFairness(a)
  /\ <>[][Work]_vars

FairSpec == Spec /\ Fairness

\* A submission recorded, but unknown to the broker for ever.
NeverArrived(a) ==
  \E k \in Requests : /\ rec[a].req[k] = "unknown"
                      /\ ord[a][k].st \in {"unsent", "lost", "refused"}

\* A replaced order had fills, and its child ended without one of its own.
Stranded(a) ==
  /\ ord[a]["limit"].st = "replaced"
  /\ ord[a]["limit"].filled > 0
  /\ ord[a]["child"].st = "dead"
  /\ ord[a]["child"].filled = ord[a]["limit"].filled

\* No attempt stays unresolved for ever, apart from two kinds the code leaves
\* to the operator: a submission the broker never got, and a replacement whose
\* carried-over fills no execution of the child proves.
AttemptsResolve ==
  \A a \in Attempts :
    []<>(rec[a].state # "active" \/ NeverArrived(a) \/ Stranded(a))

\* docs/runbooks/uncertain-order-recovery.md: "When fills race a replacement,
\* individual FILL activities and their unique execution IDs resolve the
\* parent/child quantities".
ReplacementsResolve ==
  \A a \in Attempts : []<>(rec[a].state # "active" \/ NeverArrived(a))
============================================================================
