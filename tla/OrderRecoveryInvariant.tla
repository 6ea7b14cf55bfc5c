----------------------- MODULE OrderRecoveryInvariant -----------------------
(***************************************************************************)
(* The inductive invariant behind the safety properties of OrderRecovery.  *)
(* It has one part per kind of fact:                                       *)
(*   Agrees     what a ledger record knows of its orders is true of them;  *)
(*   Stage      what holds where a process stands, of the attempt it works *)
(*              on;                                                        *)
(*   Owned      the lock holder is the only process inside a call, and the *)
(*              only active attempt is the one it works on.                *)
(* Agrees and Stage are predicates of VALUES (a record r, its orders o), so *)
(* that a step is proved for one attempt at a time.                        *)
(***************************************************************************)
EXTENDS OrderRecovery

Chain(o) == IF o["child"].st = "unsent" THEN o["limit"].filled
            ELSE o["child"].filled

\* The limit order, and the child that may have replaced it, cannot fill.
ChainOver(o) == \/ o["limit"].st \in TERMINAL
                \/ o["limit"].st = "replaced" /\ o["child"].st \in TERMINAL

\* The wait on the chain has ended, and the record tells what it left to send.
ChainKnown(r, o) ==
  /\ ChainOver(o)
  /\ o["limit"].st = "replaced" => r.snap["limit"].st = "replaced"
  /\ LastFilled(r) = Chain(o)

\* One order at the broker: no fill before it is on the book, none too many.
SoundOrder(x) ==
  /\ x.filled <= x.qty
  /\ x.st \in {"unsent", "sent", "lost", "refused"} => x.filled = 0
  /\ x.st \in {"sent", "working"} => x.filled < x.qty
  /\ x.st = "unsent" => x = NoOrder

\* The three orders of an attempt.
SoundOrders(r, o) ==
  /\ \A k \in Kinds : SoundOrder(o[k])
  /\ o["limit"].st # "unsent" => o["limit"].qty = r.qty
  /\ o["child"].st \in {"unsent", "working", "filled", "dead"}
  /\ o["child"].st = "unsent" <=> o["limit"].st # "replaced"
  /\ o["child"].st # "unsent" => /\ o["child"].qty = r.qty
                                 /\ o["limit"].filled <= o["child"].filled
  /\ o["market"].st # "replaced"
  /\ o["market"].st # "unsent" => o["market"].qty = r.qty - Chain(o)

\* A request is on record before its order exists, and keeps its outcome.
SoundRequests(r, o) ==
  /\ \A k \in Requests :
       /\ r.req[k] = "none" => o[k].st = "unsent"
       /\ r.req[k] = "rejected" => o[k].st = "refused"
       /\ r.req[k] = "known" => o[k].st \in OnBook
  /\ r.req["market"] # "none" =>
       r.req["limit"] = "known" /\ ChainKnown(r, o)

\* A snapshot is never ahead of its order, and a terminal one is exact; so is
\* that of a replaced order, unless it was taken before the PATCH.
SoundSnapshots(r, o) ==
  /\ \A k \in Kinds :
       /\ r.snap[k].filled <= o[k].filled
       /\ r.snap[k].st \in TERMINAL =>
            r.snap[k].st = o[k].st /\ r.snap[k].filled = o[k].filled
  /\ r.snap["limit"].st = "replaced" =>
       /\ o["limit"].st = "replaced"
       /\ r.snap["limit"].filled \in {0, o["limit"].filled}
  /\ r.execs.parent <= o["limit"].filled
  /\ r.execs.child > 0 => o["child"].st # "unsent"
  /\ o["child"].st # "unsent" =>
       r.execs.child <= o["child"].filled - o["limit"].filled

\* The journal is behind the broker, and level with it once the attempt is off
\* the ledger.
SoundBooking(r, o) ==
  /\ r.applied <= Chain(o) + o["market"].filled
  /\ r.state = "closed" =>
       /\ \A k \in Kinds : o[k].st \notin {"sent", "working"}
       /\ r.applied = Chain(o) + o["market"].filled
  /\ r.state = "unused" => r = NoRecord
  /\ r.state # "unused" => r.trade \in Attempts /\ r.qty > 0

Agrees(r, o) ==
  /\ SoundOrders(r, o)
  /\ SoundRequests(r, o)
  /\ SoundSnapshots(r, o)
  /\ SoundBooking(r, o)

\* What holds of the attempt (r, o) of a process at `where`, looking at order k.
Stage(where, k, r, o) ==
  /\ where \in {"record", "send", "await"} => k \in Requests
  /\ where = "record" =>
       /\ r.req[k] = "none"
       /\ k = "limit" => r.req["market"] = "none"
       /\ k = "market" => /\ r.req["limit"] = "known"
                          /\ ChainKnown(r, o)
                          /\ LastFilled(r) < r.qty
  /\ where \in {"send", "await"} =>
       /\ r.req[k] = "unknown"
       /\ k = "limit" => r.req["market"] = "none"
  /\ where = "send" => /\ o[k].st = "unsent"
                       /\ k = "market" => LastFilled(r) < r.qty
  /\ where \in {"poll", "cancel", "confirm"} =>
       /\ k \in Kinds
       /\ k \in Requests => r.req[k] = "known"
       /\ k # "market" => r.req["limit"] = "known" /\ r.req["market"] = "none"
  /\ where \in {"cancel", "confirm"} => k # "market"
  /\ where = "patching" => /\ k = "limit"
                           /\ r.req["limit"] = "known"
                           /\ r.req["market"] = "none"
                           /\ r.snap["limit"].filled = 0
  /\ where \notin {"idle", "sized"} /\ k = "child" =>
       r.req["limit"] = "known" /\ r.snap["limit"].st = "replaced"

Inside(p) == pc[p] \notin {"idle", "sized"}

\* Mutual exclusion, and the attempt it protects.
Owned ==
  /\ \A p \in Procs :
       /\ Inside(p) <=> lock = p
       /\ Inside(p) => cur[p] \in Attempts /\ rec[cur[p]].state = "active"
       /\ ~Inside(p) => watch[p] = "limit"
       /\ pc[p] = "sized" => /\ plan[p].qty > 0
                             /\ plan[p].side = "sell" => plan[p].trade \in Attempts
  /\ \A a, b \in Pending : a = b

IInv ==
  /\ TypeOK
  /\ Owned
  /\ \A a \in Attempts : Agrees(rec[a], ord[a])
  /\ \A p \in Procs : Inside(p) =>
       Stage(pc[p], watch[p], rec[cur[p]], ord[cur[p]])
  /\ JournalMatchesEntry

----------------------------------------------------------------------------
\* The journal and the sales: what a trade has sold are the booked contracts of
\* its sales, the one under way can sell what is left at most, and nothing is
\* sold that was not bought.
Booked == [s \in Attempts |-> rec[s].applied]

SalesInv ==
  /\ \A t \in Attempts : rec[t].side = "buy" =>
       /\ IsFiniteSet(Units(SalesOf(t), Booked))
       /\ Cardinality(Units(SalesOf(t), Booked)) = row[t].sold
  /\ \A s \in Attempts : rec[s].side = "sell" =>
       /\ rec[rec[s].trade].side = "buy" /\ rec[rec[s].trade].state # "unused"
       /\ rec[s].state = "active" => rec[s].qty - rec[s].applied <= row[rec[s].trade].contracts
=============================================================================
