------------------------ MODULE OrderRecovery_proofs ------------------------
(***************************************************************************)
(* IInv is inductive, so its corollaries hold of OrderRecovery for every   *)
(* number of processes, attempts and contracts.                            *)
(***************************************************************************)
EXTENDS OrderRecoveryInvariant, Units_proofs, TLAPS

USE QtyAssumption, NobodyAssumption

\* A step of the lock holder p that rewrites its attempt's record and orders,
\* and leaves what the journal is compared with alone, is sound if the new
\* values agree and fit the place where p goes.
LEMMA HolderStep ==
  ASSUME IInv, NEW p \in Procs, lock = p,
         NEW r \in RecordType, NEW o \in [Kinds -> OrderType],
         NEW w \in Locations \ {"idle", "sized"}, NEW k \in Kinds \cup {"done"},
         rec' = [rec EXCEPT ![cur[p]] = r], ord' = [ord EXCEPT ![cur[p]] = o],
         pc' = [pc EXCEPT ![p] = w], watch' = [watch EXCEPT ![p] = k],
         UNCHANGED <<row, lock, cur, plan>>, patch' \in [Attempts -> BOOLEAN],
         r.state = "active", r.side = rec[cur[p]].side,
         r.applied = rec[cur[p]].applied,
         Agrees(r, o), Stage(w, k, r, o)
  PROVE  IInv'
<1> USE DEF IInv
<1>1. TypeOK'
  BY DEF TypeOK
<1>2. Owned'
  BY DEF TypeOK, Owned, Inside, Pending
<1>3. (\A a \in Attempts : Agrees(rec[a], ord[a]))'
  BY DEF TypeOK
<1>4. (\A q \in Procs : Inside(q) =>
         Stage(pc[q], watch[q], rec[cur[q]], ord[cur[q]]))'
  BY DEF TypeOK, Owned, Inside
<1>5. JournalMatchesEntry'
  BY DEF TypeOK, JournalMatchesEntry
<1> QED BY <1>1, <1>2, <1>3, <1>4, <1>5

\* Nothing is rewritten and p returns, with the lock or without.
LEMMA ReturnStep ==
  ASSUME IInv, NEW p \in Procs, Return(p), UNCHANGED <<rec, row, ord>>,
         patch' \in [Attempts -> BOOLEAN]
  PROVE  IInv'
<1> USE DEF IInv
<1>1. TypeOK'
  BY DEF TypeOK, Return, PlanType, NoPlan, Locations, Kinds, Qty
<1>2. Owned'
  BY DEF TypeOK, Owned, Inside, Pending, Return
<1>3. (\A a \in Attempts : Agrees(rec[a], ord[a]))'
  OBVIOUS
<1>4. (\A q \in Procs : Inside(q) =>
         Stage(pc[q], watch[q], rec[cur[q]], ord[cur[q]]))'
  BY DEF TypeOK, Owned, Inside, Return
<1>5. JournalMatchesEntry'
  BY DEF TypeOK, JournalMatchesEntry
<1> QED BY <1>1, <1>2, <1>3, <1>4, <1>5

\* A step of the broker on the orders of one attempt is sound if the record
\* still agrees with them wherever a process may be.
LEMMA BrokerStep ==
  ASSUME IInv, NEW a \in Attempts, NEW o \in [Kinds -> OrderType],
         ord' = [ord EXCEPT ![a] = o], patch' \in [Attempts -> BOOLEAN],
         UNCHANGED <<durable, lock, local>>,
         Agrees(rec[a], o),
         \A w \in Locations \ {"idle", "sized"}, k \in Kinds \cup {"done"} :
           Stage(w, k, rec[a], ord[a]) => Stage(w, k, rec[a], o)
  PROVE  IInv'
<1> USE DEF IInv, durable, local
<1>1. TypeOK'
  BY DEF TypeOK
<1>2. Owned'
  BY DEF TypeOK, Owned, Inside, Pending
<1>3. (\A b \in Attempts : Agrees(rec[b], ord[b]))'
  BY DEF TypeOK
<1>4. (\A q \in Procs : Inside(q) =>
         Stage(pc[q], watch[q], rec[cur[q]], ord[cur[q]]))'
  BY DEF TypeOK, Owned, Inside
<1>5. JournalMatchesEntry'
  BY DEF TypeOK, JournalMatchesEntry
<1> QED BY <1>1, <1>2, <1>3, <1>4, <1>5

\* A process takes the free lock for an attempt that is, or becomes, active.
LEMMA AcquireStep ==
  ASSUME IInv, NEW p \in Procs, pc[p] \in {"idle", "sized"}, lock = Nobody,
         NEW a \in Attempts, NEW r \in RecordType,
         NEW w \in Locations \ {"idle", "sized"},
         rec' = [rec EXCEPT ![a] = r], cur' = [cur EXCEPT ![p] = a], lock' = p,
         pc' = [pc EXCEPT ![p] = w], watch' = [watch EXCEPT ![p] = "limit"],
         UNCHANGED <<row, plan, ord, patch>>,
         r.state = "active", \A b \in Pending : b = a,
         r.applied = rec[a].applied,
         r.side = rec[a].side \/ (r.applied = 0 /\ row[a].contracts + row[a].sold = 0),
         Agrees(r, ord[a]), Stage(w, "limit", r, ord[a])
  PROVE  IInv'
<1> USE DEF IInv
<1>1. TypeOK'
  BY DEF TypeOK, Kinds
<1>2. Owned'
  BY DEF TypeOK, Owned, Inside, Pending
<1>3. (\A b \in Attempts : Agrees(rec[b], ord[b]))'
  BY DEF TypeOK
<1>4. (\A q \in Procs : Inside(q) =>
         Stage(pc[q], watch[q], rec[cur[q]], ord[cur[q]]))'
  BY DEF TypeOK, Owned, Inside
<1>5. JournalMatchesEntry'
  BY DEF TypeOK, JournalMatchesEntry, RecordType, RowType
<1> QED BY <1>1, <1>2, <1>3, <1>4, <1>5

----------------------------------------------------------------------------
(* Where a process stands inside a call.                                   *)

LEMMA InsideFacts ==
  ASSUME IInv, NEW p \in Procs, Inside(p)
  PROVE  /\ lock = p
         /\ cur[p] \in Attempts
         /\ watch[p] \in Kinds \cup {"done"}
         /\ rec[cur[p]] \in RecordType
         /\ ord[cur[p]] \in [Kinds -> OrderType]
         /\ rec[cur[p]].state = "active"
         /\ Agrees(rec[cur[p]], ord[cur[p]])
         /\ Stage(pc[p], watch[p], rec[cur[p]], ord[cur[p]])
  BY DEF IInv, TypeOK, Owned

\* The same, for a step that rewrites neither the record nor the orders.
LEMMA MoveStep ==
  ASSUME IInv, NEW p \in Procs, Inside(p),
         NEW w \in Locations \ {"idle", "sized"}, NEW k \in Kinds \cup {"done"},
         pc' = [pc EXCEPT ![p] = w], watch' = [watch EXCEPT ![p] = k],
         UNCHANGED <<rec, row, lock, cur, plan, ord, patch>>,
         Stage(w, k, rec[cur[p]], ord[cur[p]])
  PROVE  IInv'
<1> DEFINE a == cur[p]
<1>1. lock = p /\ a \in Attempts /\ rec[a] \in RecordType
      /\ ord[a] \in [Kinds -> OrderType]
      /\ rec[a].state = "active" /\ Agrees(rec[a], ord[a])
  BY InsideFacts
<1>2. rec' = [rec EXCEPT ![a] = rec[a]] /\ ord' = [ord EXCEPT ![a] = ord[a]]
      /\ patch' \in [Attempts -> BOOLEAN]
  BY <1>1 DEF IInv, TypeOK
<1> QED BY <1>1, <1>2, HolderStep

----------------------------------------------------------------------------
(* Records and orders, one attempt at a time.                              *)

\* A request is recorded before it is sent.
LEMMA Recorded ==
  ASSUME NEW r \in RecordType, NEW o \in [Kinds -> OrderType], NEW k \in Kinds,
         r.state = "active", Agrees(r, o), Stage("record", k, r, o)
  PROVE  LET s == [r EXCEPT !.req[k] = "unknown"] IN
         /\ s \in RecordType
         /\ s.state = "active" /\ s.side = r.side /\ s.applied = r.applied
         /\ Agrees(s, o)
         /\ Stage("send", k, s, o)
<1> DEFINE s == [r EXCEPT !.req[k] = "unknown"]
<1>1. k \in Requests
  BY DEF Stage
<1>2. s \in RecordType
  BY <1>1 DEF RecordType, Requests
<1>3. /\ s.state = r.state /\ s.side = r.side /\ s.applied = r.applied
      /\ s.qty = r.qty /\ s.snap = r.snap /\ s.execs = r.execs
      /\ s.trade = r.trade
      /\ s.req[k] = "unknown"
      /\ \A j \in Requests : j # k => s.req[j] = r.req[j]
  BY <1>1 DEF RecordType
<1> HIDE DEF s
<1>4. SoundOrders(s, o)
  BY <1>3 DEF Agrees, SoundOrders
<1>5. SoundRequests(s, o)
  BY <1>1, <1>3 DEF Agrees, SoundRequests, Stage, Requests, ChainKnown, LastFilled
<1>6. SoundSnapshots(s, o) /\ SoundBooking(s, o)
  BY <1>3 DEF Agrees, SoundSnapshots, SoundBooking
<1>7. Stage("send", k, s, o)
  BY <1>1, <1>3 DEF Agrees, SoundRequests, Stage, Requests, LastFilled
<1> QED BY <1>2, <1>3, <1>4, <1>5, <1>6, <1>7 DEF Agrees, s

\* What a GET answers.
Answer(o, k) == [st |-> o[k].st, filled |-> o[k].filled]

\* The answer of the broker for order k is kept; an order that was found is known.
LEMMA Seen ==
  ASSUME NEW r \in RecordType, NEW o \in [Kinds -> OrderType], NEW k \in Kinds,
         r.state = "active", Agrees(r, o),
         k \in Requests => r.req[k] \in {"unknown", "known"} /\ o[k].st \in OnBook,
         k = "child" => r.snap["limit"].st = "replaced"
  PROVE  LET s == [r EXCEPT !.snap[k] = Answer(o, k),
                            !.req = IF k \in Requests THEN [@ EXCEPT ![k] = "known"]
                                    ELSE @] IN
         /\ s \in RecordType
         /\ Agrees(s, o)
<1> DEFINE s == [r EXCEPT !.snap[k] = Answer(o, k),
                          !.req = IF k \in Requests THEN [@ EXCEPT ![k] = "known"]
                                  ELSE @]
<1>1. o[k].st \in OnBook
  BY DEF Kinds, Requests, Agrees, SoundSnapshots, SoundOrders, OrderType, OnBook
<1>2. Answer(o, k) \in SnapType
  BY <1>1 DEF Answer, SnapType, OrderType
<1>3. s \in RecordType
  BY <1>2 DEF RecordType
<1>4. /\ s.state = r.state /\ s.side = r.side /\ s.applied = r.applied
      /\ s.qty = r.qty /\ s.execs = r.execs /\ s.trade = r.trade
      /\ s.snap[k].st = o[k].st /\ s.snap[k].filled = o[k].filled
      /\ \A j \in Kinds : j # k => s.snap[j] = r.snap[j]
      /\ k \in Requests => s.req[k] = "known"
      /\ \A j \in Requests : j # k => s.req[j] = r.req[j]
  BY DEF RecordType, Answer
<1> HIDE DEF s
<1>5. SoundOrders(s, o)
  BY <1>4 DEF Agrees, SoundOrders
<1>6. SoundSnapshots(s, o)
  BY <1>1, <1>4 DEF Agrees, SoundSnapshots, SoundOrders, SoundOrder, TERMINAL, Kinds,
                    OrderType, Qty
<1>7. SoundRequests(s, o)
  <2>1. \A j \in Requests : /\ s.req[j] = "none" => o[j].st = "unsent"
                            /\ s.req[j] = "rejected" => o[j].st = "refused"
                            /\ s.req[j] = "known" => o[j].st \in OnBook
    BY <1>1, <1>4 DEF Agrees, SoundRequests
  <2>2. s.req["market"] # "none" => r.req["market"] # "none"
    BY <1>4 DEF Requests
  <2>3. ASSUME r.req["market"] # "none"
        PROVE  s.req["limit"] = "known" /\ ChainKnown(s, o)
    <3>1. s.req["limit"] = "known"
      BY <1>4, <2>3 DEF Agrees, SoundRequests, Requests, Kinds
    <3>2. ChainKnown(s, o)
      BY <1>4, <2>3 DEF Agrees, SoundRequests, SoundSnapshots, SoundOrders, ChainKnown,
                        ChainOver, Chain, LastFilled, Kinds, TERMINAL
    <3> QED BY <3>1, <3>2
  <2> QED BY <2>1, <2>2, <2>3 DEF SoundRequests
<1>8. SoundBooking(s, o)
  BY <1>4 DEF Agrees, SoundBooking
<1> QED BY <1>3, <1>5, <1>6, <1>7, <1>8 DEF Agrees, s

\* A cancellation is requested of an order that works.
LEMMA Cancelled ==
  ASSUME NEW r \in RecordType, NEW o \in [Kinds -> OrderType], NEW k \in Kinds,
         o[k].st = "working", Agrees(r, o)
  PROVE  LET o2 == [o EXCEPT ![k].cancel = TRUE] IN
         /\ o2 \in [Kinds -> OrderType]
         /\ Agrees(r, o2)
         /\ \A w \in Locations, j \in Kinds \cup {"done"} :
              Stage(w, j, r, o) => Stage(w, j, r, o2)
<1> DEFINE o2 == [o EXCEPT ![k].cancel = TRUE]
<1>1. o2 \in [Kinds -> OrderType]
  BY DEF OrderType
<1>2. \A j \in Kinds : o2[j].st = o[j].st /\ o2[j].qty = o[j].qty
                       /\ o2[j].filled = o[j].filled /\ (o2[j] = o[j] \/ j = k)
  BY DEF OrderType
<1> HIDE DEF o2
<1>3. Chain(o2) = Chain(o) /\ ChainOver(o2) = ChainOver(o)
  BY <1>2 DEF Chain, ChainOver, Kinds
<1>4. SoundOrders(r, o2)
  <2>1. \A j \in Kinds : SoundOrder(o2[j])
    BY <1>2 DEF Agrees, SoundOrders, SoundOrder
  <2> QED BY <1>2, <1>3, <2>1 DEF Agrees, SoundOrders, Kinds
<1>5. SoundRequests(r, o2) /\ SoundSnapshots(r, o2) /\ SoundBooking(r, o2)
  BY <1>2, <1>3 DEF Agrees, SoundRequests, SoundSnapshots, SoundBooking, ChainKnown,
                    Kinds, Requests
<1>6. \A w \in Locations, j \in Kinds \cup {"done"} :
        Stage(w, j, r, o) => Stage(w, j, r, o2)
  BY <1>2, <1>3 DEF Stage, ChainKnown, Kinds, Requests
<1> QED BY <1>1, <1>4, <1>5, <1>6 DEF Agrees, o2

\* The broker confirms a PATCH: the child is recorded and its parent replaced.
LEMMA Patched ==
  ASSUME NEW r \in RecordType, NEW o \in [Kinds -> OrderType], NEW k \in Kinds,
         r.state = "active", Agrees(r, o), Stage("patching", k, r, o),
         o["limit"].st = "replaced"
  PROVE  LET s == [r EXCEPT !.snap["child"] = Answer(o, "child"),
                            !.snap["limit"].st = "replaced", !.replacing = FALSE] IN
         /\ s \in RecordType
         /\ Agrees(s, o)
         /\ Stage("poll", "child", s, o)
<1> DEFINE s == [r EXCEPT !.snap["child"] = Answer(o, "child"),
                          !.snap["limit"].st = "replaced", !.replacing = FALSE]
<1>1. o["child"].st \in OnBook
  BY DEF Agrees, SoundOrders, OnBook
<1>2. s \in RecordType
  <2>1. Answer(o, "child") \in SnapType
    BY <1>1 DEF SnapType, Answer, OrderType, Kinds
  <2>2. [r.snap["limit"] EXCEPT !.st = "replaced"] \in SnapType
    BY DEF RecordType, SnapType, Kinds, OnBook
  <2>3. [r.snap EXCEPT !["child"] = Answer(o, "child"), !["limit"].st = "replaced"]
          \in [Kinds -> SnapType]
    BY <2>1, <2>2 DEF RecordType, Kinds
  <2> QED BY <2>3 DEF RecordType
<1>3. /\ s.state = r.state /\ s.side = r.side /\ s.applied = r.applied
      /\ s.qty = r.qty /\ s.execs = r.execs /\ s.trade = r.trade /\ s.req = r.req
      /\ s.snap["child"].st = o["child"].st
      /\ s.snap["child"].filled = o["child"].filled
      /\ s.snap["limit"].st = "replaced"
      /\ s.snap["limit"].filled = r.snap["limit"].filled
      /\ s.snap["market"] = r.snap["market"]
  BY DEF RecordType, SnapType, Answer, Kinds
<1> HIDE DEF s
<1>4. SoundOrders(s, o)
  BY <1>3 DEF Agrees, SoundOrders
<1>5. SoundSnapshots(s, o)
  BY <1>1, <1>3 DEF Agrees, SoundSnapshots, SoundOrders, Kinds, TERMINAL, OrderType,
                    Qty, Stage
<1>6. SoundRequests(s, o) /\ SoundBooking(s, o)
  BY <1>3 DEF Agrees, SoundRequests, SoundBooking, Stage
<1>7. Stage("poll", "child", s, o)
  BY <1>3 DEF Stage, Requests, Kinds
<1> QED BY <1>2, <1>4, <1>5, <1>6, <1>7 DEF Agrees, s

\* The two forms in which the code keeps an answer.
LEMMA SeenKnown ==
  ASSUME IInv, NEW a \in Attempts, NEW k \in Kinds, rec[a].state = "active",
         k \in Requests => rec[a].req[k] = "known",
         k = "child" => rec[a].snap["limit"].st = "replaced"
  PROVE  /\ Saw(a, k) \in RecordType
         /\ Saw(a, k).state = "active" /\ Saw(a, k).side = rec[a].side
         /\ Saw(a, k).applied = rec[a].applied /\ Saw(a, k).req = rec[a].req
         /\ Saw(a, k).qty = rec[a].qty /\ Saw(a, k).replacing = rec[a].replacing
         /\ \A j \in Kinds : j # k => Saw(a, k).snap[j] = rec[a].snap[j]
         /\ Saw(a, k).snap[k] = Answer(ord[a], k)
         /\ Agrees(Saw(a, k), ord[a])
<1> DEFINE r == rec[a]
           s == [r EXCEPT !.snap[k] = Answer(ord[a], k),
                          !.req = IF k \in Requests THEN [@ EXCEPT ![k] = "known"]
                                  ELSE @]
<1>1. r \in RecordType /\ ord[a] \in [Kinds -> OrderType] /\ Agrees(r, ord[a])
  BY DEF IInv, TypeOK
<1>2. k \in Requests => ord[a][k].st \in OnBook
  BY <1>1 DEF Agrees, SoundRequests
<1>3. s \in RecordType /\ Agrees(s, ord[a])
  BY <1>1, <1>2, Seen
<1>4. Saw(a, k) = [r EXCEPT !.snap[k] = Answer(ord[a], k)]
  BY DEF Saw, Snapshot, Answer
<1>5. s = Saw(a, k)
  <2>1. k \in Requests => [r.req EXCEPT ![k] = "known"] = r.req
    BY <1>1 DEF RecordType
  <2>2. s = [r EXCEPT !.snap[k] = Answer(ord[a], k), !.req = r.req]
    BY <2>1
  <2>3. s = [r EXCEPT !.snap[k] = Answer(ord[a], k)]
    BY <1>1, <2>2 DEF RecordType
  <2> QED BY <1>4, <2>3
<1>6. /\ Saw(a, k).state = "active" /\ Saw(a, k).side = r.side
      /\ Saw(a, k).applied = r.applied /\ Saw(a, k).req = r.req
      /\ Saw(a, k).qty = r.qty /\ Saw(a, k).replacing = r.replacing
      /\ \A j \in Kinds : j # k => Saw(a, k).snap[j] = r.snap[j]
      /\ Saw(a, k).snap[k] = Answer(ord[a], k)
  BY <1>1, <1>4 DEF RecordType
<1> QED BY <1>3, <1>5, <1>6

LEMMA SeenFound ==
  ASSUME IInv, NEW a \in Attempts, NEW k \in Requests, rec[a].state = "active",
         rec[a].req[k] = "unknown", ord[a][k].st \in OnBook
  PROVE  LET s == [Saw(a, k) EXCEPT !.req[k] = "known"] IN
         /\ s \in RecordType
         /\ s.state = "active" /\ s.side = rec[a].side /\ s.applied = rec[a].applied
         /\ s.req[k] = "known" /\ \A j \in Requests : j # k => s.req[j] = rec[a].req[j]
         /\ Agrees(s, ord[a])
<1> DEFINE r == rec[a]
           s == [r EXCEPT !.snap[k] = Answer(ord[a], k),
                          !.req = IF k \in Requests THEN [@ EXCEPT ![k] = "known"]
                                  ELSE @]
<1>1. r \in RecordType /\ ord[a] \in [Kinds -> OrderType] /\ Agrees(r, ord[a])
      /\ k \in Kinds
  BY DEF IInv, TypeOK, Kinds, Requests
<1>2. s \in RecordType /\ Agrees(s, ord[a])
  BY <1>1, Seen DEF Requests
<1>3. s = [Saw(a, k) EXCEPT !.req[k] = "known"]
  BY <1>1 DEF RecordType, Saw, Snapshot, Answer
<1>4. /\ s.state = "active" /\ s.side = r.side /\ s.applied = r.applied
      /\ s.req[k] = "known" /\ \A j \in Requests : j # k => s.req[j] = r.req[j]
  BY <1>1 DEF RecordType, Kinds
<1> HIDE DEF s
<1> QED BY <1>2, <1>3, <1>4

\* Agreement is about evidence: the flags replacing and unverified are not.
LEMMA SameEvidence ==
  ASSUME NEW r, NEW s, NEW o, r.state = "active", Agrees(r, o),
         s.state = r.state, s.trade = r.trade, s.qty = r.qty, s.applied = r.applied,
         s.req = r.req, s.snap = r.snap, s.execs = r.execs
  PROVE  Agrees(s, o)
<1>1. SoundOrders(s, o) /\ SoundRequests(s, o)
  BY DEF Agrees, SoundOrders, SoundRequests, ChainKnown, LastFilled
<1>2. SoundSnapshots(s, o) /\ SoundBooking(s, o)
  BY DEF Agrees, SoundSnapshots, SoundBooking
<1> QED BY <1>1, <1>2 DEF Agrees

----------------------------------------------------------------------------
(* The steps of the caller.                                                *)

LEMMA SizeBuySafe ==
  ASSUME IInv, NEW p \in Procs, SizeBuy(p)
  PROVE  IInv'
<1> PICK q \in 1 .. MaxQty :
      plan' = [plan EXCEPT ![p] = [NoPlan EXCEPT !.qty = q]]
  BY DEF SizeBuy
<1>1. plan' \in [Procs -> PlanType] /\ pc' \in [Procs -> Locations]
  <2>1. [NoPlan EXCEPT !.qty = q] \in PlanType
    <3>1. NoPlan \in PlanType
      BY DEF PlanType, NoPlan, Qty
    <3>2. q \in Qty
      BY DEF Qty
    <3> QED BY <3>1, <3>2 DEF PlanType
  <2>2. plan' \in [Procs -> PlanType]
    BY <2>1 DEF IInv, TypeOK
  <2>3. pc' \in [Procs -> Locations]
    BY DEF IInv, TypeOK, SizeBuy, Goto, Locations
  <2> QED BY <2>2, <2>3
<1>2. TypeOK'
  BY <1>1 DEF IInv, TypeOK, SizeBuy
<1>3. Owned'
  BY <1>1 DEF IInv, TypeOK, Owned, SizeBuy, Goto, At, Inside, Pending, NoPlan
<1>4. (\A x \in Procs : Inside(x) =>
         Stage(pc[x], watch[x], rec[cur[x]], ord[cur[x]]))'
  BY DEF IInv, TypeOK, SizeBuy, Goto, At, Inside
<1>5. JournalMatchesEntry' /\ (\A a \in Attempts : Agrees(rec[a], ord[a]))'
  BY DEF IInv, JournalMatchesEntry, SizeBuy
<1> QED BY <1>2, <1>3, <1>4, <1>5 DEF IInv

LEMMA SizeSellSafe ==
  ASSUME IInv, NEW p \in Procs, SizeSell(p)
  PROVE  IInv'
<1> PICK t \in Attempts, q \in 1 .. MaxQty, urgent \in BOOLEAN :
      plan' = [plan EXCEPT ![p] =
            [side |-> "sell", trade |-> t, expected |-> row[t].contracts,
             qty |-> q, fallback |-> urgent]]
  BY DEF SizeSell
<1>1. plan' \in [Procs -> PlanType] /\ pc' \in [Procs -> Locations]
  BY DEF IInv, TypeOK, SizeSell, PlanType, RowType, Goto, Locations, Qty
<1>2. TypeOK'
  BY <1>1 DEF IInv, TypeOK, SizeSell
<1>3. Owned'
  BY <1>1 DEF IInv, TypeOK, Owned, SizeSell, Goto, At, Inside, Pending
<1>4. (\A x \in Procs : Inside(x) =>
         Stage(pc[x], watch[x], rec[cur[x]], ord[cur[x]]))'
  BY DEF IInv, TypeOK, SizeSell, Goto, At, Inside
<1>5. JournalMatchesEntry' /\ (\A a \in Attempts : Agrees(rec[a], ord[a]))'
  BY DEF IInv, JournalMatchesEntry, SizeSell
<1> QED BY <1>2, <1>3, <1>4, <1>5 DEF IInv

LEMMA DeclineSafe ==
  ASSUME IInv, NEW p \in Procs, Decline(p)
  PROVE  IInv'
<1>1. patch' \in [Attempts -> BOOLEAN]
  BY DEF IInv, TypeOK, Decline
<1> QED BY <1>1, ReturnStep DEF Decline

LEMMA OpenSafe ==
  ASSUME IInv, NEW p \in Procs, Open(p)
  PROVE  IInv'
<1> PICK a \in Attempts :
      /\ rec[a].state = "unused"
      /\ Put(a, [NoRecord EXCEPT
            !.state = "active", !.side = plan[p].side, !.qty = plan[p].qty,
            !.trade = IF plan[p].side = "buy" THEN a ELSE plan[p].trade])
      /\ cur' = [cur EXCEPT ![p] = a]
  BY DEF Open
<1> DEFINE r == [NoRecord EXCEPT
            !.state = "active", !.side = plan[p].side, !.qty = plan[p].qty,
            !.trade = IF plan[p].side = "buy" THEN a ELSE plan[p].trade]
<1>1. rec[a] = NoRecord /\ Agrees(NoRecord, ord[a])
  BY DEF IInv, Agrees, SoundBooking
<1>2. /\ plan[p] \in PlanType /\ plan[p].qty > 0
      /\ plan[p].side = "sell" => plan[p].trade \in Attempts
  BY DEF IInv, TypeOK, Owned, Open, At
<1>3. NoRecord \in RecordType
  BY <1>1 DEF IInv, TypeOK
<1>4. r \in RecordType
  BY <1>2, <1>3 DEF RecordType, PlanType
<1>5. /\ r.state = "active" /\ r.side = plan[p].side /\ r.applied = 0
      /\ r.qty = plan[p].qty /\ r.trade \in Attempts
      /\ r.req["limit"] = "none" /\ r.req["market"] = "none"
      /\ r.snap = NoRecord.snap /\ r.execs = NoRecord.execs
  BY <1>2 DEF NoRecord, PlanType, Requests
<1>6. ord[a]["limit"].st = "unsent" /\ ord[a]["market"].st = "unsent"
      /\ ord[a]["child"].st = "unsent"
  BY <1>1 DEF Agrees, SoundRequests, SoundOrders, NoRecord, Requests
<1> HIDE DEF r
<1>7. Agrees(r, ord[a])
  <2>1. SoundOrders(r, ord[a])
    BY <1>1, <1>6 DEF Agrees, SoundOrders
  <2>2. SoundRequests(r, ord[a])
    BY <1>5, <1>6 DEF SoundRequests, Requests
  <2>3. SoundSnapshots(r, ord[a])
    BY <1>1, <1>5 DEF Agrees, SoundSnapshots
  <2>4. SoundBooking(r, ord[a])
    <3>1. NoRecord.applied = 0
      BY DEF NoRecord
    <3> QED BY <1>1, <1>2, <1>5, <3>1 DEF Agrees, SoundBooking
  <2> QED BY <2>1, <2>2, <2>3, <2>4 DEF Agrees
<1>8. Stage("record", "limit", r, ord[a])
  BY <1>5 DEF Stage, Requests
<1>9. row[a].contracts + row[a].sold = 0
  <2>1. NoRecord.applied = 0
    BY DEF NoRecord
  <2> QED BY <1>1, <2>1 DEF IInv, JournalMatchesEntry
<1>10. \A b \in Pending : b = a
  BY DEF Open
<1>11. "record" \in Locations \ {"idle", "sized"}
  BY DEF Locations
<1>12. rec[a].applied = 0
  BY <1>1 DEF NoRecord
<1>13. rec' = [rec EXCEPT ![a] = r] /\ pc[p] = "sized" /\ lock = Nobody /\ lock' = p
       /\ pc' = [pc EXCEPT ![p] = "record"]
       /\ watch' = [watch EXCEPT ![p] = "limit"]
       /\ UNCHANGED <<row, plan, ord, patch>>
  BY DEF Open, Put, Goto, Observe, At, r
<1> QED BY <1>4, <1>5, <1>7, <1>8, <1>9, <1>10, <1>11, <1>12, <1>13, AcquireStep

\* The lock is taken for the attempt that is already pending.
LEMMA RecoverSafe ==
  ASSUME IInv, NEW p \in Procs, RecoverFirst(p) \/ Reconcile(p)
  PROVE  IInv'
<1> PICK a \in Pending : cur' = [cur EXCEPT ![p] = a]
  BY DEF RecoverFirst, Reconcile
<1>1. a \in Attempts /\ rec[a].state = "active" /\ rec[a] \in RecordType
      /\ \A b \in Pending : b = a
  BY DEF Pending, IInv, TypeOK, Owned
<1>2. rec' = [rec EXCEPT ![a] = rec[a]]
  BY <1>1 DEF IInv, TypeOK, RecoverFirst, Reconcile
<1>3. watch' = [watch EXCEPT ![p] = "limit"]
  BY DEF IInv, TypeOK, Owned, RecoverFirst, Reconcile, Observe, Inside, At
<1>4. Stage("recover", "limit", rec[a], ord[a])
  BY DEF Stage
<1>5. "recover" \in Locations \ {"idle", "sized"}
  BY DEF Locations
<1>6. Agrees(rec[a], ord[a])
  BY <1>1 DEF IInv
<1>7. /\ pc[p] \in {"idle", "sized"} /\ lock = Nobody /\ lock' = p
      /\ pc' = [pc EXCEPT ![p] = "recover"]
      /\ UNCHANGED <<row, plan, ord, patch>>
  BY DEF RecoverFirst, Reconcile, At, Goto
<1> QED BY <1>1, <1>2, <1>3, <1>4, <1>5, <1>6, <1>7, AcquireStep

\* Steps that only move the caller on, or give up and go back to execute().
LEMMA MoveSafe ==
  ASSUME IInv, NEW p \in Procs,
         \/ NotSent(p) \/ PostUncertain(p) \/ PatchFailed(p)
         \/ WaitOver(p) \/ GiveUp(p)
  PROVE  IInv'
<1>1. Inside(p)
  BY DEF NotSent, PostUncertain, PatchFailed, WaitOver, GiveUp, At, Inside
<1>2. PICK w \in {"finish", "poll", "cancel"} :
        /\ pc' = [pc EXCEPT ![p] = w]
        /\ w = "poll" => pc[p] = "patching"
        /\ w = "cancel" => pc[p] = "poll" /\ watch[p] # "market"
  BY DEF NotSent, PostUncertain, PatchFailed, WaitOver, GiveUp, At, Goto
<1>3. w \in Locations \ {"idle", "sized"}
  BY DEF Locations
<1>4. Stage(pc[p], watch[p], rec[cur[p]], ord[cur[p]]) /\ watch[p] \in Kinds \cup {"done"}
  BY <1>1, InsideFacts
<1>5. Stage(w, watch[p], rec[cur[p]], ord[cur[p]])
  BY <1>1, <1>2, <1>4 DEF Stage, Inside, Kinds, Requests
<1>6. /\ watch' = [watch EXCEPT ![p] = watch[p]]
      /\ UNCHANGED <<rec, row, lock, cur, plan, ord, patch>>
  BY DEF IInv, TypeOK, NotSent, PostUncertain, PatchFailed, WaitOver, GiveUp
<1> QED BY <1>1, <1>2, <1>3, <1>4, <1>5, <1>6, MoveStep

LEMMA RecordRequestSafe ==
  ASSUME IInv, NEW p \in Procs, RecordRequest(p)
  PROVE  IInv'
<1> DEFINE r == rec[cur[p]]  o == ord[cur[p]]  k == watch[p]
           s == [r EXCEPT !.req[k] = "unknown"]
<1>1. Inside(p) /\ pc[p] = "record"
  BY DEF RecordRequest, At, Inside
<1>2. /\ lock = p /\ cur[p] \in Attempts /\ r \in RecordType
      /\ o \in [Kinds -> OrderType] /\ r.state = "active" /\ Agrees(r, o)
      /\ Stage("record", k, r, o) /\ k \in Kinds
  BY <1>1, InsideFacts DEF Stage, Requests, Kinds
<1>3. /\ s \in RecordType /\ s.state = "active" /\ s.side = r.side
      /\ s.applied = r.applied /\ Agrees(s, o) /\ Stage("send", k, s, o)
  BY <1>2, Recorded
<1>4. /\ rec' = [rec EXCEPT ![cur[p]] = s]
      /\ pc' = [pc EXCEPT ![p] = "send"]
      /\ ord' = [ord EXCEPT ![cur[p]] = o] /\ watch' = [watch EXCEPT ![p] = k]
      /\ patch' \in [Attempts -> BOOLEAN] /\ UNCHANGED <<row, lock, cur, plan>>
  BY <1>2 DEF IInv, TypeOK, RecordRequest, Put, Goto
<1>5. "send" \in Locations \ {"idle", "sized"}
  BY DEF Locations
<1> HIDE DEF s
<1> QED BY <1>2, <1>3, <1>4, <1>5, HolderStep

\* The request leaves; its order is as large as what is left to trade.
LEMMA SendSafe ==
  ASSUME IInv, NEW p \in Procs, Send(p)
  PROVE  IInv'
<1> DEFINE r == rec[cur[p]]  o == ord[cur[p]]  k == watch[p]
           x == [NoOrder EXCEPT !.st = "sent", !.qty = OrderQty(r, k)]
           n == [o EXCEPT ![k] = x]
<1>1. Inside(p) /\ pc[p] = "send"
  BY DEF Send, At, Inside
<1>2. /\ lock = p /\ cur[p] \in Attempts /\ r \in RecordType
      /\ o \in [Kinds -> OrderType] /\ r.state = "active" /\ Agrees(r, o)
      /\ Stage("send", k, r, o) /\ k \in Requests /\ k \in Kinds
  BY <1>1, InsideFacts DEF Stage, Requests, Kinds
<1>3. r.qty \in Qty /\ r.qty > 0 /\ LastFilled(r) \in Qty
      /\ (k = "market" => LastFilled(r) < r.qty)
  BY <1>2 DEF Agrees, SoundBooking, RecordType, SnapType, LastFilled, Kinds, Stage
<1>4. OrderQty(r, k) \in Qty /\ OrderQty(r, k) > 0
  BY <1>2, <1>3 DEF OrderQty, Remaining, Qty, Requests
<1>5. x \in OrderType /\ x.st = "sent" /\ x.filled = 0 /\ x.qty = OrderQty(r, k)
  <2>1. NoOrder \in OrderType
    BY DEF OrderType, NoOrder, Qty
  <2>2. x \in OrderType
    BY <1>4, <2>1 DEF OrderType
  <2>3. x.st = "sent" /\ x.filled = 0 /\ x.qty = OrderQty(r, k)
    BY DEF NoOrder
  <2> QED BY <2>2, <2>3
<1> HIDE DEF x
<1>6. n \in [Kinds -> OrderType] /\ n[k] = x /\ \A j \in Kinds : j # k => n[j] = o[j]
  BY <1>2, <1>5
<1> HIDE DEF n
<1>7. o[k].st = "unsent" /\ r.req[k] = "unknown"
  BY <1>2 DEF Stage
<1>8. o[k].filled = 0
  BY <1>2, <1>7 DEF Agrees, SoundOrders, SoundOrder
<1>9. /\ k = "limit"  => r.req["market"] = "none" /\ o["market"].st = "unsent"
                         /\ o["child"].st = "unsent"
      /\ k = "market" => ChainKnown(r, o)
  BY <1>2, <1>7 DEF Stage, Agrees, SoundRequests, SoundOrders, Requests
<1>10. Chain(n) = Chain(o) /\ (k = "market" => ChainOver(n) = ChainOver(o))
  BY <1>2, <1>5, <1>6, <1>8, <1>9 DEF Chain, ChainOver, Requests, Kinds
<1>11. SoundOrders(r, n)
  <2>1. \A j \in Kinds : SoundOrder(n[j])
    BY <1>2, <1>4, <1>5, <1>6 DEF Agrees, SoundOrders, SoundOrder, Qty
  <2>2. CASE k = "limit"
    BY <1>2, <1>5, <1>6, <1>9, <2>1, <2>2 DEF Agrees, SoundOrders, OrderQty, Kinds
  <2>3. CASE k = "market"
    BY <1>2, <1>5, <1>6, <1>9, <1>10, <2>1, <2>3
    DEF Agrees, SoundOrders, OrderQty, Remaining, ChainKnown, Kinds
  <2> QED BY <1>2, <2>2, <2>3 DEF Requests
<1>12. SoundRequests(r, n)
  BY <1>2, <1>5, <1>6, <1>7, <1>9, <1>10
  DEF Agrees, SoundRequests, ChainKnown, Kinds, Requests
<1>13. SoundSnapshots(r, n)
  BY <1>2, <1>5, <1>6, <1>7, <1>8, <1>9
  DEF Agrees, SoundSnapshots, Kinds, Requests, TERMINAL
<1>14. SoundBooking(r, n)
  BY <1>2, <1>5, <1>6, <1>8, <1>10 DEF Agrees, SoundBooking, Kinds, Requests
<1>15. Stage("await", k, r, n)
  BY <1>2, <1>9 DEF Stage, Kinds, Requests
<1>16. /\ rec' = [rec EXCEPT ![cur[p]] = r]
       /\ pc' = [pc EXCEPT ![p] = "await"]
       /\ ord' = [ord EXCEPT ![cur[p]] = n] /\ watch' = [watch EXCEPT ![p] = k]
       /\ patch' \in [Attempts -> BOOLEAN] /\ UNCHANGED <<row, lock, cur, plan>>
  BY <1>2 DEF IInv, TypeOK, Send, Goto, n, x
<1>17. "await" \in Locations \ {"idle", "sized"}
  BY DEF Locations
<1>18. Agrees(r, n)
  BY <1>11, <1>12, <1>13, <1>14 DEF Agrees
<1> QED BY <1>2, <1>6, <1>15, <1>16, <1>17, <1>18, HolderStep

LEMMA PostAcceptedSafe ==
  ASSUME IInv, NEW p \in Procs, PostAccepted(p)
  PROVE  IInv'
<1> DEFINE r == rec[cur[p]]  o == ord[cur[p]]  k == watch[p]
           s == [Saw(cur[p], k) EXCEPT !.req[k] = "known"]
<1>1. Inside(p) /\ pc[p] = "await"
  BY DEF PostAccepted, At, Inside
<1>2. /\ lock = p /\ cur[p] \in Attempts /\ o \in [Kinds -> OrderType]
      /\ r.state = "active" /\ Stage("await", k, r, o) /\ k \in Requests
      /\ k \in Kinds /\ r.req[k] = "unknown" /\ o[k].st \in OnBook
  BY <1>1, InsideFacts DEF Stage, Requests, Kinds, PostAccepted
<1>3. /\ s \in RecordType /\ s.state = "active" /\ s.side = r.side
      /\ s.applied = r.applied /\ Agrees(s, o) /\ s.req[k] = "known"
      /\ \A j \in Requests : j # k => s.req[j] = r.req[j]
  BY <1>2, SeenFound
<1>4. /\ rec' = [rec EXCEPT ![cur[p]] = s]
      /\ pc' = [pc EXCEPT ![p] = "poll"]
      /\ ord' = [ord EXCEPT ![cur[p]] = o] /\ watch' = [watch EXCEPT ![p] = k]
      /\ patch' \in [Attempts -> BOOLEAN] /\ UNCHANGED <<row, lock, cur, plan>>
  BY <1>2 DEF IInv, TypeOK, PostAccepted, Put, Goto
<1> HIDE DEF s
<1>5. Stage("poll", k, s, o)
  BY <1>2, <1>3 DEF Stage, Requests, Kinds
<1>6. "poll" \in Locations \ {"idle", "sized"}
  BY DEF Locations
<1> QED BY <1>2, <1>3, <1>4, <1>5, <1>6, HolderStep

\* Only a request that the broker refused is ever recorded as rejected.
LEMMA PostRefusedSafe ==
  ASSUME IInv, NEW p \in Procs, PostRefused(p)
  PROVE  IInv'
<1> DEFINE r == rec[cur[p]]  o == ord[cur[p]]  k == watch[p]
           s == [r EXCEPT !.req[k] = "rejected"]
<1>1. Inside(p) /\ pc[p] = "await"
  BY DEF PostRefused, At, Inside
<1>2. /\ lock = p /\ cur[p] \in Attempts /\ r \in RecordType
      /\ o \in [Kinds -> OrderType] /\ r.state = "active" /\ Agrees(r, o)
      /\ Stage("await", k, r, o) /\ k \in Requests /\ k \in Kinds
      /\ r.req[k] = "unknown" /\ o[k].st = "refused"
      /\ k = "limit" => r.req["market"] = "none"
  BY <1>1, InsideFacts DEF Stage, Requests, Kinds, PostRefused
<1>3. s \in RecordType
  BY <1>2 DEF RecordType
<1>4. /\ s.state = r.state /\ s.side = r.side /\ s.applied = r.applied
      /\ s.qty = r.qty /\ s.snap = r.snap /\ s.execs = r.execs
      /\ s.trade = r.trade /\ s.req[k] = "rejected"
      /\ \A j \in Requests : j # k => s.req[j] = r.req[j]
  BY <1>2 DEF RecordType
<1>5. /\ rec' = [rec EXCEPT ![cur[p]] = s]
      /\ pc' = [pc EXCEPT ![p] = "finish"]
      /\ ord' = [ord EXCEPT ![cur[p]] = o] /\ watch' = [watch EXCEPT ![p] = k]
      /\ patch' \in [Attempts -> BOOLEAN] /\ UNCHANGED <<row, lock, cur, plan>>
  BY <1>2 DEF IInv, TypeOK, PostRefused, Put, Goto
<1> HIDE DEF s
<1>6. SoundOrders(s, o) /\ SoundSnapshots(s, o) /\ SoundBooking(s, o)
  BY <1>2, <1>4 DEF Agrees, SoundOrders, SoundSnapshots, SoundBooking
<1>7. SoundRequests(s, o)
  BY <1>2, <1>4 DEF Agrees, SoundRequests, ChainKnown, LastFilled, Requests, Kinds
<1>8. Stage("finish", k, s, o)
  BY <1>2 DEF Stage, Requests
<1>9. "finish" \in Locations \ {"idle", "sized"}
  BY DEF Locations
<1>10. Agrees(s, o)
  BY <1>6, <1>7 DEF Agrees
<1> QED BY <1>2, <1>3, <1>4, <1>5, <1>8, <1>9, <1>10, HolderStep

LEMMA PollSafe ==
  ASSUME IInv, NEW p \in Procs, Poll(p)
  PROVE  IInv'
<1> DEFINE r == rec[cur[p]]  o == ord[cur[p]]  k == watch[p]  s == Saw(cur[p], k)
<1>1. Inside(p) /\ pc[p] = "poll"
  BY DEF Poll, At, Inside
<1>2. /\ lock = p /\ cur[p] \in Attempts /\ o \in [Kinds -> OrderType]
      /\ r.state = "active" /\ Stage("poll", k, r, o) /\ k \in Kinds
  BY <1>1, InsideFacts DEF Stage
<1>3. /\ s \in RecordType /\ s.state = "active" /\ s.side = r.side
      /\ s.applied = r.applied /\ Agrees(s, o) /\ s.req = r.req
      /\ \A j \in Kinds : j # k => s.snap[j] = r.snap[j]
  BY <1>2, SeenKnown DEF Stage
<1>4. PICK w \in {"poll", "finish"} : pc' = [pc EXCEPT ![p] = w]
  BY <1>1 DEF Poll, Goto, IInv, TypeOK
<1>5. /\ rec' = [rec EXCEPT ![cur[p]] = s]
      /\ ord' = [ord EXCEPT ![cur[p]] = o] /\ watch' = [watch EXCEPT ![p] = k]
      /\ patch' \in [Attempts -> BOOLEAN] /\ UNCHANGED <<row, lock, cur, plan>>
  BY <1>2 DEF IInv, TypeOK, Poll, Put
<1> HIDE DEF s
<1>6. Stage(w, k, s, o)
  BY <1>2, <1>3, <1>4 DEF Stage, Kinds, Requests
<1>7. w \in Locations \ {"idle", "sized"}
  BY DEF Locations
<1> QED BY <1>2, <1>3, <1>4, <1>5, <1>6, <1>7, HolderStep

LEMMA StepPriceSafe ==
  ASSUME IInv, NEW p \in Procs, StepPrice(p)
  PROVE  IInv'
<1> DEFINE r == rec[cur[p]]  o == ord[cur[p]]  s == [r EXCEPT !.replacing = TRUE]
<1>1. Inside(p) /\ pc[p] = "poll" /\ watch[p] = "limit"
  BY DEF StepPrice, At, Inside
<1>2. /\ lock = p /\ cur[p] \in Attempts /\ r \in RecordType
      /\ o \in [Kinds -> OrderType] /\ r.state = "active" /\ Agrees(r, o)
      /\ Stage("poll", "limit", r, o) /\ r.snap["limit"].filled = 0
  BY <1>1, InsideFacts DEF StepPrice
<1>3. s \in RecordType
  BY <1>2 DEF RecordType
<1>4. /\ s.state = r.state /\ s.side = r.side /\ s.applied = r.applied
      /\ s.qty = r.qty /\ s.snap = r.snap /\ s.execs = r.execs
      /\ s.trade = r.trade /\ s.req = r.req
  BY <1>2 DEF RecordType
<1>5. /\ rec' = [rec EXCEPT ![cur[p]] = s]
      /\ pc' = [pc EXCEPT ![p] = "patching"]
      /\ ord' = [ord EXCEPT ![cur[p]] = o] /\ watch' = [watch EXCEPT ![p] = "limit"]
      /\ patch' \in [Attempts -> BOOLEAN] /\ UNCHANGED <<row, lock, cur, plan>>
  BY <1>1, <1>2 DEF IInv, TypeOK, StepPrice, Put, Goto
<1> HIDE DEF s
<1>6. Agrees(s, o)
  BY <1>2, <1>4, SameEvidence
<1>7. Stage("patching", "limit", s, o)
  BY <1>2, <1>4 DEF Stage, Requests
<1>8. "patching" \in Locations \ {"idle", "sized"} /\ "limit" \in Kinds
  BY DEF Locations, Kinds
<1> QED BY <1>2, <1>3, <1>4, <1>5, <1>6, <1>7, <1>8, HolderStep

LEMMA PatchAnsweredSafe ==
  ASSUME IInv, NEW p \in Procs, PatchAnswered(p)
  PROVE  IInv'
<1> DEFINE r == rec[cur[p]]  o == ord[cur[p]]
           s == [r EXCEPT !.snap["child"] = Answer(o, "child"),
                          !.snap["limit"].st = "replaced", !.replacing = FALSE]
<1>1. Inside(p) /\ pc[p] = "patching"
  BY DEF PatchAnswered, At, Inside
<1>2. /\ lock = p /\ cur[p] \in Attempts /\ r \in RecordType
      /\ o \in [Kinds -> OrderType] /\ r.state = "active" /\ Agrees(r, o)
      /\ Stage("patching", watch[p], r, o) /\ watch[p] \in Kinds
      /\ o["limit"].st = "replaced"
  BY <1>1, InsideFacts DEF Stage, Kinds, PatchAnswered
<1>3. s \in RecordType /\ Agrees(s, o) /\ Stage("poll", "child", s, o)
  BY <1>2, Patched
<1>4. s.state = "active" /\ s.side = r.side /\ s.applied = r.applied
  BY <1>2 DEF RecordType
<1>5. rec' = [rec EXCEPT ![cur[p]] = s]
  BY DEF PatchAnswered, Put, Saw, Snapshot, Answer
<1>6. /\ pc' = [pc EXCEPT ![p] = "poll"]
      /\ ord' = [ord EXCEPT ![cur[p]] = o] /\ watch' = [watch EXCEPT ![p] = "child"]
      /\ patch' \in [Attempts -> BOOLEAN] /\ UNCHANGED <<row, lock, cur, plan>>
  BY <1>2 DEF IInv, TypeOK, PatchAnswered, Goto, Observe
<1>7. "poll" \in Locations \ {"idle", "sized"} /\ "child" \in Kinds
  BY DEF Locations, Kinds
<1> HIDE DEF s
<1> QED BY <1>2, <1>3, <1>4, <1>5, <1>6, <1>7, HolderStep

LEMMA CancelRemainderSafe ==
  ASSUME IInv, NEW p \in Procs, CancelRemainder(p)
  PROVE  IInv'
<1> DEFINE r == rec[cur[p]]  o == ord[cur[p]]  k == watch[p]
<1>1. Inside(p) /\ pc[p] = "cancel"
  BY DEF CancelRemainder, At, Inside
<1>2. /\ lock = p /\ cur[p] \in Attempts /\ r \in RecordType
      /\ o \in [Kinds -> OrderType] /\ r.state = "active" /\ Agrees(r, o)
      /\ Stage("cancel", k, r, o) /\ k \in Kinds
  BY <1>1, InsideFacts DEF Stage
<1>3. PICK n \in [Kinds -> OrderType] :
        /\ ord' = [ord EXCEPT ![cur[p]] = n]
        /\ Agrees(r, n) /\ Stage("cancel", k, r, n)
  <2>1. CASE RequestCancel(cur[p], k)
    <3> DEFINE n == [o EXCEPT ![k].cancel = TRUE]
    <3>1. n \in [Kinds -> OrderType] /\ Agrees(r, n) /\ Stage("cancel", k, r, n)
      BY <1>2, <2>1, Cancelled DEF RequestCancel, Locations
    <3>2. ord' = [ord EXCEPT ![cur[p]] = n]
      BY <1>2, <2>1 DEF RequestCancel, IInv, TypeOK
    <3> QED BY <3>1, <3>2
  <2>2. CASE UNCHANGED ord
    BY <1>2, <2>2 DEF IInv, TypeOK
  <2> QED BY <2>1, <2>2 DEF CancelRemainder
<1>4. Stage("confirm", k, r, n)
  BY <1>2, <1>3 DEF Stage, Requests
<1>5. /\ rec' = [rec EXCEPT ![cur[p]] = r]
      /\ pc' = [pc EXCEPT ![p] = "confirm"] /\ watch' = [watch EXCEPT ![p] = k]
      /\ patch' \in [Attempts -> BOOLEAN] /\ UNCHANGED <<row, lock, cur, plan>>
  BY <1>2 DEF IInv, TypeOK, CancelRemainder, Goto
<1>6. "confirm" \in Locations \ {"idle", "sized"}
  BY DEF Locations
<1> QED BY <1>2, <1>3, <1>4, <1>5, <1>6, HolderStep

\* The fallback is sent only for an order whose terminal status was read.
LEMMA ConfirmSafe ==
  ASSUME IInv, NEW p \in Procs, Confirm(p)
  PROVE  IInv'
<1> DEFINE r == rec[cur[p]]  o == ord[cur[p]]  k == watch[p]  s == Saw(cur[p], k)
<1>1. Inside(p) /\ pc[p] = "confirm"
  BY DEF Confirm, At, Inside
<1>2. /\ lock = p /\ cur[p] \in Attempts /\ o \in [Kinds -> OrderType]
      /\ r.state = "active" /\ Agrees(r, o)
      /\ Stage("confirm", k, r, o) /\ k \in Kinds /\ k # "market"
      /\ r.req["limit"] = "known" /\ r.req["market"] = "none"
  BY <1>1, InsideFacts DEF Stage
<1>3. /\ s \in RecordType /\ s.state = "active" /\ s.side = r.side /\ s.qty = r.qty
      /\ s.applied = r.applied /\ Agrees(s, o) /\ s.req = r.req
      /\ \A j \in Kinds : j # k => s.snap[j] = r.snap[j]
      /\ s.snap[k] = Answer(o, k)
  BY <1>2, SeenKnown DEF Stage
<1>4. /\ rec' = [rec EXCEPT ![cur[p]] = s]
      /\ ord' = [ord EXCEPT ![cur[p]] = o]
      /\ patch' \in [Attempts -> BOOLEAN] /\ UNCHANGED <<row, lock, cur, plan>>
  BY <1>2 DEF IInv, TypeOK, Confirm, Put
<1>5. "finish" \in Locations \ {"idle", "sized"} /\ "market" \in Kinds
      /\ "record" \in Locations \ {"idle", "sized"}
  BY DEF Locations, Kinds
<1>6. CASE FallbackAllowed(p) /\ Observe(p, "market") /\ Goto(p, "record")
  <2>1. s.snap[k].st = o[k].st /\ s.snap[k].filled = o[k].filled
        /\ o[k].st \in TERMINAL /\ o[k].filled < s.qty
    BY <1>3, <1>6 DEF Answer, FallbackAllowed
  <2>2. ChainKnown(s, o) /\ LastFilled(s) < s.qty
    BY <1>2, <1>3, <2>1 DEF Stage, ChainKnown, ChainOver, Chain, LastFilled, TERMINAL,
                            Kinds, Agrees, SoundOrders, SoundSnapshots
  <2>3. Stage("record", "market", s, o)
    BY <1>2, <1>3, <2>2 DEF Stage, Requests
  <2> HIDE DEF s
  <2> QED BY <1>2, <1>3, <1>4, <1>5, <1>6, <2>3, HolderStep DEF Observe, Goto
<1>7. CASE Goto(p, "finish") /\ UNCHANGED watch
  <2>1. Stage("finish", k, s, o)
    BY <1>2, <1>3 DEF Stage, Kinds
  <2>2. watch' = [watch EXCEPT ![p] = k]
    BY <1>7 DEF IInv, TypeOK
  <2> HIDE DEF s
  <2> QED BY <1>2, <1>3, <1>4, <1>5, <1>7, <2>1, <2>2, HolderStep DEF Goto
<1> QED BY <1>6, <1>7 DEF Confirm

LEMMA FinishSafe ==
  ASSUME IInv, NEW p \in Procs, Finish(p)
  PROVE  IInv'
<1> DEFINE r == rec[cur[p]]  o == ord[cur[p]]
           s == [r EXCEPT !.unverified = TRUE]
<1>1. Inside(p) /\ pc[p] = "finish"
  BY DEF Finish, At, Inside
<1>2. /\ lock = p /\ cur[p] \in Attempts /\ r \in RecordType
      /\ o \in [Kinds -> OrderType] /\ r.state = "active" /\ Agrees(r, o)
  BY <1>1, InsideFacts
<1>3. /\ s \in RecordType /\ s.state = r.state /\ s.side = r.side
      /\ s.applied = r.applied /\ s.qty = r.qty /\ s.snap = r.snap
      /\ s.execs = r.execs /\ s.trade = r.trade /\ s.req = r.req
  BY <1>2 DEF RecordType
<1> HIDE DEF s
<1>4. Agrees(s, o)
  BY <1>2, <1>3, SameEvidence
<1>5. /\ ord' = [ord EXCEPT ![cur[p]] = o] /\ watch' = [watch EXCEPT ![p] = "limit"]
      /\ patch' \in [Attempts -> BOOLEAN] /\ UNCHANGED <<row, lock, cur, plan>>
  BY <1>2 DEF IInv, TypeOK, Finish, Observe
<1>6. PICK w \in {"verify", "apply"}, x \in {r, s} :
        pc' = [pc EXCEPT ![p] = w] /\ rec' = [rec EXCEPT ![cur[p]] = x]
  BY <1>2 DEF Finish, Goto, Put, IInv, TypeOK, s
<1>7. Stage(w, "limit", x, o)
  BY DEF Stage
<1>8. w \in Locations \ {"idle", "sized"} /\ "limit" \in Kinds
  BY DEF Locations, Kinds
<1>9. x \in RecordType /\ x.state = "active" /\ x.side = r.side
      /\ x.applied = r.applied /\ Agrees(x, o)
  BY <1>2, <1>3, <1>4
<1> QED BY <1>2, <1>5, <1>6, <1>7, <1>8, <1>9, HolderStep

----------------------------------------------------------------------------
(* The steps of a recovery.                                                *)

\* A scan that skips a request, and a recovery whose reading failed.
LEMMA ScanMoveSafe ==
  ASSUME IInv, NEW p \in Procs, ScanSkip(p) \/ ScanFails(p) \/ FetchFails(p)
  PROVE  IInv'
<1>1. Inside(p)
  BY DEF ScanSkip, ScanFails, FetchFails, Scanning, Inside
<1>2. Stage(pc[p], watch[p], rec[cur[p]], ord[cur[p]])
      /\ watch[p] \in Kinds \cup {"done"}
  BY <1>1, InsideFacts
<1>3. CASE Return(p) /\ (ScanFails(p) \/ FetchFails(p))
  <2>1. UNCHANGED <<rec, row, ord, patch>> /\ patch' \in [Attempts -> BOOLEAN]
    BY <1>3 DEF ScanFails, FetchFails, IInv, TypeOK
  <2> QED BY <1>3, <2>1, ReturnStep
<1>4. CASE ScanSkip(p)
  <2> DEFINE j == NextToScan(watch[p])
  <2>1. j \in Kinds \cup {"done"} /\ j # "child"
    BY DEF NextToScan, Kinds
  <2>2. Stage(pc[p], j, rec[cur[p]], ord[cur[p]])
    BY <1>4, <2>1 DEF Stage, ScanSkip, Scanning
  <2>3. /\ pc' = [pc EXCEPT ![p] = pc[p]] /\ watch' = [watch EXCEPT ![p] = j]
        /\ UNCHANGED <<rec, row, lock, cur, plan, ord, patch>>
    BY <1>4 DEF ScanSkip, Observe, IInv, TypeOK
  <2>4. pc[p] \in Locations \ {"idle", "sized"}
    BY <1>1 DEF IInv, TypeOK, Inside
  <2> HIDE DEF j
  <2> QED BY <1>1, <2>1, <2>2, <2>3, <2>4, MoveStep
<1>5. CASE \E w \in {"apply", "unfetched"} :
             /\ pc' = [pc EXCEPT ![p] = w]
             /\ UNCHANGED <<rec, row, lock, cur, watch, plan, ord, patch>>
             /\ Scanning(p)
  <2> PICK w \in {"apply", "unfetched"} : pc' = [pc EXCEPT ![p] = w]
    BY <1>5
  <2>1. Stage(w, watch[p], rec[cur[p]], ord[cur[p]])
    BY <1>2, <1>5 DEF Stage, Scanning
  <2>2. w \in Locations \ {"idle", "sized"}
    BY DEF Locations
  <2>3. watch' = [watch EXCEPT ![p] = watch[p]]
    BY <1>5 DEF IInv, TypeOK
  <2> QED BY <1>1, <1>2, <1>5, <2>1, <2>2, <2>3, MoveStep
<1> QED BY <1>3, <1>4, <1>5 DEF ScanFails, FetchFails, Goto

LEMMA ScanByClientIdSafe ==
  ASSUME IInv, NEW p \in Procs, ScanByClientId(p)
  PROVE  IInv'
<1> DEFINE r == rec[cur[p]]  o == ord[cur[p]]  k == watch[p]
           s == [Saw(cur[p], k) EXCEPT !.req[k] = "known"]
<1>1. Inside(p) /\ pc[p] \in {"verify", "recover"}
  BY DEF ScanByClientId, Scanning, Inside
<1>2. /\ lock = p /\ cur[p] \in Attempts /\ o \in [Kinds -> OrderType]
      /\ r.state = "active" /\ k \in Requests /\ k \in Kinds
      /\ r.req[k] = "unknown" /\ o[k].st \in OnBook
  BY <1>1, InsideFacts DEF Requests, Kinds, ScanByClientId
<1>3. /\ s \in RecordType /\ s.state = "active" /\ s.side = r.side
      /\ s.applied = r.applied /\ Agrees(s, o)
  BY <1>2, SeenFound
<1>4. /\ rec' = [rec EXCEPT ![cur[p]] = s]
      /\ pc' = [pc EXCEPT ![p] = pc[p]]
      /\ ord' = [ord EXCEPT ![cur[p]] = o] /\ watch' = [watch EXCEPT ![p] = k]
      /\ patch' \in [Attempts -> BOOLEAN] /\ UNCHANGED <<row, lock, cur, plan>>
  BY <1>2 DEF IInv, TypeOK, ScanByClientId, Put
<1> HIDE DEF s
<1>5. Stage(pc[p], k, s, o)
  BY <1>1, <1>2 DEF Stage, Requests
<1>6. pc[p] \in Locations \ {"idle", "sized"}
  BY <1>1 DEF Locations
<1> QED BY <1>2, <1>3, <1>4, <1>5, <1>6, HolderStep

LEMMA ScanOrderSafe ==
  ASSUME IInv, NEW p \in Procs, NEW k \in Kinds, ScanOrder(p, k)
  PROVE  IInv'
<1> DEFINE r == rec[cur[p]]  o == ord[cur[p]]  s == Saw(cur[p], k)
           j == IF o[k].st = "replaced" THEN "child" ELSE NextToScan(k)
<1>1. Inside(p) /\ pc[p] \in {"verify", "recover"} /\ watch[p] = k
  BY DEF ScanOrder, Scanning, Inside
<1>2. /\ lock = p /\ cur[p] \in Attempts /\ o \in [Kinds -> OrderType]
      /\ r.state = "active" /\ Agrees(r, o)
      /\ k \in Requests => r.req[k] = "known"
      /\ k = "child" => r.req["limit"] = "known" /\ r.snap["limit"].st = "replaced"
  BY <1>1, InsideFacts DEF ScanOrder, Stage
<1>3. /\ s \in RecordType /\ s.state = "active" /\ s.side = r.side
      /\ s.applied = r.applied /\ Agrees(s, o) /\ s.req = r.req
      /\ s.snap[k] = Answer(o, k)
  BY <1>2, SeenKnown
<1>4. rec' = [rec EXCEPT ![cur[p]] = s]
  BY DEF ScanOrder, Put
<1>5. /\ pc' = [pc EXCEPT ![p] = pc[p]] /\ watch' = [watch EXCEPT ![p] = j]
      /\ patch' \in [Attempts -> BOOLEAN] /\ UNCHANGED <<row, lock, cur, plan>>
  BY DEF IInv, TypeOK, ScanOrder, Observe
<1>6. j \in Kinds \cup {"done"}
  BY DEF NextToScan, Kinds
<1>7. j = "child" => k = "limit" /\ s.snap["limit"].st = "replaced"
  BY <1>2, <1>3 DEF NextToScan, Kinds, Answer, Agrees, SoundOrders
<1> HIDE DEF s
<1>8. Stage(pc[p], j, s, o)
  BY <1>1, <1>2, <1>3, <1>7 DEF Stage, Requests
<1>9. pc[p] \in Locations \ {"idle", "sized"}
  BY <1>1 DEF Locations
<1>10. PICK n \in [Kinds -> OrderType] :
        /\ ord' = [ord EXCEPT ![cur[p]] = n]
        /\ Agrees(s, n) /\ Stage(pc[p], j, s, n)
  <2>1. CASE RequestCancel(cur[p], k)
    <3> DEFINE n == [o EXCEPT ![k].cancel = TRUE]
    <3>1. n \in [Kinds -> OrderType] /\ Agrees(s, n) /\ Stage(pc[p], j, s, n)
      BY <1>2, <1>3, <1>6, <1>8, <1>9, <2>1, Cancelled DEF RequestCancel
    <3>2. ord' = [ord EXCEPT ![cur[p]] = n]
      BY <1>2, <2>1 DEF RequestCancel, IInv, TypeOK
    <3> QED BY <3>1, <3>2
  <2>2. CASE UNCHANGED ord
    BY <1>2, <1>3, <1>8, <2>2 DEF IInv, TypeOK
  <2> QED BY <2>1, <2>2 DEF ScanOrder
<1> HIDE DEF j
<1> QED BY <1>2, <1>3, <1>4, <1>5, <1>6, <1>9, <1>10, HolderStep

\* The listed executions never exceed what the broker executed.
LEMMA ScanDoneSafe ==
  ASSUME IInv, NEW p \in Procs, ScanDone(p)
  PROVE  IInv'
<1> DEFINE r == rec[cur[p]]  o == ord[cur[p]]  v == Verified(r)
<1>1. Inside(p) /\ Scanning(p) /\ watch[p] = "done"
  BY DEF ScanDone, Scanning, Inside
<1>2. /\ lock = p /\ cur[p] \in Attempts /\ r \in RecordType
      /\ o \in [Kinds -> OrderType] /\ r.state = "active" /\ Agrees(r, o)
  BY <1>1, InsideFacts
<1>3. /\ v \in RecordType /\ v.state = r.state /\ v.side = r.side
      /\ v.applied = r.applied /\ v.qty = r.qty /\ v.snap = r.snap
      /\ v.execs = r.execs /\ v.trade = r.trade /\ v.req = r.req
  BY <1>2 DEF RecordType, Verified
<1>4. Agrees(v, o)
  BY <1>2, <1>3, SameEvidence
<1> HIDE DEF v
<1>5. PICK s \in RecordType :
        /\ rec' = [rec EXCEPT ![cur[p]] = s] /\ s.state = "active"
        /\ s.side = r.side /\ s.applied = r.applied /\ Agrees(s, o)
  <2>1. CASE ~NeedsExecutions(r)
    <3>1. rec' = [rec EXCEPT ![cur[p]] = v]
      BY <2>1 DEF ScanDone, Put, v
    <3> QED BY <1>2, <1>3, <1>4, <3>1
  <2>2. CASE NeedsExecutions(r)
    <3> PICK e \in Listed(cur[p]) : rec' = [rec EXCEPT ![cur[p]] = [v EXCEPT !.execs = e]]
      BY <2>2 DEF ScanDone, Put, v
    <3> DEFINE s == [v EXCEPT !.execs = e]
    <3>1. e \in [parent : Qty, child : Qty] /\ e.parent <= o["limit"].filled
          /\ e.child <= o["child"].filled - o["limit"].filled
      BY DEF Listed
    <3>2. s \in RecordType
      BY <1>3, <3>1 DEF RecordType
    <3>3. /\ s.state = v.state /\ s.side = v.side /\ s.applied = v.applied
          /\ s.qty = v.qty /\ s.snap = v.snap /\ s.execs = e
          /\ s.trade = v.trade /\ s.req = v.req
      BY <1>3 DEF RecordType
    <3> HIDE DEF s
    <3>4. o["child"].st # "unsent"
      BY <1>2, <2>2 DEF NeedsExecutions, Agrees, SoundSnapshots, SoundOrders
    <3>5. SoundOrders(s, o) /\ SoundRequests(s, o)
      BY <1>4, <3>3 DEF Agrees, SoundOrders, SoundRequests, ChainKnown, LastFilled
    <3>6. SoundSnapshots(s, o) /\ SoundBooking(s, o)
      BY <1>2, <1>3, <1>4, <3>1, <3>3, <3>4 DEF Agrees, SoundSnapshots, SoundBooking
    <3>7. Agrees(s, o) /\ rec' = [rec EXCEPT ![cur[p]] = s]
      BY <3>5, <3>6 DEF Agrees, s
    <3> QED BY <1>2, <1>3, <3>2, <3>3, <3>7
  <2> QED BY <2>1, <2>2
<1>6. /\ ord' = [ord EXCEPT ![cur[p]] = o] /\ watch' = [watch EXCEPT ![p] = "done"]
      /\ pc' = [pc EXCEPT ![p] = "apply"]
      /\ patch' \in [Attempts -> BOOLEAN] /\ UNCHANGED <<row, lock, cur, plan>>
  BY <1>1, <1>2 DEF IInv, TypeOK, ScanDone, Goto
<1>7. Stage("apply", "done", s, o)
  BY DEF Stage
<1>8. "apply" \in Locations \ {"idle", "sized"}
  BY DEF Locations
<1> QED BY <1>2, <1>5, <1>6, <1>7, <1>8, HolderStep

----------------------------------------------------------------------------
(* Booking.                                                                *)

\* totals() counts only contracts the broker executed, and all of them once it
\* calls the attempt final.
LEMMA TotalIsExecuted ==
  ASSUME NEW r \in RecordType, NEW o \in [Kinds -> OrderType], Agrees(r, o)
  PROVE  /\ Total(r) \in Nat
         /\ Total(r) <= Chain(o) + o["market"].filled
         /\ Final(r) => /\ Total(r) = Chain(o) + o["market"].filled
                        /\ \A k \in Kinds : o[k].st \notin {"sent", "working"}
<1> DEFINE l == RequestQty(r, "limit")  m == RequestQty(r, "market")
<1>1. /\ \A k \in Kinds : r.snap[k].filled \in Nat /\ o[k].filled \in Nat
      /\ r.execs.parent \in Nat /\ r.execs.child \in Nat
  BY DEF RecordType, SnapType, OrderType, Qty
<1>2. m \in Nat /\ m <= o["market"].filled
  BY <1>1 DEF RequestQty, Agrees, SoundSnapshots, Kinds
<1>3. l \in Nat /\ l <= Chain(o)
  BY <1>1 DEF RequestQty, ChainQty, LastFilled, NeedsExecutions, Agrees, SoundSnapshots,
              SoundOrders, Chain, Kinds
<1>4. ASSUME Final(r)
      PROVE  m = o["market"].filled /\ o["market"].st \notin {"sent", "working"}
  <2>1. /\ RequestFinal(r, "market")
        /\ r.req["market"] \in {"none", "unknown", "known", "rejected"}
    BY <1>4 DEF Final, RecordType, Requests
  <2>2. CASE r.req["market"] = "known"
    <3>1. r.snap["market"].st \in TERMINAL
      BY <2>1, <2>2 DEF RequestFinal
    <3>2. o["market"].st \in TERMINAL /\ o["market"].filled = r.snap["market"].filled
      BY <3>1 DEF Agrees, SoundSnapshots, Kinds
    <3>3. m = r.snap["market"].filled
      BY <2>2 DEF RequestQty
    <3> QED BY <3>2, <3>3 DEF TERMINAL
  <2>3. CASE r.req["market"] # "known"
    <3>1. r.req["market"] \in {"none", "rejected"}
      BY <2>1, <2>3 DEF RequestFinal
    <3>2. o["market"].st \in {"unsent", "refused"}
      BY <3>1 DEF Agrees, SoundRequests, Requests
    <3>3. o["market"].filled = 0
      BY <3>2 DEF Agrees, SoundOrders, SoundOrder, Kinds
    <3>4. m = 0
      BY <2>3 DEF RequestQty
    <3> QED BY <3>2, <3>3, <3>4
  <2> QED BY <2>2, <2>3
<1>5. ASSUME Final(r)
      PROVE  /\ l = Chain(o)
             /\ o["limit"].st \notin {"sent", "working"}
             /\ o["child"].st \notin {"sent", "working"}
  <2>1. RequestFinal(r, "limit")
    BY <1>5 DEF Final
  <2>2. CASE r.req["limit"] # "known"
    <3>1. r.req["limit"] \in {"none", "rejected"}
      BY <2>1, <2>2 DEF RequestFinal, RecordType, Requests
    <3>2. o["limit"].st \in {"unsent", "refused"}
      BY <3>1 DEF Agrees, SoundRequests, Requests
    <3>3. o["limit"].filled = 0 /\ o["child"].st = "unsent"
      BY <3>2 DEF Agrees, SoundOrders, SoundOrder, Kinds
    <3>4. l = 0
      BY <2>2 DEF RequestQty
    <3> QED BY <3>2, <3>3, <3>4 DEF Chain
  <2>3. CASE r.req["limit"] = "known" /\ r.snap["limit"].st # "replaced"
    BY <1>1, <2>1, <2>3 DEF RequestFinal, ChainFinal, RequestQty, ChainQty, LastFilled,
                            NeedsExecutions, Agrees, SoundSnapshots, SoundOrders, Chain,
                            Kinds, TERMINAL
  <2>4. CASE r.req["limit"] = "known" /\ r.snap["limit"].st = "replaced"
    <3>1. /\ o["limit"].st = "replaced" /\ o["child"].st \in TERMINAL
          /\ r.snap["child"].filled = o["child"].filled
          /\ NeedsExecutions(r) => Covered(r)
      BY <2>1, <2>4 DEF RequestFinal, ChainFinal, Agrees, SoundSnapshots, Kinds
    <3>2. CASE ~NeedsExecutions(r)
      BY <2>4, <3>1, <3>2 DEF RequestQty, ChainQty, LastFilled, Chain, TERMINAL
    <3>3. CASE NeedsExecutions(r)
      <4>1. r.execs.parent = o["limit"].filled
        BY <1>1, <3>1, <3>3 DEF NeedsExecutions, Covered, Agrees, SoundSnapshots, Kinds
      <4>2. r.execs.child = o["child"].filled - o["limit"].filled
        BY <1>1, <3>1, <3>3 DEF NeedsExecutions, Covered, ChildCum, Agrees,
                                SoundSnapshots, SoundOrders, TERMINAL, Kinds
      <4> QED BY <1>1, <2>4, <3>1, <3>3, <4>1, <4>2
              DEF RequestQty, ChainQty, Chain, TERMINAL, Kinds
    <3> QED BY <3>2, <3>3
  <2> QED BY <2>2, <2>3, <2>4
<1>6. o["market"].filled \in Nat /\ Chain(o) \in Nat
  BY <1>1 DEF Chain, Kinds
<1> HIDE DEF l, m
<1>7. Total(r) = l + m
  BY DEF Total, l, m
<1> QED BY <1>2, <1>3, <1>4, <1>5, <1>6, <1>7 DEF Kinds

\* The trades a booking touches still add up.
LEMMA BookedRowsAddUp ==
  ASSUME TypeOK, JournalMatchesEntry, NEW a \in Attempts, NEW r \in RecordType,
         NEW s \in RecordType,
         r.side = rec[a].side, r.applied = rec[a].applied, r.trade \in Attempts,
         Bookable(a, r), Total(r) \in Nat,
         s.side = r.side, s.applied = Total(r),
         row' = BookedRow(a, r, Total(r)), rec' = [rec EXCEPT ![a] = s]
  PROVE  row' \in [Attempts -> RowType] /\ JournalMatchesEntry'
<1> DEFINE n == Total(r)
<1>1. n <= r.qty /\ r.applied <= n /\ r.qty \in Qty /\ r.applied \in Qty
  BY DEF Bookable, RecordType
<1>2. /\ \A t \in Attempts : rec'[t].side = rec[t].side
      /\ \A t \in Attempts : t # a => rec'[t].applied = rec[t].applied
      /\ rec'[a].applied = n
  BY DEF TypeOK
<1>3. \A t \in Attempts : row[t] \in RowType /\ rec[t] \in RecordType
  BY DEF TypeOK
<1>4. CASE n = r.applied
  <2>1. row' = row
    BY <1>4 DEF BookedRow
  <2> QED BY <1>2, <1>3, <1>4, <2>1 DEF JournalMatchesEntry, TypeOK
<1>5. CASE n # r.applied /\ r.side = "buy"
  <2> DEFINE x == EntryRow(a, r, n)
  <2>1. row' = [row EXCEPT ![a] = x]
    BY <1>5 DEF BookedRow
  <2>2. row[a].contracts + row[a].sold = r.applied
    BY <1>5 DEF JournalMatchesEntry
  <2>3. n > 0 /\ n \in Qty
    BY <1>1, <1>5 DEF Qty
  <2>4. x \in RowType /\ x.st = "open" /\ x.contracts = n /\ x.sold = 0
    <3>1. CASE r.applied = 0
      <4>1. NoRow \in RowType
        BY DEF NoRow, RowType, Qty
      <4>2. x = [NoRow EXCEPT !.st = "open", !.contracts = n]
        BY <3>1 DEF EntryRow
      <4>3. x \in RowType /\ x.st = "open" /\ x.contracts = n
        BY <2>3, <4>1, <4>2 DEF RowType
      <4>4. x.sold = 0
        BY <4>2 DEF NoRow
      <4> QED BY <4>3, <4>4
    <3>2. CASE r.applied # 0
      BY <1>3, <1>5, <2>2, <2>3, <3>2 DEF EntryRow, RowType, Bookable, EntryFits, Qty
    <3> QED BY <3>1, <3>2
  <2> HIDE DEF x, n
  <2>5. row' \in [Attempts -> RowType]
    BY <2>1, <2>4 DEF TypeOK
  <2>6. JournalMatchesEntry'
    BY <1>2, <1>3, <1>5, <2>1, <2>3, <2>4 DEF JournalMatchesEntry, TypeOK, Qty
  <2> QED BY <2>5, <2>6
<1>6. CASE n # r.applied /\ r.side # "buy"
  <2> DEFINE t == r.trade  d == n - r.applied  x == ExitRow(t, d)
  <2>1. row' = [row EXCEPT ![t] = x]
    BY <1>6 DEF BookedRow
  <2>2. row[t].st = "open" /\ d <= row[t].contracts /\ d \in Nat /\ d > 0
    BY <1>1, <1>6 DEF Bookable, ExitFits, Qty
  <2>3. row[t].contracts + row[t].sold = rec[t].applied /\ t # a
        /\ row[t].contracts > 0 /\ rec[t].side = "buy"
    BY <1>3, <1>6, <2>2 DEF JournalMatchesEntry, RowType, RecordType, Qty
  <2>4. /\ x \in RowType
        /\ x.contracts = row[t].contracts - d /\ x.sold = row[t].sold + d
        /\ x.st = IF row[t].contracts = d THEN "closed" ELSE "open"
    <3>1. row[t] \in RowType /\ rec[t].applied \in Qty
      BY <1>3 DEF RecordType
    <3>2. row[t].contracts - d \in Qty /\ row[t].sold + d \in Qty
      BY <2>2, <2>3, <3>1 DEF RowType, Qty
    <3>3. x = [row[t] EXCEPT !.contracts = row[t].contracts - d,
                             !.sold = row[t].sold + d,
                             !.st = IF row[t].contracts = d THEN "closed" ELSE "open"]
      BY DEF ExitRow
    <3> HIDE DEF x, d
    <3> QED BY <3>1, <3>2, <3>3 DEF RowType
  <2> HIDE DEF x, d, n
  <2>5. row' \in [Attempts -> RowType]
    BY <2>1, <2>4 DEF TypeOK
  <2>6. row[a].contracts + row[a].sold = 0 /\ rec[a].side # "buy"
    BY <1>6 DEF JournalMatchesEntry
  <2>7. JournalMatchesEntry'
    <3> SUFFICES ASSUME NEW b \in Attempts
                 PROVE  /\ row'[b].contracts + row'[b].sold =
                             IF rec'[b].side = "buy" THEN rec'[b].applied ELSE 0
                        /\ row'[b].st = "open" <=> row'[b].contracts > 0
      BY DEF JournalMatchesEntry
    <3>1. CASE b = t
      <4>1. row'[b] = x /\ rec'[b].side = "buy" /\ rec'[b].applied = rec[t].applied
        BY <1>2, <2>1, <2>3, <3>1 DEF TypeOK
      <4>2. row[t].contracts \in Nat /\ row[t].sold \in Nat
        BY <1>3 DEF RowType, Qty
      <4> QED BY <2>2, <2>3, <2>4, <4>1, <4>2
    <3>2. CASE b # t
      <4>1. row'[b] = row[b]
        BY <2>1, <3>2 DEF TypeOK
      <4> QED BY <1>2, <2>6, <4>1 DEF JournalMatchesEntry
    <3> QED BY <3>1, <3>2
  <2> QED BY <2>5, <2>7
<1> QED BY <1>4, <1>5, <1>6

LEMMA ApplySafe ==
  ASSUME IInv, NEW p \in Procs, Apply(p)
  PROVE  IInv'
<1> DEFINE a == cur[p]  o == ord[a]  r == InMemory(p)
           s == [r EXCEPT !.applied = Total(r),
                          !.state = IF Final(r) THEN "closed" ELSE "active"]
<1>1. Inside(p)
  BY DEF Apply, Inside
<1>2. /\ lock = p /\ a \in Attempts /\ rec[a] \in RecordType
      /\ o \in [Kinds -> OrderType] /\ rec[a].state = "active" /\ Agrees(rec[a], o)
  BY <1>1, InsideFacts
<1>3. /\ r \in RecordType /\ r.state = rec[a].state /\ r.side = rec[a].side
      /\ r.applied = rec[a].applied /\ r.qty = rec[a].qty /\ r.snap = rec[a].snap
      /\ r.execs = rec[a].execs /\ r.trade = rec[a].trade /\ r.req = rec[a].req
  BY <1>2 DEF InMemory, Verified, RecordType
<1>4. Bookable(a, r) /\ row' = BookedRow(a, r, Total(r)) /\ rec' = [rec EXCEPT ![a] = s]
      /\ Return(p) /\ UNCHANGED <<ord, patch>>
  BY DEF Apply, Put
<1> HIDE DEF r
<1>5. Agrees(r, o)
  BY <1>2, <1>3, SameEvidence
<1>6. /\ Total(r) \in Nat /\ Total(r) <= Chain(o) + o["market"].filled
      /\ Final(r) => /\ Total(r) = Chain(o) + o["market"].filled
                     /\ \A k \in Kinds : o[k].st \notin {"sent", "working"}
  BY <1>2, <1>3, <1>5, TotalIsExecuted
<1>7. Total(r) \in Qty
  BY <1>3, <1>4, <1>6 DEF Bookable, RecordType, Qty
<1>8. s \in RecordType
  BY <1>3, <1>7 DEF RecordType
<1>9. /\ s.state = IF Final(r) THEN "closed" ELSE "active"
      /\ s.side = r.side /\ s.applied = Total(r) /\ s.qty = r.qty /\ s.snap = r.snap
      /\ s.execs = r.execs /\ s.trade = r.trade /\ s.req = r.req
  BY <1>3 DEF RecordType
<1> HIDE DEF s
<1>10. Agrees(s, o)
  <2>1. SoundOrders(s, o) /\ SoundRequests(s, o)
    BY <1>5, <1>9 DEF Agrees, SoundOrders, SoundRequests, ChainKnown, LastFilled
  <2>2. SoundSnapshots(s, o)
    BY <1>5, <1>9 DEF Agrees, SoundSnapshots
  <2>3. SoundBooking(s, o)
    BY <1>2, <1>3, <1>5, <1>6, <1>9 DEF Agrees, SoundBooking
  <2> QED BY <2>1, <2>2, <2>3 DEF Agrees
<1>11. row' \in [Attempts -> RowType] /\ JournalMatchesEntry'
  <2>1. r.trade \in Attempts
    BY <1>2, <1>3, <1>5 DEF Agrees, SoundBooking
  <2> QED BY <1>2, <1>3, <1>4, <1>6, <1>8, <1>9, <2>1, BookedRowsAddUp DEF IInv
<1>12. TypeOK'
  <2>1. NoPlan \in PlanType
    BY DEF NoPlan, PlanType, Qty
  <2>2. rec' \in [Attempts -> RecordType]
    BY <1>4, <1>8 DEF IInv, TypeOK
  <2> QED BY <1>4, <1>11, <2>1, <2>2 DEF IInv, TypeOK, Return, Locations, Kinds
<1>13. Owned'
  <2>1. \A q \in Procs : ~Inside(q)'
    BY <1>2, <1>4 DEF IInv, TypeOK, Owned, Inside, Return
  <2>2. lock' = Nobody /\ \A q \in Procs : lock' # q
    BY <1>2, <1>4 DEF Return
  <2>3. \A b \in Attempts : rec'[b].state = "active" => rec[b].state = "active"
    BY <1>2, <1>4 DEF IInv, TypeOK
  <2>4. \A q \in Procs : watch'[q] = "limit"
                   /\ (pc'[q] = "sized" => pc[q] = "sized" /\ plan'[q] = plan[q])
    BY <1>2, <1>4 DEF IInv, TypeOK, Owned, Inside, Return
  <2> QED BY <2>1, <2>2, <2>3, <2>4 DEF IInv, Owned, Pending
<1>14. (\A b \in Attempts : Agrees(rec[b], ord[b]))'
  BY <1>4, <1>10 DEF IInv, TypeOK
<1>15. (\A q \in Procs : Inside(q) =>
          Stage(pc[q], watch[q], rec[cur[q]], ord[cur[q]]))'
  BY <1>2, <1>4 DEF IInv, TypeOK, Owned, Inside, Return
<1> QED BY <1>11, <1>12, <1>13, <1>14, <1>15 DEF IInv

LEMMA GiveBackSafe ==
  ASSUME IInv, NEW p \in Procs, ApplyRaises(p) \/ Crash(p)
  PROVE  IInv'
<1>1. Return(p) /\ UNCHANGED <<rec, row, ord>> /\ patch' \in [Attempts -> BOOLEAN]
  BY DEF ApplyRaises, Crash, IInv, TypeOK
<1> QED BY <1>1, ReturnStep

----------------------------------------------------------------------------
(* The steps of the broker.                                                *)

\* An order on the book, or on its way, changes; the chain's fills stand if the
\* market order is the one that changes.
LEMMA OrderStep ==
  ASSUME IInv, NEW a \in Attempts, NEW k \in Kinds, NEW x \in OrderType,
         SetOrder(a, k, x), UNCHANGED <<durable, lock, local, patch>>,
         ord[a][k].st \in {"sent", "working"}, SoundOrder(x), x.st # "unsent",
         x.qty = ord[a][k].qty, ord[a][k].filled <= x.filled,
         x.st \in {"working", "filled", "dead"} \/ k \in Requests,
         x.st \in {"lost", "refused"} \cup OnBook,
         x.st # "replaced", ord[a][k].st = "working" => x.st \in OnBook
  PROVE  IInv'
<1> DEFINE r == rec[a]  o == ord[a]  n == [o EXCEPT ![k] = x]
<1>1. /\ r \in RecordType /\ o \in [Kinds -> OrderType] /\ Agrees(r, o)
  BY DEF IInv, TypeOK
<1>2. n \in [Kinds -> OrderType] /\ n[k] = x /\ \A j \in Kinds : j # k => n[j] = o[j]
  BY <1>1
<1>3. ord' = [ord EXCEPT ![a] = n] /\ patch' \in [Attempts -> BOOLEAN]
  BY <1>1 DEF SetOrder, IInv, TypeOK
<1>4. r.state = "active"
  BY <1>1 DEF RecordType, Agrees, SoundBooking, SoundRequests, SoundOrders, NoRecord,
              Requests, Kinds
<1> HIDE DEF n
<1>5. \A j \in Kinds : o[j].filled \in Nat /\ n[j].filled \in Nat
                      /\ o[j].qty \in Nat /\ n[j].qty \in Nat
  BY <1>1, <1>2 DEF OrderType, Qty
<1>6. k = "limit" \/ k = "child" =>
        ~ChainOver(o) /\ r.req["market"] = "none" /\ o["market"].st = "unsent"
  BY <1>1, <1>2 DEF Agrees, SoundRequests, SoundOrders, ChainOver, ChainKnown, Kinds,
                    Requests, TERMINAL
<1>7. /\ Chain(o) <= Chain(n)
      /\ k = "market" => Chain(n) = Chain(o) /\ ChainOver(n) = ChainOver(o)
  BY <1>1, <1>2, <1>5 DEF Agrees, SoundOrders, Chain, ChainOver, Kinds
<1>8. SoundOrders(r, n)
  <2>1. \A j \in Kinds : SoundOrder(n[j])
    BY <1>1, <1>2 DEF Agrees, SoundOrders
  <2>2. CASE k = "limit"
    BY <1>1, <1>2, <1>6, <2>1, <2>2 DEF Agrees, SoundOrders, Kinds
  <2>3. CASE k = "child"
    BY <1>1, <1>2, <1>5, <1>6, <2>1, <2>3 DEF Agrees, SoundOrders, Kinds, Requests
  <2>4. CASE k = "market"
    BY <1>1, <1>2, <1>7, <2>1, <2>4 DEF Agrees, SoundOrders, Kinds
  <2> QED BY <2>2, <2>3, <2>4 DEF Kinds
<1>9. SoundRequests(r, n)
  BY <1>1, <1>2, <1>6, <1>7 DEF Agrees, SoundRequests, ChainKnown, Kinds, Requests, OnBook
<1>10. SoundSnapshots(r, n)
  <2>1. o["child"].st = "unsent" <=> o["limit"].st # "replaced"
    BY <1>1 DEF Agrees, SoundOrders
  <2>2. \A j \in Kinds : r.snap[j].filled \in Nat
    BY <1>1 DEF RecordType, SnapType, Qty
  <2>3. r.execs.parent \in Nat /\ r.execs.child \in Nat
    BY <1>1 DEF RecordType, Qty
  <2>4. \A j \in Kinds :
          /\ r.snap[j].filled <= n[j].filled
          /\ r.snap[j].st \in TERMINAL =>
               r.snap[j].st = n[j].st /\ r.snap[j].filled = n[j].filled
    BY <1>1, <1>2, <1>5, <2>2 DEF Agrees, SoundSnapshots, TERMINAL
  <2>5. r.snap["limit"].st = "replaced" =>
          n["limit"].st = "replaced" /\ r.snap["limit"].filled \in {0, n["limit"].filled}
    BY <1>1, <1>2 DEF Agrees, SoundSnapshots, Kinds
  <2>6. r.execs.parent <= n["limit"].filled
    BY <1>1, <1>2, <1>5, <2>3 DEF Agrees, SoundSnapshots, Kinds
  <2>7. n["child"].st # "unsent" => o["child"].st # "unsent"
    BY <1>2 DEF Kinds
  <2>8. o["child"].st # "unsent" => n["child"].st # "unsent" /\ n["limit"] = o["limit"]
                                    /\ o["child"].filled <= n["child"].filled
    BY <1>2, <1>5, <2>1 DEF Kinds
  <2> QED BY <1>1, <1>5, <2>3, <2>4, <2>5, <2>6, <2>7, <2>8
          DEF Agrees, SoundSnapshots, Kinds
<1>11. SoundBooking(r, n)
  BY <1>1, <1>2, <1>4, <1>5, <1>7 DEF Agrees, SoundBooking, Kinds, RecordType, Qty, Chain
<1>12. \A w \in Locations \ {"idle", "sized"}, j \in Kinds \cup {"done"} :
         Stage(w, j, r, o) => Stage(w, j, r, n)
  BY <1>2, <1>6, <1>7 DEF Stage, ChainKnown, Kinds, Requests
<1>13. Agrees(r, n)
  BY <1>8, <1>9, <1>10, <1>11 DEF Agrees
<1> QED BY <1>2, <1>3, <1>12, <1>13, BrokerStep

LEMMA DeliverSafe ==
  ASSUME IInv, NEW a \in Attempts, NEW k \in Requests,
         NEW outcome \in {"working", "refused", "lost"}, Deliver(a, k, outcome)
  PROVE  IInv'
<1> DEFINE x == [ord[a][k] EXCEPT !.st = outcome]
<1>1. k \in Kinds /\ ord[a][k] \in OrderType /\ ord[a][k].st = "sent"
      /\ SoundOrder(ord[a][k]) /\ SetOrder(a, k, x)
      /\ UNCHANGED <<durable, lock, local, patch>>
  BY DEF Kinds, Requests, IInv, TypeOK, Deliver, Agrees, SoundOrders
<1>2. x \in OrderType
  BY <1>1 DEF OrderType, OnBook
<1>3. x.st = outcome /\ x.qty = ord[a][k].qty /\ x.filled = ord[a][k].filled
  BY <1>1 DEF OrderType
<1>4. ord[a][k].filled \in Nat
  BY <1>1 DEF OrderType, Qty
<1> HIDE DEF x
<1>5. SoundOrder(x)
  BY <1>1, <1>3 DEF SoundOrder
<1> QED BY <1>1, <1>2, <1>3, <1>4, <1>5, OrderStep DEF OnBook

LEMMA FillSafe ==
  ASSUME IInv, NEW a \in Attempts, NEW k \in Kinds, Fill(a, k)
  PROVE  IInv'
<1> DEFINE y == ord[a][k]
           x == IF y.filled + 1 = y.qty
                THEN [y EXCEPT !.filled = @ + 1, !.st = "filled", !.cancel = FALSE]
                ELSE [y EXCEPT !.filled = @ + 1]
<1>1. y \in OrderType /\ y.st = "working" /\ SoundOrder(y) /\ SetOrder(a, k, x)
      /\ UNCHANGED <<durable, lock, local, patch>>
  BY DEF IInv, TypeOK, Fill, Agrees, SoundOrders
<1>2. y.filled \in Nat /\ y.qty \in Nat /\ y.filled < y.qty /\ y.filled + 1 \in Qty
  BY <1>1 DEF SoundOrder, OrderType, Qty
<1>3. x \in OrderType
  BY <1>1, <1>2 DEF OrderType, OnBook
<1>4. /\ x.st = IF y.filled + 1 = y.qty THEN "filled" ELSE "working"
      /\ x.qty = y.qty /\ x.filled = y.filled + 1
  BY <1>1 DEF OrderType
<1> HIDE DEF x, y
<1>5. SoundOrder(x)
  BY <1>2, <1>4 DEF SoundOrder
<1> QED BY <1>1, <1>2, <1>3, <1>4, <1>5, OrderStep DEF OnBook, y

LEMMA EndSafe ==
  ASSUME IInv, NEW a \in Attempts, NEW k \in Kinds, End(a, k)
  PROVE  IInv'
<1> DEFINE y == ord[a][k]  x == [y EXCEPT !.st = "dead", !.cancel = FALSE]
<1>1. y \in OrderType /\ y.st = "working" /\ SoundOrder(y) /\ SetOrder(a, k, x)
      /\ UNCHANGED <<durable, lock, local, patch>>
  BY DEF IInv, TypeOK, End, Agrees, SoundOrders
<1>2. x \in OrderType
  BY <1>1 DEF OrderType, OnBook
<1>3. x.st = "dead" /\ x.qty = y.qty /\ x.filled = y.filled /\ y.filled \in Nat
  BY <1>1 DEF OrderType, Qty
<1> HIDE DEF x, y
<1>4. SoundOrder(x)
  BY <1>1, <1>3 DEF SoundOrder
<1> QED BY <1>1, <1>2, <1>3, <1>4, OrderStep DEF OnBook, y

\* The child takes over the fills of the order it replaces.
LEMMA ReplaceSafe ==
  ASSUME IInv, NEW a \in Attempts, Replace(a)
  PROVE  IInv'
<1> DEFINE r == rec[a]  o == ord[a]
           y == [o["limit"] EXCEPT !.st = "replaced", !.cancel = FALSE]
           c == [o["limit"] EXCEPT !.cancel = FALSE]
           n == [o EXCEPT !["limit"] = y, !["child"] = c]
<1>1. /\ r \in RecordType /\ o \in [Kinds -> OrderType] /\ Agrees(r, o)
      /\ o["limit"].st = "working" /\ o["limit"] \in OrderType
  BY DEF IInv, TypeOK, Replace, Kinds
<1>2. y \in OrderType /\ c \in OrderType
  BY <1>1 DEF OrderType, OnBook
<1>3. /\ y.st = "replaced" /\ y.qty = o["limit"].qty /\ y.filled = o["limit"].filled
      /\ c.st = "working"  /\ c.qty = o["limit"].qty /\ c.filled = o["limit"].filled
  BY <1>1 DEF OrderType
<1>4. ord' = [ord EXCEPT ![a] = n] /\ patch' \in [Attempts -> BOOLEAN]
      /\ UNCHANGED <<durable, lock, local>>
  <2>1. n = [o EXCEPT !["limit"].st = "replaced", !["limit"].cancel = FALSE,
                      !["child"] = c]
    BY <1>1 DEF Kinds, OrderType
  <2> QED BY <2>1 DEF Replace, IInv, TypeOK
<1> HIDE DEF y, c
<1>5. n \in [Kinds -> OrderType] /\ n["limit"] = y /\ n["child"] = c
      /\ n["market"] = o["market"]
  BY <1>1, <1>2 DEF Kinds
<1> HIDE DEF n
<1>6. \A j \in Kinds : o[j].filled \in Nat /\ n[j].filled \in Nat
                      /\ o[j].qty \in Nat /\ n[j].qty \in Nat
  BY <1>1, <1>5 DEF OrderType, Qty
<1>7. /\ ~ChainOver(o) /\ r.req["market"] = "none" /\ o["market"].st = "unsent"
      /\ o["child"].st = "unsent" /\ Chain(n) = Chain(o) /\ o["child"].filled = 0
  BY <1>1, <1>3, <1>5 DEF Agrees, SoundRequests, SoundOrders, SoundOrder, ChainOver,
                          Chain, ChainKnown, Kinds, Requests, TERMINAL
<1>8. SoundOrders(r, n)
  <2>1. SoundOrder(y) /\ SoundOrder(c) /\ SoundOrder(o["market"])
    BY <1>1, <1>3 DEF Agrees, SoundOrders, SoundOrder, Kinds
  <2> QED BY <1>1, <1>3, <1>5, <1>6, <1>7, <2>1 DEF Agrees, SoundOrders, Kinds
<1>9. SoundRequests(r, n)
  BY <1>1, <1>3, <1>5, <1>7 DEF Agrees, SoundRequests, Kinds, Requests, OnBook
<1>10. SoundSnapshots(r, n)
  <2>1. r.snap["limit"].st \notin TERMINAL \cup {"replaced"}
        /\ r.snap["child"].st \notin TERMINAL
    BY <1>1, <1>7 DEF Agrees, SoundSnapshots, Kinds, TERMINAL
  <2>2. r.execs.child = 0
    BY <1>1, <1>7 DEF Agrees, SoundSnapshots, RecordType, Qty
  <2>3. r.snap["child"].filled \in Nat
    BY <1>1 DEF RecordType, SnapType, Qty, Kinds
  <2> QED BY <1>1, <1>3, <1>5, <1>6, <1>7, <2>1, <2>2, <2>3
          DEF Agrees, SoundSnapshots, Kinds
<1>11. SoundBooking(r, n)
  BY <1>1, <1>3, <1>5, <1>7 DEF Agrees, SoundBooking, Kinds
<1>12. \A w \in Locations \ {"idle", "sized"}, j \in Kinds \cup {"done"} :
         Stage(w, j, r, o) => Stage(w, j, r, n)
  BY <1>1, <1>5, <1>7 DEF Stage, ChainKnown, Kinds, Requests
<1>13. Agrees(r, n)
  BY <1>8, <1>9, <1>10, <1>11 DEF Agrees
<1> QED BY <1>4, <1>5, <1>12, <1>13, BrokerStep

LEMMA DropPatchSafe ==
  ASSUME IInv, NEW a \in Attempts, DropPatch(a)
  PROVE  IInv'
<1>1. ord' = [ord EXCEPT ![a] = ord[a]] /\ ord[a] \in [Kinds -> OrderType]
      /\ patch' \in [Attempts -> BOOLEAN] /\ UNCHANGED <<durable, lock, local>>
      /\ Agrees(rec[a], ord[a])
  BY DEF IInv, TypeOK, DropPatch
<1> QED BY <1>1, BrokerStep

----------------------------------------------------------------------------
(* The theorems.                                                           *)

LEMMA InitSound == Init => IInv
<1> SUFFICES ASSUME Init PROVE IInv
  OBVIOUS
<1>1. /\ NoRecord \in RecordType /\ NoRow \in RowType /\ NoOrder \in OrderType
      /\ NoPlan \in PlanType
  BY DEF NoRecord, RecordType, NoRow, RowType, NoOrder, OrderType, NoPlan, PlanType,
         SnapType, Unseen, Qty, OnBook, Requests, Kinds
<1>2. TypeOK
  BY <1>1 DEF Init, TypeOK, Locations, Kinds
<1>3. Owned
  BY DEF Init, Owned, Inside, Pending, NoRecord
<1>4. \A a \in Attempts : Agrees(rec[a], ord[a])
  <2> SUFFICES Agrees(NoRecord, [k \in Kinds |-> NoOrder])
    BY DEF Init
  <2>1. SoundOrders(NoRecord, [k \in Kinds |-> NoOrder])
    BY DEF SoundOrders, SoundOrder, NoOrder, NoRecord, Kinds
  <2>2. SoundRequests(NoRecord, [k \in Kinds |-> NoOrder])
    BY DEF SoundRequests, NoOrder, NoRecord, Kinds, Requests
  <2>3. SoundSnapshots(NoRecord, [k \in Kinds |-> NoOrder])
    BY DEF SoundSnapshots, NoOrder, NoRecord, Unseen, Kinds, TERMINAL
  <2>4. SoundBooking(NoRecord, [k \in Kinds |-> NoOrder])
    BY DEF SoundBooking, NoOrder, NoRecord, Kinds, Chain
  <2> QED BY <2>1, <2>2, <2>3, <2>4 DEF Agrees
<1>5. JournalMatchesEntry
  BY DEF Init, JournalMatchesEntry, NoRow, NoRecord
<1>6. \A p \in Procs : ~Inside(p)
  BY DEF Init, Inside
<1> QED BY <1>2, <1>3, <1>4, <1>5, <1>6 DEF IInv

\* One step per action of Next: none of them breaks the invariant.
LEMMA StepSound == IInv /\ [Next]_vars => IInv'
<1> SUFFICES ASSUME IInv, [Next]_vars PROVE IInv'
  OBVIOUS
<1>1. ASSUME NEW p \in Procs, Caller(p) PROVE IInv'
  BY <1>1, SizeBuySafe, SizeSellSafe, DeclineSafe, RecoverSafe, OpenSafe, MoveSafe,
     RecordRequestSafe, SendSafe, PostAcceptedSafe, PostRefusedSafe, PollSafe,
     StepPriceSafe, PatchAnsweredSafe, CancelRemainderSafe, ConfirmSafe, FinishSafe
  DEF Caller
<1>2. ASSUME NEW p \in Procs, Recovery(p) PROVE IInv'
  BY <1>2, RecoverSafe, ScanMoveSafe, ScanByClientIdSafe, ScanOrderSafe, ScanDoneSafe,
     ApplySafe, GiveBackSafe
  DEF Recovery
<1>3. ASSUME Broker PROVE IInv'
  BY <1>3, DeliverSafe, FillSafe, EndSafe, ReplaceSafe, DropPatchSafe DEF Broker
<1>4. ASSUME NEW p \in Procs, Crash(p) PROVE IInv'
  BY <1>4, GiveBackSafe
<1>5. CASE UNCHANGED vars
  BY <1>5 DEF vars, IInv, TypeOK, Owned, Inside, Pending, JournalMatchesEntry
<1> QED BY <1>1, <1>2, <1>3, <1>4, <1>5 DEF Next, Work

\* Whatever the number of processes, attempts and contracts, every reachable
\* state satisfies the inductive invariant.
THEOREM Inductive == Spec => []IInv
<1>1. Init => IInv
  BY InitSound
<1>2. IInv /\ [Next]_vars => IInv'
  BY StepSound
<1> QED BY <1>1, <1>2, PTL DEF Spec

\* The ledger's variables always have their types.
THEOREM TypeCorrect == Spec => []TypeOK
<1>1. IInv => TypeOK
  BY DEF IInv
<1> QED BY <1>1, Inductive, PTL

\* ChainFills of the specification is Chain of the orders.
LEMMA FillsAreChain ==
  ASSUME NEW a \in Attempts
  PROVE  Fills(a) = Chain(ord[a]) + ord[a]["market"].filled
  BY DEF Fills, ChainFills, Chain

\* An order that can still fill belongs to the active attempt.
LEMMA LiveIsActive ==
  ASSUME IInv, NEW a \in Attempts, NEW k \in Kinds, Live(a, k)
  PROVE  rec[a].state = "active"
<1>1. Agrees(rec[a], ord[a]) /\ rec[a] \in RecordType
  BY DEF IInv, TypeOK
<1>2. rec[a].state # "closed"
  BY <1>1 DEF Agrees, SoundBooking, Live
<1>3. rec[a].state # "unused"
  BY <1>1 DEF Agrees, SoundBooking, SoundRequests, SoundOrders, NoRecord, Live, Kinds,
              Requests
<1> QED BY <1>1, <1>2, <1>3 DEF RecordType

LEMMA WithinSize == IInv => NeverOverfilled
<1> SUFFICES ASSUME IInv, NEW a \in Attempts PROVE WorstCase(a) <= rec[a].qty
  BY DEF NeverOverfilled
<1> DEFINE r == rec[a]  o == ord[a]
<1>1. r \in RecordType /\ o \in [Kinds -> OrderType] /\ Agrees(r, o)
  BY DEF IInv, TypeOK
<1>2. r.qty \in Nat /\ \A k \in Kinds : o[k].filled \in Nat /\ o[k].qty \in Nat
  BY <1>1 DEF RecordType, OrderType, Qty
<1>3. Chain(o) + Room(a, "limit") + Room(a, "child") <= r.qty
  BY <1>1, <1>2 DEF Chain, Room, Live, Agrees, SoundOrders, SoundOrder, Kinds
<1>4. CASE o["market"].st = "unsent"
  <2>1. o["market"].filled = 0 /\ Room(a, "market") = 0
    BY <1>4 DEF Room, Live, Agrees, SoundOrders, SoundOrder, Kinds, IInv
  <2> QED BY <1>2, <1>3, <2>1, FillsAreChain DEF WorstCase, Room, Chain, Kinds
<1>5. CASE o["market"].st # "unsent"
  <2>1. ChainOver(o) /\ o["market"].qty = r.qty - Chain(o)
    BY <1>1, <1>5 DEF Agrees, SoundRequests, SoundOrders, ChainKnown, Requests
  <2>2. Room(a, "limit") = 0 /\ Room(a, "child") = 0
    BY <1>1, <2>1 DEF Room, Live, ChainOver, TERMINAL, Agrees, SoundOrders
  <2>3. o["market"].filled + Room(a, "market") <= o["market"].qty
    BY <1>1, <1>2 DEF Room, Agrees, SoundOrders, SoundOrder, Kinds
  <2>4. Room(a, "market") \in Int /\ Chain(o) \in Int
    BY <1>2 DEF Room, Chain, Kinds
  <2> QED BY <1>2, <2>1, <2>2, <2>3, <2>4, FillsAreChain DEF WorstCase, Kinds
<1> QED BY <1>4, <1>5

\* However requests, cancels and replacements race with fills, an attempt never
\* executes more contracts than it was asked for.
THEOREM NeverOverfilledHolds == Spec => []NeverOverfilled
  BY WithinSize, Inductive, PTL

\* A closed attempt has no order that can fill, and all its fills are booked.
THEOREM ClosedIsCompleteHolds == Spec => []ClosedIsComplete
<1>1. IInv => ClosedIsComplete
  BY FillsAreChain DEF IInv, ClosedIsComplete, Agrees, SoundBooking, Live
<1> QED BY <1>1, Inductive, PTL

\* Every live order belongs to an active attempt that remembers sending it.
THEOREM NoOrphanOrderHolds == Spec => []NoOrphanOrder
<1>1. IInv => NoOrphanOrder
  <2> SUFFICES ASSUME IInv, NEW a \in Attempts, NEW k \in Kinds, Live(a, k)
               PROVE  /\ rec[a].state = "active"
                      /\ k \in Requests => rec[a].req[k] \in {"unknown", "known"}
    BY DEF NoOrphanOrder
  <2>1. Agrees(rec[a], ord[a]) /\ rec[a] \in RecordType
    BY DEF IInv, TypeOK
  <2>2. k \in Requests => rec[a].req[k] \in {"unknown", "known"}
    BY <2>1 DEF Agrees, SoundRequests, Live, RecordType
  <2> QED BY <2>2, LiveIsActive
<1> QED BY <1>1, Inductive, PTL

\* Two orders for the contract are never live together.
THEOREM OneLiveOrderHolds == Spec => []OneLiveOrder
<1>1. IInv => OneLiveOrder
  <2> SUFFICES ASSUME IInv, NEW a \in Attempts, NEW b \in Attempts,
                      NEW j \in Kinds, NEW k \in Kinds, Live(a, j), Live(b, k)
               PROVE  a = b /\ j = k
    BY DEF OneLiveOrder
  <2>1. a = b
    BY LiveIsActive DEF IInv, Owned, Pending
  <2>2. j = k
    BY <2>1 DEF IInv, Agrees, SoundOrders, SoundRequests, ChainKnown, ChainOver, Live,
                TERMINAL, Kinds, Requests
  <2> QED BY <2>1, <2>2
<1> QED BY <1>1, Inductive, PTL

\* The journal never shows a contract the broker did not execute.
THEOREM BookedIsExecutedHolds == Spec => []BookedIsExecuted
<1>1. IInv => BookedIsExecuted
  BY FillsAreChain DEF IInv, BookedIsExecuted, Agrees, SoundBooking
<1> QED BY <1>1, Inductive, PTL

\* The contracts of a trade, open and sold, are those its entry has booked.
THEOREM JournalMatchesEntryHolds == Spec => []JournalMatchesEntry
<1>1. IInv => JournalMatchesEntry
  BY DEF IInv
<1> QED BY <1>1, Inductive, PTL

----------------------------------------------------------------------------
(* What a step does to an attempt, seen from outside: nothing (Quiet), or  *)
(* one of the three steps of FillLedger.                                   *)

Quiet ==
  \A a \in Attempts :
    /\ rec'[a].state = rec[a].state
    /\ rec'[a].qty = rec[a].qty /\ rec'[a].side = rec[a].side /\ rec'[a].trade = rec[a].trade
    /\ rec'[a].applied = rec[a].applied
    /\ rec[a].state # "active" => rec'[a] = rec[a]
    /\ Fills(a)' = Fills(a)

Same(s, r) ==
  /\ s.state = r.state /\ s.qty = r.qty /\ s.applied = r.applied
  /\ s.side = r.side /\ s.trade = r.trade

LEMMA QuietRewrite ==
  ASSUME IInv, NEW p \in Procs, Inside(p),
         NEW r \in RecordType, rec' = [rec EXCEPT ![cur[p]] = r],
         r.state = "active", Same(r, rec[cur[p]]),
         \A a \in Attempts : Fills(a)' = Fills(a)
  PROVE  Quiet
  BY InsideFacts DEF Quiet, Same, IInv, TypeOK

LEMMA SameOrders ==
  ASSUME UNCHANGED ord
  PROVE  \A a \in Attempts : Fills(a)' = Fills(a)
  BY DEF Fills, ChainFills

LEMMA SameFilled ==
  ASSUME IInv, NEW b \in Attempts, NEW k \in Kinds, RequestCancel(b, k)
  PROVE  \A a \in Attempts : Fills(a)' = Fills(a)
<1>1. \A a \in Attempts, j \in Kinds : ord'[a][j].filled = ord[a][j].filled
                                    /\ ord'[a][j].st = ord[a][j].st
  BY DEF IInv, TypeOK, RequestCancel, OrderType
<1> QED BY <1>1 DEF Fills, ChainFills, Kinds

LEMMA CallerQuiet ==
  ASSUME IInv, NEW p \in Procs, Caller(p), ~Open(p)
  PROVE  Quiet
<1> USE DEF Same
<1> DEFINE a == cur[p]  r == rec[cur[p]]
<1>1. CASE UNCHANGED <<rec, ord>>
  BY <1>1, SameOrders DEF Quiet
<1>2. ASSUME Inside(p), UNCHANGED ord, NEW s \in RecordType, Put(a, s),
             Same(s, r)
      PROVE  Quiet
  BY <1>2, InsideFacts, SameOrders, QuietRewrite DEF Put
<1>3. Inside(p) => /\ r \in RecordType /\ watch[p] \in Kinds \cup {"done"}
                   /\ r.state = "active" /\ a \in Attempts
  BY InsideFacts
<1>4. CASE RecordRequest(p) \/ PostRefused(p)
  <2> DEFINE k == watch[p]
  <2>1. Inside(p)
    BY <1>4 DEF RecordRequest, PostRefused, At, Inside
  <2> PICK v \in {"unknown", "rejected"} : Put(a, [r EXCEPT !.req[k] = v])
    BY <1>4 DEF RecordRequest, PostRefused
  <2> DEFINE s == [r EXCEPT !.req[k] = v]
  <2>2. s \in RecordType /\ Same(s, r)
    BY <1>3, <2>1 DEF RecordType
  <2>3. UNCHANGED ord
    BY <1>4 DEF RecordRequest, PostRefused
  <2> HIDE DEF s
  <2> QED BY <1>2, <2>1, <2>2, <2>3 DEF s
<1>5. CASE Send(p)
  <2> DEFINE k == watch[p]
  <2>1. Inside(p) /\ pc[p] = "send"
    BY <1>5 DEF Send, At, Inside
  <2>2. k \in Requests /\ ord[a][k].st = "unsent" /\ Agrees(r, ord[a])
    BY <2>1, InsideFacts DEF Stage
  <2>3. ord[a][k].filled = 0 /\ k \in Kinds
    BY <2>2 DEF Agrees, SoundOrders, SoundOrder, Requests, Kinds
  <2>4. \A b \in Attempts, j \in Kinds :
          ord'[b][j].filled = ord[b][j].filled
          /\ (j = "child" => ord'[b][j].st = ord[b][j].st)
    BY <1>3, <1>5, <2>1, <2>2, <2>3 DEF Send, NoOrder, IInv, TypeOK, Kinds, Requests
  <2>5. \A b \in Attempts : Fills(b)' = Fills(b)
    BY <2>4 DEF Fills, ChainFills, Kinds
  <2> QED BY <1>5, <2>5 DEF Send, Quiet
<1>6. CASE PostAccepted(p)
  <2>1. Inside(p) /\ pc[p] = "await"
    BY <1>6 DEF PostAccepted, At, Inside
  <2>2. watch[p] \in Requests /\ r.req[watch[p]] = "unknown"
    BY <2>1, InsideFacts DEF Stage
  <2> DEFINE s == [Saw(a, watch[p]) EXCEPT !.req[watch[p]] = "known"]
  <2>3. s \in RecordType
    BY <1>3, <1>6, <2>1, <2>2, SeenFound DEF PostAccepted
  <2>4. Same(s, r)
    BY <1>3, <2>1 DEF Saw, RecordType
  <2>5. Put(a, s) /\ UNCHANGED ord
    BY <1>6 DEF PostAccepted
  <2> HIDE DEF s
  <2> QED BY <1>2, <2>1, <2>3, <2>4, <2>5
<1>7. CASE Poll(p) \/ Confirm(p)
  <2>1. Inside(p) /\ pc[p] \in {"poll", "confirm"}
    BY <1>7 DEF Poll, Confirm, At, Inside
  <2> DEFINE s == Saw(a, watch[p])
  <2>2. s \in RecordType
    BY <2>1, InsideFacts, SeenKnown DEF Stage
  <2>3. Same(s, r)
    BY <1>3, <2>1 DEF Saw, RecordType
  <2>4. Put(a, s) /\ UNCHANGED ord
    BY <1>7 DEF Poll, Confirm
  <2> HIDE DEF s
  <2> QED BY <1>2, <2>1, <2>2, <2>3, <2>4
<1>8. CASE StepPrice(p)
  <2>1. Inside(p)
    BY <1>8 DEF StepPrice, At, Inside
  <2> DEFINE s == [r EXCEPT !.replacing = TRUE]
  <2>2. s \in RecordType /\ Same(s, r)
    BY <1>3, <2>1 DEF RecordType
  <2>3. Put(a, s) /\ UNCHANGED ord
    BY <1>8 DEF StepPrice
  <2> HIDE DEF s
  <2> QED BY <1>2, <2>1, <2>2, <2>3
<1>9. CASE PatchAnswered(p)
  <2>1. Inside(p) /\ pc[p] = "patching"
    BY <1>9 DEF PatchAnswered, At, Inside
  <2> DEFINE s == [r EXCEPT !.snap["child"] = Answer(ord[a], "child"),
                            !.snap["limit"].st = "replaced", !.replacing = FALSE]
  <2>2. watch[p] \in Kinds /\ Stage("patching", watch[p], r, ord[a]) /\ Agrees(r, ord[a])
        /\ ord[a] \in [Kinds -> OrderType]
    BY <2>1, InsideFacts DEF Stage, Kinds
  <2>3. s \in RecordType
    BY <1>3, <1>9, <2>1, <2>2, Patched DEF PatchAnswered
  <2>4. Same(s, r)
    BY <1>3, <2>1 DEF RecordType
  <2>5. Put(a, s) /\ UNCHANGED ord
    BY <1>9 DEF PatchAnswered, Saw, Snapshot, Answer
  <2> HIDE DEF s
  <2> QED BY <1>2, <2>1, <2>3, <2>4, <2>5
<1>10. CASE CancelRemainder(p)
  <2>1. Inside(p) /\ watch[p] \in Kinds
    BY <1>10, InsideFacts DEF CancelRemainder, At, Inside, Stage
  <2>2. \A b \in Attempts : Fills(b)' = Fills(b)
    BY <1>3, <1>10, <2>1, SameOrders, SameFilled DEF CancelRemainder
  <2> QED BY <1>10, <2>2 DEF CancelRemainder, Quiet
<1>11. CASE Finish(p)
  <2>1. Inside(p)
    BY <1>11 DEF Finish, At, Inside
  <2> DEFINE s == [r EXCEPT !.unverified = TRUE]
  <2>2. s \in RecordType /\ Same(s, r)
    BY <1>3, <2>1 DEF RecordType
  <2>3. (Put(a, s) \/ UNCHANGED rec) /\ UNCHANGED ord
    BY <1>11 DEF Finish
  <2> HIDE DEF s
  <2> QED BY <1>1, <1>2, <2>1, <2>2, <2>3
<1> QED BY <1>1, <1>4, <1>5, <1>6, <1>7, <1>8, <1>9, <1>10, <1>11
        DEF Caller, SizeBuy, SizeSell, Decline, RecoverFirst, NotSent, PostUncertain,
            PatchFailed, WaitOver, GiveUp

LEMMA RecoveryQuiet ==
  ASSUME IInv, NEW p \in Procs, Recovery(p), ~Apply(p)
  PROVE  Quiet
<1> USE DEF Same
<1> DEFINE a == cur[p]  r == rec[cur[p]]
<1>1. CASE UNCHANGED <<rec, ord>>
  BY <1>1, SameOrders DEF Quiet
<1>2. Inside(p) => /\ r \in RecordType /\ r.state = "active" /\ a \in Attempts
  BY InsideFacts
<1>3. CASE ScanByClientId(p)
  <2>1. Inside(p)
    BY <1>3 DEF ScanByClientId, Scanning, Inside
  <2> DEFINE s == [Saw(a, watch[p]) EXCEPT !.req[watch[p]] = "known"]
  <2>2. s \in RecordType
    BY <1>2, <1>3, <2>1, SeenFound DEF ScanByClientId
  <2>3. Same(s, r)
    BY <1>2, <2>1 DEF Saw, RecordType
  <2>4. rec' = [rec EXCEPT ![a] = s] /\ UNCHANGED ord
    BY <1>3 DEF ScanByClientId, Put
  <2> HIDE DEF s
  <2> QED BY <1>2, <2>1, <2>2, <2>3, <2>4, SameOrders, QuietRewrite
<1>4. ASSUME NEW k \in Kinds, ScanOrder(p, k) PROVE Quiet
  <2>1. Inside(p) /\ watch[p] = k
    BY <1>4 DEF ScanOrder, Scanning, Inside
  <2>2. k \in Requests => r.req[k] = "known"
    BY <1>4 DEF ScanOrder
  <2>3. k = "child" => r.snap["limit"].st = "replaced"
    BY <1>4, <2>1, InsideFacts DEF Stage, ScanOrder, Scanning
  <2> DEFINE s == Saw(a, k)
  <2>4. s \in RecordType
    BY <1>2, <2>1, <2>2, <2>3, SeenKnown
  <2>5. Same(s, r)
    BY <1>2, <2>1 DEF Saw, RecordType
  <2>6. rec' = [rec EXCEPT ![a] = s]
    BY <1>4 DEF ScanOrder, Put
  <2>7. \A b \in Attempts : Fills(b)' = Fills(b)
    BY <1>2, <1>4, <2>1, SameOrders, SameFilled DEF ScanOrder
  <2> HIDE DEF s
  <2> QED BY <1>2, <2>1, <2>4, <2>5, <2>6, <2>7, QuietRewrite
<1>5. CASE ScanDone(p)
  <2>1. Inside(p)
    BY <1>5 DEF ScanDone, Scanning, Inside
  <2>2. PICK s \in RecordType :
          /\ rec' = [rec EXCEPT ![a] = s]
          /\ Same(s, r)
    <3> DEFINE v == Verified(r)
    <3>1. v \in RecordType /\ Same(v, r)
      BY <1>2, <2>1 DEF Verified, RecordType
    <3> HIDE DEF v
    <3>2. CASE rec' = [rec EXCEPT ![a] = v]
      BY <3>1, <3>2
    <3>3. CASE \E e \in Listed(a) : rec' = [rec EXCEPT ![a] = [v EXCEPT !.execs = e]]
      <4> PICK e \in Listed(a) : rec' = [rec EXCEPT ![a] = [v EXCEPT !.execs = e]]
        BY <3>3
      <4> DEFINE s == [v EXCEPT !.execs = e]
      <4>1. e \in [parent : Qty, child : Qty]
        BY DEF Listed
      <4>2. /\ s \in RecordType
            /\ Same(s, v)
        BY <3>1, <4>1 DEF RecordType
      <4> HIDE DEF s
      <4> QED BY <3>1, <4>2 DEF s
    <3> QED BY <1>5, <3>2, <3>3 DEF ScanDone, Put, v
  <2>3. UNCHANGED ord
    BY <1>5 DEF ScanDone
  <2> QED BY <1>2, <2>1, <2>2, <2>3, SameOrders, QuietRewrite
<1> QED BY <1>1, <1>3, <1>4, <1>5
        DEF Recovery, Reconcile, ScanSkip, ScanFails, FetchFails, ApplyRaises

\* A fill executes one contract of an active attempt, within its size; the other
\* events at the broker leave the executed contracts alone.
LEMMA FillExecutes ==
  ASSUME IInv, NEW a \in Attempts, NEW k \in Kinds, Fill(a, k)
  PROVE  /\ rec[a].state = "active" /\ Fills(a) < rec[a].qty
         /\ Fills(a)' = Fills(a) + 1
         /\ \A b \in Attempts : b # a => Fills(b)' = Fills(b)
         /\ UNCHANGED rec
<1> DEFINE r == rec[a]  o == ord[a]  y == o[k]
<1>1. /\ r \in RecordType /\ o \in [Kinds -> OrderType] /\ Agrees(r, o)
      /\ y.st = "working"
  BY DEF IInv, TypeOK, Fill
<1>2. rec[a].state = "active"
  BY <1>1, LiveIsActive DEF Live
<1>3. /\ ord'[a][k].filled = y.filled + 1 /\ ord'[a][k].st \in {"working", "filled"}
      /\ \A j \in Kinds : j # k => ord'[a][j] = o[j]
      /\ \A b \in Attempts : b # a => ord'[b] = ord[b]
  BY <1>1 DEF Fill, SetOrder, IInv, TypeOK, OrderType
<1>4. \A j \in Kinds : o[j].filled \in Nat /\ o[j].qty \in Nat
  BY <1>1 DEF OrderType, Qty
<1>5. \A b \in Attempts : b # a => Fills(b)' = Fills(b)
  BY <1>3 DEF Fills, ChainFills
<1>6. k = "limit" => o["child"].st = "unsent"
  BY <1>1 DEF Agrees, SoundOrders
<1>7. Fills(a)' = Fills(a) + 1
  BY <1>1, <1>3, <1>4, <1>6 DEF Fills, ChainFills, Kinds
<1>8. y.filled < y.qty
  BY <1>1 DEF Agrees, SoundOrders, SoundOrder
<1>9. Fills(a) < r.qty
  <2>1. CASE k = "market"
    <3>1. y.qty = r.qty - Chain(o)
      BY <1>1, <2>1 DEF Agrees, SoundOrders
    <3>2. Chain(o) \in Nat /\ r.qty \in Nat
      BY <1>1, <1>4 DEF Chain, Kinds, RecordType, Qty
    <3> QED BY <1>4, <1>8, <2>1, <3>1, <3>2, FillsAreChain
  <2>2. CASE k # "market"
    <3>1. ~ChainOver(o)
      BY <1>1, <2>2 DEF Agrees, SoundOrders, ChainOver, TERMINAL, Kinds
    <3>2. o["market"].st = "unsent"
      BY <1>1, <3>1 DEF Agrees, SoundRequests, ChainKnown, Requests
    <3>3. o["market"].filled = 0
      BY <1>1, <3>2 DEF Agrees, SoundOrders, SoundOrder, Kinds
    <3>4. Chain(o) = y.filled /\ y.qty = r.qty
      BY <1>1, <1>6, <2>2 DEF Agrees, SoundOrders, Chain, Kinds
    <3> QED BY <1>4, <1>8, <3>3, <3>4, FillsAreChain DEF Kinds
  <2> QED BY <2>1, <2>2
<1> QED BY <1>2, <1>5, <1>7, <1>9 DEF Fill, durable

LEMMA BrokerQuiet ==
  ASSUME IInv, Broker, \A a \in Attempts, k \in Kinds : ~Fill(a, k)
  PROVE  Quiet
<1>1. UNCHANGED rec
  BY DEF Broker, Deliver, End, Replace, DropPatch, durable
<1>2. \A a \in Attempts : Fills(a)' = Fills(a)
  <2>1. ASSUME NEW b \in Attempts, NEW k \in Kinds, NEW x,
               ord' = [ord EXCEPT ![b][k] = x], x.filled = ord[b][k].filled,
               x.st # "unsent", ord[b][k].st # "unsent"
        PROVE  \A a \in Attempts : Fills(a)' = Fills(a)
    <3>1. \A a \in Attempts, j \in Kinds :
            ord'[a][j].filled = ord[a][j].filled
            /\ (ord'[a][j].st = "unsent" <=> ord[a][j].st = "unsent")
      BY <2>1 DEF IInv, TypeOK
    <3> QED BY <3>1 DEF Fills, ChainFills, Kinds
  <2>2. ASSUME NEW b \in Attempts, NEW k \in Requests,
               NEW outcome \in {"working", "refused", "lost"}, Deliver(b, k, outcome)
        PROVE  \A a \in Attempts : Fills(a)' = Fills(a)
    <3> DEFINE x == [ord[b][k] EXCEPT !.st = outcome]
    <3>1. k \in Kinds /\ ord[b][k] \in OrderType
      BY DEF Kinds, Requests, IInv, TypeOK
    <3>2. x.filled = ord[b][k].filled /\ x.st = outcome
      BY <3>1 DEF OrderType
    <3>3. ord' = [ord EXCEPT ![b][k] = x] /\ ord[b][k].st = "sent"
      BY <2>2 DEF Deliver, SetOrder
    <3> HIDE DEF x
    <3> QED BY <2>1, <3>1, <3>2, <3>3
  <2>3. ASSUME NEW b \in Attempts, NEW k \in Kinds, End(b, k)
        PROVE  \A a \in Attempts : Fills(a)' = Fills(a)
    <3> DEFINE x == [ord[b][k] EXCEPT !.st = "dead", !.cancel = FALSE]
    <3>1. ord[b][k] \in OrderType
      BY DEF IInv, TypeOK
    <3>2. x.filled = ord[b][k].filled /\ x.st = "dead"
      BY <3>1 DEF OrderType
    <3>3. ord' = [ord EXCEPT ![b][k] = x] /\ ord[b][k].st = "working"
      BY <2>3 DEF End, SetOrder
    <3> HIDE DEF x
    <3> QED BY <2>1, <3>2, <3>3
  <2>4. ASSUME NEW b \in Attempts, Replace(b)
        PROVE  \A a \in Attempts : Fills(a)' = Fills(a)
    <3>1. ord[b] \in [Kinds -> OrderType] /\ Agrees(rec[b], ord[b])
          /\ ord[b]["limit"].st = "working" /\ ord[b]["limit"] \in OrderType
      BY <2>4 DEF IInv, TypeOK, Replace, Kinds
    <3>2. ord[b]["child"].st = "unsent"
      BY <3>1 DEF Agrees, SoundOrders
    <3>3. /\ ord'[b]["child"].filled = ord[b]["limit"].filled
          /\ ord'[b]["child"].st = "working"
          /\ ord'[b]["market"] = ord[b]["market"]
          /\ \A a \in Attempts : a # b => ord'[a] = ord[a]
      BY <2>4, <3>1 DEF Replace, IInv, TypeOK, Kinds, OrderType
    <3> QED BY <3>2, <3>3 DEF Fills, ChainFills
  <2>5. ASSUME NEW b \in Attempts, DropPatch(b)
        PROVE  \A a \in Attempts : Fills(a)' = Fills(a)
    BY <2>5, SameOrders DEF DropPatch
  <2> QED BY <2>2, <2>3, <2>4, <2>5 DEF Broker
<1> QED BY <1>1, <1>2 DEF Quiet

\* Booking moves the journal towards the fills, and closes it only level.
LEMMA ApplyBooks ==
  ASSUME IInv, NEW p \in Procs, Apply(p)
  PROVE  \E a \in Attempts, s \in RecordType :
           /\ rec[a].state = "active" /\ rec' = [rec EXCEPT ![a] = s]
           /\ s.qty = rec[a].qty /\ s.applied \in rec[a].applied .. Fills(a)
           /\ \/ s.state = "active"
              \/ s.state = "closed" /\ s.applied = Fills(a)
           /\ UNCHANGED ord
<1> DEFINE a == cur[p]  o == ord[a]  r == InMemory(p)
           s == [r EXCEPT !.applied = Total(r),
                          !.state = IF Final(r) THEN "closed" ELSE "active"]
<1>1. Inside(p)
  BY DEF Apply, Inside
<1>2. /\ a \in Attempts /\ rec[a] \in RecordType
      /\ o \in [Kinds -> OrderType] /\ rec[a].state = "active" /\ Agrees(rec[a], o)
  BY <1>1, InsideFacts
<1>3. /\ r \in RecordType /\ r.state = rec[a].state /\ r.side = rec[a].side
      /\ r.applied = rec[a].applied /\ r.qty = rec[a].qty /\ r.snap = rec[a].snap
      /\ r.execs = rec[a].execs /\ r.trade = rec[a].trade /\ r.req = rec[a].req
  BY <1>2 DEF InMemory, Verified, RecordType
<1>4. Bookable(a, r) /\ rec' = [rec EXCEPT ![a] = s] /\ UNCHANGED ord
  BY DEF Apply, Put
<1> HIDE DEF r
<1>5. Agrees(r, o)
  BY <1>2, <1>3, SameEvidence
<1>6. /\ Total(r) \in Nat /\ Total(r) <= Fills(a)
      /\ Final(r) => Total(r) = Fills(a)
  BY <1>2, <1>3, <1>5, TotalIsExecuted, FillsAreChain
<1>7. Total(r) \in Qty /\ r.applied <= Total(r) /\ Fills(a) \in Nat /\ r.applied \in Nat
  <2>1. \A k \in Kinds : o[k].filled \in Nat
    BY <1>2 DEF OrderType, Qty
  <2> QED BY <1>3, <1>4, <1>6, <2>1
          DEF Bookable, RecordType, Qty, Fills, ChainFills, Kinds
<1>8. s \in RecordType
  BY <1>3, <1>7 DEF RecordType
<1>9. /\ s.state = IF Final(r) THEN "closed" ELSE "active"
      /\ s.applied = Total(r) /\ s.qty = r.qty
  BY <1>3 DEF RecordType
<1> HIDE DEF s, a
<1>10. s.applied \in rec[a].applied .. Fills(a)
  BY <1>3, <1>6, <1>7, <1>9
<1> USE <1>2, <1>8
<1> WITNESS a \in Attempts, s \in RecordType
<1> QED BY <1>2, <1>3, <1>4, <1>6, <1>9, <1>10

\* The abstract step that each kind of step is.
LEMMA QuietStutters ==
  ASSUME Quiet
  PROVE  UNCHANGED Ledger!ledger
  BY DEF Quiet, Ledger!ledger

LEMMA OpenOpens ==
  ASSUME IInv, NEW p \in Procs, Open(p)
  PROVE  Ledger!Next
<1> PICK a \in Attempts :
      /\ rec[a].state = "unused"
      /\ Put(a, [NoRecord EXCEPT
            !.state = "active", !.side = plan[p].side, !.qty = plan[p].qty,
            !.trade = IF plan[p].side = "buy" THEN a ELSE plan[p].trade])
  BY DEF Open
<1> DEFINE s == [NoRecord EXCEPT
            !.state = "active", !.side = plan[p].side, !.qty = plan[p].qty,
            !.trade = IF plan[p].side = "buy" THEN a ELSE plan[p].trade]
           st == [b \in Attempts |-> rec[b].state]
           sz == [b \in Attempts |-> rec[b].qty]
           ex == [b \in Attempts |-> Fills(b)]
           bk == [b \in Attempts |-> rec[b].applied]
<1>1. rec[a].applied = 0
  BY DEF IInv, Agrees, SoundBooking, NoRecord
<1>2. s.state = "active" /\ s.qty = plan[p].qty /\ s.applied = 0
  BY DEF NoRecord
<1>3. plan[p].qty \in 1 .. MaxQty
  BY DEF IInv, TypeOK, Owned, Open, At, PlanType, Qty
<1>4. \A b \in Attempts : rec[b].state # "active"
  BY DEF Open, Pending
<1>5. rec' = [rec EXCEPT ![a] = s] /\ \A b \in Attempts : Fills(b)' = Fills(b)
  BY SameOrders DEF Open, Put
<1> HIDE DEF s
<1>6. \A b \in Attempts : rec'[b] = IF b = a THEN s ELSE rec[b]
  BY <1>5 DEF IInv, TypeOK
<1>7. st' = [st EXCEPT ![a] = "active"]
  BY <1>2, <1>6
<1>8. sz' = [sz EXCEPT ![a] = plan[p].qty]
  BY <1>2, <1>6
<1>9. bk' = bk /\ ex' = ex
  BY <1>1, <1>2, <1>5, <1>6
<1>10. Ledger!Open(a)
  BY <1>3, <1>4, <1>7, <1>8, <1>9 DEF Ledger!Open
<1> QED BY <1>10 DEF Ledger!Next

LEMMA FillIsExecute ==
  ASSUME IInv, NEW a \in Attempts, NEW k \in Kinds, Fill(a, k)
  PROVE  Ledger!Next
<1> DEFINE ex == [b \in Attempts |-> Fills(b)]
<1>1. /\ rec[a].state = "active" /\ Fills(a) < rec[a].qty
      /\ Fills(a)' = Fills(a) + 1
      /\ \A b \in Attempts : b # a => Fills(b)' = Fills(b)
      /\ UNCHANGED rec
  BY FillExecutes
<1>2. ex' = [ex EXCEPT ![a] = @ + 1]
  BY <1>1
<1>3. Ledger!Execute(a)
  BY <1>1, <1>2 DEF Ledger!Execute
<1> QED BY <1>3 DEF Ledger!Next

LEMMA ApplyIsBook ==
  ASSUME IInv, NEW p \in Procs, Apply(p)
  PROVE  Ledger!Next
<1> PICK a \in Attempts, s \in RecordType :
           /\ rec[a].state = "active" /\ rec' = [rec EXCEPT ![a] = s]
           /\ s.qty = rec[a].qty /\ s.applied \in rec[a].applied .. Fills(a)
           /\ \/ s.state = "active"
              \/ s.state = "closed" /\ s.applied = Fills(a)
           /\ UNCHANGED ord
  BY ApplyBooks
<1> DEFINE st == [b \in Attempts |-> rec[b].state]
           sz == [b \in Attempts |-> rec[b].qty]
           ex == [b \in Attempts |-> Fills(b)]
           bk == [b \in Attempts |-> rec[b].applied]
<1>1. \A b \in Attempts : rec'[b] = IF b = a THEN s ELSE rec[b]
  BY DEF IInv, TypeOK
<1>2. ex' = ex /\ sz' = sz
  BY <1>1, SameOrders
<1>3. bk' = [bk EXCEPT ![a] = s.applied]
  <2>1. \A b \in Attempts : bk'[b] = IF b = a THEN s.applied ELSE bk[b]
    BY <1>1
  <2> QED BY ONLY <2>1
<1>4. CASE s.state = "active"
  <2>1. st' = st
    BY <1>1, <1>4
  <2>2. Ledger!Book(a)
    BY <1>2, <1>3, <2>1 DEF Ledger!Book
  <2> QED BY <2>2 DEF Ledger!Next
<1>5. CASE s.state = "closed" /\ s.applied = Fills(a)
  <2>1. st' = [st EXCEPT ![a] = "closed"]
    <3>1. \A b \in Attempts : st'[b] = IF b = a THEN "closed" ELSE st[b]
      BY <1>1, <1>5
    <3> QED BY ONLY <3>1
  <2>2. Ledger!Book(a)
    BY <1>2, <1>3, <1>5, <2>1 DEF Ledger!Book
  <2> QED BY <2>2 DEF Ledger!Next
<1> QED BY <1>4, <1>5

\* Every interleaving of calls, recoveries, crashes and broker events is a run
\* of the abstract ledger: attempts one at a time, fills only for the one that
\* runs and within its size, every contract booked once and none forgotten.
THEOREM Implementation == Spec => ImplementsLedger
<1>1. Init => Ledger!Init
  BY DEF Init, Ledger!Init, NoRecord, NoOrder, Fills, ChainFills, Kinds
<1>2. IInv /\ [Next]_vars => [Ledger!Next]_(Ledger!ledger)
  <2> SUFFICES ASSUME IInv, [Next]_vars
               PROVE  Ledger!Next \/ UNCHANGED Ledger!ledger
    OBVIOUS
  <2>1. ASSUME NEW p \in Procs, Caller(p) PROVE Ledger!Next \/ Quiet
    BY <2>1, CallerQuiet, OpenOpens
  <2>2. ASSUME NEW p \in Procs, Recovery(p) PROVE Ledger!Next \/ Quiet
    BY <2>2, RecoveryQuiet, ApplyIsBook
  <2>3. ASSUME Broker PROVE Ledger!Next \/ Quiet
    <3>1. CASE \E a \in Attempts, k \in Kinds : Fill(a, k)
      BY <3>1, FillIsExecute
    <3>2. CASE \A a \in Attempts, k \in Kinds : ~Fill(a, k)
      BY <2>3, <3>2, BrokerQuiet
    <3> QED BY <3>1, <3>2
  <2>4. ASSUME NEW p \in Procs, Crash(p) PROVE Quiet
    BY <2>4, SameOrders DEF Crash, Quiet
  <2>5. ASSUME UNCHANGED vars PROVE Quiet
    <3>1. UNCHANGED <<rec, ord>>
      BY <2>5 DEF vars
    <3> QED BY <3>1, SameOrders DEF Quiet
  <2> QED BY <2>1, <2>2, <2>3, <2>4, <2>5, QuietStutters DEF Next, Work
<1> QED BY <1>1, <1>2, Inductive, PTL DEF Spec, ImplementsLedger, Ledger!Spec

\* A closed attempt is never reopened, nothing fills behind its back, and what
\* is booked is never taken back.
THEOREM SettledForGoodHolds == Spec => SettledForGood
<1> DEFINE Settled ==
      \A a \in Attempts :
        /\ rec[a].state = "closed" => rec'[a] = rec[a] /\ Fills(a)' = Fills(a)
        /\ rec[a].applied <= rec'[a].applied
<1>1. IInv /\ [Next]_vars => [Settled]_vars
  <2> SUFFICES ASSUME IInv, Next PROVE Settled
    OBVIOUS
  <2>1. \A a \in Attempts : rec[a].applied \in Nat
    BY DEF IInv, TypeOK, RecordType, Qty
  <2>2. CASE Quiet
    BY <2>1, <2>2 DEF Quiet
  <2>3. ASSUME NEW p \in Procs, Open(p) PROVE Settled
    <3> PICK a \in Attempts : rec[a].state = "unused" /\ \E s : Put(a, s)
      BY <2>3 DEF Open
    <3>1. \A b \in Attempts : b # a => rec'[b] = rec[b]
      BY DEF Put, IInv, TypeOK
    <3>2. rec[a].applied = 0
      BY DEF IInv, Agrees, SoundBooking, NoRecord
    <3>3. IInv'
      BY <2>3, OpenSafe
    <3>4. rec'[a].applied \in Nat
      BY <3>3 DEF IInv, TypeOK, RecordType, Qty
    <3>5. \A b \in Attempts : Fills(b)' = Fills(b)
      BY <2>3, SameOrders DEF Open
    <3> QED BY <2>1, <3>1, <3>2, <3>4, <3>5
  <2>4. ASSUME NEW a \in Attempts, NEW k \in Kinds, Fill(a, k) PROVE Settled
    BY <2>1, <2>4, FillExecutes
  <2>5. ASSUME NEW p \in Procs, Apply(p) PROVE Settled
    <3> PICK a \in Attempts, s \in RecordType :
           /\ rec[a].state = "active" /\ rec' = [rec EXCEPT ![a] = s]
           /\ s.applied \in rec[a].applied .. Fills(a)
           /\ UNCHANGED ord
      BY <2>5, ApplyBooks
    <3>1. \A b \in Attempts : rec'[b] = IF b = a THEN s ELSE rec[b]
      BY DEF IInv, TypeOK
    <3>2. rec[a].applied <= s.applied
      BY <2>1
    <3> QED BY <2>1, <3>1, <3>2, SameOrders
  <2>6. ASSUME NEW p \in Procs, Crash(p) PROVE Quiet
    BY <2>6, SameOrders DEF Crash, Quiet
  <2> QED BY <2>2, <2>3, <2>4, <2>5, <2>6, CallerQuiet, RecoveryQuiet, BrokerQuiet
          DEF Next, Work
<1> QED BY <1>1, Inductive, PTL DEF Spec, SettledForGood

----------------------------------------------------------------------------
(* The sales of a trade (SalesInv).                                        *)

LEMMA SalesBegin == Init => SalesInv
<1> SUFFICES ASSUME Init PROVE SalesInv
  OBVIOUS
<1>1. \A a \in Attempts : rec[a].state = "unused" /\ rec[a].side = "buy" /\ row[a].sold = 0
  BY DEF Init, NoRecord, NoRow
<1>2. \A t \in Attempts : Units(SalesOf(t), Booked) = {}
  BY <1>1 DEF SalesOf, Units
<1> QED BY <1>1, <1>2, FS_EmptySet DEF SalesInv

LEMMA SaleHasTrade ==
  ASSUME IInv, NEW s \in Attempts, rec[s].side = "sell"
  PROVE  rec[s].trade \in Attempts /\ rec[s].state # "unused"
<1>1. Agrees(rec[s], ord[s])
  BY DEF IInv
<1>2. rec[s].state # "unused"
  BY <1>1 DEF Agrees, SoundBooking, NoRecord
<1> QED BY <1>1, <1>2 DEF Agrees, SoundBooking

\* A step that books nothing and opens nothing.
LEMMA QuietSales ==
  ASSUME IInv, SalesInv, Quiet, UNCHANGED row
  PROVE  SalesInv'
<1>1. \A a \in Attempts : /\ rec'[a].state = rec[a].state /\ rec'[a].side = rec[a].side
                          /\ rec'[a].trade = rec[a].trade /\ rec'[a].qty = rec[a].qty
                          /\ rec'[a].applied = rec[a].applied
  BY DEF Quiet
<1>2. Booked' = Booked
  BY <1>1 DEF Booked
<1>3. \A t \in Attempts : SalesOf(t)' = SalesOf(t)
  BY <1>1 DEF SalesOf
<1>4. \A t \in Attempts : Units(SalesOf(t), Booked)' = Units(SalesOf(t), Booked)
  BY <1>2, <1>3 DEF Units
<1>5. \A t \in Attempts : rec'[t].side = "buy" =>
        /\ IsFiniteSet(Units(SalesOf(t), Booked)')
        /\ Cardinality(Units(SalesOf(t), Booked)') = row'[t].sold
  BY <1>1, <1>4 DEF SalesInv
<1>6. ASSUME NEW s \in Attempts, rec'[s].side = "sell"
      PROVE  /\ rec'[rec'[s].trade].side = "buy" /\ rec'[rec'[s].trade].state # "unused"
             /\ rec'[s].state = "active" => rec'[s].qty - rec'[s].applied <= row'[rec'[s].trade].contracts
  <2>1. rec[s].trade \in Attempts
    BY <1>1, <1>6, SaleHasTrade
  <2> QED BY <1>1, <1>6, <2>1 DEF SalesInv
<1> QED BY <1>5, <1>6 DEF SalesInv

\* Only apply_fills writes the trades table.
LEMMA RowsStay ==
  ASSUME [Next]_vars, \A p \in Procs : ~Apply(p)
  PROVE  UNCHANGED row
<1>1. ASSUME NEW p \in Procs, Caller(p) PROVE UNCHANGED row
  BY <1>1 DEF Caller, SizeBuy, SizeSell, Decline, RecoverFirst, Open, NotSent, RecordRequest,
              Send, PostAccepted, PostRefused, PostUncertain, Poll, StepPrice, PatchAnswered,
              PatchFailed, WaitOver, CancelRemainder, Confirm, GiveUp, Finish
<1>2. ASSUME NEW p \in Procs, Recovery(p) PROVE UNCHANGED row
  BY <1>2 DEF Recovery, Reconcile, ScanSkip, ScanByClientId, ScanOrder, ScanFails, ScanDone,
              FetchFails, ApplyRaises
<1>3. CASE Broker
  BY <1>3 DEF Broker, Deliver, Fill, End, Replace, DropPatch, durable
<1>4. ASSUME NEW p \in Procs, Crash(p) PROVE UNCHANGED row
  BY <1>4 DEF Crash
<1>5. CASE UNCHANGED vars
  BY <1>5 DEF vars
<1> QED BY <1>1, <1>2, <1>3, <1>4, <1>5 DEF Next, Work

\* A sale begins: it counts nothing yet, and it fits into what is left.
LEMMA OpenSells ==
  ASSUME IInv, SalesInv, NEW p \in Procs, Open(p)
  PROVE  SalesInv'
<1> PICK a \in Attempts :
      /\ rec[a].state = "unused"
      /\ Put(a, [NoRecord EXCEPT
            !.state = "active", !.side = plan[p].side, !.qty = plan[p].qty,
            !.trade = IF plan[p].side = "buy" THEN a ELSE plan[p].trade])
  BY DEF Open
<1> DEFINE r == [NoRecord EXCEPT
            !.state = "active", !.side = plan[p].side, !.qty = plan[p].qty,
            !.trade = IF plan[p].side = "buy" THEN a ELSE plan[p].trade]
<1>1. rec[a] = NoRecord /\ NoRecord.side = "buy" /\ NoRecord.applied = 0
  BY DEF IInv, Agrees, SoundBooking, NoRecord
<1>2. /\ r.state = "active" /\ r.side = plan[p].side /\ r.applied = 0 /\ r.qty = plan[p].qty
      /\ r.trade = IF plan[p].side = "buy" THEN a ELSE plan[p].trade
  BY DEF NoRecord
<1>3. rec' = [rec EXCEPT ![a] = r] /\ row' = row
  BY DEF Open, Put, r
<1> HIDE DEF r
<1>4. \A b \in Attempts : rec'[b] = IF b = a THEN r ELSE rec[b]
  BY <1>3 DEF IInv, TypeOK
<1>5. ASSUME NEW t \in Attempts
      PROVE  Units(SalesOf(t), Booked)' = Units(SalesOf(t), Booked)
  <2>1. ASSUME NEW s \in SalesOf(t)
        PROVE  s \in SalesOf(t)' /\ Booked'[s] = Booked[s] /\ s # a
    BY <1>4 DEF SalesOf, Booked
  <2>2. ASSUME NEW s \in SalesOf(t)', s # a
        PROVE  s \in SalesOf(t)
    BY <1>4, <2>2 DEF SalesOf
  <2>3. a \in SalesOf(t)' => Booked'[a] = 0
    BY <1>2, <1>4 DEF Booked
  <2>4. ASSUME NEW u
        PROVE  u \in Units(SalesOf(t)', Booked') <=> u \in Units(SalesOf(t), Booked)
    <3>1. u \in Units(SalesOf(t), Booked) => u \in Units(SalesOf(t)', Booked')
      BY <2>1, UnitOf
    <3>2. ASSUME NEW s \in SalesOf(t)', NEW i \in 1 .. Booked'[s], u = <<s, i>>
          PROVE  u \in Units(SalesOf(t), Booked)
      <4>1. s # a
        BY <2>3, <3>2
      <4>2. s \in SalesOf(t) /\ Booked'[s] = Booked[s]
        BY <2>1, <2>2, <4>1
      <4>3. \E x \in SalesOf(t) : \E j \in 1 .. Booked[x] : u = <<x, j>>
        BY <3>2, <4>2
      <4> QED BY <4>3, UnitOf
    <3>3. u \in Units(SalesOf(t)', Booked') =>
            \E s \in SalesOf(t)' : \E i \in 1 .. Booked'[s] : u = <<s, i>>
      BY UnitOf
    <3> QED BY <3>1, <3>2, <3>3
  <2>5. Units(SalesOf(t)', Booked') = Units(SalesOf(t), Booked)
    BY <2>4
  <2> QED BY <2>5 DEF Units
<1>6. ASSUME NEW t \in Attempts, rec'[t].side = "buy"
      PROVE  /\ IsFiniteSet(Units(SalesOf(t), Booked)')
             /\ Cardinality(Units(SalesOf(t), Booked)') = row'[t].sold
  <2>1. rec[t].side = "buy"
    BY <1>1, <1>4, <1>6
  <2> QED BY <1>3, <1>5, <2>1 DEF SalesInv
<1>7. ASSUME NEW s \in Attempts, rec'[s].side = "sell"
      PROVE  /\ rec'[rec'[s].trade].side = "buy" /\ rec'[rec'[s].trade].state # "unused"
             /\ rec'[s].state = "active" => rec'[s].qty - rec'[s].applied <= row'[rec'[s].trade].contracts
  <2>1. CASE s # a
    <3>1. rec'[s] = rec[s] /\ rec[s].state # "active"
      BY <1>4, <2>1 DEF Open, Pending
    <3>2. rec[s].trade \in Attempts /\ rec[s].trade # a
      BY <1>7, <3>1, SaleHasTrade DEF SalesInv
    <3> QED BY <1>4, <1>7, <3>1, <3>2 DEF SalesInv
  <2>2. CASE s = a
    <3> DEFINE t == plan[p].trade
    <3>1. rec'[s] = r /\ plan[p].side = "sell" /\ r.trade = t
      BY <1>2, <1>4, <1>7, <2>2
    <3>2. t \in Attempts /\ plan[p].qty \in Nat
      BY <3>1 DEF IInv, Owned, Open, At, TypeOK, PlanType, Qty
    <3>3. row[t].st = "open" /\ plan[p].qty <= row[t].contracts
      BY <3>1 DEF Open, Valid
    <3>4. row[t] \in RowType /\ rec[t] \in RecordType
      BY <3>2 DEF IInv, TypeOK
    <3>5. row[t].contracts > 0
          /\ row[t].contracts + row[t].sold = IF rec[t].side = "buy" THEN rec[t].applied ELSE 0
      BY <3>2, <3>3 DEF IInv, JournalMatchesEntry
    <3>6. rec[t].side = "buy" /\ rec[t].applied # 0
      BY <3>4, <3>5 DEF RowType, RecordType, Qty
    <3>7. t # a
      BY <1>1, <3>6
    <3>8. rec[t].state # "unused"
      BY <1>1, <3>2, <3>6 DEF IInv, Agrees, SoundBooking
    <3>9. rec'[t] = rec[t]
      BY <1>4, <3>2, <3>7
    <3> QED BY <1>2, <1>3, <3>1, <3>2, <3>3, <3>6, <3>8, <3>9
  <2> QED BY <2>1, <2>2
<1> QED BY <1>6, <1>7 DEF SalesInv

\* What apply_fills commits.
LEMMA ApplyFacts ==
  ASSUME IInv, NEW p \in Procs, Apply(p)
  PROVE  \E a \in Attempts, r, s \in RecordType :
           /\ rec[a].state = "active" /\ rec' = [rec EXCEPT ![a] = s] /\ s.state # "unused"
           /\ r.side = rec[a].side /\ r.applied = rec[a].applied /\ r.trade = rec[a].trade
           /\ s.side = r.side /\ s.trade = r.trade /\ s.qty = rec[a].qty
           /\ s.applied = Total(r) /\ Bookable(a, r) /\ row' = BookedRow(a, r, Total(r))
<1> DEFINE a == cur[p]  r == InMemory(p)
           s == [r EXCEPT !.applied = Total(r),
                          !.state = IF Final(r) THEN "closed" ELSE "active"]
<1>1. Inside(p)
  BY DEF Apply, Inside
<1>2. /\ a \in Attempts /\ rec[a] \in RecordType /\ ord[a] \in [Kinds -> OrderType]
      /\ rec[a].state = "active" /\ Agrees(rec[a], ord[a])
  BY <1>1, InsideFacts
<1>3. /\ r \in RecordType /\ r.state = rec[a].state /\ r.side = rec[a].side
      /\ r.applied = rec[a].applied /\ r.qty = rec[a].qty /\ r.snap = rec[a].snap
      /\ r.execs = rec[a].execs /\ r.trade = rec[a].trade /\ r.req = rec[a].req
  BY <1>2 DEF InMemory, Verified, RecordType
<1>4. Bookable(a, r) /\ row' = BookedRow(a, r, Total(r)) /\ rec' = [rec EXCEPT ![a] = s]
  BY DEF Apply, Put
<1> HIDE DEF r
<1>5. Agrees(r, ord[a])
  BY <1>2, <1>3, SameEvidence
<1>6. Total(r) \in Nat
  BY <1>2, <1>3, <1>5, TotalIsExecuted
<1>7. Total(r) \in Qty
  BY <1>3, <1>4, <1>6 DEF Bookable, RecordType, Qty
<1>8. s \in RecordType
  BY <1>3, <1>7 DEF RecordType
<1>9. /\ s.state # "unused" /\ s.side = r.side /\ s.trade = r.trade
      /\ s.applied = Total(r) /\ s.qty = r.qty
  BY <1>3 DEF RecordType
<1> HIDE DEF s, a
<1> USE <1>2, <1>3, <1>8
<1> WITNESS a \in Attempts, r \in RecordType, s \in RecordType
<1> QED BY <1>4, <1>9

\* What is booked of a sale is added to what its trade has sold, and taken
\* from what is left of it; an entry that is booked has sold nothing yet.
LEMMA ApplySells ==
  ASSUME IInv, SalesInv, NEW p \in Procs, Apply(p)
  PROVE  SalesInv'
<1> PICK a \in Attempts, r \in RecordType, s \in RecordType :
           /\ rec[a].state = "active" /\ rec' = [rec EXCEPT ![a] = s] /\ s.state # "unused"
           /\ r.side = rec[a].side /\ r.applied = rec[a].applied /\ r.trade = rec[a].trade
           /\ s.side = r.side /\ s.trade = r.trade /\ s.qty = rec[a].qty
           /\ s.applied = Total(r) /\ Bookable(a, r) /\ row' = BookedRow(a, r, Total(r))
  BY ApplyFacts
<1> DEFINE n == Total(r)  m == rec[a].applied
<1>1. /\ \A b \in Attempts : b # a => rec'[b] = rec[b]
      /\ rec'[a] = s
  BY DEF IInv, TypeOK
<1>2. /\ m \in Nat /\ n \in Nat /\ m <= n
      /\ \A b \in Attempts : rec[b] \in RecordType /\ row[b] \in RowType
  BY DEF IInv, TypeOK, RecordType, Qty, Bookable
<1>3. \A b \in Attempts : rec[b].state = "active" => b = a
  BY DEF IInv, Owned, Pending
<1>4. \A b \in Attempts : /\ rec'[b].side = rec[b].side /\ rec'[b].trade = rec[b].trade
                          /\ rec'[b].qty = rec[b].qty
                          /\ rec'[b].state = "unused" <=> rec[b].state = "unused"
                          /\ rec'[b].state = "active" => b = a
                          /\ Booked[b] = rec[b].applied
                          /\ Booked'[b] = IF b = a THEN n ELSE rec[b].applied
  BY <1>1, <1>3 DEF Booked
<1> HIDE DEF n, m
<1>5. \A t \in Attempts : SalesOf(t)' = SalesOf(t)
  BY <1>4 DEF SalesOf
<1>6. ASSUME NEW t \in Attempts, a \notin SalesOf(t)
      PROVE  Units(SalesOf(t), Booked)' = Units(SalesOf(t), Booked)
  <2>1. \A b \in SalesOf(t) : Booked'[b] = Booked[b]
    BY <1>4, <1>6 DEF SalesOf
  <2>2. Units(SalesOf(t), Booked') = Units(SalesOf(t), Booked)
    BY <2>1, SameSum
  <2> QED BY <1>5, <2>2 DEF Units
<1>7. ASSUME NEW t \in Attempts, a \in SalesOf(t), rec[t].side = "buy"
      PROVE  /\ IsFiniteSet(Units(SalesOf(t), Booked)')
             /\ Cardinality(Units(SalesOf(t), Booked)') = row[t].sold + (n - m)
  <2>1. Booked[a] = m /\ Booked'[a] = n /\ \A b \in SalesOf(t) : b # a => Booked'[b] = Booked[b]
    BY <1>4 DEF m, SalesOf
  <2>2. IsFiniteSet(Units(SalesOf(t), Booked)) /\ Cardinality(Units(SalesOf(t), Booked)) = row[t].sold
    BY <1>7 DEF SalesInv
  <2>3. /\ IsFiniteSet(Units(SalesOf(t), Booked'))
        /\ Cardinality(Units(SalesOf(t), Booked')) =
             Cardinality(Units(SalesOf(t), Booked)) + (Booked'[a] - Booked[a])
    BY <1>2, <1>7, <2>1, <2>2, OneCountsMore
  <2>4. Units(SalesOf(t), Booked)' = Units(SalesOf(t), Booked')
    BY <1>5 DEF Units
  <2> QED BY <2>1, <2>2, <2>3, <2>4
<1>8. \A b \in Attempts : rec[b].side = "sell" =>
        /\ rec'[rec'[b].trade].side = "buy" /\ rec'[rec'[b].trade].state # "unused"
        /\ rec[b].trade \in Attempts
  BY <1>4, SaleHasTrade DEF SalesInv
<1>9. CASE n = m
  <2>1. row' = row
    BY <1>9 DEF BookedRow, n, m
  <2>2. \A t \in Attempts : rec'[t].side = "buy" =>
          /\ IsFiniteSet(Units(SalesOf(t), Booked)')
          /\ Cardinality(Units(SalesOf(t), Booked)') = row'[t].sold
    <3> SUFFICES ASSUME NEW t \in Attempts, rec[t].side = "buy"
                 PROVE  /\ IsFiniteSet(Units(SalesOf(t), Booked)')
                        /\ Cardinality(Units(SalesOf(t), Booked)') = row[t].sold
      BY <1>4, <2>1
    <3>1. row[t].sold \in Nat
      BY <1>2 DEF RowType, Qty
    <3>2. CASE a \in SalesOf(t)
      BY <1>2, <1>7, <1>9, <3>1, <3>2
    <3>3. CASE a \notin SalesOf(t)
      BY <1>6, <3>3 DEF SalesInv
    <3> QED BY <3>2, <3>3
  <2>3. \A b \in Attempts : rec'[b].side = "sell" /\ rec'[b].state = "active" =>
          rec'[b].qty - rec'[b].applied <= row'[rec'[b].trade].contracts
    BY <1>1, <1>4, <1>9, <2>1 DEF SalesInv, n, m
  <2> QED BY <1>4, <1>8, <2>2, <2>3 DEF SalesInv
<1>10. CASE n # m /\ r.side = "buy"
  <2>1. row' = [row EXCEPT ![a] = EntryRow(a, r, n)]
    BY <1>10 DEF BookedRow, n, m
  <2>2. \A t \in Attempts : t # a => row'[t] = row[t]
    BY <2>1 DEF IInv, TypeOK
  <2>3. row'[a].sold = row[a].sold
    <3>1. row'[a] = EntryRow(a, r, n)
      BY <2>1 DEF IInv, TypeOK
    <3>2. CASE r.applied = 0
      <4>1. row[a].contracts + row[a].sold = 0
        BY <1>10, <3>2 DEF IInv, JournalMatchesEntry
      <4>2. row[a].sold = 0
        BY <1>2, <4>1 DEF RowType, Qty
      <4>3. EntryRow(a, r, n) = [NoRow EXCEPT !.st = "open", !.contracts = n]
        BY <3>2 DEF EntryRow
      <4> QED BY <3>1, <4>2, <4>3 DEF NoRow
    <3>3. CASE r.applied # 0
      BY <1>2, <3>1, <3>3 DEF EntryRow, RowType
    <3> QED BY <3>2, <3>3
  <2>4. \A t \in Attempts : a \notin SalesOf(t)
    BY <1>10 DEF SalesOf
  <2>5. \A t \in Attempts : rec'[t].side = "buy" =>
          /\ IsFiniteSet(Units(SalesOf(t), Booked)')
          /\ Cardinality(Units(SalesOf(t), Booked)') = row'[t].sold
    BY <1>4, <1>6, <2>2, <2>3, <2>4 DEF SalesInv
  <2>6. \A b \in Attempts : rec'[b].side = "sell" => rec'[b].state # "active"
    BY <1>4, <1>10
  <2> QED BY <1>4, <1>8, <2>5, <2>6 DEF SalesInv
<1>11. CASE n # m /\ r.side # "buy"
  <2> DEFINE t == r.trade
  <2>1. rec[a].side = "sell" /\ rec[a].trade = t /\ t \in Attempts /\ rec[t].side = "buy" /\ t # a
    BY <1>2, <1>8, <1>11 DEF RecordType, SalesInv
  <2>2. row' = [row EXCEPT ![t] = ExitRow(t, n - m)]
    BY <1>11 DEF BookedRow, n, m
  <2>3. \A b \in Attempts : b # t => row'[b] = row[b]
    BY <2>1, <2>2 DEF IInv, TypeOK
  <2>4. row'[t].sold = row[t].sold + (n - m) /\ row'[t].contracts = row[t].contracts - (n - m)
    <3>1. row'[t] = ExitRow(t, n - m)
      BY <2>1, <2>2 DEF IInv, TypeOK
    <3> QED BY <1>2, <2>1, <3>1 DEF ExitRow, RowType
  <2>5. \A b \in Attempts : a \in SalesOf(b) <=> b = t
    BY <2>1 DEF SalesOf
  <2> HIDE DEF t
  <2>6. \A b \in Attempts : rec'[b].side = "buy" =>
          /\ IsFiniteSet(Units(SalesOf(b), Booked)')
          /\ Cardinality(Units(SalesOf(b), Booked)') = row'[b].sold
    <3> SUFFICES ASSUME NEW b \in Attempts, rec[b].side = "buy"
                 PROVE  /\ IsFiniteSet(Units(SalesOf(b), Booked)')
                        /\ Cardinality(Units(SalesOf(b), Booked)') = row'[b].sold
      BY <1>4
    <3>1. CASE b = t
      BY <1>7, <2>4, <2>5, <3>1
    <3>2. CASE b # t
      BY <1>6, <2>3, <2>5, <3>2 DEF SalesInv
    <3> QED BY <3>1, <3>2
  <2>7. \A b \in Attempts : rec'[b].side = "sell" /\ rec'[b].state = "active" =>
          rec'[b].qty - rec'[b].applied <= row'[rec'[b].trade].contracts
    <3>1. rec[a].qty - m <= row[t].contracts
      BY <2>1 DEF SalesInv, m
    <3>2. rec[a].qty \in Nat /\ row[t].contracts \in Nat
      BY <1>2, <2>1 DEF RecordType, RowType, Qty
    <3>3. rec[a].qty - n <= row[t].contracts - (n - m)
      BY <1>2, <3>1, <3>2
    <3> QED BY <1>1, <1>4, <2>1, <2>4, <3>3 DEF n
  <2> QED BY <1>4, <1>8, <2>6, <2>7 DEF SalesInv
<1> QED BY <1>9, <1>10, <1>11

LEMMA SalesStep == IInv /\ SalesInv /\ [Next]_vars => SalesInv'
<1> SUFFICES ASSUME IInv, SalesInv, [Next]_vars PROVE SalesInv'
  OBVIOUS
<1>1. CASE \E p \in Procs : Apply(p)
  BY <1>1, ApplySells
<1>2. CASE \A p \in Procs : ~Apply(p)
  <2>1. UNCHANGED row
    BY <1>2, RowsStay
  <2>2. ASSUME NEW p \in Procs, Caller(p) PROVE SalesInv'
    BY <2>1, <2>2, CallerQuiet, QuietSales, OpenSells
  <2>3. ASSUME NEW p \in Procs, Recovery(p) PROVE SalesInv'
    BY <1>2, <2>1, <2>3, RecoveryQuiet, QuietSales
  <2>4. CASE Broker
    <3>1. CASE \E a \in Attempts, k \in Kinds : Fill(a, k)
      <4>1. UNCHANGED rec
        BY <3>1, FillExecutes
      <4>2. UNCHANGED SalesInv
        BY <2>1, <4>1 DEF SalesInv, Units, SalesOf, Booked
      <4> QED BY <4>2
    <3>2. CASE \A a \in Attempts, k \in Kinds : ~Fill(a, k)
      BY <2>1, <2>4, <3>2, BrokerQuiet, QuietSales
    <3> QED BY <3>1, <3>2
  <2>5. ASSUME UNCHANGED <<rec, ord>> PROVE SalesInv'
    <3>1. Quiet
      BY <2>5, SameOrders DEF Quiet
    <3> QED BY <2>1, <3>1, QuietSales
  <2> QED BY <2>2, <2>3, <2>4, <2>5 DEF Next, Work, Crash, vars
<1> QED BY <1>1, <1>2

\* The journal and the ledger of orders agree on what every trade has sold, in every
\* reachable state, for any number of closers, attempts and contracts.
THEOREM SalesInductive == Spec => []SalesInv
<1>1. IInv /\ IInv' /\ SalesInv /\ [Next]_vars => SalesInv'
  BY SalesStep
<1> QED BY SalesBegin, Inductive, <1>1, PTL DEF Spec

\* Two closers that sized their sells from stale rows, a crash between them, a market
\* fallback: in the worst case the orders sell what the entry bought, and no more
\* (close.py:88, _validate).
THEOREM NeverShortHolds == Spec => []NeverShort
<1>1. IInv /\ SalesInv => NeverShort
  <2> SUFFICES ASSUME IInv, SalesInv, NEW t \in Attempts, rec[t].side = "buy"
               PROVE  Cardinality(Units(SalesOf(t), [s \in Attempts |-> WorstCase(s)])) <= Fills(t)
    BY DEF NeverShort
  <2> DEFINE g == [s \in Attempts |-> WorstCase(s)]
             S == SalesOf(t)
  <2>1. ASSUME NEW s \in Attempts
        PROVE  /\ rec[s].applied \in Nat /\ rec[s].qty \in Nat
               /\ Fills(s) \in Nat /\ WorstCase(s) \in Nat /\ Fills(s) <= WorstCase(s)
               /\ rec[s].applied <= Fills(s) /\ WorstCase(s) <= rec[s].qty
    <3>1. /\ rec[s] \in RecordType /\ ord[s] \in [Kinds -> OrderType] /\ Agrees(rec[s], ord[s])
          /\ \A k \in Kinds : ord[s][k].filled \in Nat /\ ord[s][k].qty \in Nat
      BY DEF IInv, TypeOK, OrderType, Qty
    <3>2. Fills(s) \in Nat
      BY <3>1 DEF Fills, ChainFills, Kinds
    <3>3. ASSUME NEW k \in Kinds PROVE Room(s, k) \in Nat
      BY <3>1 DEF Room, Agrees, SoundOrders, SoundOrder
    <3>4. Room(s, "limit") \in Nat /\ Room(s, "child") \in Nat /\ Room(s, "market") \in Nat
      BY <3>3 DEF Kinds
    <3>5. WorstCase(s) \in Nat /\ Fills(s) <= WorstCase(s)
      BY <3>2, <3>4 DEF WorstCase
    <3>6. rec[s].applied <= Fills(s)
      BY <3>1, FillsAreChain DEF Agrees, SoundBooking
    <3>7. WorstCase(s) <= rec[s].qty
      BY WithinSize DEF NeverOverfilled
    <3> QED BY <3>1, <3>2, <3>5, <3>6, <3>7 DEF RecordType, Qty
  <2>2. \A s \in Attempts : Booked[s] = rec[s].applied /\ g[s] = WorstCase(s)
    BY DEF Booked
  <2> HIDE DEF g
  <2>3. ASSUME NEW s \in S, rec[s].state # "active"
        PROVE  g[s] <= Booked[s]
    <3>1. s \in Attempts /\ rec[s] \in RecordType /\ rec[s].state = "closed"
      BY <2>3 DEF SalesOf, IInv, TypeOK, RecordType
    <3>2. Agrees(rec[s], ord[s])
      BY <3>1 DEF IInv
    <3>3. rec[s].applied = Fills(s) /\ Room(s, "limit") = 0 /\ Room(s, "child") = 0
          /\ Room(s, "market") = 0
      BY <3>1, <3>2, FillsAreChain DEF Agrees, SoundBooking, Room, Live, Kinds
    <3> QED BY <2>1, <2>2, <3>1, <3>3 DEF WorstCase
  <2>4. /\ row[t].contracts \in Nat /\ row[t].sold \in Nat
        /\ row[t].contracts + row[t].sold <= Fills(t)
    BY <2>1 DEF IInv, TypeOK, RowType, Qty, JournalMatchesEntry
  <2>5. IsFiniteSet(Units(S, Booked)) /\ Cardinality(Units(S, Booked)) = row[t].sold
    BY DEF SalesInv
  <2>6. \A s \in S : s \in Attempts /\ rec[s].side = "sell" /\ rec[s].trade = t
    BY DEF SalesOf
  <2>7. \A s \in S : Booked[s] \in Nat /\ g[s] \in Nat
    BY <2>1, <2>2, <2>6
  <2>8. CASE \E s \in S : rec[s].state = "active"
    <3> PICK s \in S : rec[s].state = "active"
      BY <2>8
    <3> DEFINE m == rec[s].qty
    <3>1. \A q \in S : q # s => rec[q].state # "active"
      BY <2>6 DEF IInv, Owned, Pending
    <3>2. \A q \in S : q # s => g[q] <= Booked[q]
      BY <2>3, <3>1
    <3>3. m \in Nat /\ Booked[s] <= m /\ g[s] <= m /\ Booked[s] = rec[s].applied
      BY <2>1, <2>2, <2>6
    <3>4. m - rec[s].applied <= row[t].contracts
      BY <2>6 DEF SalesInv
    <3> HIDE DEF m, S
    <3>5. Cardinality(Units(S, g)) <= Cardinality(Units(S, Booked)) + (m - Booked[s])
      BY <2>5, <2>7, <3>2, <3>3, SumBound
    <3>6. Cardinality(Units(S, g)) <= row[t].sold + (m - rec[s].applied)
      BY <2>5, <3>3, <3>5
    <3>7. rec[s].applied \in Nat
      BY <2>7, <3>3
    <3>8. Fills(t) \in Nat
      BY <2>1
    <3>9. row[t].sold + (m - rec[s].applied) <= Fills(t)
      BY <2>4, <3>3, <3>4, <3>7, <3>8
    <3>10. Cardinality(Units(S, g)) \in Nat
      BY <2>5, <2>7, <3>2, <3>3, SumBound
    <3>11. Cardinality(Units(S, g)) <= Fills(t)
      BY <2>4, <3>3, <3>6, <3>7, <3>8, <3>9, <3>10
    <3> QED BY <3>11 DEF g, S
  <2>9. CASE \A s \in S : rec[s].state # "active"
    <3>1. \A s \in S : g[s] <= Booked[s]
      BY <2>3, <2>9
    <3> HIDE DEF S
    <3>2. /\ Cardinality(Units(S, g)) \in Nat
          /\ Cardinality(Units(S, g)) <= Cardinality(Units(S, Booked))
      BY <2>5, <2>7, <3>1, NoneCountsMore
    <3>3. Fills(t) \in Nat
      BY <2>1
    <3>4. Cardinality(Units(S, g)) <= Fills(t)
      BY <2>4, <2>5, <3>2, <3>3
    <3> QED BY <3>4 DEF g, S
  <2> QED BY <2>8, <2>9
<1> QED BY Inductive, SalesInductive, <1>1, PTL
=============================================================================
