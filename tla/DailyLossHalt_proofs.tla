------------------------ MODULE DailyLossHalt_proofs ------------------------
(***************************************************************************)
(* Proofs about DailyLossHalt: the invariant is inductive, a confirmed     *)
(* halt keeps the account flat, a resume lifts only a confirmed halt of a  *)
(* flat account. Control lemmas tell what a step does to the threads and   *)
(* the review lock; the lemmas per action tell what it does to the account.*)
(***************************************************************************)
EXTENDS DailyLossHaltInvariant, TLAPS

USE ThreadAssumption, LimitAssumption, ClockAssumption, BrokerAssumption,
    HeldAssumption DEF Threads

----------------------------------------------------------------------------
(* Threads and the review lock.                                            *)

\* A thread returns from check_daily_loss to its caller.
LEMMA Answered ==
  ASSUME TypeOK, Roles, NEW t \in Threads, pc[t] \in CheckPlaces,
         NEW table \in {Fine, Found, Raised}, Return(t, table)
  PROVE  /\ pc' \in [Threads -> Places]
         /\ next' \in {"fetch", "gate", "top"}
         /\ back' \in [Threads -> Callers]
         /\ verdict' \in [Threads -> VerdictType]
         /\ review' = Nobody
         /\ \A u \in Threads : u # t => /\ pc'[u] = pc[u] /\ back'[u] = back[u]
                                        /\ verdict'[u] = verdict[u]
         /\ t # Loop => pc'[t] = "idle" /\ back'[t] = "request"
         /\ t = Loop => pc'[t] \in {"service", "place", "execute", "flatten"}
         /\ t = Loop /\ pc'[t] = "place" => table = Fine /\ back[t] = "entry"
         /\ t = Loop /\ pc'[t] = "flatten" => back[t] = "flatten"
<1> USE DEF Return, Answer, Goto, TypeOK
<1>1. back[t] \in Callers OBVIOUS
<1>2. NoVerdict \in VerdictType BY DEF NoVerdict, VerdictType, Reasons, Latest
<1>3. verdict' \in [Threads -> VerdictType] BY <1>2
<1>4. back' \in [Threads -> Callers] BY DEF Callers
<1>5. table[back[t]] \in {"gate", "place", "execute", "flatten", "idle", "top"}
  BY <1>1 DEF Callers, Fine, Found, Raised
<1>6. /\ table[back[t]] = "idle" <=> back[t] = "request"
      /\ table[back[t]] = "flatten" <=> back[t] = "flatten"
      /\ table[back[t]] = "place" => table = Fine /\ back[t] = "entry"
  BY <1>1 DEF Callers, Fine, Found, Raised
<1>7. t = Loop <=> back[t] # "request" BY DEF Roles
<1>8. pc' \in [Threads -> Places] BY <1>5 DEF Places, LoopPlaces, RequestPlaces
<1>9. next' \in {"fetch", "gate", "top"} BY <1>5
<1> HIDE DEF TypeOK
<1>10. \A u \in Threads : u # t => /\ pc'[u] = pc[u] /\ back'[u] = back[u]
                                   /\ verdict'[u] = verdict[u]
  BY DEF TypeOK
<1>11. pc'[t] = IF table[back[t]] \in {"gate", "top"} THEN "service" ELSE table[back[t]]
  BY DEF TypeOK
<1>12. back'[t] = "request" BY DEF TypeOK
<1> QED BY <1>3, <1>4, <1>5, <1>6, <1>7, <1>8, <1>9, <1>10, <1>11, <1>12

\* The loop moves from one of its own places to another.
LEMMA LoopControl ==
  ASSUME TypeOK, Control, NEW b \in LoopPlaces \cup {"check"},
         pc[Loop] \notin UnderReview, Goto(Loop, b),
         review' = review, verdict' = verdict,
         back' = back \/ \E c \in Callers \ {"request"} :
                           back' = [back EXCEPT ![Loop] = c],
         b = "check" => back'[Loop] # "request"
  PROVE  pc' \in [Threads -> Places] /\ Control' /\ back' \in [Threads -> Callers]
<1> USE DEF Control, Goto
<1>1. pc' \in [Threads -> Places]
  BY DEF TypeOK, Places, CheckPlaces
<1>2. \A u \in Threads : u # Loop => pc'[u] = pc[u] /\ back'[u] = back[u]
  BY DEF TypeOK
<1>3. pc'[Loop] = b
  BY DEF TypeOK
<1>4. b \notin UnderReview
  BY DEF UnderReview, LoopPlaces
<1>5. Serialized'
  BY <1>2, <1>3, <1>4 DEF Serialized
<1>6. Roles'
  BY <1>2, <1>3 DEF Roles, CheckPlaces, LoopPlaces
<1>7. Verdicts'
  BY <1>2, <1>3, <1>4 DEF Verdicts, At, UnderReview
<1>8. back' \in [Threads -> Callers]
  BY DEF TypeOK
<1> QED BY <1>1, <1>5, <1>6, <1>7, <1>8

\* A return to the caller.
LEMMA ReturnControl ==
  ASSUME TypeOK, Control, NEW t \in Threads, pc[t] \in CheckPlaces,
         review \in {Nobody, t},
         NEW table \in {Fine, Found, Raised}, Return(t, table)
  PROVE  Control'
<1> USE DEF Control
<1>1. /\ review' = Nobody
      /\ \A u \in Threads : u # t => /\ pc'[u] = pc[u]
                                     /\ back'[u] = back[u]
                                     /\ verdict'[u] = verdict[u]
      /\ t # Loop => pc'[t] = "idle" /\ back'[t] = "request"
      /\ t = Loop => pc'[t] \in {"service", "place", "execute", "flatten"}
  BY Answered
<1>2. pc'[t] \notin UnderReview
  BY <1>1 DEF UnderReview
<1>3. Serialized'
  BY <1>1, <1>2 DEF Serialized
<1>4. Roles'
  BY <1>1 DEF Roles, CheckPlaces, LoopPlaces, RequestPlaces
<1>5. Verdicts'
  BY <1>1, <1>2 DEF Verdicts, At, UnderReview
<1> QED BY <1>3, <1>4, <1>5

\* A check goes on, under the review lock.
LEMMA ReviewControl ==
  ASSUME TypeOK, Control, NEW t \in Threads,
         \/ At(t, "check") /\ review = Nobody
         \/ At(t, "reread"),
         NEW b \in {"reread", "persist"}, Goto(t, b), review' = t, back' = back,
         NEW v \in VerdictType, b = "persist" => v.reason # "none",
         verdict' = IF b = "persist" THEN [verdict EXCEPT ![t] = v] ELSE verdict
  PROVE  Control' /\ pc' \in [Threads -> Places]
         /\ verdict' \in [Threads -> VerdictType]
<1> USE DEF Control, Goto, At
<1>1. /\ pc' \in [Threads -> Places]
      /\ verdict' \in [Threads -> VerdictType]
  BY DEF TypeOK, Places, CheckPlaces
<1>2. /\ pc'[t] = b
      /\ \A u \in Threads : u # t => pc'[u] = pc[u] /\ verdict'[u] = verdict[u]
  BY DEF TypeOK
<1>3. b = "persist" => verdict'[t].reason # "none"
  BY DEF TypeOK
<1>4. Serialized'
  BY <1>2 DEF Serialized, UnderReview
<1>5. Roles'
  BY <1>2 DEF Roles, CheckPlaces
<1>6. Verdicts'
  BY <1>2, <1>3 DEF Verdicts
<1> QED BY <1>1, <1>4, <1>5, <1>6

\* An API thread moves, takes the review lock or releases it.
LEMMA RequestControl ==
  ASSUME TypeOK, Control, NEW t \in Requests, pc[t] \in RequestPlaces,
         NEW b \in RequestPlaces \cup {"check"}, Goto(t, b),
         back' = back \/ back' = [back EXCEPT ![t] = "request"],
         verdict' = verdict,
         \/ review' = review /\ review # t /\ b # "positions"
         \/ review \in {Nobody, t} /\ review' = IF b = "positions" THEN t ELSE Nobody
  PROVE  Control' /\ pc' \in [Threads -> Places] /\ back' \in [Threads -> Callers]
<1> USE DEF Control, Goto
<1>1. pc' \in [Threads -> Places] /\ back' \in [Threads -> Callers]
  BY DEF TypeOK, Places, CheckPlaces, Callers
<1>2. /\ pc'[t] = b
      /\ \A u \in Threads : u # t => pc'[u] = pc[u] /\ back'[u] = back[u]
      /\ back'[t] = "request"
  BY DEF TypeOK, Roles
<1>3. Serialized'
  BY <1>2 DEF Serialized, UnderReview, RequestPlaces
<1>4. Roles'
  BY <1>2 DEF Roles, CheckPlaces
<1>5. Verdicts'
  BY <1>2 DEF Verdicts, At, RequestPlaces
<1> QED BY <1>1, <1>3, <1>4, <1>5

\* Nobody moves.
LEMMA SameControl ==
  ASSUME Control, UNCHANGED <<pc, review, back, verdict>>
  PROVE  Control'
BY DEF Control, Serialized, Roles, Verdicts, At


----------------------------------------------------------------------------
(* The steps of the loop outside check_daily_loss.                         *)

LEMMA NothingSeen == Nothing \in SeenType
<1>1. NoHalt \in HaltType
  BY DEF NoHalt, HaltType, Reasons, Latest
<1>2. NoLimit \in LimitType
  BY DEF NoLimit, LimitType, Levels
<1> QED BY <1>1, <1>2 DEF Nothing, SeenType, Levels

LEMMA LoopMoves ==
  ASSUME IInv, NEW b \in LoopPlaces, pc[Loop] \notin UnderReview,
         Goto(Loop, b), UNCHANGED <<review, back, verdict>>
  PROVE  /\ Control' /\ pc' \in [Threads -> Places]
         /\ pc'[Loop] = b /\ \A t \in Requests : pc'[t] = pc[t]
<1>1. b # "check"
  BY DEF LoopPlaces
<1>2. Control' /\ pc' \in [Threads -> Places]
  BY <1>1, LoopControl DEF IInv
<1>3. pc'[Loop] = b /\ \A t \in Requests : pc'[t] = pc[t]
  BY DEF IInv, TypeOK, Goto
<1> QED BY <1>2, <1>3

LEMMA LoopChecks ==
  ASSUME IInv, NEW c \in Callers \ {"request"}, pc[Loop] \notin UnderReview,
         Check(Loop, c), UNCHANGED <<review, verdict>>
  PROVE  /\ Control' /\ pc' \in [Threads -> Places]
         /\ back' \in [Threads -> Callers]
         /\ pc'[Loop] = "check" /\ back'[Loop] = c
         /\ \A t \in Requests : pc'[t] = pc[t]
<1>1. back'[Loop] = c
  BY DEF IInv, TypeOK, Check
<1>2. Control' /\ pc' \in [Threads -> Places] /\ back' \in [Threads -> Callers]
  BY <1>1, LoopControl DEF IInv, Check
<1>3. pc'[Loop] = "check" /\ \A t \in Requests : pc'[t] = pc[t]
  BY DEF IInv, TypeOK, Goto, Check
<1> QED BY <1>1, <1>2, <1>3


LEMMA TopOfCycleStep ==
  ASSUME IInv, TopOfCycle
  PROVE  IInv'
<1> USE DEF IInv, TopOfCycle, Reconciled, At, files, losses, account
<1>1. /\ Control' /\ pc' \in [Threads -> Places] /\ pc'[Loop] = "service"
      /\ \A t \in Requests : pc'[t] = pc[t]
  BY LoopMoves DEF UnderReview, LoopPlaces
<1>2. TypeOK'
  BY <1>1 DEF TypeOK
<1>3. Facts'
  BY <1>1 DEF Facts, Books, Flattening, Confirmed, Resuming, Entering, Closing,
         Flat, Locked, CheckPlaces, TypeOK
<1> QED BY <1>1, <1>2, <1>3

LEMMA SkipServiceStep ==
  ASSUME IInv, SkipService
  PROVE  IInv'
<1> USE DEF IInv, SkipService, At, files, losses, account
<1>0. PICK b \in {"fetch", "gate", "top"} : Goto(Loop, b)
  BY DEF Carry, TypeOK
<1>1. /\ Control' /\ pc' \in [Threads -> Places] /\ pc'[Loop] = b
      /\ \A t \in Requests : pc'[t] = pc[t]
  BY <1>0, LoopMoves DEF UnderReview, LoopPlaces
<1>2. TypeOK'
  BY <1>1 DEF Carry, TypeOK
<1>3. Facts'
  BY <1>0, <1>1 DEF Facts, Books, Flattening, Confirmed, Resuming, Entering, Closing,
         Flat, Locked, CheckPlaces, TypeOK
<1> QED BY <1>1, <1>2, <1>3

LEMMA BeginFlattenStep ==
  ASSUME IInv, BeginFlatten
  PROVE  IInv'
<1> USE DEF IInv, BeginFlatten, Reconciled, Unresolved, At, files, losses, account
<1>1. /\ Control' /\ pc' \in [Threads -> Places] /\ pc'[Loop] = "flatten"
      /\ \A t \in Requests : pc'[t] = pc[t]
  BY LoopMoves DEF UnderReview, LoopPlaces
<1>2. seen' \in [Threads -> SeenType]
  BY DEF TypeOK, SeenType
<1>3. TypeOK'
  BY <1>1, <1>2 DEF TypeOK
<1>4. Facts'
  BY <1>1, <1>2 DEF Facts, Books, Flattening, Confirmed, Resuming, Entering, Closing,
         Flat, Locked, CheckPlaces, TypeOK
<1> QED BY <1>1, <1>3, <1>4

LEMMA FlattenFailsStep ==
  ASSUME IInv, FlattenFails
  PROVE  IInv'
<1> USE DEF IInv, FlattenFails, At, files, losses, account
<1>0. PICK b \in {"fetch", "gate", "top"} : Goto(Loop, b)
  BY DEF Carry, TypeOK
<1>1. /\ Control' /\ pc' \in [Threads -> Places] /\ pc'[Loop] = b
      /\ \A t \in Requests : pc'[t] = pc[t]
  BY <1>0, LoopMoves DEF UnderReview, LoopPlaces
<1>2. seen' \in [Threads -> SeenType]
  BY NothingSeen DEF TypeOK
<1>3. TypeOK'
  BY <1>1, <1>2 DEF Carry, TypeOK
<1>4. Facts'
  BY <1>0, <1>1, <1>2 DEF Facts, Books, Flattening, Confirmed, Resuming, Entering, Closing,
         Flat, Locked, CheckPlaces, TypeOK
<1> QED BY <1>1, <1>3, <1>4

LEMMA FlattenPendingStep ==
  ASSUME IInv, FlattenPending
  PROVE  IInv'
<1> USE DEF IInv, FlattenPending, At, files, losses, account
<1>0. PICK b \in {"fetch", "gate", "top"} : Goto(Loop, b)
  BY DEF Carry, TypeOK
<1>1. /\ Control' /\ pc' \in [Threads -> Places] /\ pc'[Loop] = b
      /\ \A t \in Requests : pc'[t] = pc[t]
  BY <1>0, LoopMoves DEF UnderReview, LoopPlaces
<1>2. seen' \in [Threads -> SeenType]
  BY NothingSeen DEF TypeOK
<1>3. TypeOK'
  BY <1>1, <1>2 DEF Carry, TypeOK
<1>4. Facts'
  BY <1>0, <1>1, <1>2 DEF Facts, Books, Flattening, Confirmed, Resuming, Entering, Closing,
         Flat, Locked, CheckPlaces, TypeOK
<1> QED BY <1>1, <1>3, <1>4

LEMMA ReadPositionsStep ==
  ASSUME IInv, ReadPositions
  PROVE  IInv'
<1> USE DEF IInv, ReadPositions, At, files, losses, account
<1>0. PICK b \in {"sweep", "orders"} :
               Goto(Loop, b) /\ (b = "sweep" <=> position > 0)
  BY DEF TypeOK
<1>1. /\ Control' /\ pc' \in [Threads -> Places] /\ pc'[Loop] = b
      /\ \A t \in Requests : pc'[t] = pc[t]
  BY <1>0, LoopMoves DEF UnderReview, LoopPlaces
<1>2. TypeOK'
  BY <1>1 DEF TypeOK
<1>3. Facts'
  BY <1>0, <1>1 DEF Facts, Books, Flattening, Confirmed, Resuming, Entering, Closing,
         Flat, Locked, CheckPlaces, TypeOK
<1> QED BY <1>1, <1>2, <1>3

LEMMA ReadOrdersStep ==
  ASSUME IInv, ReadOrders
  PROVE  IInv'
<1> USE DEF IInv, ReadOrders, At, files, losses, account
<1>0. PICK b \in {"fetch", "gate", "top", "confirm"} : Goto(Loop, b)
  BY DEF Carry, TypeOK
<1>1. /\ Control' /\ pc' \in [Threads -> Places] /\ pc'[Loop] = b
      /\ \A t \in Requests : pc'[t] = pc[t]
  BY <1>0, LoopMoves DEF UnderReview, LoopPlaces
<1>2. TypeOK'
  BY <1>1 DEF Carry, TypeOK
<1>3. Facts'
  BY <1>0, <1>1 DEF Facts, Books, Flattening, Confirmed, Resuming, Entering, Closing,
         Flat, Locked, CheckPlaces, TypeOK
<1> QED BY <1>1, <1>2, <1>3

LEMMA SweepStep ==
  ASSUME IInv, Sweep
  PROVE  IInv'
<1> USE DEF IInv, Sweep, At, files, losses, account
<1>0. PICK b \in {"fetch", "gate", "top", "confirm"} : Goto(Loop, b)
  BY DEF Carry, TypeOK
<1>1. /\ Control' /\ pc' \in [Threads -> Places] /\ pc'[Loop] = b
      /\ \A t \in Requests : pc'[t] = pc[t]
  BY <1>0, LoopMoves DEF UnderReview, LoopPlaces
<1>2. TypeOK'
  BY <1>1 DEF Carry, TypeOK
<1>3. Facts'
  BY <1>0, <1>1 DEF Facts, Books, Flattening, Confirmed, Resuming, Entering, Closing,
         Flat, Locked, CheckPlaces, TypeOK
<1> QED BY <1>1, <1>2, <1>3

LEMMA ConfirmReadStep ==
  ASSUME IInv, ConfirmRead
  PROVE  IInv'
<1> USE DEF IInv, ConfirmRead, At, files, losses, account
<1>1. /\ Control' /\ pc' \in [Threads -> Places] /\ pc'[Loop] = "confirmed"
      /\ \A t \in Requests : pc'[t] = pc[t]
  BY LoopMoves DEF UnderReview, LoopPlaces
<1>2. seen' \in [Threads -> SeenType]
  BY DEF TypeOK, SeenType
<1>3. TypeOK'
  BY <1>1, <1>2 DEF TypeOK
<1>4. Facts'
  BY <1>1, <1>2 DEF Facts, Books, Flattening, Confirmed, Resuming, Entering, Closing,
         Flat, Locked, CheckPlaces, TypeOK
<1> QED BY <1>1, <1>3, <1>4

LEMMA ConfirmWriteStep ==
  ASSUME IInv, ConfirmWrite
  PROVE  IInv'
<1> USE DEF IInv, ConfirmWrite, At, files, losses, account
<1>0. PICK b \in {"fetch", "gate", "top"} : Goto(Loop, b)
  BY DEF Carry, TypeOK
<1>1. /\ Control' /\ pc' \in [Threads -> Places] /\ pc'[Loop] = b
      /\ \A t \in Requests : pc'[t] = pc[t]
  BY <1>0, LoopMoves DEF UnderReview, LoopPlaces
<1>2. seen' \in [Threads -> SeenType] /\ halt' \in HaltType
  BY NothingSeen DEF TypeOK, SeenType, HaltType
<1>3. TypeOK'
  BY <1>1, <1>2 DEF Carry, TypeOK
<1>4. Facts'
  BY <1>0, <1>1, <1>2 DEF Facts, Books, Flattening, Confirmed, Resuming, Entering, Closing,
         Flat, Locked, CheckPlaces, TypeOK
<1> QED BY <1>1, <1>3, <1>4

LEMMA ConfirmFailsStep ==
  ASSUME IInv, ConfirmFails
  PROVE  IInv'
<1> USE DEF IInv, ConfirmFails, At, files, losses, account
<1>1. /\ Control' /\ pc' \in [Threads -> Places] /\ pc'[Loop] = "top"
      /\ \A t \in Requests : pc'[t] = pc[t]
  BY LoopMoves DEF UnderReview, LoopPlaces
<1>2. seen' \in [Threads -> SeenType]
  BY NothingSeen DEF TypeOK
<1>3. TypeOK'
  BY <1>1, <1>2 DEF TypeOK
<1>4. Facts'
  BY <1>1, <1>2 DEF Facts, Books, Flattening, Confirmed, Resuming, Entering, Closing,
         Flat, Locked, CheckPlaces, TypeOK
<1> QED BY <1>1, <1>3, <1>4

LEMMA FetchFailsStep ==
  ASSUME IInv, FetchFails
  PROVE  IInv'
<1> USE DEF IInv, FetchFails, At, files, losses, account
<1>1. /\ Control' /\ pc' \in [Threads -> Places] /\ pc'[Loop] = "service"
      /\ \A t \in Requests : pc'[t] = pc[t]
  BY LoopMoves DEF UnderReview, LoopPlaces
<1>2. TypeOK'
  BY <1>1 DEF TypeOK
<1>3. Facts'
  BY <1>1 DEF Facts, Books, Flattening, Confirmed, Resuming, Entering, Closing,
         Flat, Locked, CheckPlaces, TypeOK
<1> QED BY <1>1, <1>2, <1>3

LEMMA GateStep ==
  ASSUME IInv, Gate
  PROVE  IInv'
<1> USE DEF IInv, Gate, At, files, losses, account
<1>0. PICK b \in {"service", "execute"} : Goto(Loop, b)
  BY DEF TypeOK
<1>1. /\ Control' /\ pc' \in [Threads -> Places] /\ pc'[Loop] = b
      /\ \A t \in Requests : pc'[t] = pc[t]
  BY <1>0, LoopMoves DEF UnderReview, LoopPlaces
<1>2. TypeOK'
  BY <1>1 DEF TypeOK
<1>3. Facts'
  BY <1>0, <1>1 DEF Facts, Books, Flattening, Confirmed, Resuming, Entering, Closing,
         Flat, Locked, CheckPlaces, TypeOK
<1> QED BY <1>1, <1>2, <1>3

LEMMA PlaceStep ==
  ASSUME IInv, Place
  PROVE  IInv'
<1> USE DEF IInv, Place, At, files, losses, account
<1>1. /\ Control' /\ pc' \in [Threads -> Places] /\ pc'[Loop] = "wait"
      /\ \A t \in Requests : pc'[t] = pc[t]
  BY LoopMoves DEF UnderReview, LoopPlaces
<1>2. TypeOK'
  BY <1>1 DEF TypeOK
<1>3. Facts'
  BY <1>1 DEF Facts, Books, Flattening, Confirmed, Resuming, Entering, Closing,
         Flat, Locked, CheckPlaces, TypeOK
<1> QED BY <1>1, <1>2, <1>3

LEMMA WaitOverStep ==
  ASSUME IInv, WaitOver
  PROVE  IInv'
<1> USE DEF IInv, WaitOver, At, files, losses, account
<1>1. /\ Control' /\ pc' \in [Threads -> Places] /\ pc'[Loop] = "execute"
      /\ \A t \in Requests : pc'[t] = pc[t]
  BY LoopMoves DEF UnderReview, LoopPlaces
<1>2. TypeOK'
  BY <1>1 DEF TypeOK
<1>3. Facts'
  BY <1>1 DEF Facts, Books, Flattening, Confirmed, Resuming, Entering, Closing,
         Flat, Locked, CheckPlaces, TypeOK
<1> QED BY <1>1, <1>2, <1>3

LEMMA EndBatchStep ==
  ASSUME IInv, EndBatch
  PROVE  IInv'
<1> USE DEF IInv, EndBatch, At, files, losses, account
<1>1. /\ Control' /\ pc' \in [Threads -> Places] /\ pc'[Loop] = "service"
      /\ \A t \in Requests : pc'[t] = pc[t]
  BY LoopMoves DEF UnderReview, LoopPlaces
<1>2. TypeOK'
  BY <1>1 DEF TypeOK
<1>3. Facts'
  BY <1>1 DEF Facts, Books, Flattening, Confirmed, Resuming, Entering, Closing,
         Flat, Locked, CheckPlaces, TypeOK
<1> QED BY <1>1, <1>2, <1>3

LEMMA BootStep ==
  ASSUME IInv, Boot
  PROVE  IInv'
<1> USE DEF IInv, Boot, At, files, losses, account
<1>1. /\ Control' /\ pc' \in [Threads -> Places] /\ pc'[Loop] = "top"
      /\ \A t \in Requests : pc'[t] = pc[t]
  BY LoopMoves DEF UnderReview, LoopPlaces
<1>2. TypeOK'
  BY <1>1 DEF TypeOK
<1>3. Facts'
  BY <1>1 DEF Facts, Books, Flattening, Confirmed, Resuming, Entering, Closing,
         Flat, Locked, CheckPlaces, TypeOK
<1> QED BY <1>1, <1>2, <1>3

LEMMA CloseBooks ==
  ASSUME IInv, NEW trades \in {trade, Reconciled}, Close(trades)
  PROVE  /\ trade' \in 0 .. MaxHeld /\ position' \in 0 .. MaxHeld
         /\ realized' \in Levels
         /\ trade' <= position' /\ position' < position
         /\ trade' = trades - 1 /\ position' = position - 1
BY DEF IInv, Close, Reconciled, TypeOK, Facts, Books

LEMMA FlattenTradeStep ==
  ASSUME IInv, FlattenTrade
  PROVE  IInv'
<1> USE DEF IInv, FlattenTrade, CloseTrade, At, files
<1>1. /\ trade' \in 0 .. MaxHeld /\ position' \in 0 .. MaxHeld
      /\ realized' \in Levels
      /\ trade > 0 /\ trade' = trade - 1 /\ position' = position - 1
  BY CloseBooks DEF Close
<1>2. /\ Control' /\ pc' \in [Threads -> Places]
      /\ back' \in [Threads -> Callers]
      /\ pc'[Loop] = "check" /\ back'[Loop] = "flatten"
      /\ \A t \in Requests : pc'[t] = pc[t]
  BY LoopChecks DEF UnderReview, Callers
<1>3. TypeOK'
  BY <1>1, <1>2 DEF TypeOK
<1>4. Facts'
  BY <1>1, <1>2 DEF Facts, Books, Flattening, Confirmed, Resuming, Entering, Closing,
         Flat, Locked, CheckPlaces, TypeOK
<1> QED BY <1>2, <1>3, <1>4

LEMMA ManageTradeStep ==
  ASSUME IInv, ManageTrade
  PROVE  IInv'
<1> USE DEF IInv, ManageTrade, CloseTrade, At, files
<1>1. /\ trade' \in 0 .. MaxHeld /\ position' \in 0 .. MaxHeld
      /\ realized' \in Levels
      /\ trade > 0 /\ trade' = trade - 1 /\ position' = position - 1
  BY CloseBooks DEF Close
<1>2. /\ Control' /\ pc' \in [Threads -> Places]
      /\ back' \in [Threads -> Callers]
      /\ pc'[Loop] = "check" /\ back'[Loop] = "manage"
      /\ \A t \in Requests : pc'[t] = pc[t]
  BY LoopChecks DEF UnderReview, Callers
<1>3. TypeOK'
  BY <1>1, <1>2 DEF TypeOK
<1>4. Facts'
  BY <1>1, <1>2 DEF Facts, Books, Flattening, Confirmed, Resuming, Entering, Closing,
         Flat, Locked, CheckPlaces, TypeOK
<1> QED BY <1>2, <1>3, <1>4

LEMMA FetchStep ==
  ASSUME IInv, Fetch
  PROVE  IInv'
<1> USE DEF IInv, Fetch, At, files, losses, account
<1>1. /\ Control' /\ pc' \in [Threads -> Places]
      /\ back' \in [Threads -> Callers]
      /\ pc'[Loop] = "check" /\ back'[Loop] = "guard"
      /\ \A t \in Requests : pc'[t] = pc[t]
  BY LoopChecks DEF UnderReview, Callers
<1>2. TypeOK'
  BY <1>1 DEF TypeOK
<1>3. Facts'
  BY <1>1 DEF Facts, Books, Flattening, Confirmed, Resuming, Entering, Closing,
         Flat, Locked, CheckPlaces, TypeOK
<1> QED BY <1>1, <1>2, <1>3

LEMMA CanTradeStep ==
  ASSUME IInv, CanTrade
  PROVE  IInv'
<1> USE DEF IInv, CanTrade, At, files, losses, account
<1>1. /\ Control' /\ pc' \in [Threads -> Places]
      /\ back' \in [Threads -> Callers]
      /\ pc'[Loop] = "check" /\ back'[Loop] = "entry"
      /\ \A t \in Requests : pc'[t] = pc[t]
  BY LoopChecks DEF UnderReview, Callers
<1>2. TypeOK'
  BY <1>1 DEF TypeOK
<1>3. Facts'
  BY <1>1 DEF Facts, Books, Flattening, Confirmed, Resuming, Entering, Closing,
         Flat, Locked, CheckPlaces, TypeOK
<1> QED BY <1>1, <1>2, <1>3

----------------------------------------------------------------------------
(* The steps of the API threads and of the world.                          *)

LEMMA ManualCloseStep ==
  ASSUME IInv, NEW t \in Requests, ManualClose(t)
  PROVE  IInv'
<1> USE DEF IInv, ManualClose, At, files
<1>1. /\ trade' \in 0 .. MaxHeld /\ position' \in 0 .. MaxHeld
      /\ realized' \in Levels
      /\ trade > 0 /\ trade' = trade - 1 /\ position' = position - 1
  BY CloseBooks DEF Close
<1>2. Control'
  BY SameControl
<1>3. TypeOK'
  BY <1>1 DEF TypeOK
<1>4. Facts'
  BY <1>1 DEF Facts, Books, Flattening, Confirmed, Resuming, Entering, Closing,
         Flat, Locked, CheckPlaces, TypeOK
<1> QED BY <1>2, <1>3, <1>4

LEMMA PanicSweepStep ==
  ASSUME IInv, NEW t \in Requests, PanicSweep(t)
  PROVE  IInv'
<1> USE DEF IInv, PanicSweep, At, Reconciled, files, losses
<1>1. Control'
  BY SameControl
<1>2. TypeOK'
  BY DEF TypeOK
<1>3. Facts'
  BY DEF Facts, Books, Flattening, Confirmed, Resuming, Entering, Closing,
         Flat, Locked, CheckPlaces, TypeOK
<1> QED BY <1>1, <1>2, <1>3

LEMMA EquityMovesStep ==
  ASSUME IInv, EquityMoves
  PROVE  IInv'
<1> USE DEF IInv, EquityMoves, At, account, files
<1>1. Control'
  BY SameControl
<1>2. TypeOK'
  BY DEF TypeOK
<1>3. Facts'
  BY DEF Facts, Books, Flattening, Confirmed, Resuming, Entering, Closing,
         Flat, Locked, CheckPlaces, TypeOK
<1> QED BY <1>1, <1>2, <1>3

LEMMA OrderFillsStep ==
  ASSUME IInv, OrderFills
  PROVE  IInv'
<1> USE DEF IInv, OrderFills, At, files, losses
<1>1. Control'
  BY SameControl
<1>2. TypeOK'
  BY DEF TypeOK, Facts, Books
<1>3. Facts'
  BY DEF Facts, Books, Flattening, Confirmed, Resuming, Entering, Closing,
         Flat, Locked, CheckPlaces, TypeOK
<1> QED BY <1>1, <1>2, <1>3

LEMMA OrderEndsStep ==
  ASSUME IInv, OrderEnds
  PROVE  IInv'
<1> USE DEF IInv, OrderEnds, At, files, losses
<1>1. Control'
  BY SameControl
<1>2. TypeOK'
  BY DEF TypeOK
<1>3. Facts'
  BY DEF Facts, Books, Flattening, Confirmed, Resuming, Entering, Closing,
         Flat, Locked, CheckPlaces, TypeOK
<1> QED BY <1>1, <1>2, <1>3

LEMMA TickStep ==
  ASSUME IInv, Tick
  PROVE  IInv'
<1> USE DEF IInv
<1>1. /\ realized' \in {realized, 0} /\ equity' \in {equity, 0}
      /\ balance' \in {balance, 0}
  BY DEF Tick, losses
<1>2. /\ now < MaxTime /\ now' = now + 1
      /\ UNCHANGED <<halt, override, unpersisted, review, order, position, trade,
                     pc, back, verdict, seen, next>>
  BY Zenon DEF Tick, files, account
<1>3. Control'
  BY <1>2, SameControl
<1>4. TypeOK'
  BY <1>1, <1>2 DEF TypeOK, Levels
<1>5. Facts'
  BY <1>2 DEF Facts, Books, Flattening, Confirmed, Resuming, Entering, Closing,
         Flat, Locked, At, CheckPlaces, TypeOK, HaltType, Latest
<1> QED BY <1>3, <1>4, <1>5

LEMMA PanicCloseStep ==
  ASSUME IInv, NEW t \in Requests, PanicClose(t)
  PROVE  IInv'
<1> USE DEF IInv, PanicClose, At, CloseTrade, files
<1>1. /\ trade' \in 0 .. MaxHeld /\ position' \in 0 .. MaxHeld
      /\ realized' \in Levels
      /\ trade' <= position' /\ position' < position
      /\ trade' = trade - 1 \/ (Durable /\ order = "none" /\ trade' = position')
      /\ position' = position - 1
  BY CloseBooks DEF Close, CloseTrade, Reconciled
<1>2. /\ Control' /\ pc' \in [Threads -> Places]
      /\ back' \in [Threads -> Callers]
  BY RequestControl DEF RequestPlaces, Control, Serialized, UnderReview, Check
<1>3. /\ pc'[t] = "check" /\ pc'[Loop] = pc[Loop] /\ back'[Loop] = back[Loop]
      /\ \A u \in Requests : u # t => pc'[u] = pc[u]
  BY DEF TypeOK, Goto, Check
<1>4. TypeOK'
  BY <1>1, <1>2, <1>3 DEF TypeOK
<1>5. Facts'
  BY <1>1, <1>2, <1>3 DEF Facts, Books, Flattening, Confirmed, Resuming, Entering, Closing,
         Flat, Locked, CheckPlaces, TypeOK
<1> QED BY <1>2, <1>4, <1>5

LEMMA AskResumeStep ==
  ASSUME IInv, NEW t \in Requests, AskResume(t)
  PROVE  IInv'
<1> USE DEF IInv, AskResume, At, files, losses, account
<1>1. /\ seen' \in [Threads -> SeenType] /\ review' = review
      /\ seen'[Loop] = seen[Loop]
  <2>1. Today \in 0 .. MaxTime
    BY DEF Today, TypeOK
  <2>2. \A l \in Levels :
          [Nothing EXCEPT !.realized = realized,
                          !.limit = [day |-> Today, limit |-> l]] \in SeenType
    BY <2>1, NothingSeen DEF SeenType, LimitType, TypeOK
  <2> QED BY <2>2 DEF TypeOK
<1>2. /\ Control' /\ pc' \in [Threads -> Places]
      /\ back' \in [Threads -> Callers]
  BY RequestControl DEF RequestPlaces, Control, Serialized, UnderReview, Check
<1>3. /\ pc'[t] = "resume" /\ pc'[Loop] = pc[Loop] /\ back'[Loop] = back[Loop]
      /\ \A u \in Requests : u # t => pc'[u] = pc[u]
  BY DEF TypeOK, Goto, Check
<1>4. TypeOK'
  BY <1>1, <1>2, <1>3 DEF TypeOK
<1>5. Facts'
  BY <1>1, <1>2, <1>3 DEF Facts, Books, Flattening, Confirmed, Resuming, Entering, Closing,
         Flat, Locked, CheckPlaces, TypeOK
<1> QED BY <1>2, <1>4, <1>5

LEMMA ResumeReviewStep ==
  ASSUME IInv, NEW t \in Requests, ResumeReview(t)
  PROVE  IInv'
<1> USE DEF IInv, ResumeReview, At, files, losses, account
<1>1. review' \in Threads
  OBVIOUS
<1>2. /\ Control' /\ pc' \in [Threads -> Places]
      /\ back' \in [Threads -> Callers]
  BY RequestControl DEF RequestPlaces, Control, Serialized, UnderReview, Check
<1>3. /\ pc'[t] = "positions" /\ pc'[Loop] = pc[Loop] /\ back'[Loop] = back[Loop]
      /\ \A u \in Requests : u # t => pc'[u] = pc[u]
  BY DEF TypeOK, Goto, Check
<1>4. TypeOK'
  BY <1>1, <1>2, <1>3 DEF TypeOK
<1>5. Facts'
  BY <1>1, <1>2, <1>3 DEF Facts, Books, Flattening, Confirmed, Resuming, Entering, Closing,
         Flat, Locked, CheckPlaces, TypeOK
<1> QED BY <1>2, <1>4, <1>5

LEMMA ResumeStep ==
  ASSUME IInv, NEW t \in Requests, Resume(t)
  PROVE  IInv'
<1> USE DEF IInv, Resume, At, EndResume, losses, account
<1>1. /\ seen' \in [Threads -> SeenType] /\ seen'[Loop] = seen[Loop]
      /\ review' \in Threads \cup {Nobody}
      /\ halt' \in HaltType /\ override' \in LimitType
  BY NothingSeen DEF TypeOK, HaltType, NoHalt, SeenType, Reasons, Latest
<1>2. /\ Control' /\ pc' \in [Threads -> Places]
      /\ back' \in [Threads -> Callers]
  BY RequestControl DEF RequestPlaces, Control, Serialized, UnderReview, Check
<1>3. /\ pc'[t] = "idle" /\ pc'[Loop] = pc[Loop] /\ back'[Loop] = back[Loop]
      /\ \A u \in Requests : u # t => pc'[u] = pc[u]
  BY DEF TypeOK, Goto, Check
<1>4. TypeOK'
  BY <1>1, <1>2, <1>3 DEF TypeOK
<1>5. Facts'
  BY <1>1, <1>2, <1>3 DEF Facts, Books, Flattening, Confirmed, Resuming, Entering, Closing,
         Flat, Locked, CheckPlaces, TypeOK, NoHalt
<1> QED BY <1>2, <1>4, <1>5

LEMMA ResumeRefusedStep ==
  ASSUME IInv, NEW t \in Requests, ResumeRefused(t)
  PROVE  IInv'
<1> USE DEF IInv, ResumeRefused, At, EndResume, files, losses, account
<1>1. /\ seen' \in [Threads -> SeenType] /\ seen'[Loop] = seen[Loop]
      /\ review' \in Threads \cup {Nobody}
      /\ halt' \in HaltType /\ override' \in LimitType
  BY NothingSeen DEF TypeOK, HaltType, NoHalt, SeenType, Reasons, Latest
<1>2. /\ Control' /\ pc' \in [Threads -> Places]
      /\ back' \in [Threads -> Callers]
  BY RequestControl DEF RequestPlaces, Control, Serialized, UnderReview, Check
<1>3. /\ pc'[t] = "idle" /\ pc'[Loop] = pc[Loop] /\ back'[Loop] = back[Loop]
      /\ \A u \in Requests : u # t => pc'[u] = pc[u]
  BY DEF TypeOK, Goto, Check
<1>4. TypeOK'
  BY <1>1, <1>2, <1>3 DEF TypeOK
<1>5. Facts'
  BY <1>1, <1>2, <1>3 DEF Facts, Books, Flattening, Confirmed, Resuming, Entering, Closing,
         Flat, Locked, CheckPlaces, TypeOK
<1> QED BY <1>2, <1>4, <1>5

----------------------------------------------------------------------------
(* The steps of check_daily_loss.                                          *)

LEMMA VerdictsOfLosses ==
  ASSUME TypeOK
  PROVE  /\ HardHalt \in VerdictType /\ HardHalt.reason = "hard"
         /\ SoftHalt \in VerdictType /\ SoftHalt.reason = "soft"
         /\ NoVerdict \in VerdictType
<1>1. HardHalt \in VerdictType /\ NoVerdict \in VerdictType
  BY DEF HardHalt, NoVerdict, VerdictType, Reasons, Latest
<1>2. /\ Today \in Nat /\ Today * DayLength <= now
      /\ Midnight = Today * DayLength + DayLength
  <2>1. now \in Nat /\ DayLength \in Nat \ {0}
    BY DEF TypeOK
  <2>2. Today \in Nat /\ Today * DayLength <= now
    BY <2>1 DEF Today
  <2>3. (Today + 1) * DayLength = Today * DayLength + DayLength
    BY <2>1, <2>2
  <2> QED BY <2>2, <2>3 DEF Midnight
<1>3. Midnight \in 0 .. Latest
  <2> HIDE DEF Midnight, Today
  <2>1. now \in 0 .. MaxTime
    BY DEF TypeOK
  <2>2. PICK d \in Int : d = Today * DayLength
    BY <1>2
  <2>3. d >= 0
    BY <1>2, <2>2
  <2> QED BY <1>2, <2>1, <2>2, <2>3 DEF Latest
<1>4. SoftHalt \in VerdictType
  BY <1>3 DEF SoftHalt, VerdictType, Reasons
<1> QED BY <1>1, <1>4 DEF HardHalt, SoftHalt

\* A check ends: what the loop does next fits the books.
LEMMA ReturnBooks ==
  ASSUME IInv, NEW t \in Threads, pc[t] \in CheckPlaces,
         NEW table \in {Fine, Found, Raised}, Return(t, table),
         UNCHANGED <<account, seen>>
  PROVE  /\ Books' /\ (Durable => Flattening')
         /\ pc'[Loop] = "place" => pc[Loop] = "place" \/ (t = Loop /\ table = Fine)
         /\ pc'[Loop] = "reread" => pc[Loop] = "reread" /\ t # Loop
         /\ \A u \in Requests : At(u, "positions")' => At(u, "positions") /\ u # t
<1> USE DEF IInv, account
<1>1. /\ \A u \in Threads : u # t => pc'[u] = pc[u] /\ back'[u] = back[u]
      /\ t # Loop => pc'[t] = "idle" /\ back'[t] = "request"
      /\ t = Loop => pc'[t] \in {"service", "place", "execute", "flatten"}
      /\ t = Loop /\ pc'[t] = "place" => table = Fine /\ back[t] = "entry"
      /\ t = Loop /\ pc'[t] = "flatten" => back[t] = "flatten"
  BY Answered DEF Control
<1>2. Books' /\ (Durable => Flattening')
  BY <1>1 DEF Facts, Books, Flattening, Entering, Closing, Flat, CheckPlaces,
         TypeOK
<1>3. /\ pc'[Loop] = "place" => pc[Loop] = "place" \/ (t = Loop /\ table = Fine)
      /\ pc'[Loop] = "reread" => pc[Loop] = "reread" /\ t # Loop
  BY <1>1
<1>4. \A u \in Requests : At(u, "positions")' => At(u, "positions") /\ u # t
  BY <1>1 DEF At
<1> QED BY <1>2, <1>3, <1>4

\* A check that answers without a new halt.
LEMMA ReturnStep ==
  ASSUME IInv, NEW t \in Threads, pc[t] \in CheckPlaces,
         review \in {Nobody, t},
         NEW table \in {Fine, Found, Raised}, Return(t, table),
         table = Fine => ~Locked \/ pc[t] = "reread",
         unpersisted' \in VerdictType,
         UNCHANGED <<files, now, losses, account, seen>>
  PROVE  IInv'
<1> USE DEF IInv, files
<1>1. Control'
  BY ReturnControl
<1>2. TypeOK'
  <2>1. /\ pc' \in [Threads -> Places]
        /\ next' \in {"fetch", "gate", "top"}
        /\ back' \in [Threads -> Callers]
        /\ verdict' \in [Threads -> VerdictType]
        /\ review' = Nobody
    BY Answered DEF Control
  <2> QED BY <2>1 DEF TypeOK, losses, account
<1>3. /\ Books' /\ (Durable => Flattening')
      /\ pc'[Loop] = "place" => pc[Loop] = "place" \/ (t = Loop /\ table = Fine)
      /\ pc'[Loop] = "reread" => pc[Loop] = "reread" /\ t # Loop
      /\ \A u \in Requests : At(u, "positions")' => At(u, "positions") /\ u # t
  BY ReturnBooks
<1>4. Resuming'
  BY <1>3 DEF Facts, Resuming
<1>5. ASSUME Durable PROVE Confirmed'
  BY <1>3, <1>5 DEF Facts, Confirmed, Locked, Flat, account
<1> QED BY <1>1, <1>2, <1>3, <1>4, <1>5 DEF Facts

\* A check that goes on under the review lock.
LEMMA ReviewStep ==
  ASSUME IInv, NEW t \in Threads,
         \/ At(t, "check") /\ review = Nobody
         \/ At(t, "reread"),
         NEW b \in {"reread", "persist"}, Goto(t, b), review' = t,
         NEW v \in VerdictType, b = "persist" => v.reason # "none",
         verdict' = IF b = "persist" THEN [verdict EXCEPT ![t] = v] ELSE verdict,
         b = "reread" => ~Locked,
         UNCHANGED <<back, next, files, unpersisted, now, losses, account, seen>>
  PROVE  IInv'
<1> USE DEF IInv, files, account
<1>1. /\ Control' /\ pc' \in [Threads -> Places]
      /\ verdict' \in [Threads -> VerdictType]
  BY ReviewControl
<1>2. TypeOK'
  BY <1>1 DEF TypeOK, losses
<1>3. /\ pc'[t] = b /\ \A u \in Threads : u # t => pc'[u] = pc[u]
      /\ pc[t] \in CheckPlaces
  BY DEF TypeOK, Goto, At, CheckPlaces
<1>4. Facts'
  BY <1>3 DEF Facts, Books, Flattening, Confirmed, Resuming, Entering, Closing,
         Flat, Locked, At, CheckPlaces
<1> QED BY <1>1, <1>2, <1>4

LEMMA RetryStep ==
  ASSUME IInv, NEW t \in Threads, Retry(t)
  PROVE  IInv'
BY ReviewStep DEF Retry, ToPersist, IInv, TypeOK

LEMMA ReviewingStep ==
  ASSUME IInv, NEW t \in Threads, Review(t)
  PROVE  IInv'
<1>1. /\ At(t, "check") /\ review = Nobody /\ pc[t] \in CheckPlaces
      /\ UNCHANGED <<files, unpersisted, now, losses, account, seen>>
      /\ unpersisted' \in VerdictType
  BY DEF Review, At, CheckPlaces, IInv, TypeOK
<1>2. CASE CallsForHard /\ ToPersist(t, HardHalt)
  BY <1>1, <1>2, VerdictsOfLosses, ReviewStep DEF ToPersist, IInv
<1>3. CASE Return(t, Found)
  BY <1>1, <1>3, ReturnStep DEF Found, Fine
<1>4. CASE ToPersist(t, SoftHalt)
  BY <1>1, <1>4, VerdictsOfLosses, ReviewStep DEF ToPersist, IInv
<1>5. CASE /\ ~Locked /\ Goto(t, "reread") /\ review' = t
           /\ UNCHANGED <<back, verdict, next>>
  BY <1>1, <1>5, VerdictsOfLosses, ReviewStep DEF IInv
<1>6. CASE ~Locked /\ Return(t, Fine)
  BY <1>1, <1>6, ReturnStep
<1> QED BY <1>2, <1>3, <1>4, <1>5, <1>6 DEF Review

LEMMA ReviewRaisesStep ==
  ASSUME IInv, NEW t \in Threads, ReviewRaises(t)
  PROVE  IInv'
BY ReturnStep DEF ReviewRaises, At, CheckPlaces, IInv, TypeOK, Raised, Fine

LEMMA RereadStep ==
  ASSUME IInv, NEW t \in Threads, Reread(t)
  PROVE  IInv'
<1>1. /\ At(t, "reread") /\ review = t /\ pc[t] \in CheckPlaces
      /\ UNCHANGED <<files, unpersisted, now, losses, account, seen>>
      /\ unpersisted' \in VerdictType
  BY DEF Reread, At, CheckPlaces, IInv, TypeOK, Control, Serialized, UnderReview
<1>2. CASE ToPersist(t, HardHalt)
  BY <1>1, <1>2, VerdictsOfLosses, ReviewStep DEF ToPersist, IInv
<1>3. CASE Return(t, Fine)
  BY <1>1, <1>3, ReturnStep DEF At
<1> QED BY <1>2, <1>3 DEF Reread

LEMMA PersistFailsStep ==
  ASSUME IInv, NEW t \in Threads, PersistFails(t)
  PROVE  IInv'
<1>1. At(t, "persist") /\ review = t /\ pc[t] \in CheckPlaces
  BY DEF PersistFails, At, CheckPlaces, IInv, TypeOK, Control, Serialized, UnderReview
<1>2. unpersisted' \in VerdictType
  BY DEF PersistFails, IInv, TypeOK
<1> QED BY <1>1, <1>2, ReturnStep DEF PersistFails, Raised, Fine

\* What is written is a new halt, which asks for a flatten, or the one in force.
LEMMA PersistStep ==
  ASSUME IInv, NEW t \in Threads, Persist(t)
  PROVE  IInv'
<1> USE DEF IInv
<1>1. /\ At(t, "persist") /\ review = t /\ pc[t] \in CheckPlaces
      /\ halt' = Halted(verdict[t]) /\ unpersisted' = NoVerdict
      /\ Return(t, Found)
      /\ UNCHANGED <<override, now, losses, account, seen>>
  BY DEF Persist, At, CheckPlaces, Control, Serialized, UnderReview
<1>2. /\ Control'
      /\ pc' \in [Threads -> Places]
      /\ next' \in {"fetch", "gate", "top"}
      /\ back' \in [Threads -> Callers]
      /\ verdict' \in [Threads -> VerdictType]
      /\ review' = Nobody
  BY <1>1, ReturnControl, Answered DEF Control
<1>3. halt' = halt \/ halt'.pending
  BY <1>1 DEF Halted
<1>4. halt' \in HaltType
  BY <1>1 DEF Halted, Later, TypeOK, VerdictType, HaltType, Latest, Reasons
<1>5. TypeOK'
  BY <1>1, <1>2, <1>4, VerdictsOfLosses DEF TypeOK, losses, account
<1>6. /\ Books' /\ (Durable => Flattening')
      /\ pc'[Loop] = "place" => pc[Loop] = "place" \/ (t = Loop /\ Found = Fine)
      /\ pc'[Loop] = "reread" => pc[Loop] = "reread" /\ t # Loop
      /\ \A u \in Requests : At(u, "positions")' => At(u, "positions") /\ u # t
  BY <1>1, ReturnBooks
<1>7. Found # Fine
  BY DEF Found, Fine
<1>8. Resuming'
  BY <1>1, <1>6 DEF Resuming, Control, Serialized, UnderReview, At
<1>9. ASSUME Durable PROVE Confirmed'
  BY <1>1, <1>3, <1>6, <1>7, <1>9 DEF Facts, Confirmed, Locked, Flat, account
<1> QED BY <1>2, <1>5, <1>6, <1>8, <1>9 DEF Facts

----------------------------------------------------------------------------
(* The invariant.                                                          *)

LEMMA RestartStep ==
  ASSUME IInv, Restart
  PROVE  IInv'
<1> USE DEF IInv, Restart, files, losses, account
<1>1. Control'
  BY DEF Control, Serialized, Roles, Verdicts, At, UnderReview, RequestPlaces,
         LoopPlaces, CheckPlaces
<1>2. TypeOK'
  BY NothingSeen, VerdictsOfLosses DEF TypeOK, Places, LoopPlaces, RequestPlaces,
         Callers
<1>3. Facts'
  BY DEF Facts, Books, Flattening, Confirmed, Resuming, Entering, Closing, Flat,
         Locked, At, CheckPlaces
<1> QED BY <1>1, <1>2, <1>3

LEMMA InitIInv == Init => IInv
<1> SUFFICES ASSUME Init PROVE IInv
  OBVIOUS
<1> USE DEF Init
<1>1. TypeOK
  <2>1. NoHalt \in HaltType /\ NoLimit \in LimitType /\ NoVerdict \in VerdictType
    BY DEF NoHalt, HaltType, NoLimit, LimitType, NoVerdict, VerdictType, Reasons,
           Latest, Levels
  <2> QED BY <2>1, NothingSeen DEF TypeOK, Levels, Places, LoopPlaces,
         RequestPlaces, Callers
<1>2. Control
  BY DEF Control, Serialized, Roles, Verdicts, At, UnderReview, RequestPlaces,
         LoopPlaces, CheckPlaces
<1>3. Facts
  BY DEF Facts, Books, Flattening, Confirmed, Resuming, Entering, Closing, Flat,
         Locked, At, CheckPlaces, NoHalt
<1> QED BY <1>1, <1>2, <1>3 DEF IInv

LEMMA NextIInv ==
  ASSUME IInv, Next
  PROVE  IInv'
<1>1. CASE Service
  BY <1>1, TopOfCycleStep, SkipServiceStep, BeginFlattenStep, FlattenTradeStep,
     FlattenPendingStep, ReadPositionsStep, ReadOrdersStep, SweepStep,
     ConfirmReadStep, ConfirmWriteStep DEF Service
<1>2. CASE Batch
  BY <1>2, FetchStep, GateStep, ManageTradeStep, CanTradeStep, PlaceStep,
     WaitOverStep, EndBatchStep DEF Batch
<1>3. CASE Boot
  BY <1>3, BootStep
<1>4. ASSUME NEW t \in Threads, Checking(t) PROVE IInv'
  BY <1>4, RetryStep, ReviewingStep, RereadStep, PersistStep DEF Checking
<1>5. ASSUME NEW t \in Requests, Request(t) PROVE IInv'
  BY <1>5, ManualCloseStep, PanicCloseStep, PanicSweepStep, AskResumeStep,
     ResumeReviewStep, ResumeStep, ResumeRefusedStep DEF Request
<1>6. CASE World
  BY <1>6, EquityMovesStep, OrderFillsStep, OrderEndsStep, TickStep DEF World
<1>7. CASE Failure
  BY <1>7, FetchFailsStep, FlattenFailsStep, ConfirmFailsStep, RestartStep,
     ReviewRaisesStep, PersistFailsStep DEF Failure
<1> QED BY <1>1, <1>2, <1>3, <1>4, <1>5, <1>6, <1>7 DEF Next, Work, LoopStep

LEMMA StutterIInv ==
  ASSUME IInv, UNCHANGED vars
  PROVE  IInv'
<1> USE DEF IInv, vars
<1>1. TypeOK'
  BY DEF TypeOK
<1>2. Control'
  BY SameControl
<1>3. Facts'
  BY DEF Facts, Books, Flattening, Confirmed, Resuming, Entering, Closing, Flat,
         Locked, At
<1> QED BY <1>1, <1>2, <1>3

\* The invariant holds in every state of every behaviour of the halt, for any
\* broker, any number of API threads, any limits and any freeze.
THEOREM HaltInductive == Spec => []IInv
<1>1. IInv /\ [Next]_vars => IInv'
  BY NextIInv, StutterIInv
<1> QED BY InitIInv, <1>1, PTL DEF Spec

\* Every variable of the halt keeps its type: in particular the account never
\* holds fewer positions than none, and a freeze never ends later than a day and
\* kill_lock_hours from the clock.
THEOREM TypeCorrect == Spec => []TypeOK
<1>1. IInv => TypeOK
  BY DEF IInv
<1> QED BY HaltInductive, <1>1, PTL

\* With a broker that recovers its orders durably, a halt in force whose flatten
\* is confirmed is the halt of a flat account (service_daily_loss_halt).
THEOREM HaltedIsFlatHolds ==
  ASSUME Durable
  PROVE  Spec => []HaltedIsFlat
<1>1. IInv => HaltedIsFlat
  BY DEF IInv, Facts, Confirmed, HaltedIsFlat
<1> QED BY HaltInductive, <1>1, PTL

\* A halt in force disappears in no other step than a resume.
LEMMA OnlyResumeLifts ==
  ASSUME IInv, Next, Locked, halt' = NoHalt
  PROVE  \E t \in Requests : Resume(t)
<1> USE DEF IInv, TypeOK
<1>1. halt # NoHalt
  BY DEF Locked, NoHalt
<1>2. CASE Service
  <2>1. CASE ConfirmWrite
    BY <1>1, <2>1 DEF ConfirmWrite, NoHalt
  <2>2. CASE ~ConfirmWrite
    BY <1>1, <1>2, <2>2 DEF Service, TopOfCycle, SkipService, BeginFlatten,
       FlattenTrade, CloseTrade, FlattenPending, ReadPositions, ReadOrders, Sweep,
       ConfirmRead, files
  <2> QED BY <2>1, <2>2
<1>3. CASE Batch \/ Boot
  BY <1>1, <1>3 DEF Batch, Boot, Fetch, Gate, ManageTrade, CloseTrade, CanTrade,
     Place, WaitOver, EndBatch, files
<1>4. ASSUME NEW t \in Threads, Checking(t) PROVE FALSE
  <2>1. CASE Persist(t)
    <3>1. verdict[t].reason # "none"
      BY <2>1 DEF Persist, Control, Verdicts
    <3> QED BY <1>1, <2>1, <3>1 DEF Persist, Halted, NoHalt
  <2>2. CASE ~Persist(t)
    BY <1>1, <1>4, <2>2 DEF Checking, Retry, Review, Reread, files
  <2> QED BY <2>1, <2>2
<1>5. ASSUME NEW t \in Requests, Request(t), ~Resume(t) PROVE FALSE
  BY <1>1, <1>5 DEF Request, ManualClose, PanicClose, CloseTrade, PanicSweep,
     AskResume, ResumeReview, ResumeRefused, files
<1>6. CASE World
  BY <1>1, <1>6 DEF World, EquityMoves, OrderFills, OrderEnds, Tick, files
<1>7. CASE Failure
  BY <1>1, <1>7 DEF Failure, FetchFails, FlattenFails, ConfirmFails, Restart,
     ReviewRaises, PersistFails, files
<1> QED BY <1>2, <1>3, <1>4, <1>5, <1>6, <1>7 DEF Next, Work, LoopStep

\* With such a broker, a halt in force is lifted only by a review, of a flat
\* account whose flatten is confirmed and whose equity is above the hard limit
\* that holds afterwards (resume_after_review).
THEOREM ResumeIsSoundHolds ==
  ASSUME Durable
  PROVE  Spec => ResumeIsSound
<1>1. IInv /\ [Next]_vars => [Locked /\ halt' = NoHalt =>
         Flat /\ ~halt.pending /\ equity < LimitOr(Hard)']_vars
  <2> SUFFICES ASSUME IInv, Next, Locked, halt' = NoHalt
               PROVE  Flat /\ ~halt.pending /\ equity < LimitOr(Hard)'
    OBVIOUS
  <2>1. halt # NoHalt
    BY DEF Locked, NoHalt
  <2>2. PICK t \in Requests : Resume(t)
    BY <2>1, OnlyResumeLifts
  <2>3. ~halt.pending /\ Flat
    BY <2>2 DEF IInv, Facts, Resuming, Confirmed, Resume
  <2>4. equity < LimitOr(Hard)'
    <3>1. equity < LimitFor(t, Hard)
      BY <2>2 DEF Resume, Allowed
    <3>2. seen[t].limit \in LimitType
      BY DEF IInv, TypeOK, SeenType
    <3>3. CASE seen[t].limit.limit > 0
      <4>1. override' = seen[t].limit /\ seen[t].limit.day = Today /\ Today' = Today
        BY <2>2, <3>3 DEF Resume, Allowed, Today
      <4>2. LimitOr(Hard)' = seen[t].limit.limit
        BY <4>1, <3>3 DEF LimitOr
      <4> QED BY <3>1, <3>3, <4>2 DEF LimitFor
    <3>4. CASE ~(seen[t].limit.limit > 0)
      <4>1. override' = override /\ Today' = Today
        BY <2>2, <3>4 DEF Resume, Today
      <4>2. LimitOr(Hard)' = LimitOr(Hard)
        BY <4>1 DEF LimitOr
      <4> QED BY <3>1, <3>4, <4>2 DEF LimitFor
    <3> QED BY <3>3, <3>4
  <2> QED BY <2>3, <2>4
<1> QED BY HaltInductive, <1>1, PTL DEF Spec, ResumeIsSound

----------------------------------------------------------------------------
(* The abstract halt (Pursued).                                            *)

\* The steps that change the kill lock or the clock.
LEMMA HaltStays ==
  ASSUME Next, ~Tick, ~ConfirmWrite, \A t \in Threads : ~Persist(t),
         \A t \in Requests : ~Resume(t)
  PROVE  halt' = halt /\ now' = now
<1> USE DEF files, account, losses
<1>1. CASE Service
  BY <1>1 DEF Service, TopOfCycle, SkipService, BeginFlatten, FlattenTrade,
     CloseTrade, FlattenPending, ReadPositions, ReadOrders, Sweep, ConfirmRead
<1>2. CASE Batch \/ Boot
  BY <1>2 DEF Batch, Boot, Fetch, Gate, ManageTrade, CloseTrade, CanTrade, Place,
     WaitOver, EndBatch
<1>3. ASSUME NEW t \in Threads, Checking(t) PROVE halt' = halt /\ now' = now
  BY <1>3 DEF Checking, Retry, Review, Reread
<1>4. ASSUME NEW t \in Requests, Request(t) PROVE halt' = halt /\ now' = now
  BY <1>4 DEF Request, ManualClose, PanicClose, CloseTrade, PanicSweep, AskResume,
     ResumeReview, ResumeRefused
<1>5. CASE World
  BY <1>5 DEF World, EquityMoves, OrderFills, OrderEnds
<1>6. CASE Failure
  BY <1>6 DEF Failure, FetchFails, FlattenFails, ConfirmFails, Restart, ReviewRaises,
     PersistFails
<1> QED BY <1>1, <1>2, <1>3, <1>4, <1>5, <1>6 DEF Next, Work, LoopStep

LEMMA PursuedBegins == Init => Pursued
BY DEF Init, Pursued, Pursuing, Closing, At, CheckPlaces, NoHalt

\* Another thread than the loop moves.
LEMMA PursuedBeside ==
  ASSUME Pursued, UNCHANGED halt, pc'[Loop] = pc[Loop], back'[Loop] = back[Loop],
         seen'[Loop] = seen[Loop]
  PROVE  Pursued'
BY DEF Pursued, Pursuing, Closing, At

\* The loop moves to a place where no flatten is pursued.
LEMMA PursuedEnds ==
  ASSUME Pursued, UNCHANGED halt, pc'[Loop] \in {"top", "service", "fetch", "gate",
         "execute", "place", "wait", "boot"}
  PROVE  Pursued'
BY DEF Pursued, Pursuing, Closing, At, CheckPlaces

\* The end of a check leaves a flatten where it was.
LEMMA ReturnPursues ==
  ASSUME IInv, NEW t \in Threads, pc[t] \in CheckPlaces,
         NEW table \in {Fine, Found, Raised}, Return(t, table)
  PROVE  /\ Pursuing' => Pursuing
         /\ At(Loop, "confirmed")' => At(Loop, "confirmed")
<1>1. /\ \A u \in Threads : u # t => pc'[u] = pc[u] /\ back'[u] = back[u]
      /\ t = Loop => pc'[t] \in {"service", "place", "execute", "flatten"}
      /\ t = Loop /\ pc'[t] = "flatten" => back[t] = "flatten"
  BY Answered DEF IInv, Control
<1> QED BY <1>1 DEF Pursuing, Closing, At, CheckPlaces

LEMMA PursuedStep ==
  ASSUME IInv, Pursued, Next
  PROVE  Pursued'
<1> USE DEF files, account, losses
<1>0. /\ pc \in [Threads -> Places] /\ back \in [Threads -> Callers]
      /\ seen \in [Threads -> SeenType] /\ next \in {"fetch", "gate", "top"}
      /\ Loop \in Threads
  BY DEF IInv, TypeOK
<1>1. CASE Service
  <2>1. CASE TopOfCycle \/ SkipService \/ FlattenPending
    BY <1>0, <2>1, PursuedEnds DEF TopOfCycle, SkipService, FlattenPending, Carry, Goto
  <2>2. CASE BeginFlatten
    BY <1>0, <2>2 DEF BeginFlatten, Goto, Pursued, Pursuing, Closing, At, CheckPlaces
  <2>3. CASE FlattenTrade
    BY <1>0, <2>3 DEF FlattenTrade, CloseTrade, Check, Goto, Pursued, Pursuing,
       Closing, At, CheckPlaces
  <2>4. CASE ReadPositions
    BY <1>0, <2>4 DEF ReadPositions, Goto, Pursued, Pursuing, Closing, At, CheckPlaces
  <2>5. CASE ReadOrders
    BY <1>0, <2>5 DEF ReadOrders, Goto, Pursued, Pursuing, Closing, At, CheckPlaces
  <2>6. CASE Sweep
    BY <1>0, <2>6 DEF Sweep, Goto, Pursued, Pursuing, Closing, At, CheckPlaces
  <2>7. CASE ConfirmRead
    <3>1. seen'[Loop].halt = halt
      BY <1>0, <2>7 DEF ConfirmRead, SeenType
    <3> QED BY <1>0, <2>7, <3>1 DEF ConfirmRead, Goto, Pursued, Pursuing, Closing, At,
            CheckPlaces
  <2>8. CASE ConfirmWrite
    <3>1. pc'[Loop] \in {"top", "fetch", "gate"}
      BY <1>0, <2>8 DEF ConfirmWrite, Carry, Goto
    <3>2. halt'.pending => halt'.reason # "none"
      BY <1>0, <2>8 DEF ConfirmWrite, Pursued, SeenType, HaltType
    <3> QED BY <3>1, <3>2 DEF Pursued, Pursuing, Closing, At, CheckPlaces
  <2> QED BY <1>1, <2>1, <2>2, <2>3, <2>4, <2>5, <2>6, <2>7, <2>8 DEF Service
<1>2. CASE Batch \/ Boot
  <2>1. CASE Gate \/ Place \/ WaitOver \/ EndBatch \/ Boot
    BY <1>0, <2>1, PursuedEnds DEF Gate, Place, WaitOver, EndBatch, Boot, Goto
  <2>2. CASE Fetch \/ CanTrade \/ ManageTrade
    BY <1>0, <2>2 DEF Fetch, CanTrade, ManageTrade, CloseTrade, Check, Goto, Pursued,
       Pursuing, Closing, At, CheckPlaces
  <2> QED BY <1>2, <2>1, <2>2 DEF Batch
<1>3. ASSUME NEW t \in Threads, Checking(t) \/ ReviewRaises(t) \/ PersistFails(t)
      PROVE  Pursued'
  <2>0. pc[t] \in CheckPlaces /\ UNCHANGED seen
    BY <1>3 DEF Checking, Retry, Review, Reread, Persist, ReviewRaises, PersistFails, At,
       CheckPlaces
  <2>1. CASE Persist(t)
    <3>1. /\ Pursuing' => Pursuing
          /\ At(Loop, "confirmed")' => At(Loop, "confirmed")
      BY <2>0, <2>1, ReturnPursues DEF Persist
    <3>2. verdict[t].reason # "none" /\ halt' = Halted(verdict[t])
      BY <2>1 DEF Persist, IInv, Control, Verdicts
    <3>3. /\ halt.pending => halt'.pending
          /\ halt'.pending => halt'.reason # "none"
      BY <3>2 DEF Halted, Pursued
    <3> QED BY <2>0, <3>1, <3>3 DEF Pursued, At
  <2>2. ASSUME NEW table \in {Fine, Found, Raised}, Return(t, table), UNCHANGED halt
        PROVE  Pursued'
    BY <2>0, <2>2, ReturnPursues DEF Pursued, At
  <2>3. ASSUME NEW b \in {"reread", "persist"}, Goto(t, b), UNCHANGED <<back, halt>>
        PROVE  Pursued'
    BY <1>0, <2>0, <2>3 DEF Goto, Pursued, Pursuing, Closing, At, CheckPlaces
  <2>4. CASE Retry(t)
    BY <2>3, <2>4 DEF Retry, ToPersist
  <2>5. CASE Review(t)
    BY <2>2, <2>3, <2>5 DEF Review, ToPersist
  <2>6. CASE Reread(t)
    BY <2>2, <2>3, <2>6 DEF Reread, ToPersist
  <2>7. CASE ReviewRaises(t) \/ PersistFails(t)
    BY <2>2, <2>7 DEF ReviewRaises, PersistFails
  <2> QED BY <1>3, <2>1, <2>4, <2>5, <2>6, <2>7 DEF Checking
<1>4. ASSUME NEW t \in Requests, Request(t) PROVE Pursued'
  <2>1. t # Loop /\ t \in Threads
    OBVIOUS
  <2>2. /\ pc'[Loop] = pc[Loop] /\ back'[Loop] = back[Loop]
        /\ seen'[Loop] = seen[Loop]
    BY <1>0, <1>4, <2>1 DEF Request, ManualClose, PanicClose, CloseTrade, Check,
       PanicSweep, AskResume, ResumeReview, Resume, ResumeRefused, EndResume, Goto
  <2>3. CASE Resume(t)
    <3>1. ~halt.pending
      BY <2>3 DEF Resume, IInv, Facts, Resuming
    <3>2. halt' = NoHalt
      BY <2>3 DEF Resume
    <3> QED BY <2>2, <3>1, <3>2 DEF Pursued, Pursuing, Closing, At, NoHalt
  <2>4. CASE ~Resume(t)
    BY <1>4, <2>2, <2>4, PursuedBeside DEF Request, ManualClose, PanicClose, CloseTrade,
       PanicSweep, AskResume, ResumeReview, ResumeRefused
  <2> QED BY <2>3, <2>4
<1>5. CASE World
  BY <1>5, PursuedBeside DEF World, EquityMoves, OrderFills, OrderEnds, Tick
<1>6. CASE FetchFails \/ FlattenFails \/ ConfirmFails \/ Restart
  BY <1>0, <1>6, PursuedEnds DEF FetchFails, FlattenFails, ConfirmFails, Restart, Carry,
     Goto
<1> QED BY <1>1, <1>2, <1>3, <1>4, <1>5, <1>6 DEF Next, Work, LoopStep, Failure

THEOREM PursuedHolds == Spec => []Pursued
<1>1. IInv /\ Pursued /\ [Next]_vars => Pursued'
  <2>1. ASSUME Pursued, UNCHANGED vars PROVE Pursued'
    BY <2>1, PursuedBeside DEF vars
  <2> QED BY <2>1, PursuedStep
<1> QED BY PursuedBegins, <1>1, HaltInductive, PTL DEF Spec

\* A step that leaves the kill lock and the clock alone trades, or changes nothing
\* that is seen of a halted account.
LEMMA TradeSteps ==
  ASSUME Durable, IInv, IInv', UNCHANGED <<halt, now>>
  PROVE  Promise!Trade \/ UNCHANGED Promise!halting
<1>1. UNCHANGED <<Locked, Phase, IF Locked THEN halt.until ELSE 0, now>>
  BY DEF Locked, Phase
<1>2. Phase = "halted" => Flat /\ Flat'
  BY DEF IInv, Facts, Confirmed, Phase, Locked
<1>3. (~Flat)' \in BOOLEAN /\ (~Flat) \in BOOLEAN
  BY DEF Flat
<1> QED BY <1>1, <1>2, <1>3 DEF Promise!Trade, Promise!halting

LEMMA TickPasses ==
  ASSUME IInv, Pursued, Tick
  PROVE  Promise!TimePasses
<1>1. halt' = halt /\ now' = now + 1 /\ (Flat' <=> Flat) /\ now \in Nat
      /\ halt.until \in Nat /\ halt.pending \in BOOLEAN
  BY DEF Tick, Flat, files, account, IInv, TypeOK, HaltType, Latest
<1> QED BY <1>1 DEF Promise!TimePasses, Promise!Reopen, Phase, Locked, Flat

LEMMA PersistTrips ==
  ASSUME IInv, NEW t \in Threads, Persist(t)
  PROVE  Promise!Trip \/ UNCHANGED Promise!halting
<1>1. /\ verdict[t].reason # "none" /\ halt' = Halted(verdict[t])
      /\ now' = now /\ (Flat' <=> Flat) /\ halt' \in HaltType /\ halt \in HaltType
      /\ verdict[t] \in VerdictType /\ now \in Nat
  <2>1. IInv'
    BY PersistStep
  <2> QED BY <2>1 DEF Persist, IInv, TypeOK, Control, Verdicts, Flat, account
<1>2. CASE halt' = halt
  BY <1>1, <1>2 DEF Promise!halting, Phase, Locked, Flat
<1>3. CASE halt' # halt
  <2>1. /\ halt'.reason # "none" /\ halt'.pending /\ halt'.until \in Nat
        /\ Locked => halt'.until >= halt.until
    BY <1>1, <1>3 DEF Halted, Later, HaltType, VerdictType, Latest
  <2>2. Phase' = "flattening" /\ Locked' /\ (Phase # "open" <=> Locked)
    BY <2>1 DEF Phase, Locked
  <2> QED BY <1>1, <2>1, <2>2 DEF Promise!Trip, Flat
<1> QED BY <1>2, <1>3

LEMMA WriteConfirms ==
  ASSUME Durable, IInv, Pursued, ConfirmWrite
  PROVE  Promise!Confirm
<1>1. /\ Flat /\ halt.pending /\ halt.reason # "none"
      /\ seen[Loop].halt.reason # "none" /\ seen[Loop].halt \in HaltType
  BY DEF ConfirmWrite, IInv, Facts, Flattening, Pursued, Pursuing, At, TypeOK, SeenType
<1>2. halt' = [seen[Loop].halt EXCEPT !.pending = FALSE]
  BY <1>1 DEF ConfirmWrite
<1>3. /\ halt'.reason # "none" /\ halt'.pending = FALSE /\ halt'.until \in Nat
      /\ now' = now /\ Flat' /\ now \in Nat
  BY <1>1, <1>2 DEF ConfirmWrite, HaltType, Latest, Flat, account, IInv, TypeOK
<1>4. Phase = "flattening"
  BY <1>1 DEF Phase, Locked
<1>5. /\ Locked' <=> now < halt'.until
      /\ Phase' = IF now < halt'.until THEN "halted" ELSE "open"
  BY <1>3 DEF Phase, Locked
<1> QED BY <1>1, <1>3, <1>4, <1>5 DEF Promise!Confirm

LEMMA ResumeReviews ==
  ASSUME IInv, NEW t \in Requests, Resume(t)
  PROVE  Promise!Review \/ UNCHANGED Promise!halting
<1>1. ~halt.pending /\ halt' = NoHalt /\ now' = now /\ (Flat' <=> Flat)
  BY DEF Resume, IInv, Facts, Resuming, Flat, account
<1>2. ~Locked' /\ Phase' = "open"
  BY <1>1 DEF Phase, Locked, NoHalt
<1>3. Phase = IF Locked THEN "halted" ELSE "open"
  BY <1>1 DEF Phase
<1> QED BY <1>1, <1>2, <1>3 DEF Promise!Review, Promise!Reopen, Promise!halting, Flat

\* With such a broker the comment of confirm_flattened (kill_lock.py:70) is true: a
\* pending flatten ends in no other step than a confirmation of a flat account.
THEOREM ConfirmsFlatHolds ==
  ASSUME Durable
  PROVE  Spec => ConfirmsFlat
<1>1. IInv /\ Pursued /\ [Next]_vars => [halt.pending /\ ~halt'.pending => Flat]_vars
  <2> SUFFICES ASSUME IInv, Pursued, Next, halt.pending, ~halt'.pending PROVE Flat
    OBVIOUS
  <2>1. CASE ConfirmWrite
    BY <2>1 DEF ConfirmWrite, IInv, Facts, Flattening, At
  <2>2. ASSUME NEW t \in Threads, Persist(t) PROVE FALSE
    BY <2>2 DEF Persist, Halted
  <2>3. ASSUME NEW t \in Requests, Resume(t) PROVE FALSE
    BY <2>3 DEF Resume, IInv, Facts, Resuming
  <2>4. halt' # halt
    OBVIOUS
  <2>5. CASE Tick
    BY <2>4, <2>5 DEF Tick, files
  <2> QED BY <2>1, <2>2, <2>3, <2>4, <2>5, HaltStays
<1> QED BY <1>1, HaltInductive, PursuedHolds, PTL DEF Spec, ConfirmsFlat

\* With a broker that recovers its orders durably, the loop, the requests, the clock
\* and the failures together keep the promise of TradingHalt.
THEOREM HaltImplements ==
  ASSUME Durable
  PROVE  Spec => ImplementsHalt
<1>1. Init => Promise!Init
  BY DEF Init, Promise!Init, Phase, Locked, NoHalt, Flat
<1>2. IInv /\ IInv' /\ Pursued /\ [Next]_vars => [Promise!Next]_(Promise!halting)
  <2> SUFFICES ASSUME IInv, IInv', Pursued, [Next]_vars
               PROVE  Promise!Next \/ UNCHANGED Promise!halting
    OBVIOUS
  <2>1. CASE Tick
    BY <2>1, TickPasses DEF Promise!Next
  <2>2. CASE ConfirmWrite
    BY <2>2, WriteConfirms DEF Promise!Next
  <2>3. ASSUME NEW t \in Threads, Persist(t)
        PROVE  Promise!Next \/ UNCHANGED Promise!halting
    BY <2>3, PersistTrips DEF Promise!Next
  <2>4. ASSUME NEW t \in Requests, Resume(t)
        PROVE  Promise!Next \/ UNCHANGED Promise!halting
    BY <2>4, ResumeReviews DEF Promise!Next
  <2>5. CASE UNCHANGED <<halt, now>>
    BY <2>5, TradeSteps DEF Promise!Next
  <2>6. UNCHANGED vars => UNCHANGED <<halt, now>>
    BY DEF vars
  <2> QED BY <2>1, <2>2, <2>3, <2>4, <2>5, <2>6, HaltStays
<1> QED BY <1>1, <1>2, HaltInductive, PursuedHolds, PTL DEF Spec, ImplementsHalt, Promise!Spec

=============================================================================
