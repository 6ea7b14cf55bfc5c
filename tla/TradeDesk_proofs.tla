--------------------------- MODULE TradeDesk_proofs ---------------------------
(***************************************************************************)
(* DeskInv is inductive, and implies the safety properties of TradeDesk.   *)
(* A step is one of the broker, of a placement, or of the desk, and what   *)
(* the first two do to orders is proved before the desk is looked at.      *)
(***************************************************************************)
EXTENDS TradeDeskInvariant, Units_proofs

-----------------------------------------------------------------------------
(* Shapes. *)

LEMMA LeastOf ==
  ASSUME NEW a \in Nat, NEW b \in Nat
  PROVE  Min({a, b}) \in {a, b} /\ Min({a, b}) <= a /\ Min({a, b}) <= b
<1>1. \E x \in {a, b} : \A y \in {a, b} : x <= y
  <2>1. CASE a <= b
    BY <2>1
  <2>2. CASE b <= a
    BY <2>2
  <2> QED BY <2>1, <2>2
<1> QED BY <1>1 DEF Min

LEMMA GreatestOf ==
  ASSUME NEW a \in Nat, NEW b \in Nat
  PROVE  Max({a, b}) \in {a, b} /\ Max({a, b}) >= a /\ Max({a, b}) >= b
<1>1. \E x \in {a, b} : \A y \in {a, b} : x >= y
  <2>1. CASE a <= b
    BY <2>1
  <2>2. CASE b <= a
    BY <2>2
  <2> QED BY <2>1, <2>2
<1> QED BY <1>1 DEF Max

\* An order is one or none, and has its fields.
LEMMA OrderShape ==
  ASSUME NEW x \in Order \cup {NoOrder}
  PROVE  /\ x # NoOrder => /\ x \in Order
                           /\ x.status \in {"transit", "working", "filled", "ended"}
                           /\ x.contract \in Contracts /\ x.side \in Sides
                           /\ x.qty \in 1 .. MaxQty /\ x.filled \in 0 .. MaxQty
         /\ x.status # "none" => x # NoOrder
         /\ x = NoOrder => x.status = "none"
  BY DEF Order, NoOrder

LEMMA CallShape ==
  ASSUME NEW k \in Call \cup {Idle}
  PROVE  /\ k # Idle => /\ k \in Call
                        /\ k.at \in {"post", "sent", "wait", "look", "done"}
                        /\ k.contract \in Contracts /\ k.side \in Sides
                        /\ k.qty \in 1 .. MaxQty /\ k.filled \in 0 .. MaxQty
                        /\ k.slot \in Slots \cup {Nobody}
         /\ k.at # "idle" => k # Idle
  BY DEF Call, Idle

\* What the account lists of an order is the order, unless it is over and unawaited.
LEMMA ListedShows ==
  ASSUME NEW os, NEW cl, NEW o \in Slots
  PROVE  \/ Listed(os, cl)[o] = os[o]
         \/ Listed(os, cl)[o] = NoOrder /\ os[o].status \in {"filled", "ended"} /\ ~Awaited(o, cl)
  BY DEF Listed

LEMMA ListedType ==
  ASSUME NEW os \in [Slots -> Order \cup {NoOrder}], NEW cl
  PROVE  Listed(os, cl) \in [Slots -> Order \cup {NoOrder}]
  BY DEF Listed

LEMMA PlacingShape ==
  ASSUME NEW c \in Contracts, NEW s \in Sides, NEW q \in 1 .. MaxQty
  PROVE  /\ Placing(c, s, q) \in Call /\ Placing(c, s, q) # Idle
         /\ Placing(c, s, q).at = "post" /\ Placing(c, s, q).slot = Nobody
         /\ Placing(c, s, q).filled = 0 /\ Placing(c, s, q).contract = c
         /\ Placing(c, s, q).side = s /\ Placing(c, s, q).qty = q
  BY DeskAssumption DEF Placing, Call, Idle

LEMMA UnsoldType ==
  ASSUME Orders, NEW o \in Slots, NEW c \in Contracts
  PROVE  /\ Unsold(o, c) \in Nat
         /\ Working(o) => orders[o] # NoOrder /\ orders[o].qty - orders[o].filled \in Nat \ {0}
<1>1. orders[o] \in Order \cup {NoOrder} /\ Sound(orders[o])
  BY DEF Orders, ExecutionTypeOK
<1>2. Working(o) => orders[o] # NoOrder /\ orders[o].filled < orders[o].qty
  BY <1>1, OrderShape DEF Working, Sound
<1>3. Working(o) => orders[o].qty \in 1 .. MaxQty /\ orders[o].filled \in 0 .. MaxQty
  BY <1>1, <1>2, OrderShape
<1> QED
  BY <1>2, <1>3, DeskAssumption DEF Unsold

-----------------------------------------------------------------------------
(* Steps that only take working orders away. *)

Calm == /\ held' = held
        /\ \A o \in Slots : orders'[o] = orders[o] \/ orders'[o].status # "working"

\* The broker holds back no more than before, and nothing new is bought.
LEMMA CalmHolds ==
  ASSUME Orders, Calm
  PROVE  /\ HeldBack'
         /\ Exposed' \subseteq Exposed
<1>1. ASSUME NEW o \in Slots, Working(o)'
      PROVE  Working(o) /\ orders'[o] = orders[o]
  BY <1>1 DEF Calm, Working
<1>2. ASSUME NEW c \in Contracts
      PROVE  LET U == Units(Slots, [o \in Slots |-> Unsold(o, c)])
             IN (IsFiniteSet(U) /\ Cardinality(U) <= held[c])'
  <2> DEFINE f == [o \in Slots |-> Unsold(o, c)]
             g == [o \in Slots |-> Unsold(o, c)']
  <2>1. \A o \in Slots : f[o] = Unsold(o, c) /\ g[o] = Unsold(o, c)'
    OBVIOUS
  <2>2. ASSUME NEW o \in Slots
        PROVE  f[o] \in Int /\ g[o] \in Int /\ g[o] <= f[o]
    <3>1. Unsold(o, c) \in Nat
      BY UnsoldType
    <3>2. Unsold(o, c)' = Unsold(o, c) \/ Unsold(o, c)' = 0
      BY <1>1 DEF Unsold
    <3> QED BY <3>1, <3>2, <2>1
  <2>3. IsFiniteSet(Units(Slots, f)) /\ Cardinality(Units(Slots, f)) <= held[c]
    BY DEF Orders, HeldBack
  <2>4. held[c] \in Nat /\ held' = held
    BY DEF Orders, ExecutionTypeOK, Calm
  <2> HIDE DEF f, g
  <2>5. /\ Cardinality(Units(Slots, g)) \in Nat
        /\ Cardinality(Units(Slots, g)) <= Cardinality(Units(Slots, f))
    BY <2>2, <2>3, NoneCountsMore
  <2>6. IsFiniteSet(Units(Slots, g))
    BY <2>2, <2>3, NoneCountsMore
  <2>7. Cardinality(Units(Slots, f)) \in Nat
    BY <2>3, FS_CardinalityType
  <2>8. IsFiniteSet(Units(Slots, g)) /\ Cardinality(Units(Slots, g)) <= held'[c]
    BY <2>3, <2>4, <2>5, <2>6, <2>7
  <2> QED BY <2>8 DEF g
<1>3. HeldBack'
  BY <1>2 DEF HeldBack
<1>4. Exposed' \subseteq Exposed
  BY <1>1 DEF Exposed, Positions, OpenOrders, Calm
<1> QED BY <1>3, <1>4

-----------------------------------------------------------------------------
(* A step of the placement of the thread p. *)

\* The other threads know of their orders what they knew.
OthersKnow(p) ==
  \A q \in Procs \ {p} :
    /\ call'[q] = call[q]
    /\ call[q] # Idle /\ call[q].slot # Nobody => orders'[call[q].slot] = orders[call[q].slot]

\* The placement goes on for the same order; it may end with less than was executed.
GoesOn(p) ==
  /\ call[p] # Idle /\ call[p].at # "done"
  /\ call'[p] # Idle /\ call'[p].contract = call[p].contract /\ call'[p].side = call[p].side
  /\ call'[p].qty = call[p].qty
  /\ \/ Executed(call'[p], orders') = Executed(call[p], orders)
     \/ /\ call'[p].at = "done" /\ call[p].slot # Nobody
        /\ call'[p].filled < orders[call[p].slot].filled
        /\ Executed(call'[p], orders') < Executed(call[p], orders)
  /\ call[p].side = "sell" =>
       \A o \in Slots : Working(o) /\ orders[o].side = "buy" => orders'[o] = orders[o]

LEMMA OrdersAfter ==
  ASSUME Orders, NEW p \in Procs, Calm, OthersKnow(p),
         orders' \in [Slots -> Order \cup {NoOrder}], call' \in [Procs -> Call \cup {Idle}],
         \A o \in Slots : Sound(orders'[o]),
         Knows(call'[p], orders'),
         \/ call'[p].slot = Nobody
         \/ call[p] # Idle /\ call'[p].slot = call[p].slot
         \/ orders[call'[p].slot] = NoOrder
  PROVE  Orders'
<1>1. HeldBack'
  BY CalmHolds
<1>2. ExecutionTypeOK'
  BY DEF Orders, ExecutionTypeOK, Calm
<1>3. ASSUME NEW q \in Procs
      PROVE  Knows(call'[q], orders')
  <2>1. CASE q = p
    BY <2>1
  <2>2. CASE q # p
    <3>1. call'[q] = call[q] /\ Knows(call[q], orders)
      BY <2>2 DEF OthersKnow, Orders
    <3>2. call[q] # Idle /\ call[q].slot # Nobody => orders'[call[q].slot] = orders[call[q].slot]
      BY <2>2 DEF OthersKnow
    <3> QED BY <3>1, <3>2 DEF Knows
  <2> QED BY <2>1, <2>2
<1>4. ASSUME NEW q \in Procs, q # p, call'[p] # Idle, call'[q] # Idle, call'[p].slot = call'[q].slot
      PROVE  call'[p].slot = Nobody
  <2>1. call'[q] = call[q]
    BY <1>4 DEF OthersKnow
  <2>2. CASE call[p] # Idle /\ call'[p].slot = call[p].slot
    BY <1>4, <2>1, <2>2 DEF Orders
  <2>3. CASE orders[call'[p].slot] = NoOrder
    BY <1>4, <2>1, <2>3 DEF Orders, Knows
  <2> QED BY <2>2, <2>3
<1>5. ASSUME NEW q \in Procs, NEW r \in Procs, call'[q] # Idle, call'[r] # Idle, call'[q].slot = call'[r].slot
      PROVE  q = r \/ call'[q].slot = Nobody
  <2>1. CASE q = p \/ r = p
    BY <1>4, <1>5, <2>1
  <2>2. CASE q # p /\ r # p
    BY <1>5, <2>2 DEF OthersKnow, Orders
  <2> QED BY <2>1, <2>2
<1> QED BY <1>1, <1>2, <1>3, <1>5 DEF Orders

\* The slot of a placement, while there is one.
LEMMA SlotShape ==
  ASSUME Orders, NEW p \in Procs, call[p] # Idle, call[p].at \in {"sent", "wait", "look"}
  PROVE  /\ call[p].slot \in Slots /\ call[p].slot # Nobody /\ call[p].filled = 0
         /\ orders[call[p].slot] \in Order /\ orders[call[p].slot] # NoOrder
         /\ orders[call[p].slot].side = call[p].side
         /\ orders[call[p].slot].filled \in 0 .. MaxQty
<1>1. call[p] \in Call \cup {Idle} /\ Knows(call[p], orders)
  BY DEF Orders, ExecutionTypeOK
<1>2. call[p].slot \in Slots /\ call[p].slot # Nobody /\ call[p].filled = 0
  BY <1>1, CallShape DEF Knows
<1>3. orders[call[p].slot] # NoOrder /\ orders[call[p].slot].side = call[p].side
  BY <1>1, <1>2 DEF Knows
<1>4. orders[call[p].slot] \in Order \cup {NoOrder}
  BY <1>2 DEF Orders, ExecutionTypeOK
<1> QED BY <1>2, <1>3, <1>4, OrderShape

\* A placement ends: with all that was executed, or nothing.
LEMMA GiveKeeps ==
  ASSUME Orders, NEW p \in Procs, NEW n \in 0 .. MaxQty, call[p] # Idle, call[p].at # "done",
         Give(p, n), held' = held, n = 0 \/ n = Executed(call[p], orders)
  PROVE  Orders' /\ Calm /\ OthersKnow(p) /\ GoesOn(p)
<1>1. call \in [Procs -> Call \cup {Idle}] /\ orders \in [Slots -> Order \cup {NoOrder}]
  BY DEF Orders, ExecutionTypeOK
<1>2. call[p] \in Call /\ Knows(call[p], orders)
  BY <1>1, CallShape DEF Orders
<1>3. /\ call'[p] = [call[p] EXCEPT !.at = "done", !.slot = Nobody, !.filled = n]
      /\ \A q \in Procs \ {p} : call'[q] = call[q]
      /\ orders' = Listed(orders, call')
  BY <1>1 DEF Give
<1>4. /\ call'[p] \in Call /\ call'[p].at = "done" /\ call'[p].slot = Nobody /\ call'[p].filled = n
      /\ call'[p].contract = call[p].contract /\ call'[p].side = call[p].side
      /\ call'[p].qty = call[p].qty
  BY <1>2, <1>3 DEF Call
<1>5. call' \in [Procs -> Call \cup {Idle}]
  BY <1>1, <1>4 DEF Give
<1>6. orders' \in [Slots -> Order \cup {NoOrder}]
  BY <1>1, <1>3, ListedType
<1>7. ASSUME NEW o \in Slots
      PROVE  \/ orders'[o] = orders[o]
             \/ orders'[o] = NoOrder /\ orders[o].status \in {"filled", "ended"} /\ ~Awaited(o, call')
  BY <1>3, ListedShows
<1>8. Calm
  BY <1>7 DEF Calm, NoOrder
<1>9. ASSUME NEW o \in Slots
      PROVE  Sound(orders'[o])
  BY <1>7 DEF Orders, Sound, NoOrder
<1>10. call'[p] # Idle
  BY <1>4 DEF Idle
<1>11. Knows(call'[p], orders')
  BY <1>4 DEF Knows
<1>12. ASSUME NEW q \in Procs \ {p}, call[q] # Idle, call[q].slot # Nobody
       PROVE  orders'[call[q].slot] = orders[call[q].slot]
  <2>1. call[q].slot \in Slots
    BY <1>1, <1>12, CallShape
  <2>2. Awaited(call[q].slot, call')
    BY <1>3, <1>12 DEF Awaited
  <2> QED BY <1>7, <2>1, <2>2
<1>13. OthersKnow(p)
  BY <1>3, <1>12 DEF OthersKnow
<1>14. Orders'
  BY <1>4, <1>5, <1>6, <1>8, <1>9, <1>11, <1>13, OrdersAfter
<1>15. Executed(call'[p], orders') = n
  BY <1>4 DEF Executed
<1>16. \/ Executed(call'[p], orders') = Executed(call[p], orders)
       \/ /\ call'[p].at = "done" /\ call[p].slot # Nobody
          /\ call'[p].filled < orders[call[p].slot].filled
          /\ Executed(call'[p], orders') < Executed(call[p], orders)
  <2>1. CASE n = Executed(call[p], orders)
    BY <1>15, <2>1
  <2>2. CASE n = 0 /\ call[p].slot = Nobody
    <3>1. call[p].filled = 0
      BY <1>2 DEF Knows
    <3> QED BY <1>15, <2>2, <3>1 DEF Executed
  <2>3. CASE n = 0 /\ call[p].slot # Nobody
    <3>1. call[p].slot \in Slots
      BY <1>2, <2>3, CallShape
    <3>2. orders[call[p].slot].filled \in 0 .. MaxQty
      BY <1>1, <1>2, <2>3, <3>1, OrderShape DEF Knows
    <3>3. Executed(call[p], orders) = orders[call[p].slot].filled
      BY <2>3 DEF Executed
    <3>4. orders[call[p].slot].filled = 0 \/ 0 < orders[call[p].slot].filled
      BY <3>2, DeskAssumption
    <3> QED BY <1>4, <1>15, <2>3, <3>3, <3>4
  <2> QED BY <2>1, <2>2, <2>3
<1>17. \A o \in Slots : Working(o) => orders'[o] = orders[o]
  BY <1>7 DEF Working
<1>18. GoesOn(p)
  BY <1>4, <1>10, <1>16, <1>17 DEF GoesOn
<1> QED BY <1>8, <1>13, <1>14, <1>18

\* The request goes out.
LEMMA PostKeeps ==
  ASSUME Orders, NEW p \in Procs, call[p] # Idle, Post(p)
  PROVE  Orders' /\ Calm /\ OthersKnow(p) /\ GoesOn(p)
<1>1. call \in [Procs -> Call \cup {Idle}] /\ orders \in [Slots -> Order \cup {NoOrder}]
  BY DEF Orders, ExecutionTypeOK
<1>2. call[p] \in Call /\ Knows(call[p], orders) /\ call[p].at = "post" /\ held' = held
  BY <1>1, CallShape DEF Orders, Post
<1>3. call[p].slot = Nobody /\ call[p].filled = 0
  BY <1>2 DEF Knows
<1>4. CASE Give(p, 0)
  BY <1>2, <1>4, GiveKeeps, DeskAssumption
<1>5. ASSUME NEW o \in Slots, orders[o] = NoOrder,
             orders' = [orders EXCEPT ![o] = [status |-> "transit", contract |-> call[p].contract,
                          side |-> call[p].side, qty |-> call[p].qty, filled |-> 0]],
             call' = [call EXCEPT ![p] = [@ EXCEPT !.at = "sent", !.slot = o]]
      PROVE  Orders' /\ Calm /\ OthersKnow(p) /\ GoesOn(p)
  <2> DEFINE x == orders'[o]
             k == call'[p]
  <2>1. /\ k = [call[p] EXCEPT !.at = "sent", !.slot = o]
        /\ \A q \in Procs \ {p} : call'[q] = call[q]
        /\ \A s \in Slots \ {o} : orders'[s] = orders[s]
        /\ x = [status |-> "transit", contract |-> call[p].contract,
                side |-> call[p].side, qty |-> call[p].qty, filled |-> 0]
    BY <1>1, <1>5
  <2>2. /\ k \in Call /\ k.at = "sent" /\ k.slot = o /\ k.filled = 0
        /\ k.contract = call[p].contract /\ k.side = call[p].side /\ k.qty = call[p].qty
    BY <1>2, <1>3, <2>1 DEF Call
  <2>3. /\ x \in Order /\ x.status = "transit" /\ x.filled = 0
        /\ x.contract = k.contract /\ x.side = k.side /\ x.qty = k.qty
    BY <1>2, <2>1, <2>2, DeskAssumption DEF Call, Order
  <2>4. call' \in [Procs -> Call \cup {Idle}] /\ orders' \in [Slots -> Order \cup {NoOrder}]
    BY <1>1, <1>5, <2>2, <2>3
  <2>5. Calm
    BY <1>2, <2>1, <2>3 DEF Calm
  <2>6. \A s \in Slots : Sound(orders'[s])
    BY <2>1, <2>3 DEF Orders, Sound
  <2>7. x # NoOrder /\ k # Idle
    BY <2>2, <2>3 DEF NoOrder, Idle
  <2>8. Knows(k, orders')
    BY <2>2, <2>3, <2>7, DeskAssumption DEF Knows
  <2>9. ASSUME NEW q \in Procs \ {p}, call[q] # Idle, call[q].slot # Nobody
        PROVE  orders'[call[q].slot] = orders[call[q].slot]
    <3>1. call[q].slot \in Slots /\ orders[call[q].slot] # NoOrder
      BY <1>1, <2>9, CallShape DEF Orders, Knows
    <3> QED BY <1>5, <2>1, <3>1
  <2>10. OthersKnow(p)
    BY <2>1, <2>9 DEF OthersKnow
  <2>11. orders[k.slot] = NoOrder
    BY <1>5, <2>2
  <2>12. Orders'
    BY <2>4, <2>5, <2>6, <2>8, <2>10, <2>11, OrdersAfter
  <2>13. Executed(k, orders') = Executed(call[p], orders)
    BY <1>3, <2>2, <2>3, DeskAssumption DEF Executed
  <2>14. \A s \in Slots : Working(s) => orders'[s] = orders[s]
    BY <1>5, <2>1 DEF Working, NoOrder
  <2>15. GoesOn(p)
    BY <1>2, <2>2, <2>7, <2>13, <2>14 DEF GoesOn
  <2> QED BY <2>5, <2>10, <2>12, <2>15
<1> QED BY <1>4, <1>5 DEF Post

\* The placement goes on waiting; its order may be cancelled.
LEMMA WaitKeeps ==
  ASSUME Orders, NEW p \in Procs, NEW a \in {"wait", "look"}, call[p] # Idle,
         call[p].at \in {"sent", "wait"}, Goto(p, a), held' = held,
         \/ orders' = orders
         \/ orders' = [orders EXCEPT ![call[p].slot].status = "ended"]
  PROVE  Orders' /\ Calm /\ OthersKnow(p) /\ GoesOn(p)
<1> DEFINE s == call[p].slot
           k == call'[p]
<1>1. call \in [Procs -> Call \cup {Idle}] /\ orders \in [Slots -> Order \cup {NoOrder}]
  BY DEF Orders, ExecutionTypeOK
<1>2. call[p] \in Call /\ Knows(call[p], orders)
  BY <1>1, CallShape DEF Orders
<1>3. /\ s \in Slots /\ s # Nobody /\ call[p].filled = 0
      /\ orders[s] \in Order /\ orders[s].side = call[p].side
  BY SlotShape
<1>4. /\ k = [call[p] EXCEPT !.at = a]
      /\ \A q \in Procs \ {p} : call'[q] = call[q]
  BY <1>1 DEF Goto
<1>5. /\ k \in Call /\ k.at = a /\ k.slot = s /\ k.filled = 0
      /\ k.contract = call[p].contract /\ k.side = call[p].side /\ k.qty = call[p].qty
  BY <1>2, <1>3, <1>4 DEF Call
<1>6. call' \in [Procs -> Call \cup {Idle}] /\ k # Idle
  BY <1>1, <1>4, <1>5 DEF Goto, Idle
<1>7. /\ orders'[s] = orders[s] \/ orders'[s] = [orders[s] EXCEPT !.status = "ended"]
      /\ \A o \in Slots \ {s} : orders'[o] = orders[o]
  BY <1>1, <1>3
<1>8. /\ orders'[s] \in Order
      /\ orders'[s].contract = orders[s].contract /\ orders'[s].side = orders[s].side
      /\ orders'[s].qty = orders[s].qty /\ orders'[s].filled = orders[s].filled
      /\ orders'[s] = orders[s] \/ orders'[s].status = "ended"
  BY <1>3, <1>7 DEF Order
<1>9. orders' \in [Slots -> Order \cup {NoOrder}]
  BY <1>1, <1>3, <1>8
<1>10. Calm
  BY <1>7, <1>8 DEF Calm
<1>11. \A o \in Slots : Sound(orders'[o])
  BY <1>7, <1>8 DEF Orders, Sound
<1>12. orders'[s] # NoOrder
  BY <1>8, OrderShape DEF Order, NoOrder
<1>13. Knows(k, orders')
  BY <1>2, <1>3, <1>5, <1>8, <1>12 DEF Knows
<1>14. ASSUME NEW q \in Procs \ {p}, call[q] # Idle, call[q].slot # Nobody
       PROVE  orders'[call[q].slot] = orders[call[q].slot]
  <2>1. call[q].slot \in Slots
    BY <1>1, <1>14, CallShape
  <2>2. call[q].slot # s
    BY <1>3, <1>14 DEF Orders
  <2> QED BY <1>7, <2>1, <2>2
<1>15. OthersKnow(p)
  BY <1>4, <1>14 DEF OthersKnow
<1>16. Orders'
  BY <1>5, <1>6, <1>9, <1>10, <1>11, <1>13, <1>15, OrdersAfter
<1>17. Executed(k, orders') = Executed(call[p], orders)
  BY <1>3, <1>5, <1>8 DEF Executed
<1>18. call[p].side = "sell" => \A o \in Slots : Working(o) /\ orders[o].side = "buy" => orders'[o] = orders[o]
  BY <1>3, <1>7
<1>19. GoesOn(p)
  BY <1>5, <1>6, <1>17, <1>18 DEF GoesOn
<1> QED BY <1>10, <1>15, <1>16, <1>19

LEMMA PlacementKeeps ==
  ASSUME Orders, NEW p \in Procs, PlaceOptionOrder(p)
  PROVE  Orders' /\ Calm /\ OthersKnow(p) /\ GoesOn(p)
<1>1. call[p] # Idle
  BY DEF PlaceOptionOrder
<1>2. ASSUME call[p].at \in {"sent", "wait", "look"}
      PROVE  /\ orders[call[p].slot].filled \in 0 .. MaxQty
             /\ orders[call[p].slot].filled = Executed(call[p], orders)
  BY <1>1, <1>2, SlotShape DEF Executed
<1>3. CASE Post(p)
  BY <1>1, <1>3, PostKeeps
<1>4. CASE Acknowledged(p)
  <2>1. call[p].at = "sent" /\ Goto(p, "wait") /\ orders' = orders /\ held' = held
    BY <1>4 DEF Acknowledged
  <2> QED BY <1>1, <2>1, WaitKeeps
<1>5. CASE AnswerLost(p)
  <2>1. call[p].at = "sent" /\ Give(p, 0) /\ held' = held
    BY <1>5 DEF AnswerLost
  <2> QED BY <1>1, <2>1, GiveKeeps, DeskAssumption
<1>6. CASE Poll(p)
  <2>1. call[p].at = "wait" /\ Give(p, orders[call[p].slot].filled) /\ held' = held
    BY <1>6 DEF Poll
  <2> QED BY <1>1, <1>2, <2>1, GiveKeeps
<1>7. CASE CancelOrder(p)
  <2>1. /\ call[p].at = "wait" /\ Goto(p, "look") /\ held' = held
        /\ orders' = orders \/ orders' = [orders EXCEPT ![call[p].slot].status = "ended"]
    BY <1>7 DEF CancelOrder
  <2> QED BY <1>1, <2>1, WaitKeeps
<1>8. CASE LastLook(p)
  <2>1. /\ call[p].at = "look" /\ held' = held
        /\ Give(p, orders[call[p].slot].filled) \/ Give(p, 0)
    BY <1>8 DEF LastLook
  <2>2. CASE Give(p, 0)
    BY <1>1, <2>1, <2>2, GiveKeeps, DeskAssumption
  <2>3. CASE Give(p, orders[call[p].slot].filled)
    BY <1>1, <1>2, <2>1, <2>3, GiveKeeps
  <2> QED BY <2>1, <2>2, <2>3
<1> QED BY <1>3, <1>4, <1>5, <1>6, <1>7, <1>8 DEF PlaceOptionOrder

-----------------------------------------------------------------------------
(* A step of the broker, on the order o. *)

Over(x) == x.status \in {"filled", "ended"}

\* What becomes of the order, and of those that nobody waits for.
Traded(o) ==
  /\ call' = call /\ orders' \in [Slots -> Order \cup {NoOrder}]
  /\ orders[o].status \in {"transit", "working"}
  /\ \A s \in Slots \ {o} : \/ orders'[s] = orders[s]
                            \/ orders'[s] = NoOrder /\ Over(orders[s]) /\ ~Awaited(s, call)
  /\ \/ orders'[o] = NoOrder /\ ~Awaited(o, call)
     \/ /\ orders'[o] \in Order /\ Sound(orders'[o])
        /\ orders'[o].status # "transit"
        /\ orders'[o].contract = orders[o].contract /\ orders'[o].side = orders[o].side
        /\ orders'[o].qty = orders[o].qty
        /\ Over(orders'[o]) => Awaited(o, call)

\* Nothing is executed, or one contract.
Still(o) == held' = held /\ (orders'[o] # NoOrder => orders'[o].filled = orders[o].filled)
OneFilled(o) ==
  /\ Working(o)
  /\ held' = [held EXCEPT ![orders[o].contract] = IF orders[o].side = "buy" THEN @ + 1 ELSE @ - 1]
  /\ orders'[o] # orders[o]
  /\ orders'[o] # NoOrder => orders'[o].filled = orders[o].filled + 1

\* What is listed of the order o, once it has become x.
LEMMA ListedOrder ==
  ASSUME orders \in [Slots -> Order \cup {NoOrder}], NEW o \in Slots, NEW x \in Order,
         call' = call, orders' = Listed([orders EXCEPT ![o] = x], call), orders[o].status \in {"transit", "working"},
         x.status # "transit", Sound(x), x.contract = orders[o].contract, x.side = orders[o].side,
         x.qty = orders[o].qty
  PROVE  Traded(o) /\ (orders'[o] # NoOrder => orders'[o] = x)
<1> DEFINE os == [orders EXCEPT ![o] = x]
<1>1. os[o] = x /\ \A s \in Slots \ {o} : os[s] = orders[s]
  OBVIOUS
<1>2. \A s \in Slots : \/ orders'[s] = os[s] /\ (Over(os[s]) => Awaited(s, call))
                       \/ orders'[s] = NoOrder /\ Over(os[s]) /\ ~Awaited(s, call)
  BY DEF Listed, Over
<1>4. orders' \in [Slots -> Order \cup {NoOrder}]
  BY ListedType
<1> HIDE DEF os
<1>3. x # NoOrder
  BY OrderShape DEF Order, NoOrder
<1> QED BY <1>1, <1>2, <1>3, <1>4 DEF Traded

LEMMA TradedOrders ==
  ASSUME Orders, NEW o \in Slots, Traded(o), HeldBack', held' \in [Contracts -> Nat]
  PROVE  Orders'
<1>1. call \in [Procs -> Call \cup {Idle}] /\ orders \in [Slots -> Order \cup {NoOrder}] /\ call' = call
  BY DEF Orders, ExecutionTypeOK, Traded
<1>2. ExecutionTypeOK'
  BY <1>1, DeskAssumption DEF ExecutionTypeOK, Traded, Orders
<1>3. ASSUME NEW s \in Slots
      PROVE  Sound(orders'[s])
  BY DEF Orders, Traded, Sound, NoOrder
<1>4. ASSUME NEW p \in Procs
      PROVE  Knows(call'[p], orders')
  <2>1. Knows(call[p], orders)
    BY DEF Orders
  <2>2. ASSUME call[p] # Idle, call[p].slot # Nobody
        PROVE  LET x == orders'[call[p].slot]
               IN /\ x # NoOrder /\ x.contract = call[p].contract
                  /\ x.side = call[p].side /\ x.qty = call[p].qty
    <3>1. call[p].slot \in Slots /\ Awaited(call[p].slot, call)
      BY <1>1, <2>2, CallShape DEF Awaited
    <3>2. CASE call[p].slot = o
      <4>1. orders'[o] \in Order \cup {NoOrder} /\ orders'[o] # NoOrder
        BY <3>1, <3>2, OrderShape DEF Traded, Order, NoOrder
      <4> QED BY <2>1, <2>2, <3>1, <3>2, <4>1 DEF Traded, Knows
    <3>3. CASE call[p].slot # o
      BY <2>1, <2>2, <3>1, <3>3 DEF Traded, Knows
    <3> QED BY <3>2, <3>3
  <2> QED BY <1>1, <2>1, <2>2 DEF Knows
<1> QED BY <1>1, <1>2, <1>3, <1>4 DEF Orders

LEMMA ExpireKeeps ==
  ASSUME Orders, NEW o \in Slots, orders[o].status \in {"transit", "working"}, held' = held, call' = call,
         orders' = Listed([orders EXCEPT ![o].status = "ended"], call)
  PROVE  Orders' /\ Traded(o) /\ Still(o)
<1> DEFINE x == [orders[o] EXCEPT !.status = "ended"]
<1>1. orders \in [Slots -> Order \cup {NoOrder}]
  BY DEF Orders, ExecutionTypeOK
<1>2. orders[o] \in Order
  BY <1>1, OrderShape DEF NoOrder
<1>3. /\ x \in Order /\ x.status = "ended" /\ Sound(x) /\ x.contract = orders[o].contract
      /\ x.side = orders[o].side /\ x.qty = orders[o].qty /\ x.filled = orders[o].filled
  BY <1>2 DEF Order, Sound
<1>4. orders' = Listed([orders EXCEPT ![o] = x], call)
  BY <1>1
<1> HIDE DEF x
<1>5. Traded(o) /\ (orders'[o] # NoOrder => orders'[o] = x)
  BY <1>1, <1>3, <1>4, ListedOrder
<1>6. Still(o)
  BY <1>3, <1>5 DEF Still
<1>7. Calm
  <2>1. orders'[o].status # "working"
    BY <1>3, <1>5 DEF NoOrder
  <2>2. \A s \in Slots \ {o} : orders'[s] = orders[s] \/ orders'[s].status # "working"
    <3>1. NoOrder.status # "working"
      BY DEF NoOrder
    <3> QED BY <1>5, <3>1 DEF Traded
  <2> QED BY <2>1, <2>2 DEF Calm
<1>8. HeldBack'
  BY <1>7, CalmHolds
<1> QED BY <1>5, <1>6, <1>8, TradedOrders DEF Orders, ExecutionTypeOK

\* The request reaches the broker.
LEMMA ArriveKeeps ==
  ASSUME Orders, NEW o \in Slots, orders[o].status = "transit", held' = held, call' = call,
         orders[o].side = "sell" =>
           orders[o].qty + Reserved(orders[o].contract) <= held[orders[o].contract],
         orders' = [orders EXCEPT ![o].status = "working"]
  PROVE  Orders' /\ Traded(o) /\ Still(o)
<1> DEFINE x == orders'[o]
<1>1. orders \in [Slots -> Order \cup {NoOrder}] /\ held \in [Contracts -> Nat]
  BY DEF Orders, ExecutionTypeOK
<1>2. orders[o] \in Order /\ orders[o].filled = 0
  BY <1>1, OrderShape DEF NoOrder, Orders, Sound
<1>3. /\ x = [orders[o] EXCEPT !.status = "working"]
      /\ \A s \in Slots \ {o} : orders'[s] = orders[s]
  BY <1>1
<1>4. /\ x \in Order /\ x.status = "working" /\ x.contract = orders[o].contract
      /\ x.side = orders[o].side /\ x.qty = orders[o].qty /\ x.filled = 0
  BY <1>2, <1>3 DEF Order
<1>5. Sound(x) /\ ~Over(x)
  BY <1>4, DeskAssumption DEF Sound, Over, Order
<1>6. orders' \in [Slots -> Order \cup {NoOrder}]
  BY <1>1, <1>4
<1>7. Traded(o) /\ Still(o)
  BY <1>2, <1>3, <1>4, <1>5, <1>6 DEF Traded, Still
<1>8. ASSUME NEW c \in Contracts
      PROVE  LET U == Units(Slots, [s \in Slots |-> Unsold(s, c)])
             IN (IsFiniteSet(U) /\ Cardinality(U) <= held[c])'
  <2> DEFINE f == [s \in Slots |-> Unsold(s, c)]
             g == [s \in Slots |-> Unsold(s, c)']
  <2>1. \A s \in Slots : f[s] = Unsold(s, c) /\ g[s] = Unsold(s, c)' /\ Unsold(s, c) \in Nat
    BY UnsoldType
  <2>2. \A s \in Slots \ {o} : g[s] = f[s]
    BY <1>3, <2>1 DEF Unsold, Working
  <2>3. f[o] = 0
    BY <2>1 DEF Unsold, Working
  <2>4. g[o] = IF x.side = "sell" /\ x.contract = c THEN x.qty ELSE 0
    BY <1>4, <2>1, DeskAssumption DEF Unsold, Working, Order
  <2>5. x.qty \in Nat /\ held[c] \in Nat /\ held'[c] = held[c]
    BY <1>1, <1>4, DeskAssumption DEF Order
  <2>6. IsFiniteSet(Units(Slots, f)) /\ Cardinality(Units(Slots, f)) <= held[c]
    BY DEF Orders, HeldBack
  <2>7. x.side = "sell" /\ x.contract = c => x.qty + Cardinality(Units(Slots, f)) <= held[c]
    BY <1>4 DEF Reserved
  <2> HIDE DEF f, g
  <2>8. f[o] \in Nat /\ g[o] \in Nat /\ f[o] <= g[o]
    BY <2>3, <2>4, <2>5
  <2>9. /\ IsFiniteSet(Units(Slots, g))
        /\ Cardinality(Units(Slots, g)) = Cardinality(Units(Slots, f)) + (g[o] - f[o])
    BY <2>2, <2>6, <2>8, OneCountsMore
  <2>10. Cardinality(Units(Slots, f)) \in Nat
    BY <2>6, FS_CardinalityType
  <2>11. Cardinality(Units(Slots, g)) <= held[c]
    <3>1. CASE x.side = "sell" /\ x.contract = c
      BY <2>3, <2>4, <2>5, <2>7, <2>9, <2>10, <3>1
    <3>2. CASE ~(x.side = "sell" /\ x.contract = c)
      BY <2>3, <2>4, <2>5, <2>6, <2>9, <2>10, <3>2
    <3> QED BY <3>1, <3>2
  <2>12. IsFiniteSet(Units(Slots, g)) /\ Cardinality(Units(Slots, g)) <= held'[c]
    BY <2>5, <2>9, <2>11
  <2> QED BY <2>12 DEF g
<1>9. HeldBack'
  BY <1>8 DEF HeldBack
<1> QED BY <1>1, <1>7, <1>9, TradedOrders

\* One contract of a working order is executed.
LEMMA FillKeeps ==
  ASSUME Orders, NEW o \in Slots, Fill(o)
  PROVE  Orders' /\ Traded(o) /\ OneFilled(o)
<1> DEFINE n == orders[o].filled + 1
           c == orders[o].contract
           x == [orders[o] EXCEPT !.filled = n, !.status = IF n = orders[o].qty THEN "filled" ELSE "working"]
<1>1. orders \in [Slots -> Order \cup {NoOrder}] /\ held \in [Contracts -> Nat]
  BY DEF Orders, ExecutionTypeOK
<1>2. orders[o] \in Order /\ orders[o].status = "working" /\ c \in Contracts
  BY <1>1, OrderShape DEF NoOrder, Fill, Working
<1>3. /\ orders[o].qty \in Nat /\ orders[o].qty <= MaxQty /\ orders[o].filled \in Nat
      /\ orders[o].filled < orders[o].qty /\ n \in 0 .. MaxQty
  BY <1>2, DeskAssumption DEF Orders, Sound, Order
<1>4. /\ x \in Order /\ x.contract = c /\ x.side = orders[o].side /\ x.qty = orders[o].qty
      /\ x.filled = n /\ x.status = IF n = orders[o].qty THEN "filled" ELSE "working"
  BY <1>2, <1>3 DEF Order
<1>5. Sound(x) /\ x.status # "transit"
  BY <1>3, <1>4 DEF Sound
<1>6. /\ orders' = Listed([orders EXCEPT ![o] = x], call)
      /\ held' = [held EXCEPT ![c] = IF orders[o].side = "buy" THEN @ + 1 ELSE @ - 1]
      /\ call' = call
  BY <1>1 DEF Fill
<1> HIDE DEF x
<1>7. Traded(o) /\ (orders'[o] # NoOrder => orders'[o] = x)
  BY <1>1, <1>2, <1>4, <1>5, <1>6, ListedOrder
<1>8. orders'[o] # orders[o]
  <2>1. orders[o] # NoOrder
    BY <1>2, OrderShape DEF NoOrder
  <2>2. x.filled # orders[o].filled
    BY <1>3, <1>4
  <2> QED BY <1>7, <2>1, <2>2
<1>9. OneFilled(o)
  BY <1>2, <1>4, <1>6, <1>7, <1>8 DEF OneFilled, Working
<1>10. ASSUME NEW d \in Contracts
       PROVE  /\ held'[d] \in Nat
              /\ LET U == Units(Slots, [s \in Slots |-> Unsold(s, d)])
                 IN (IsFiniteSet(U) /\ Cardinality(U) <= held[d])'
  <2> DEFINE f == [s \in Slots |-> Unsold(s, d)]
             g == [s \in Slots |-> Unsold(s, d)']
  <2>1. \A s \in Slots : f[s] = Unsold(s, d) /\ g[s] = Unsold(s, d)' /\ Unsold(s, d) \in Nat
    BY UnsoldType
  <2>2. ASSUME NEW s \in Slots \ {o}
        PROVE  g[s] = f[s]
    <3>1. orders'[s] = orders[s] \/ (~Working(s) /\ ~Working(s)')
      <4>1. NoOrder.status # "working"
        BY DEF NoOrder
      <4>2. orders'[s] = orders[s] \/ (orders'[s] = NoOrder /\ Over(orders[s]))
        BY <1>7 DEF Traded
      <4>3. Over(orders[s]) => orders[s].status # "working"
        BY DEF Over
      <4> QED BY <4>1, <4>2, <4>3 DEF Working
    <3> QED BY <2>1, <3>1 DEF Unsold, Working
  <2>3. f[o] = IF orders[o].side = "sell" /\ c = d THEN orders[o].qty - orders[o].filled ELSE 0
    BY <1>2, <2>1 DEF Unsold, Working
  <2>4. g[o] = IF orders[o].side = "sell" /\ c = d THEN orders[o].qty - n ELSE 0
    <3>1. CASE n = orders[o].qty
      <4>1. ~Working(o)'
        BY <1>4, <1>7, <3>1 DEF Working, NoOrder
      <4> QED BY <1>3, <2>1, <3>1, <4>1 DEF Unsold, Working
    <3>2. CASE n # orders[o].qty
      <4>1. x.status = "working" /\ ~Over(x) /\ x # NoOrder
        BY <1>4, <3>2 DEF Over, NoOrder
      <4>2. orders'[o] = x
        <5>1. Listed([orders EXCEPT ![o] = x], call)[o] = x
          BY <1>1, <4>1 DEF Listed, Over
        <5> QED BY <1>6, <5>1
      <4> QED BY <1>4, <2>1, <4>1, <4>2 DEF Unsold, Working
    <3> QED BY <3>1, <3>2
  <2>5. IsFiniteSet(Units(Slots, f)) /\ Cardinality(Units(Slots, f)) <= held[d]
    BY DEF Orders, HeldBack
  <2>6. Cardinality(Units(Slots, f)) \in Nat /\ held[d] \in Nat
    BY <1>1, <2>5, FS_CardinalityType
  <2> DEFINE sells == orders[o].side = "sell" /\ c = d
  <2>7. f[o] \in Nat /\ g[o] \in Nat /\ f[o] - g[o] = IF sells THEN 1 ELSE 0
    BY <1>3, <2>3, <2>4
  <2>8. held'[d] = IF sells THEN held[d] - 1 ELSE IF c = d THEN held[d] + 1 ELSE held[d]
    <3>1. orders[o].side \in {"buy", "sell"}
      BY <1>2 DEF Order, Sides
    <3> QED BY <1>1, <1>6, <3>1
  <2> HIDE DEF f, g, sells
  <2>9. \A s \in Slots : f[s] \in Int /\ g[s] \in Int /\ g[s] <= f[s]
    BY <2>1, <2>2, <2>7
  <2>10. IsFiniteSet(Units(Slots, g)) /\ Cardinality(Units(Slots, g)) \in Nat
    BY <2>5, <2>9, NoneCountsMore
  <2>11. g[o] <= f[o] /\ \A s \in Slots : s # o => f[s] = g[s]
    BY <2>2, <2>7
  <2>12. Cardinality(Units(Slots, f)) = Cardinality(Units(Slots, g)) + (f[o] - g[o])
    BY <2>7, <2>10, <2>11, OneCountsMore
  <2>13. held'[d] \in Nat /\ Cardinality(Units(Slots, g)) <= held'[d]
    BY <2>5, <2>6, <2>7, <2>8, <2>10, <2>12
  <2>14. held'[d] \in Nat /\ IsFiniteSet(Units(Slots, g)) /\ Cardinality(Units(Slots, g)) <= held'[d]
    BY <2>10, <2>13
  <2> QED BY <2>14 DEF g
<1>11. HeldBack'
  BY <1>10 DEF HeldBack
<1>12. held' \in [Contracts -> Nat]
  BY <1>1, <1>6, <1>10
<1> QED BY <1>7, <1>9, <1>11, <1>12, TradedOrders

LEMMA BrokerKeeps ==
  ASSUME Orders, Broker
  PROVE  Orders' /\ \E o \in Slots : Traded(o) /\ (Still(o) \/ OneFilled(o))
<1>1. PICK o \in Slots : Arrive(o) \/ Fill(o) \/ Expire(o)
  BY DEF Broker
<1>2. CASE Arrive(o)
  BY <1>2, ArriveKeeps, ExpireKeeps DEF Arrive
<1>3. CASE Fill(o)
  BY <1>3, FillKeeps
<1>4. CASE Expire(o)
  BY <1>4, ExpireKeeps DEF Expire, Working
<1> QED BY <1>1, <1>2, <1>3, <1>4

-----------------------------------------------------------------------------
(* What the threads sold, and the room it leaves for open rows. *)

LEMMA ExecutedType ==
  ASSUME NEW k \in Call, NEW os \in [Slots -> Order \cup {NoOrder}], Knows(k, os)
  PROVE  Executed(k, os) \in Nat
<1>1. k # Idle /\ k.filled \in 0 .. MaxQty /\ k.slot \in Slots \cup {Nobody}
  BY CallShape DEF Call, Idle
<1>2. CASE k.slot = Nobody
  BY <1>1, <1>2, DeskAssumption DEF Executed
<1>3. CASE k.slot # Nobody
  <2>1. os[k.slot] \in Order \cup {NoOrder} /\ os[k.slot] # NoOrder
    BY <1>1, <1>3 DEF Knows
  <2>2. os[k.slot].filled \in 0 .. MaxQty
    BY <2>1, OrderShape
  <2> QED BY <1>3, <2>2, DeskAssumption DEF Executed
<1> QED BY <1>2, <1>3

LEMMA RoomType ==
  ASSUME Orders, NEW c \in Contracts
  PROVE  held[c] \in Nat /\ Sold(Loop, c) \in Nat /\ Sold(Api, c) \in Nat /\ Room(c) \in Nat
<1>1. ASSUME NEW p \in Procs
      PROVE  Sold(p, c) \in Nat
  <2>1. call[p] # Idle => call[p] \in Call /\ Knows(call[p], orders)
    BY CallShape DEF Orders, ExecutionTypeOK
  <2>2. call[p] # Idle => Executed(call[p], orders) \in Nat
    BY <2>1, ExecutedType DEF Orders, ExecutionTypeOK
  <2> QED BY <2>2 DEF Sold, Selling
<1>2. held[c] \in Nat
  BY DEF Orders, ExecutionTypeOK
<1> QED BY <1>1, <1>2, DeskAssumption DEF Room

LEMMA RoomTypeNext ==
  ASSUME Orders', NEW c \in Contracts
  PROVE  held'[c] \in Nat /\ Sold(Loop, c)' \in Nat /\ Sold(Api, c)' \in Nat /\ Room(c)' \in Nat
<1>1. ASSUME NEW p \in Procs
      PROVE  Sold(p, c)' \in Nat
  <2>1. call'[p] # Idle => call'[p] \in Call /\ Knows(call'[p], orders')
    BY CallShape DEF Orders, ExecutionTypeOK
  <2>2. call'[p] # Idle => Executed(call'[p], orders') \in Nat
    BY <2>1, ExecutedType DEF Orders, ExecutionTypeOK
  <2> QED BY <2>2 DEF Sold, Selling
<1>2. held'[c] \in Nat
  BY DEF Orders, ExecutionTypeOK
<1> QED BY <1>1, <1>2, DeskAssumption DEF Room

\* Rows keep their room, and an entry does not outgrow it.
RoomKept ==
  /\ missed \subseteq missed'
  /\ \A c \in Contracts : c \in missed' \/ Room(c) <= Room(c)'
  /\ \A c \in Contracts :
       call[Loop] # Idle /\ call[Loop].side = "buy" /\ call[Loop].contract = c =>
         c \in missed' \/ Executed(call'[Loop], orders') - Executed(call[Loop], orders) <= Room(c)' - Room(c)

\* A thread that is told of less than it sold is noted in missed.
LEMMA PlacementRoom ==
  ASSUME Orders, Orders', NEW p \in Procs, Calm, OthersKnow(p), GoesOn(p),
         missed' = IF /\ Selling(p) /\ call'[p].at = "done" /\ call[p].slot # Nobody
                      /\ call'[p].filled < orders[call[p].slot].filled
                   THEN missed \cup {call[p].contract} ELSE missed
  PROVE  RoomKept
<1>1. ASSUME NEW q \in Procs \ {p}, NEW c \in Contracts
      PROVE  /\ Sold(q, c)' = Sold(q, c)
             /\ call[q] # Idle => Executed(call'[q], orders') = Executed(call[q], orders)
  BY DEF OthersKnow, Sold, Selling, Executed
<1>2. ASSUME NEW c \in Contracts, c \notin missed'
      PROVE  Sold(p, c)' = Sold(p, c)
  BY <1>2 DEF GoesOn, Sold, Selling
<1>3. call[p] \in Call /\ Knows(call[p], orders) /\ call'[p] \in Call /\ Knows(call'[p], orders')
  BY CallShape DEF GoesOn, Orders, ExecutionTypeOK
<1>4. Executed(call[p], orders) \in Nat /\ Executed(call'[p], orders') \in Nat
  BY <1>3, ExecutedType DEF Orders, ExecutionTypeOK
<1>5. Executed(call'[p], orders') <= Executed(call[p], orders)
  BY <1>4 DEF GoesOn
<1>6. ASSUME NEW c \in Contracts, c \notin missed'
      PROVE  Room(c)' = Room(c)
  <2>1. Sold(Loop, c)' = Sold(Loop, c) /\ Sold(Api, c)' = Sold(Api, c) /\ held' = held
    BY <1>1, <1>2, <1>6, DeskAssumption DEF Calm
  <2> QED BY <2>1 DEF Room
<1>7. ASSUME NEW c \in Contracts, c \notin missed', call[Loop] # Idle
      PROVE  Executed(call'[Loop], orders') - Executed(call[Loop], orders) <= Room(c)' - Room(c)
  <2>1. Room(c)' = Room(c) /\ Room(c) \in Nat
    BY <1>6, <1>7, RoomType
  <2>2. /\ Executed(call[Loop], orders) \in Nat
        /\ Executed(call'[Loop], orders') <= Executed(call[Loop], orders)
        /\ Executed(call'[Loop], orders') \in Nat
    <3>1. CASE p = Loop
      BY <1>4, <1>5, <3>1
    <3>2. CASE p # Loop
      <4>1. Executed(call'[Loop], orders') = Executed(call[Loop], orders)
        BY <1>1, <1>7, <3>2, DeskAssumption
      <4>2. call[Loop] \in Call /\ Knows(call[Loop], orders)
        BY <1>7, CallShape, DeskAssumption DEF Orders, ExecutionTypeOK
      <4>3. Executed(call[Loop], orders) \in Nat
        BY <4>2, ExecutedType DEF Orders, ExecutionTypeOK
      <4> QED BY <4>1, <4>3
    <3> QED BY <3>1, <3>2
  <2> QED BY <2>1, <2>2
<1>8. ASSUME NEW c \in Contracts, c \notin missed'
      PROVE  Room(c) <= Room(c)'
  BY <1>6, <1>8, RoomType
<1>9. missed \subseteq missed'
  OBVIOUS
<1> QED BY <1>7, <1>8, <1>9 DEF RoomKept

\* A contract sold leaves the account for what a thread sold, or is noted in missed.
LEMMA BrokerRoom ==
  ASSUME Orders, Orders', BrokerStep
  PROVE  RoomKept
<1>1. PICK o \in Slots : Traded(o) /\ (Still(o) \/ OneFilled(o))
  BY BrokerKeeps DEF BrokerStep
<1> DEFINE d == orders[o].contract
           more(p) == IF OneFilled(o) /\ ~Still(o) /\ call[p].slot = o THEN 1 ELSE 0
<1>2. orders \in [Slots -> Order \cup {NoOrder}] /\ call' = call /\ held \in [Contracts -> Nat]
  BY <1>1 DEF Orders, ExecutionTypeOK, Traded
<1>3. orders[o] \in Order /\ d \in Contracts /\ orders[o].side \in {"buy", "sell"}
  BY <1>1, <1>2, OrderShape DEF Traded, NoOrder, Order, Sides
<1>4. ASSUME NEW p \in Procs, call[p] # Idle
      PROVE  /\ Executed(call[p], orders') = Executed(call[p], orders) + more(p)
             /\ Executed(call[p], orders) \in Nat
             /\ call[p].slot = o => call[p].contract = d /\ call[p].side = orders[o].side
  <2>1. call[p] \in Call /\ Knows(call[p], orders)
    BY <1>4, CallShape DEF Orders, ExecutionTypeOK
  <2>2. Executed(call[p], orders) \in Nat
    BY <1>2, <2>1, ExecutedType
  <2>3. call[p].slot \in Slots \cup {Nobody}
    BY <2>1, CallShape DEF Call, Idle
  <2>4. CASE call[p].slot = Nobody
    BY <2>2, <2>4, DeskAssumption DEF Executed
  <2>5. CASE call[p].slot \in Slots \ {o}
    <3>1. orders'[call[p].slot] = orders[call[p].slot]
      BY <1>1, <1>4, <2>5 DEF Traded, Awaited
    <3> QED BY <2>2, <2>5, <3>1, DeskAssumption DEF Executed
  <2>6. CASE call[p].slot = o
    <3>1. call[p].slot # Nobody /\ call[p].contract = d /\ call[p].side = orders[o].side
      BY <1>4, <2>1, <2>6, DeskAssumption DEF Knows
    <3>2. orders'[o] # NoOrder
      <4>1. Awaited(o, call)
        BY <1>4, <2>6 DEF Awaited
      <4>2. orders'[o] \in Order
        BY <1>1, <4>1 DEF Traded
      <4> QED BY <4>2 DEF Order, NoOrder
    <3>3. orders[o].filled \in Nat
      BY <1>3, DeskAssumption DEF Order
    <3>4. orders'[o].filled = orders[o].filled + more(p)
      BY <1>1, <2>6, <3>2, <3>3 DEF Still, OneFilled
    <3> QED BY <2>2, <2>6, <3>1, <3>4 DEF Executed
  <2> QED BY <2>3, <2>4, <2>5, <2>6
<1>5. ASSUME NEW p \in Procs, NEW c \in Contracts
      PROVE  Sold(p, c)' = Sold(p, c) + (IF Selling(p) /\ call[p].contract = c THEN more(p) ELSE 0)
  <2>1. CASE Selling(p) /\ call[p].contract = c
    BY <1>2, <1>4, <2>1 DEF Sold, Selling
  <2>2. CASE ~(Selling(p) /\ call[p].contract = c)
    BY <1>2, <2>2 DEF Sold, Selling
  <2> QED BY <2>1, <2>2
<1>6. \A c \in Contracts : /\ held[c] \in Nat /\ Sold(Loop, c) \in Nat /\ Sold(Api, c) \in Nat
                           /\ held'[c] \in Nat
  BY RoomType, RoomTypeNext
<1>7. Loop \in Procs /\ Api \in Procs /\ Loop # Api
  BY DeskAssumption
<1>8. missed' = missed \cup {orders[x].contract : x \in {y \in Slots : Untold(y)}}
  BY DEF BrokerStep
<1>9. CASE Still(o)
  <2>1. \A p \in Procs : more(p) = 0
    BY <1>9
  <2>2. \A c \in Contracts : Room(c)' = Room(c) /\ Room(c) \in Nat
    <3> SUFFICES ASSUME NEW c \in Contracts
                 PROVE  Room(c)' = Room(c) /\ Room(c) \in Nat
      OBVIOUS
    <3>1. Sold(Loop, c)' = Sold(Loop, c) /\ Sold(Api, c)' = Sold(Api, c)
      BY <1>5, <1>6, <1>7, <2>1
    <3> QED BY <1>6, <1>9, <3>1 DEF Still, Room
  <2>3. call[Loop] # Idle => /\ Executed(call[Loop], orders') = Executed(call[Loop], orders)
                             /\ Executed(call[Loop], orders) \in Nat
    BY <1>4, <1>7, <2>1
  <2>4. ASSUME NEW c \in Contracts, call[Loop] # Idle
        PROVE  Executed(call'[Loop], orders') - Executed(call[Loop], orders) <= Room(c)' - Room(c)
    BY <1>2, <2>2, <2>3, <2>4
  <2> QED BY <1>8, <2>2, <2>4 DEF RoomKept
<1>10. CASE OneFilled(o) /\ ~Still(o) /\ orders[o].side = "buy"
  <2>1. \A c \in Contracts : held'[c] = IF c = d THEN held[c] + 1 ELSE held[c]
    BY <1>2, <1>3, <1>10 DEF OneFilled
  <2>2. ASSUME NEW p \in Procs, NEW c \in Contracts
        PROVE  Sold(p, c)' = Sold(p, c)
    <3>1. Selling(p) => more(p) = 0
      BY <1>4, <1>10 DEF Selling
    <3>2. Sold(p, c) \in Nat
      BY <1>6, DeskAssumption
    <3> QED BY <1>5, <3>1, <3>2
  <2>3. ASSUME NEW c \in Contracts
        PROVE  Room(c) \in Nat /\ Room(c)' = IF c = d THEN Room(c) + 1 ELSE Room(c)
    BY <1>6, <1>7, <2>1, <2>2 DEF Room
  <2>4. ASSUME NEW c \in Contracts, call[Loop] # Idle, call[Loop].contract = c
        PROVE  Executed(call'[Loop], orders') - Executed(call[Loop], orders) <= Room(c)' - Room(c)
    <3>1. more(Loop) = 1 => c = d
      BY <1>4, <1>7, <2>4
    <3>2. more(Loop) \in {0, 1}
      OBVIOUS
    <3> HIDE DEF more
    <3>3. Executed(call'[Loop], orders') = Executed(call[Loop], orders) + more(Loop)
      BY <1>2, <1>4, <1>7, <2>4
    <3>4. Executed(call[Loop], orders) \in Nat
      BY <1>4, <1>7, <2>4
    <3> QED BY <2>3, <3>1, <3>2, <3>3, <3>4
  <2> QED BY <1>8, <2>3, <2>4 DEF RoomKept
<1>11. CASE OneFilled(o) /\ ~Still(o) /\ orders[o].side = "sell"
  <2>1. \A c \in Contracts : held'[c] = IF c = d THEN held[c] - 1 ELSE held[c]
    BY <1>2, <1>3, <1>11 DEF OneFilled
  <2>2. ASSUME NEW c \in Contracts, c \notin missed'
        PROVE  Room(c)' = Room(c) /\ Room(c) \in Nat
    <3>1. CASE c # d
      <4>1. \A p \in Procs : Selling(p) /\ call[p].contract = c => more(p) = 0
        BY <1>4, <3>1 DEF Selling
      <4>2. Sold(Loop, c)' = Sold(Loop, c) /\ Sold(Api, c)' = Sold(Api, c)
        BY <1>5, <1>6, <1>7, <4>1
      <4> QED BY <1>6, <2>1, <3>1, <4>2 DEF Room
    <3>2. CASE c = d
      <4>1. ~Untold(o)
        BY <1>8, <2>2, <3>2
      <4>2. held'[d] < held[d]
        BY <1>3, <1>6, <2>1
      <4>3. Awaited(o, call)
        BY <1>11, <4>1, <4>2 DEF Untold, OneFilled
      <4>4. PICK p \in Procs : call[p] # Idle /\ call[p].slot = o
        BY <4>3 DEF Awaited
      <4>5. o # Nobody
        BY DeskAssumption
      <4>6. \A q \in Procs \ {p} : call[q] # Idle => call[q].slot # o
        BY <4>4, <4>5 DEF Orders
      <4>7. Selling(p) /\ call[p].contract = c /\ more(p) = 1
        BY <1>4, <1>11, <3>2, <4>4 DEF Selling
      <4>8. Sold(p, c)' = Sold(p, c) + 1
        BY <1>5, <4>7
      <4>9. \A q \in Procs \ {p} : Selling(q) => more(q) = 0
        BY <4>6 DEF Selling
      <4>10. \A q \in Procs \ {p} : Sold(q, c)' = Sold(q, c)
        BY <1>5, <1>6, <4>9, DeskAssumption
      <4>11. held'[c] = held[c] - 1
        BY <2>1, <3>2
      <4>12. CASE p = Loop
        BY <1>6, <1>7, <4>8, <4>10, <4>11, <4>12 DEF Room
      <4>13. CASE p = Api
        BY <1>6, <1>7, <4>8, <4>10, <4>11, <4>13 DEF Room
      <4> QED BY <4>12, <4>13, DeskAssumption
    <3> QED BY <3>1, <3>2
  <2>3. ASSUME NEW c \in Contracts, c \notin missed', call[Loop] # Idle, call[Loop].side = "buy"
        PROVE  Executed(call'[Loop], orders') - Executed(call[Loop], orders) <= Room(c)' - Room(c)
    <3>1. more(Loop) = 0
      BY <1>4, <1>7, <1>11, <2>3
    <3> HIDE DEF more
    <3>2. Executed(call'[Loop], orders') = Executed(call[Loop], orders) + more(Loop)
      BY <1>2, <1>4, <1>7, <2>3
    <3>3. Executed(call[Loop], orders) \in Nat
      BY <1>4, <1>7, <2>3
    <3> QED BY <2>2, <2>3, <3>1, <3>2, <3>3
  <2>4. \A c \in Contracts : c \notin missed' => Room(c) <= Room(c)'
    BY <2>2
  <2> QED BY <1>8, <2>3, <2>4 DEF RoomKept
<1> QED BY <1>1, <1>3, <1>9, <1>10, <1>11

-----------------------------------------------------------------------------
(* What the program is exposed to. *)

LEMMA NoMore ==
  ASSUME NEW S, NEW T, IsFiniteSet(T), S \subseteq T, Cardinality(T) <= MaxPositions
  PROVE  Cardinality(S) <= MaxPositions
<1>1. IsFiniteSet(S) /\ Cardinality(S) <= Cardinality(T)
  BY FS_Subset
<1>2. Cardinality(S) \in Nat /\ Cardinality(T) \in Nat
  BY <1>1, FS_CardinalityType
<1> QED BY <1>1, <1>2, DeskAssumption

LEMMA ExposedType ==
  ASSUME Orders
  PROVE  /\ Exposed \subseteq Contracts
         /\ IsFiniteSet(Exposed \ hidden)
         /\ \A c : IsFiniteSet((Exposed \ hidden) \cup {c})
<1>1. ASSUME NEW o \in Slots, Working(o)
      PROVE  orders[o].contract \in Contracts
  <2>1. orders[o] \in Order \cup {NoOrder}
    BY DEF Orders, ExecutionTypeOK
  <2> QED BY <1>1, <2>1, OrderShape DEF Working
<1>2. Exposed \subseteq Contracts
  BY <1>1 DEF Exposed, Positions, OpenOrders
<1>3. IsFiniteSet(Exposed \ hidden)
  <2>1. Exposed \ hidden \in SUBSET Contracts
    BY <1>2
  <2> QED BY <2>1, FS_Subset, DeskAssumption
<1>4. \A c : IsFiniteSet((Exposed \ hidden) \cup {c})
  BY <1>3, FS_AddElement
<1> QED BY <1>2, <1>3, <1>4

\* A step that exposes the program to nothing it was not exposed to.
LEMMA CapacityAfter ==
  ASSUME Orders, Capacity,
         \/ Exposed' \ hidden' \subseteq Exposed \ hidden
         \/ /\ at = "buy"
            /\ Exposed' \ hidden' \subseteq (Exposed \ hidden) \cup {call[Loop].contract},
         at' = "capacity" => \A c \in Positions' \ hidden' : seen'[c] > 0 \/ Buying(c)',
         at' = "buy" => at = "buy" /\ call'[Loop].contract = call[Loop].contract
  PROVE  Capacity'
<1> DEFINE E == Exposed \ hidden
           c == call[Loop].contract
<1>1. IsFiniteSet(E) /\ IsFiniteSet(E \cup {c})
  BY ExposedType
<1>2. Cardinality(E) <= MaxPositions /\ (at = "buy" => Cardinality(E \cup {c}) <= MaxPositions)
  BY DEF Capacity, CapacityKept
<1>3. E' \subseteq E \/ (at = "buy" /\ E' \subseteq E \cup {c})
  OBVIOUS
<1>4. at' = "buy" => at = "buy" /\ c' = c
  OBVIOUS
<1> HIDE DEF E, c
<1>5. Cardinality(E') <= MaxPositions
  BY <1>1, <1>2, <1>3, NoMore
<1>6. ASSUME at' = "buy"
      PROVE  Cardinality((E \cup {c})') <= MaxPositions
  <2>1. (E \cup {c})' \subseteq E \cup {c}
    BY <1>3, <1>4, <1>6
  <2> QED BY <1>1, <1>2, <1>4, <1>6, <2>1, NoMore
<1>7. CapacityKept'
  BY <1>5 DEF CapacityKept, E
<1>8. at' = "buy" => (Cardinality((Exposed \ hidden) \cup {call[Loop].contract}) <= MaxPositions)'
  BY <1>6 DEF E, c
<1> QED BY <1>7, <1>8 DEF Capacity

\* A buy that is awaited is the entry's.
LEMMA AwaitedBuy ==
  ASSUME Orders, Places, NEW o \in Slots, Awaited(o, call), orders[o].side = "buy"
  PROVE  at = "buy" /\ orders[o].contract = call[Loop].contract
<1>1. PICK p \in Procs : call[p] # Idle /\ call[p].slot = o
  BY DEF Awaited
<1>2. call[p].side = "buy" /\ call[p].contract = orders[o].contract
  BY <1>1, DeskAssumption DEF Orders, Knows
<1>3. p = Loop
  BY <1>1, <1>2, DeskAssumption DEF Places, ApiPlace
<1> QED BY <1>1, <1>2, <1>3 DEF Places, LoopPlace

LEMMA BrokerCapacity ==
  ASSUME Orders, Orders', Places, Capacity, seen \in [Contracts -> Nat], BrokerStep
  PROVE  Capacity'
<1>1. PICK o \in Slots : Traded(o) /\ (Still(o) \/ OneFilled(o))
  BY BrokerKeeps DEF BrokerStep
<1> DEFINE d == orders[o].contract
<1>2. orders \in [Slots -> Order \cup {NoOrder}] /\ call' = call /\ held \in [Contracts -> Nat]
  BY <1>1 DEF Orders, ExecutionTypeOK, Traded
<1>3. orders[o] \in Order /\ d \in Contracts /\ orders[o].side \in {"buy", "sell"}
  BY <1>1, <1>2, OrderShape DEF Traded, NoOrder, Order, Sides
<1>4. /\ at' = at /\ seen' = seen
      /\ hidden' = (hidden \cup {orders[x].contract : x \in {y \in Slots : Unseen(y)}}) \cap Exposed'
  BY DEF BrokerStep
<1>5. NoOrder.status = "none"
  BY DEF NoOrder
<1>6. \A s \in Slots \ {o} : Working(s) \/ Working(s)' => orders'[s] = orders[s]
  BY <1>1, <1>5 DEF Traded, Over, Working
<1>7. ASSUME NEW c \in Contracts, held'[c] > 0, held[c] = 0
      PROVE  Working(o) /\ orders[o].side = "buy" /\ c = d
  <2>1. OneFilled(o)
    BY <1>1, <1>7 DEF Still
  <2>2. held'[c] = IF c = d THEN (IF orders[o].side = "buy" THEN held[c] + 1 ELSE held[c] - 1) ELSE held[c]
    BY <1>2, <1>3, <2>1 DEF OneFilled
  <2> QED BY <1>3, <1>7, <2>1, <2>2 DEF OneFilled
<1>8. Exposed' \subseteq Contracts
  <2>1. \A s \in Slots : Working(s)' => Working(s) \/ s = o
    BY <1>6 DEF Working
  <2>2. \A s \in Slots : Working(s)' => orders'[s].contract \in Contracts
    <3> SUFFICES ASSUME NEW s \in Slots, Working(s)'
                 PROVE  orders'[s].contract \in Contracts
      OBVIOUS
    <3>1. orders'[s] \in Order \cup {NoOrder}
      BY DEF Orders, ExecutionTypeOK
    <3> QED BY <3>1, OrderShape DEF Working
  <2> QED BY <2>2 DEF Exposed, Positions, OpenOrders
<1>9. ASSUME NEW c \in Exposed', c \notin Exposed
      PROVE  orders[o].status = "transit" /\ orders'[o].status = "working" /\ orders[o].side = "buy" /\ c = d
  <2>1. c \in Contracts
    BY <1>8
  <2>2. ~(held'[c] > 0)
    <3>1. CASE held'[c] > 0 /\ held[c] = 0
      <4>1. Working(o) /\ orders[o].side = "buy" /\ c = d
        BY <1>7, <2>1, <3>1
      <4> QED BY <1>9, <4>1 DEF Exposed, OpenOrders
    <3>2. CASE held[c] # 0
      <4>1. held[c] > 0
        BY <1>2, <2>1, <3>2
      <4> QED BY <1>9, <2>1, <4>1 DEF Exposed, Positions
    <3> QED BY <3>1, <3>2
  <2>3. PICK s \in Slots : Working(s)' /\ orders'[s].side = "buy" /\ c = orders'[s].contract
    BY <1>9, <2>2 DEF Exposed, Positions, OpenOrders
  <2>4. s = o
    BY <1>6, <1>9, <2>3 DEF Exposed, OpenOrders, Working
  <2>5. orders'[o].status = "working" /\ orders[o].side = "buy" /\ c = d
    BY <1>1, <1>5, <2>3, <2>4 DEF Traded, Working
  <2>6. orders[o].status # "working"
    BY <1>9, <2>5 DEF Exposed, OpenOrders, Working
  <2> QED BY <1>1, <2>5, <2>6 DEF Traded
<1>10. ASSUME NEW c \in Exposed' \ hidden'
       PROVE  c \in Exposed \ hidden \/ (at = "buy" /\ c = call[Loop].contract)
  <2>1. c \notin hidden
    BY <1>4, <1>10
  <2>2. CASE c \notin Exposed
    <3>1. /\ orders[o].status = "transit" /\ orders'[o].status = "working"
          /\ orders[o].side = "buy" /\ c = d
      BY <1>9, <1>10, <2>2
    <3>2. orders[o] # NoOrder
      BY <1>5, <3>1
    <3>3. CASE Awaited(o, call)
      BY <3>1, <3>3, AwaitedBuy
    <3>4. CASE ~Awaited(o, call)
      <4>1. Unseen(o)
        BY <3>1, <3>2, <3>4 DEF Unseen
      <4> QED BY <1>4, <1>10, <3>1, <4>1
    <3> QED BY <3>3, <3>4
  <2> QED BY <2>1, <2>2
<1>11. ASSUME at = "capacity", NEW c \in Positions' \ hidden'
       PROVE  seen[c] > 0 \/ Buying(c)'
  <2>1. c \in Contracts /\ c \in Exposed' /\ held'[c] > 0
    BY <1>11 DEF Positions, Exposed
  <2>2. c \notin hidden
    BY <1>4, <1>11, <2>1
  <2>3. seen[c] > 0 \/ Buying(c)
    <3>1. CASE held[c] > 0
      BY <1>11, <2>1, <2>2, <3>1 DEF Capacity, Positions
    <3>2. CASE ~(held[c] > 0)
      <4>1. held[c] = 0
        BY <1>2, <2>1, <3>2
      <4> QED BY <1>7, <2>1, <4>1 DEF Buying
    <3> QED BY <3>1, <3>2
  <2>4. ASSUME ~(seen[c] > 0)
        PROVE  Buying(c)'
    <3>1. PICK s \in Slots : Working(s) /\ orders[s].side = "buy" /\ orders[s].contract = c
      BY <2>3, <2>4 DEF Buying
    <3>2. CASE s # o
      <4>1. orders'[s] = orders[s]
        BY <1>6, <3>1, <3>2
      <4> QED BY <3>1, <4>1 DEF Buying, Working
    <3>3. CASE s = o
      <4>1. ~Awaited(o, call)
        BY <1>11, <3>1, <3>3, AwaitedBuy
      <4>2. orders[o] # NoOrder
        BY <1>5, <3>1, <3>3 DEF Working
      <4>3. seen[c] = 0 => orders'[o] # NoOrder
        BY <1>4, <1>11, <2>1, <3>1, <3>3, <4>2 DEF Unseen
      <4>4. CASE orders'[o] # NoOrder
        <5>1. /\ orders'[o].status = "working" /\ orders'[o].side = "buy"
              /\ orders'[o].contract = c
          BY <1>1, <3>1, <3>3, <4>1, <4>4 DEF Traded, Order, Over
        <5> QED BY <5>1 DEF Buying, Working
      <4>5. seen[c] \in Nat
        BY <2>1
      <4> QED BY <2>4, <4>3, <4>4, <4>5
    <3> QED BY <3>2, <3>3
  <2> QED BY <2>4
<1>12. \/ Exposed' \ hidden' \subseteq Exposed \ hidden
       \/ /\ at = "buy"
          /\ Exposed' \ hidden' \subseteq (Exposed \ hidden) \cup {call[Loop].contract}
  BY <1>10
<1> QED BY <1>2, <1>4, <1>11, <1>12, CapacityAfter

-----------------------------------------------------------------------------
(* What a step of the desk does to the market: nothing, *)

LEMMA MarketSame ==
  ASSUME Orders, orders' = orders, held' = held, call' = call
  PROVE  /\ Orders' /\ Exposed' = Exposed
         /\ \A c \in Contracts : Room(c)' = Room(c) /\ Sold(Api, c)' = Sold(Api, c)
         /\ \A c : Buying(c)' = Buying(c)
<1>1. \A o \in Slots, c \in Contracts : Unsold(o, c)' = Unsold(o, c)
  BY DEF Unsold, Working
<1>2. HeldBack'
  <2>1. Calm
    BY DEF Calm
  <2> QED BY <2>1, CalmHolds
<1>3. Orders'
  BY <1>2 DEF Orders, ExecutionTypeOK
<1>4. Exposed' = Exposed /\ \A c : Buying(c)' = Buying(c)
  BY DEF Exposed, Positions, OpenOrders, Working, Buying
<1>5. \A c \in Contracts : Room(c)' = Room(c) /\ Sold(Api, c)' = Sold(Api, c)
  BY DEF Room, Sold, Selling, Executed
<1> QED BY <1>3, <1>4, <1>5

\* the start of a placement,
LEMMA PlaceKeeps ==
  ASSUME Orders, NEW p \in Procs, NEW c \in Contracts, NEW s \in Sides, NEW q \in 1 .. MaxQty,
         call[p] = Idle, Place(p, c, s, q), orders' = orders, held' = held
  PROVE  /\ Orders' /\ Exposed' = Exposed
         /\ \A d \in Contracts : Room(d)' = Room(d)
         /\ \A d : Buying(d)' = Buying(d)
         /\ call'[p] = Placing(c, s, q) /\ Executed(call'[p], orders') = 0
         /\ \A r \in Procs \ {p} : call'[r] = call[r]
<1> DEFINE k == Placing(c, s, q)
<1>1. call \in [Procs -> Call \cup {Idle}] /\ orders \in [Slots -> Order \cup {NoOrder}]
  BY DEF Orders, ExecutionTypeOK
<1>2. call'[p] = k /\ \A r \in Procs \ {p} : call'[r] = call[r]
  BY <1>1 DEF Place
<1>3. /\ k \in Call /\ k # Idle /\ k.at = "post" /\ k.slot = Nobody /\ k.filled = 0
  BY PlacingShape
<1> HIDE DEF k
<1>4. call' \in [Procs -> Call \cup {Idle}]
  BY <1>1, <1>2, <1>3 DEF Place, k
<1>5. Calm
  BY DEF Calm
<1>6. OthersKnow(p)
  BY <1>2 DEF OthersKnow
<1>7. Knows(call'[p], orders')
  BY <1>2, <1>3 DEF Knows
<1>8. Orders'
  BY <1>1, <1>2, <1>3, <1>4, <1>5, <1>6, <1>7, OrdersAfter DEF Orders
<1>9. Executed(call'[p], orders') = 0
  BY <1>2, <1>3 DEF Executed
<1>10. Exposed' = Exposed /\ \A d : Buying(d)' = Buying(d)
  BY DEF Exposed, Positions, OpenOrders, Working, Buying
<1>11. ASSUME NEW d \in Contracts
       PROVE  Room(d)' = Room(d)
  <2>1. Sold(p, d)' = 0 /\ Sold(p, d) = 0
    BY <1>9 DEF Sold, Selling
  <2>2. \A r \in Procs \ {p} : Sold(r, d)' = Sold(r, d)
    BY <1>2 DEF Sold, Selling, Executed
  <2>3. Sold(Loop, d)' = Sold(Loop, d) /\ Sold(Api, d)' = Sold(Api, d)
    BY <2>1, <2>2, DeskAssumption
  <2> QED BY <2>3 DEF Room
<1> QED BY <1>2, <1>8, <1>9, <1>10, <1>11 DEF k

\* the end of one, whose answer is taken,
LEMMA TakeKeeps ==
  ASSUME Orders, NEW p \in Procs, Answered(p), Take(p), orders' = orders, held' = held
  PROVE  /\ Orders' /\ Exposed' = Exposed
         /\ call[p] \in Call /\ call[p].filled \in 0 .. MaxQty /\ call[p].contract \in Contracts
         /\ \A d \in Contracts :
              /\ Room(d) \in Nat /\ Room(d)' \in Nat
              /\ Room(d)' = Room(d) - (IF call[p].side = "sell" /\ call[p].contract = d
                                       THEN call[p].filled ELSE 0)
         /\ \A d : Buying(d)' = Buying(d)
         /\ call'[p] = Idle
         /\ \A r \in Procs \ {p} : call'[r] = call[r]
         /\ Executed(call[p], orders) = call[p].filled
<1>1. call \in [Procs -> Call \cup {Idle}] /\ orders \in [Slots -> Order \cup {NoOrder}]
  BY DEF Orders, ExecutionTypeOK
<1>2. call'[p] = Idle /\ \A r \in Procs \ {p} : call'[r] = call[r]
  BY <1>1 DEF Take
<1>3. call' \in [Procs -> Call \cup {Idle}]
  BY <1>1 DEF Take
<1>4. /\ call[p] # Idle /\ call[p] \in Call /\ call[p].filled \in 0 .. MaxQty
      /\ call[p].contract \in Contracts /\ Knows(call[p], orders)
  BY <1>1, CallShape DEF Answered, Orders
<1>5. Calm
  BY DEF Calm
<1>6. OthersKnow(p)
  BY <1>2 DEF OthersKnow
<1>7. HeldBack'
  BY <1>5, CalmHolds
<1>8. Orders'
  BY <1>1, <1>2, <1>3, <1>7 DEF Orders, ExecutionTypeOK, Knows
<1>9. Exposed' = Exposed /\ \A d : Buying(d)' = Buying(d)
  BY DEF Exposed, Positions, OpenOrders, Working, Buying
<1>10. Executed(call[p], orders) = call[p].filled
  BY <1>4 DEF Answered, Knows, Executed
<1>11. ASSUME NEW d \in Contracts
       PROVE  /\ Room(d) \in Nat /\ Room(d)' \in Nat
              /\ Room(d)' = Room(d) - (IF call[p].side = "sell" /\ call[p].contract = d
                                       THEN call[p].filled ELSE 0)
  <2>1. Sold(p, d)' = 0 /\ Sold(p, d) = IF call[p].side = "sell" /\ call[p].contract = d
                                        THEN call[p].filled ELSE 0
    BY <1>2, <1>4, <1>10 DEF Sold, Selling
  <2>2. \A r \in Procs \ {p} : Sold(r, d)' = Sold(r, d)
    BY <1>2 DEF Sold, Selling, Executed
  <2>3. /\ held[d] \in Nat /\ Sold(Loop, d) \in Nat /\ Sold(Api, d) \in Nat /\ Room(d) \in Nat
        /\ Room(d)' \in Nat
    BY <1>8, RoomType, RoomTypeNext
  <2>4. CASE p = Loop
    <3>1. Sold(Api, d)' = Sold(Api, d)
      BY <2>2, <2>4, DeskAssumption
    <3>2. Room(d)' = Room(d) - Sold(p, d)
      BY <2>1, <2>3, <2>4, <3>1 DEF Room
    <3> QED BY <2>1, <2>3, <3>2
  <2>5. CASE p = Api
    <3>1. Sold(Loop, d)' = Sold(Loop, d)
      BY <2>2, <2>5, DeskAssumption
    <3>2. Room(d)' = Room(d) - Sold(p, d)
      BY <2>1, <2>3, <2>5, <3>1 DEF Room
    <3> QED BY <2>1, <2>3, <3>2
  <2> QED BY <2>4, <2>5, DeskAssumption
<1> QED BY <1>2, <1>4, <1>8, <1>9, <1>10, <1>11

\* the cancellation of working orders,
LEMMA CancelledKeeps ==
  ASSUME Orders, NEW S \in SUBSET OpenOrders, Cancelled(S), held' = held, call' = call
  PROVE  /\ Orders' /\ Calm
         /\ \A c \in Contracts : Room(c)' = Room(c)
<1> DEFINE os == [o \in Slots |-> IF o \in S THEN [orders[o] EXCEPT !.status = "ended"] ELSE orders[o]]
<1>1. call \in [Procs -> Call \cup {Idle}] /\ orders \in [Slots -> Order \cup {NoOrder}]
  BY DEF Orders, ExecutionTypeOK
<1>2. ASSUME NEW o \in Slots
      PROVE  \/ os[o] = orders[o]
             \/ /\ os[o] \in Order /\ os[o].status = "ended" /\ orders[o] # NoOrder
                /\ os[o].contract = orders[o].contract /\ os[o].side = orders[o].side
                /\ os[o].qty = orders[o].qty /\ os[o].filled = orders[o].filled
  <2>1. CASE o \in S
    <3>1. orders[o] \in Order
      BY <1>1, <2>1, OrderShape DEF OpenOrders, Working, NoOrder
    <3>2. os[o] = [orders[o] EXCEPT !.status = "ended"]
      BY <2>1
    <3>3. orders[o] # NoOrder
      BY <3>1 DEF Order, NoOrder
    <3> QED BY <3>1, <3>2, <3>3 DEF Order
  <2>2. CASE o \notin S
    BY <2>2
  <2> QED BY <2>1, <2>2
<1>3. orders' = Listed(os, call)
  BY DEF Cancelled
<1>4. os \in [Slots -> Order \cup {NoOrder}]
  <2>1. \A o \in Slots : os[o] \in Order \cup {NoOrder}
    BY <1>1, <1>2
  <2> QED BY <2>1
<1> HIDE DEF os
<1>5. orders' \in [Slots -> Order \cup {NoOrder}]
  BY <1>3, <1>4, ListedType
<1>6. ASSUME NEW o \in Slots
      PROVE  orders'[o] = os[o] \/ (orders'[o] = NoOrder /\ ~Awaited(o, call))
  BY <1>3, ListedShows
<1>7. Calm
  <2>1. NoOrder.status # "working"
    BY DEF NoOrder
  <2> QED BY <1>2, <1>6, <2>1 DEF Calm
<1>8. ASSUME NEW o \in Slots
      PROVE  Sound(orders'[o])
  <2>1. Sound(NoOrder)
    BY DEF NoOrder, Sound
  <2>2. Sound(os[o])
    BY <1>2 DEF Orders, Sound
  <2> QED BY <1>6, <2>1, <2>2
<1>9. ASSUME NEW p \in Procs, call[p] # Idle, call[p].slot # Nobody
      PROVE  LET x == orders[call[p].slot]  y == orders'[call[p].slot]
             IN /\ call[p].slot \in Slots /\ y # NoOrder /\ y.contract = x.contract
                /\ y.side = x.side /\ y.qty = x.qty /\ y.filled = x.filled
  <2>1. call[p].slot \in Slots /\ Awaited(call[p].slot, call)
    BY <1>1, <1>9, CallShape DEF Awaited
  <2>2. orders'[call[p].slot] = os[call[p].slot]
    BY <1>6, <2>1
  <2>3. orders[call[p].slot] # NoOrder
    BY <1>9 DEF Orders, Knows
  <2>4. os[call[p].slot] # NoOrder
    BY <1>2, <2>1, <2>3 DEF Order, NoOrder
  <2> QED BY <1>2, <2>1, <2>2, <2>4
<1>10. \A p \in Procs : Knows(call'[p], orders')
  BY <1>9 DEF Orders, Knows
<1>11. Orders'
  BY <1>1, <1>5, <1>7, <1>8, <1>10, CalmHolds DEF Orders, ExecutionTypeOK
<1>12. \A p \in Procs, c \in Contracts : Sold(p, c)' = Sold(p, c)
  BY <1>9 DEF Sold, Selling, Executed
<1>13. \A c \in Contracts : Room(c)' = Room(c)
  BY <1>12, DeskAssumption DEF Room
<1> QED BY <1>7, <1>11, <1>13

\* or the end of the process.
LEMMA RestartKeeps ==
  ASSUME Orders, call' = [p \in Procs |-> Idle], orders' = Listed(orders, call'), held' = held
  PROVE  /\ Orders' /\ Calm
         /\ \A c \in Contracts : \/ Room(c)' = Room(c) /\ Room(c) \in Nat
                                 \/ \E p \in Procs : Selling(p) /\ call[p].contract = c
<1>1. orders \in [Slots -> Order \cup {NoOrder}] /\ held \in [Contracts -> Nat]
  BY DEF Orders, ExecutionTypeOK
<1>2. orders' \in [Slots -> Order \cup {NoOrder}] /\ call' \in [Procs -> Call \cup {Idle}]
  BY <1>1, ListedType
<1>3. ASSUME NEW o \in Slots
      PROVE  orders'[o] = orders[o] \/ orders'[o] = NoOrder
  BY ListedShows
<1>4. Calm
  <2>1. NoOrder.status # "working"
    BY DEF NoOrder
  <2> QED BY <1>3, <2>1 DEF Calm
<1>5. \A o \in Slots : Sound(orders'[o])
  <2>1. Sound(NoOrder)
    BY DEF NoOrder, Sound
  <2> QED BY <1>3, <2>1 DEF Orders
<1>6. Orders'
  BY <1>1, <1>2, <1>4, <1>5, CalmHolds DEF Orders, ExecutionTypeOK, Knows
<1>7. ASSUME NEW c \in Contracts, ~\E p \in Procs : Selling(p) /\ call[p].contract = c
      PROVE  Room(c)' = Room(c) /\ Room(c) \in Nat
  <2>1. \A p \in Procs : Sold(p, c) = 0 /\ Sold(p, c)' = 0
    BY <1>7 DEF Sold, Selling
  <2>2. Room(c)' = Room(c)
    BY <2>1, DeskAssumption DEF Room
  <2> QED BY <2>2, RoomType
<1> QED BY <1>4, <1>6, <1>7

-----------------------------------------------------------------------------
(* Steps of the desk that leave the market and the rows alone. *)

\* Where the loop stands, what it is doing.
LEMMA Standing ==
  ASSUME Places
  PROVE  /\ at \notin {"ghosts", "manage", "cutoff", "buy"} => call[Loop] = Idle
         /\ at \notin {"manage", "cutoff"} => due = Nobody
         /\ at \in {"manage", "cutoff"} => (due = Nobody <=> call[Loop] = Idle)
         /\ due = Nobody => child = Nobody
  BY DEF Places, LoopPlace, DuePlace, ChildPlace

\* An open row that stays what it was keeps what backs it.
LEMMA RowsStay ==
  ASSUME TypeOK, Orders, Orders', OneRow, RowsBacked,
         \A r \in Rows : Main(r)' => Main(r) /\ rows'[r] = rows[r],
         \A r \in Rows, c \in Contracts :
           Main(r)' /\ rows'[r].contract = c =>
             /\ c \in missed => c \in missed'
             /\ \/ Room(c) <= Room(c)' /\ (Usurped(c) => c \in missed' \/ Usurped(c)')
                \/ c \in missed' \/ Usurped(c)'
  PROVE  OneRow' /\ RowsBacked'
<1>1. \A r \in Rows : Main(r) => rows[r].contract \in Contracts /\ rows[r].qty \in Nat
  BY DeskAssumption DEF TypeOK, Main, Trade
<1>2. OneRow'
  BY <1>1 DEF OneRow
<1>3. ASSUME NEW r \in Rows, NEW c \in Contracts, Main(r)', rows'[r].contract = c
      PROVE  c \in missed' \/ Usurped(c)' \/ rows'[r].qty <= Room(c)'
  <2>1. Main(r) /\ rows'[r] = rows[r] /\ rows[r].qty \in Nat /\ rows[r].contract = c
    BY <1>1, <1>3
  <2>2. /\ c \in missed => c \in missed'
        /\ \/ Room(c) <= Room(c)' /\ (Usurped(c) => c \in missed' \/ Usurped(c)')
           \/ c \in missed' \/ Usurped(c)'
    BY <1>3
  <2>3. Room(c) \in Nat /\ Room(c)' \in Nat
    BY RoomType, RoomTypeNext
  <2>4. c \in missed \/ Usurped(c) \/ rows[r].qty <= Room(c)
    BY <2>1 DEF RowsBacked
  <2> QED BY <2>1, <2>2, <2>3, <2>4
<1>4. RowsBacked'
  BY <1>1, <1>3 DEF RowsBacked
<1> QED BY <1>2, <1>4

LEMMA DeskStill ==
  ASSUME DeskInv, orders' = orders, held' = held, call' = call, rows' = rows,
         due' = due, child' = child, hidden' = hidden,
         snap' = snap \/ due = Nobody,
         \A r \in Rows : rows[r] # NoRow /\ rows[r].contract \in missed => rows[r].contract \in missed'
  PROVE  /\ Orders' /\ OneRow' /\ RowsBacked'
         /\ Exposed' \ hidden' \subseteq Exposed \ hidden
         /\ \A c \in Contracts : Room(c)' = Room(c) /\ Room(c) \in Nat
         /\ \A c : NoRowOf(c)' = NoRowOf(c)
         /\ \A c : Buying(c)' = Buying(c)
<1>1. /\ Orders' /\ Exposed' = Exposed
      /\ \A c \in Contracts : Room(c)' = Room(c)
      /\ \A c : Buying(c)' = Buying(c)
  BY MarketSame DEF DeskInv
<1>2. \A c \in Contracts : Room(c) \in Nat
  BY RoomType DEF DeskInv
<1>3. \A r \in Rows : Main(r)' = Main(r)
  BY DEF Main
<1>4. \A c : Usurped(c) => Usurped(c)'
  <2>1. due = Nobody => child \notin Rows
    BY Standing, DeskAssumption DEF DeskInv
  <2> QED BY <2>1 DEF Usurped
<1>5. \A r \in Rows : Main(r) => rows[r].contract \in Contracts
  BY DEF DeskInv, TypeOK, Main, Trade
<1>6. OneRow' /\ RowsBacked'
  <2>1. \A r \in Rows : Main(r)' => Main(r) /\ rows'[r] = rows[r]
    BY <1>3
  <2>2. ASSUME NEW r \in Rows, NEW c \in Contracts, Main(r)', rows'[r].contract = c
        PROVE  /\ c \in missed => c \in missed'
               /\ Room(c) <= Room(c)' /\ (Usurped(c) => c \in missed' \/ Usurped(c)')
    BY <1>1, <1>2, <1>3, <1>4, <2>2 DEF Main
  <2> QED BY <1>1, <2>1, <2>2, RowsStay DEF DeskInv, Accounts
<1>7. \A c : NoRowOf(c)' = NoRowOf(c)
  BY DEF NoRowOf
<1> QED BY <1>1, <1>2, <1>6, <1>7

LEMMA ReadPositionsKeeps ==
  ASSUME DeskInv, ReadPositions
  PROVE  DeskInv'
<1>1. /\ at = "idle" /\ at' = "journal" /\ seen' = held
      /\ orders' = orders /\ held' = held /\ call' = call /\ rows' = rows /\ closed' = closed
      /\ todo' = todo /\ snap' = snap /\ due' = due /\ child' = child /\ api' = api
      /\ missed' = missed \cap OpenContracts /\ hidden' = hidden
  BY DEF ReadPositions
<1>2. \A r \in Rows : rows[r] # NoRow => rows[r].contract \in OpenContracts
  BY DEF OpenContracts, Open
<1>3. /\ Orders' /\ OneRow' /\ RowsBacked' /\ Exposed' \ hidden' \subseteq Exposed \ hidden
      /\ \A c \in Contracts : Room(c)' = Room(c) /\ Room(c) \in Nat
  BY <1>1, <1>2, DeskStill
<1>4. TypeOK'
  BY <1>1, <1>3 DEF DeskInv, TypeOK, Orders, ExecutionTypeOK
<1>5. Places'
  BY <1>1 DEF DeskInv, Places, LoopPlace, TodoPlace, DuePlace, ChildPlace, ApiPlace, Answered, AsRead
<1>6. SeenBacked' /\ Unrecorded'
  <2>1. \A c \in Contracts : seen'[c] <= Room(c)'
    BY <1>1, <1>3, RoomType DEF DeskInv, Room
  <2> QED BY <1>1, <2>1 DEF SeenBacked, Unrecorded
<1>7. Capacity'
  BY <1>1, <1>3, CapacityAfter DEF DeskInv
<1> QED BY <1>3, <1>4, <1>5, <1>6, <1>7 DEF DeskInv, Accounts

LEMMA ClassifyKeeps ==
  ASSUME DeskInv, Classify
  PROVE  DeskInv'
<1>1. /\ at = "journal" /\ at' = "ghosts" /\ todo' = Ghosts \cap closed
      /\ seen' = [c \in Contracts |-> IF c \in Ghosts \ closed THEN seen[c] ELSE 0]
      /\ orders' = orders /\ held' = held /\ call' = call /\ rows' = rows /\ closed' = closed
      /\ snap' = snap /\ due' = due /\ child' = child /\ api' = api
      /\ missed' = missed /\ hidden' = hidden
  BY DEF Classify
<1>2. \A c \in Ghosts : c \in Contracts /\ NoRowOf(c)
  BY DEF Ghosts, OpenContracts, Open, NoRowOf
<1>3. /\ Orders' /\ OneRow' /\ RowsBacked' /\ Exposed' \ hidden' \subseteq Exposed \ hidden
      /\ \A c \in Contracts : Room(c)' = Room(c) /\ Room(c) \in Nat
      /\ \A c : NoRowOf(c)' = NoRowOf(c)
  BY <1>1, DeskStill
<1>4. TypeOK'
  BY <1>1, <1>2, <1>3 DEF DeskInv, TypeOK, Orders, ExecutionTypeOK
<1>5. call[Loop] = Idle
  BY <1>1, Standing DEF DeskInv
<1>6. Places'
  BY <1>1, <1>2, <1>5 DEF DeskInv, Places, LoopPlace, TodoPlace, DuePlace, ChildPlace, ApiPlace, Answered, AsRead
<1>7. SeenBacked' /\ Unrecorded'
  <2>1. ASSUME NEW c \in Contracts, seen'[c] > 0
        PROVE  NoRowOf(c)' /\ (c \in missed' \/ seen'[c] <= Room(c)')
    <3>1. c \in Ghosts \ closed /\ seen'[c] = seen[c]
      BY <1>1, <2>1
    <3>2. c \in missed \cup closed \/ seen[c] <= Room(c)
      BY <1>1 DEF DeskInv, Accounts, SeenBacked
    <3> QED BY <1>1, <1>2, <1>3, <3>1, <3>2
  <2>2. ASSUME NEW c \in todo'
        PROVE  NoRowOf(c)' /\ seen'[c] = 0
    BY <1>1, <1>2, <1>3, <2>2
  <2> QED BY <1>1, <1>5, <2>1, <2>2 DEF SeenBacked, Unrecorded
<1>8. Capacity'
  BY <1>1, <1>3, CapacityAfter DEF DeskInv
<1> QED BY <1>3, <1>4, <1>6, <1>7, <1>8 DEF DeskInv, Accounts

\* A step that only moves the tick on, to where it neither adopts nor buys.
LEMMA MovesOn ==
  ASSUME DeskInv, orders' = orders, held' = held, call' = call, rows' = rows,
         due' = due, child' = child, api' = api, hidden' = hidden, missed' = missed,
         closed' \subseteq Contracts, seen' \in [Contracts -> Nat], todo' \subseteq Rows \cup Contracts,
         snap' = snap \/ (due = Nobody /\ snap' \in [Rows -> Trade \cup {NoRow}]),
         at' \in {"idle", "trades", "sweep", "manage", "cutoff", "entry", "capacity"},
         at' = "capacity" => seen' = held,
         Places'
  PROVE  DeskInv'
<1>1. /\ Orders' /\ OneRow' /\ RowsBacked' /\ Exposed' \ hidden' \subseteq Exposed \ hidden
  BY DeskStill
<1>2. TypeOK'
  BY <1>1 DEF DeskInv, TypeOK, Orders
<1>3. SeenBacked' /\ Unrecorded'
  BY DEF SeenBacked, Unrecorded
<1>4. at' = "capacity" => \A c \in Positions' \ hidden' : seen'[c] > 0 \/ Buying(c)'
  BY DEF Positions
<1>5. Capacity'
  BY <1>1, <1>4, CapacityAfter DEF DeskInv
<1> QED BY <1>1, <1>2, <1>3, <1>5 DEF DeskInv, Accounts

LEMMA MovesOnKeeps ==
  ASSUME DeskInv, AdoptionsDone \/ ReadTrades \/ (\E r \in Rows : Hold(r)) \/ ManageDone \/ NoEntry
                  \/ CapacityPositions \/ NoCapacity \/ NewDay
  PROVE  DeskInv'
<1> USE DEF DeskInv
<1>1. TypeOK /\ Places /\ NothingSeen \in [Contracts -> Nat] /\ held \in [Contracts -> Nat]
  BY DEF NothingSeen, Orders, ExecutionTypeOK
<1>2. CASE AdoptionsDone
  <2>1. /\ at = "ghosts" /\ todo = {} /\ call[Loop] = Idle /\ at' = "trades" /\ seen' = NothingSeen
        /\ orders' = orders /\ held' = held /\ call' = call /\ rows' = rows /\ closed' = closed
        /\ todo' = todo /\ snap' = snap /\ due' = due /\ child' = child /\ api' = api
        /\ missed' = missed /\ hidden' = hidden
    BY <1>2 DEF AdoptionsDone, Retried
  <2>2. Places'
    BY <1>1, <2>1 DEF Places, LoopPlace, TodoPlace, DuePlace, ChildPlace, ApiPlace, Answered, AsRead
  <2> QED BY <1>1, <2>1, <2>2, MovesOn DEF TypeOK
<1>3. CASE ReadTrades
  <2>1. /\ at = "trades" /\ at' = "sweep" /\ seen' = seen /\ snap' = rows /\ todo' = Open
        /\ orders' = orders /\ held' = held /\ call' = call /\ rows' = rows /\ closed' = closed
        /\ due' = due /\ child' = child /\ api' = api
        /\ missed' = missed /\ hidden' = hidden
    BY <1>3 DEF ReadTrades
  <2>2. call[Loop] = Idle /\ due = Nobody /\ child = Nobody
    BY <1>1, <2>1, Standing
  <2>3. Places'
    BY <1>1, <2>1, <2>2 DEF Places, LoopPlace, TodoPlace, DuePlace, ChildPlace, ApiPlace, AsRead, Open
  <2> QED BY <1>1, <2>1, <2>2, <2>3, MovesOn DEF TypeOK, Open
<1>4. ASSUME NEW r \in Rows, Hold(r)
      PROVE  DeskInv'
  <2>1. /\ at = "manage" /\ at' = at /\ seen' = seen /\ snap' = snap /\ todo' = todo \ {r}
        /\ orders' = orders /\ held' = held /\ call' = call /\ rows' = rows /\ closed' = closed
        /\ due' = due /\ child' = child /\ api' = api /\ due = Nobody
        /\ missed' = missed /\ hidden' = hidden
    BY <1>4 DEF Hold
  <2>2. call[Loop] = Idle /\ due = Nobody /\ child = Nobody
    BY <1>1, <2>1, Standing
  <2>3. Places'
    BY <1>1, <2>1, <2>2 DEF Places, LoopPlace, TodoPlace, DuePlace, ChildPlace, ApiPlace, AsRead
  <2> QED BY <1>1, <2>1, <2>2, <2>3, MovesOn DEF TypeOK
<1>5. CASE ManageDone
  <2>1. /\ at \in {"manage", "cutoff"} /\ at' \in {"idle", "entry"} /\ seen' = seen
        /\ snap' \in {snap, [r \in Rows |-> NoRow]} /\ todo = {} /\ todo' = todo
        /\ orders' = orders /\ held' = held /\ call' = call /\ rows' = rows /\ closed' = closed
        /\ due' = due /\ child' = child /\ api' = api /\ due = Nobody
        /\ missed' = missed /\ hidden' = hidden
    BY <1>5 DEF ManageDone
  <2>2. call[Loop] = Idle /\ due = Nobody /\ child = Nobody
    BY <1>1, <2>1, Standing
  <2>3. Places'
    BY <1>1, <2>1, <2>2 DEF Places, LoopPlace, TodoPlace, DuePlace, ChildPlace, ApiPlace, AsRead
  <2> QED BY <1>1, <2>1, <2>2, <2>3, MovesOn DEF TypeOK
<1>6. CASE NoEntry \/ NoCapacity
  <2>1. /\ at \in {"entry", "capacity"} /\ at' = "idle" /\ seen' = NothingSeen
        /\ snap' = [r \in Rows |-> NoRow] /\ todo' = todo
        /\ orders' = orders /\ held' = held /\ call' = call /\ rows' = rows /\ closed' = closed
        /\ due' = due /\ child' = child /\ api' = api
        /\ missed' = missed /\ hidden' = hidden
    BY <1>6 DEF NoEntry, NoCapacity, EndTick
  <2>2. call[Loop] = Idle /\ due = Nobody /\ child = Nobody
    BY <1>1, <2>1, Standing
  <2>3. Places'
    BY <1>1, <2>1, <2>2 DEF Places, LoopPlace, TodoPlace, DuePlace, ChildPlace, ApiPlace, AsRead
  <2> QED BY <1>1, <2>1, <2>2, <2>3, MovesOn DEF TypeOK
<1>7. CASE CapacityPositions
  <2>1. /\ at = "entry" /\ at' = "capacity" /\ seen' = held /\ snap' = snap /\ todo' = todo
        /\ orders' = orders /\ held' = held /\ call' = call /\ rows' = rows /\ closed' = closed
        /\ due' = due /\ child' = child /\ api' = api
        /\ missed' = missed /\ hidden' = hidden
    BY <1>7 DEF CapacityPositions
  <2>2. call[Loop] = Idle /\ due = Nobody /\ child = Nobody
    BY <1>1, <2>1, Standing
  <2>3. Places'
    BY <1>1, <2>1, <2>2 DEF Places, LoopPlace, TodoPlace, DuePlace, ChildPlace, ApiPlace, AsRead
  <2> QED BY <1>1, <2>1, <2>2, <2>3, MovesOn DEF TypeOK
<1>8. CASE NewDay
  <2>1. /\ at = "idle" /\ at' = at /\ seen' = seen /\ snap' = snap /\ todo' = todo /\ closed' = {}
        /\ orders' = orders /\ held' = held /\ call' = call /\ rows' = rows
        /\ due' = due /\ child' = child /\ api' = api
        /\ missed' = missed /\ hidden' = hidden
    BY <1>8 DEF NewDay
  <2>3. Places'
    BY <1>1, <2>1 DEF Places, LoopPlace, TodoPlace, DuePlace, ChildPlace, ApiPlace, AsRead, Answered
  <2> QED BY <1>1, <2>1, <2>3, MovesOn DEF TypeOK
<1> QED BY <1>2, <1>3, <1>4, <1>5, <1>6, <1>7, <1>8

-----------------------------------------------------------------------------
(* Steps that cancel working orders. *)

LEMMA CancelsKeeps ==
  ASSUME DeskInv, SessionCutoff \/ SweepOrphanedOrders
  PROVE  DeskInv'
<1>1. /\ \/ at = "trades" /\ at' = "cutoff" /\ snap' = rows /\ todo' = Open
         \/ at = "sweep" /\ at' = "manage" /\ snap' = snap /\ todo' = todo
      /\ held' = held /\ call' = call /\ rows' = rows /\ closed' = closed /\ seen' = seen
      /\ due' = due /\ child' = child /\ api' = api /\ missed' = missed /\ hidden' = hidden
  BY DEF SessionCutoff, SweepOrphanedOrders
<1>2. PICK S \in SUBSET OpenOrders : Cancelled(S)
  BY DEF SessionCutoff, SweepOrphanedOrders, Orphans
<1>3. call[Loop] = Idle /\ due = Nobody /\ child = Nobody
  BY <1>1, Standing DEF DeskInv
<1>4. Orders' /\ Calm /\ \A c \in Contracts : Room(c)' = Room(c)
  BY <1>1, <1>2, CancelledKeeps DEF DeskInv
<1>5. \A c \in Contracts : Room(c) \in Nat
  BY RoomType DEF DeskInv
<1>6. TypeOK'
  BY <1>1, <1>4 DEF DeskInv, TypeOK, Orders, Open
<1>7. Places'
  BY <1>1, <1>3 DEF DeskInv, Places, LoopPlace, TodoPlace, DuePlace, ChildPlace, ApiPlace, AsRead, Open
<1>8. OneRow' /\ RowsBacked'
  <2>1. \A r \in Rows : Main(r)' => Main(r) /\ rows'[r] = rows[r]
    BY <1>1 DEF Main
  <2>2. ASSUME NEW c \in Contracts
        PROVE  /\ c \in missed => c \in missed'
               /\ Room(c) <= Room(c)' /\ (Usurped(c) => c \in missed' \/ Usurped(c)')
    BY <1>1, <1>3, <1>4, <1>5, DeskAssumption DEF Usurped
  <2> QED BY <1>4, <2>1, <2>2, RowsStay DEF DeskInv, Accounts
<1>9. SeenBacked' /\ Unrecorded'
  BY <1>1 DEF SeenBacked, Unrecorded
<1>10. Exposed' \ hidden' \subseteq Exposed \ hidden
  BY <1>1, <1>4, CalmHolds DEF DeskInv
<1>11. Capacity'
  BY <1>1, <1>10, CapacityAfter DEF DeskInv
<1> QED BY <1>4, <1>6, <1>7, <1>8, <1>9, <1>11 DEF DeskInv, Accounts

-----------------------------------------------------------------------------
(* Ghosts: a close is tried again, or a row inserted. *)

\* What is sold of a ghost was never to be shown by a row, nor is it adopted.
LEMMA GhostsAside ==
  ASSUME DeskInv, at = "ghosts", at' = at, seen' = seen, todo' \subseteq todo,
         held' = held, orders' = orders, rows' = rows, closed' = closed, snap' = snap,
         due' = due, child' = child, api' = api, missed' = missed, hidden' = hidden,
         Orders', Exposed' = Exposed, call'[Api] = call[Api],
         \A c \in Contracts : Room(c)' = Room(c) \/ (NoRowOf(c) /\ seen[c] = 0),
         call'[Loop] # Idle => /\ call'[Loop].side = "sell" /\ NoRowOf(call'[Loop].contract)
                               /\ seen[call'[Loop].contract] = 0
  PROVE  DeskInv'
<1>1. due = Nobody /\ child = Nobody
  BY Standing DEF DeskInv
<1>2. \A c \in Contracts : Room(c) \in Nat
  BY RoomType DEF DeskInv
<1>3. TypeOK'
  BY DEF DeskInv, TypeOK, Orders
<1>4. Places'
  BY <1>1 DEF DeskInv, Places, LoopPlace, TodoPlace, DuePlace, ChildPlace, ApiPlace
<1>5. OneRow' /\ RowsBacked'
  <2>1. \A r \in Rows : Main(r)' => Main(r) /\ rows'[r] = rows[r]
    BY DEF Main
  <2>2. ASSUME NEW r \in Rows, NEW c \in Contracts, Main(r)', rows'[r].contract = c
        PROVE  /\ c \in missed => c \in missed'
               /\ Room(c) <= Room(c)' /\ (Usurped(c) => c \in missed' \/ Usurped(c)')
    <3>1. ~NoRowOf(c)
      BY <2>2 DEF NoRowOf, Main
    <3> QED BY <1>1, <1>2, <3>1, DeskAssumption DEF Usurped
  <2> QED BY <2>1, <2>2, RowsStay DEF DeskInv, Accounts
<1>6. \A c : NoRowOf(c)' = NoRowOf(c)
  BY DEF NoRowOf
<1>7. SeenBacked'
  BY <1>6 DEF DeskInv, Accounts, SeenBacked
<1>8. Unrecorded'
  BY <1>6 DEF DeskInv, Accounts, Unrecorded
<1>9. Capacity'
  BY CapacityAfter DEF DeskInv
<1> QED BY <1>3, <1>4, <1>5, <1>7, <1>8, <1>9 DEF DeskInv, Accounts

LEMMA RetriesKeeps ==
  ASSUME DeskInv, (\E c \in Contracts : RetryClose(c)) \/ RetryAnswered
  PROVE  DeskInv'
<1>1. /\ at = "ghosts" /\ at' = at /\ seen' = seen /\ todo' \subseteq todo
      /\ held' = held /\ orders' = orders /\ rows' = rows /\ closed' = closed /\ snap' = snap
      /\ due' = due /\ child' = child /\ api' = api /\ missed' = missed /\ hidden' = hidden
  BY DEF RetryClose, RetryAnswered
<1>2. Loop \in Procs /\ Api \in Procs /\ Api # Loop
  BY DeskAssumption
<1>3. ASSUME NEW c \in Contracts, RetryClose(c)
      PROVE  DeskInv'
  <2>1. call[Loop] = Idle /\ c \in todo /\ NoRowOf(c) /\ seen[c] = 0
    BY <1>3 DEF RetryClose, DeskInv, Accounts, Unrecorded
  <2>2. CASE call' = call
    <3>1. /\ Orders' /\ Exposed' = Exposed
          /\ \A d \in Contracts : Room(d)' = Room(d)
      BY <1>1, <2>2, MarketSame DEF DeskInv
    <3> QED BY <1>1, <2>1, <2>2, <3>1, GhostsAside
  <2>3. CASE Place(Loop, c, "sell", Min({held[c], MaxQty})) /\ held[c] > 0
    <3>1. Min({held[c], MaxQty}) \in 1 .. MaxQty /\ "sell" \in Sides
      <4>1. held[c] \in Nat
        BY DEF DeskInv, Orders, ExecutionTypeOK
      <4>2. Min({held[c], MaxQty}) \in {held[c], MaxQty} /\ Min({held[c], MaxQty}) <= MaxQty
        BY <4>1, LeastOf, DeskAssumption
      <4> QED BY <2>3, <4>1, <4>2, DeskAssumption DEF Sides
    <3> DEFINE q == Min({held[c], MaxQty})
    <3>2. Place(Loop, c, "sell", q) /\ q \in 1 .. MaxQty /\ "sell" \in Sides
      BY <2>3, <3>1
    <3> HIDE DEF q
    <3>3. /\ Orders' /\ Exposed' = Exposed /\ call'[Api] = call[Api]
          /\ \A d \in Contracts : Room(d)' = Room(d)
          /\ call'[Loop] = Placing(c, "sell", q)
      BY <1>1, <1>2, <2>1, <3>2, PlaceKeeps DEF DeskInv
    <3>4. call'[Loop].side = "sell" /\ call'[Loop].contract = c
      BY <3>2, <3>3, PlacingShape
    <3> QED BY <1>1, <2>1, <3>3, <3>4, GhostsAside
  <2> QED BY <1>3, <2>2, <2>3 DEF RetryClose
<1>4. CASE RetryAnswered
  <2>1. Answered(Loop) /\ Take(Loop)
    BY <1>4 DEF RetryAnswered
  <2>2. NoRowOf(call[Loop].contract) /\ seen[call[Loop].contract] = 0
    BY <1>1, <2>1 DEF DeskInv, Accounts, Unrecorded, Answered
  <2>3. /\ Orders' /\ Exposed' = Exposed /\ call'[Api] = call[Api] /\ call'[Loop] = Idle
        /\ \A d \in Contracts : d # call[Loop].contract => Room(d)' = Room(d) - 0 /\ Room(d) \in Nat
    BY <1>1, <1>2, <2>1, TakeKeeps DEF DeskInv
  <2>4. \A d \in Contracts : Room(d)' = Room(d) \/ (NoRowOf(d) /\ seen[d] = 0)
    BY <2>2, <2>3
  <2> QED BY <1>1, <2>3, <2>4, GhostsAside
<1> QED BY <1>3, <1>4

\* A new row r shows n of a contract c that no row showed.
LEMMA RowInserted ==
  ASSUME DeskInv, Orders', child = Nobody, child' = child, missed' = missed,
         \A d \in Contracts : Room(d)' = Room(d),
         NEW c \in Contracts, NEW n, NoRowOf(c), c \in missed \/ n <= Room(c),
         NEW r \in Rows, rows' \in [Rows -> Trade \cup {NoRow}],
         rows'[r].contract = c, rows'[r].qty = n, \A s \in Rows \ {r} : rows'[s] = rows[s]
  PROVE  OneRow' /\ RowsBacked'
<1>1. \A s \in Rows \ {r} : Main(s)' => Main(s) /\ rows'[s] = rows[s] /\ rows[s].contract # c
  BY DEF Main, NoRowOf
<1>2. OneRow'
  <2>1. ASSUME NEW s \in Rows, NEW t \in Rows, Main(s)', Main(t)', rows'[s].contract = rows'[t].contract
        PROVE  s = t \/ rows'[s].contract \in missed'
    <3>1. CASE s = r \/ t = r
      BY <1>1, <2>1, <3>1
    <3>2. CASE s # r /\ t # r
      BY <1>1, <2>1, <3>2 DEF DeskInv, Accounts, OneRow
    <3> QED BY <3>1, <3>2
  <2> QED BY <2>1 DEF OneRow
<1>3. ASSUME NEW s \in Rows, NEW d \in Contracts, Main(s)', rows'[s].contract = d
      PROVE  d \in missed' \/ rows'[s].qty <= Room(d)'
  <2>1. CASE s = r
    BY <1>3, <2>1
  <2>2. CASE s # r
    <3>1. ~Usurped(d)
      BY DeskAssumption DEF Usurped
    <3> QED BY <1>1, <1>3, <2>2, <3>1 DEF DeskInv, Accounts, RowsBacked
  <2> QED BY <2>1, <2>2
<1>4. \A s \in Rows : Main(s)' => rows'[s].contract \in Contracts
  BY DEF Main, Trade
<1>5. RowsBacked'
  BY <1>3, <1>4 DEF RowsBacked
<1> QED BY <1>2, <1>5

\* A ghost gets a row, of what was read of it.
LEMMA AdoptKeeps ==
  ASSUME DeskInv, NEW c \in Contracts, Adopt(c)
  PROVE  DeskInv'
<1>1. /\ at = "ghosts" /\ at' = at /\ todo = {} /\ todo' = todo /\ call[Loop] = Idle
      /\ seen[c] > 0 /\ seen' = [seen EXCEPT ![c] = 0]
      /\ held' = held /\ orders' = orders /\ call' = call /\ closed' = closed /\ snap' = snap
      /\ due' = due /\ child' = child /\ api' = api /\ missed' = missed /\ hidden' = hidden
  BY DEF Adopt, Retried
<1>2. PICK r \in Rows :
        /\ Unused(r)
        /\ rows' = [rows EXCEPT ![r] = [contract |-> c, qty |-> Min({seen[c], MaxQty}), kind |-> "recovered"]]
  BY DEF Adopt
<1> DEFINE n == Min({seen[c], MaxQty})
<1>3. seen[c] \in Nat /\ rows \in [Rows -> Trade \cup {NoRow}] /\ seen \in [Contracts -> Nat]
  BY DEF DeskInv, TypeOK
<1>4. n \in 1 .. MaxQty /\ n <= seen[c]
  <2>1. n \in {seen[c], MaxQty} /\ n <= MaxQty /\ n <= seen[c]
    BY <1>3, LeastOf, DeskAssumption
  <2> QED BY <1>1, <1>3, <2>1, DeskAssumption
<1>5. rows' = [rows EXCEPT ![r] = [contract |-> c, qty |-> n, kind |-> "recovered"]]
  BY <1>2
<1> HIDE DEF n
<1>6. /\ rows' \in [Rows -> Trade \cup {NoRow}]
      /\ rows'[r].contract = c /\ rows'[r].qty = n
      /\ \A s \in Rows \ {r} : rows'[s] = rows[s]
      /\ rows[r] = NoRow /\ r # api
  BY <1>2, <1>3, <1>4, <1>5 DEF Trade, Kinds, Unused
<1>7. due = Nobody /\ child = Nobody
  BY <1>1, Standing DEF DeskInv
<1>8. /\ Orders' /\ Exposed' = Exposed
      /\ \A d \in Contracts : Room(d)' = Room(d)
  BY <1>1, MarketSame DEF DeskInv
<1>9. \A d \in Contracts : Room(d) \in Nat
  BY RoomType DEF DeskInv
<1>10. NoRowOf(c) /\ (c \in missed \/ seen[c] <= Room(c))
  BY <1>1 DEF DeskInv, Accounts, SeenBacked
<1>11. TypeOK'
  <2>1. seen' \in [Contracts -> Nat]
    BY <1>1, <1>3
  <2> QED BY <1>1, <1>6, <1>8, <2>1 DEF DeskInv, TypeOK, Orders
<1>12. Places'
  <2>1. LoopPlace' /\ TodoPlace' /\ DuePlace' /\ ChildPlace'
    BY <1>1, <1>7 DEF DeskInv, Places, LoopPlace, TodoPlace, DuePlace, ChildPlace
  <2>2. ApiPlace'
    <3>1. api # Nobody => rows'[api] = rows[api]
      BY <1>6 DEF DeskInv, TypeOK
    <3> QED BY <1>1, <3>1 DEF DeskInv, Places, ApiPlace
  <2> QED BY <1>1, <2>1, <2>2 DEF Places
<1>13. c \in missed \/ n <= Room(c)
  BY <1>3, <1>4, <1>9, <1>10, DeskAssumption
<1>14. OneRow' /\ RowsBacked'
  BY <1>1, <1>6, <1>7, <1>8, <1>10, <1>13, RowInserted
<1>17. SeenBacked'
  <2>1. ASSUME NEW d \in Contracts, seen'[d] > 0
        PROVE  NoRowOf(d)' /\ (d \in missed' \/ seen'[d] <= Room(d)')
    <3>1. d # c /\ seen'[d] = seen[d]
      BY <1>1, <1>3, <2>1
    <3>2. NoRowOf(d) /\ (d \in missed \/ seen[d] <= Room(d))
      BY <1>1, <2>1, <3>1 DEF DeskInv, Accounts, SeenBacked
    <3> QED BY <1>1, <1>6, <1>8, <3>1, <3>2 DEF NoRowOf
  <2> QED BY <1>1, <2>1 DEF SeenBacked
<1>18. Unrecorded'
  BY <1>1 DEF Unrecorded
<1>19. Capacity'
  BY <1>1, <1>8, CapacityAfter DEF DeskInv
<1> QED BY <1>8, <1>11, <1>12, <1>14, <1>17, <1>18, <1>19 DEF DeskInv, Accounts

-----------------------------------------------------------------------------
(* Exits. *)

\* The exit under way: a sell of the row due, as it was read.
LEMMA Exiting ==
  ASSUME DeskInv, due # Nobody
  PROVE  /\ due \in Rows /\ at \in {"manage", "cutoff"} /\ due \notin todo
         /\ snap[due] \in Trade /\ snap[due].contract \in Contracts /\ snap[due].qty \in 1 .. MaxQty
         /\ rows[due] \in {NoRow, snap[due]}
         /\ call[Loop] \in Call /\ call[Loop] # Idle /\ call[Loop].side = "sell"
         /\ call[Loop].contract = snap[due].contract
         /\ call[Loop].qty <= snap[due].qty /\ call[Loop].filled \in 0 .. MaxQty
         /\ Loop \in Procs /\ Api \in Procs /\ Api # Loop
<1>1. /\ due \in Rows /\ at \in {"manage", "cutoff"} /\ due \notin todo
      /\ snap[due] # NoRow /\ rows[due] \in {NoRow, snap[due]} /\ call[Loop] # Idle
  BY DEF DeskInv, Places, DuePlace, AsRead
<1>2. /\ call[Loop].side = "sell" /\ call[Loop].contract = snap[due].contract
      /\ call[Loop].qty <= snap[due].qty
  BY <1>1 DEF DeskInv, Places, LoopPlace
<1>3. snap[due] \in Trade
  BY <1>1 DEF DeskInv, TypeOK
<1>4. call[Loop] \in Call /\ call[Loop].filled \in 0 .. MaxQty
  BY <1>1, CallShape, DeskAssumption DEF DeskInv, Orders, ExecutionTypeOK
<1> QED BY <1>1, <1>2, <1>3, <1>4, DeskAssumption DEF Trade

\* A row of the contract of the exit, beside the row due, is the one it misses.
LEMMA BesideDue ==
  ASSUME DeskInv, due # Nobody, due # child, NEW r \in Rows, r # due, Main(r),
         rows[r].contract = snap[due].contract, rows[due] # NoRow
  PROVE  snap[due].contract \in missed
<1>1. Main(due) /\ rows[due].contract = snap[due].contract /\ due \in Rows
  BY Exiting DEF Main
<1> QED BY <1>1 DEF DeskInv, Accounts, OneRow

LEMMA ExitTradeKeeps ==
  ASSUME DeskInv, NEW r \in Rows, ExitTrade(r)
  PROVE  DeskInv'
<1>1. /\ at \in {"manage", "cutoff"} /\ at' = at /\ due = Nobody /\ due' = r /\ r \in todo /\ todo' = todo \ {r}
      /\ held' = held /\ orders' = orders /\ rows' = rows /\ closed' = closed /\ snap' = snap
      /\ seen' = seen /\ child' = child /\ api' = api /\ missed' = missed /\ hidden' = hidden
  BY DEF ExitTrade
<1>2. call[Loop] = Idle /\ child = Nobody /\ Loop \in Procs /\ Api \in Procs /\ Api # Loop
  BY <1>1, Standing, DeskAssumption DEF DeskInv
<1>3. AsRead(r) /\ snap[r] \in Trade /\ snap[r].contract \in Contracts /\ snap[r].qty \in 1 .. MaxQty
  <2>1. AsRead(r)
    BY <1>1 DEF DeskInv, Places, TodoPlace
  <2>2. snap[r] \in Trade
    BY <2>1 DEF AsRead, DeskInv, TypeOK
  <2> QED BY <2>1, <2>2 DEF Trade
<1>4. PICK q \in {snap[r].qty} \cup (IF at = "manage" THEN {Max({1, snap[r].qty \div 2})} ELSE {}) :
        Place(Loop, snap[r].contract, "sell", q)
  BY DEF ExitTrade
<1>5. q \in 1 .. MaxQty /\ q <= snap[r].qty /\ "sell" \in Sides
  <2> DEFINE n == snap[r].qty
             h == n \div 2
  <2>1. n \in Nat /\ n >= 1 /\ n <= MaxQty /\ MaxQty \in Nat
    BY <1>3, DeskAssumption
  <2> HIDE DEF n
  <2>2. h \in Nat /\ h <= n
    BY <2>1
  <2> HIDE DEF h
  <2>3. Max({1, h}) \in {1, h}
    BY <2>2, GreatestOf
  <2>4. Max({1, h}) >= 1
    BY <2>2, GreatestOf
  <2>5. q = n \/ q = Max({1, h})
    BY <1>4 DEF n, h
  <2>6. q \in Nat /\ 1 <= q /\ q <= n
    BY <2>1, <2>2, <2>3, <2>4, <2>5
  <2>7. q \in 1 .. MaxQty /\ q <= n
    BY <2>1, <2>6
  <2> QED BY <2>7 DEF n, Sides
<1>6. /\ Orders' /\ Exposed' = Exposed /\ call'[Api] = call[Api]
      /\ \A d \in Contracts : Room(d)' = Room(d)
      /\ call'[Loop] = Placing(snap[r].contract, "sell", q)
  BY <1>1, <1>2, <1>3, <1>4, <1>5, PlaceKeeps DEF DeskInv
<1>7. /\ call'[Loop] # Idle /\ call'[Loop].side = "sell"
      /\ call'[Loop].contract = snap[r].contract /\ call'[Loop].qty = q
  BY <1>3, <1>5, <1>6, PlacingShape
<1>8. \A c \in Contracts : Room(c) \in Nat
  BY RoomType DEF DeskInv
<1>9. TypeOK'
  BY <1>1, <1>6 DEF DeskInv, TypeOK, Orders
<1>10. Places'
  <2>1. LoopPlace'
    BY <1>1, <1>5, <1>7, DeskAssumption DEF LoopPlace
  <2>2. TodoPlace' /\ DuePlace'
    BY <1>1, <1>3, <1>7 DEF DeskInv, Places, TodoPlace, DuePlace, AsRead
  <2>3. ChildPlace' /\ ApiPlace'
    BY <1>1, <1>2, <1>6 DEF DeskInv, Places, ChildPlace, ApiPlace
  <2> QED BY <1>1, <2>1, <2>2, <2>3 DEF Places
<1>11. OneRow' /\ RowsBacked'
  <2>1. \A s \in Rows : Main(s)' => Main(s) /\ rows'[s] = rows[s]
    BY <1>1 DEF Main
  <2>2. ASSUME NEW c \in Contracts
        PROVE  /\ c \in missed => c \in missed'
               /\ Room(c) <= Room(c)' /\ (Usurped(c) => c \in missed' \/ Usurped(c)')
    BY <1>1, <1>2, <1>6, <1>8, DeskAssumption DEF Usurped
  <2> QED BY <1>6, <2>1, <2>2, RowsStay DEF DeskInv, Accounts
<1>12. SeenBacked' /\ Unrecorded'
  BY <1>1 DEF SeenBacked, Unrecorded
<1>13. Capacity'
  BY <1>1, <1>6, CapacityAfter DEF DeskInv
<1> QED BY <1>6, <1>9, <1>10, <1>11, <1>12, <1>13 DEF DeskInv, Accounts

\* What every step of an exit keeps that leaves the account of rows in order.
LEMMA ExitMoves ==
  ASSUME DeskInv, at \in {"manage", "cutoff"}, at' = at, hidden' = hidden, Orders', Exposed' = Exposed,
         TypeOK', Places', OneRow', RowsBacked'
  PROVE  DeskInv'
<1>1. SeenBacked' /\ Unrecorded'
  BY DEF SeenBacked, Unrecorded
<1>2. Capacity'
  BY CapacityAfter DEF DeskInv
<1> QED BY <1>1, <1>2 DEF DeskInv, Accounts

\* The exit is over, unconfirmed or in full.
LEMMA ExitEndsKeeps ==
  ASSUME DeskInv, ExitUnconfirmed \/ ExitFilled
  PROVE  DeskInv'
<1> DEFINE c == snap[due].contract
<1>1. /\ due # Nobody /\ Answered(Loop) /\ Take(Loop) /\ due' = Nobody /\ at' = at
      /\ orders' = orders /\ held' = held /\ seen' = seen /\ todo' = todo /\ snap' = snap
      /\ child' = child /\ api' = api /\ hidden' = hidden
      /\ \/ call[Loop].filled = 0 /\ rows' = rows /\ closed' = closed /\ missed' = missed
         \/ /\ call[Loop].filled >= snap[due].qty
            /\ rows' = [rows EXCEPT ![due] = NoRow] /\ closed' = closed \cup {c}
            /\ missed' = IF rows[due] = NoRow THEN missed \cup {c} ELSE missed
  BY DEF ExitUnconfirmed, ExitFilled, Misbooked
<1>2. /\ due \in Rows /\ at \in {"manage", "cutoff"} /\ due \notin todo
      /\ c \in Contracts /\ snap[due].qty \in 1 .. MaxQty
      /\ rows[due] \in {NoRow, snap[due]}
      /\ call[Loop].side = "sell" /\ call[Loop].contract = c /\ call[Loop].filled \in 0 .. MaxQty
      /\ Loop \in Procs /\ Api \in Procs /\ Api # Loop
  BY <1>1, Exiting
<1>3. child = Nobody
  <2>1. call[Loop].filled \notin 1 .. (snap[due].qty - 1)
    BY <1>1, <1>2, DeskAssumption
  <2> QED BY <2>1 DEF DeskInv, Places, ChildPlace
<1>4. /\ Orders' /\ Exposed' = Exposed /\ call'[Loop] = Idle /\ call'[Api] = call[Api]
      /\ \A d \in Contracts :
           /\ Room(d) \in Nat
           /\ Room(d)' = Room(d) - (IF d = c THEN call[Loop].filled ELSE 0)
  BY <1>1, <1>2, TakeKeeps DEF DeskInv
<1>5. \A s \in Rows : rows'[s] = rows[s] \/ rows'[s] = NoRow
  BY <1>1, <1>2 DEF DeskInv, TypeOK
<1>6. TypeOK'
  <2>1. rows' \in [Rows -> Trade \cup {NoRow}]
    BY <1>1, <1>2 DEF DeskInv, TypeOK
  <2>2. closed' \subseteq Contracts /\ missed' \subseteq Contracts
    BY <1>1, <1>2 DEF DeskInv, TypeOK
  <2> QED BY <1>1, <1>4, <2>1, <2>2 DEF DeskInv, TypeOK, Orders
<1>7. Places'
  <2>1. LoopPlace' /\ DuePlace' /\ ChildPlace'
    BY <1>1, <1>3, <1>4 DEF LoopPlace, DuePlace, ChildPlace
  <2>2. TodoPlace'
    BY <1>1, <1>2, <1>5 DEF DeskInv, Places, TodoPlace, AsRead
  <2>3. ApiPlace'
    <3>1. api # Nobody => api \in Rows
      BY DEF DeskInv, TypeOK
    <3> QED BY <1>1, <1>4, <1>5, <3>1 DEF DeskInv, Places, ApiPlace
  <2> QED BY <1>1, <1>2, <2>1, <2>2, <2>3 DEF Places
<1>8. OneRow' /\ RowsBacked'
  <2>1. \A s \in Rows : Main(s)' => Main(s) /\ rows'[s] = rows[s]
    BY <1>1, <1>5 DEF Main
  <2>2. ASSUME NEW s \in Rows, NEW d \in Contracts, Main(s)', rows'[s].contract = d
        PROVE  /\ d \in missed => d \in missed'
               /\ \/ Room(d) <= Room(d)' /\ (Usurped(d) => d \in missed' \/ Usurped(d)')
                  \/ d \in missed' \/ Usurped(d)'
    <3>1. d \in missed => d \in missed'
      BY <1>1
    <3>2. ~Usurped(d)
      BY <1>3, DeskAssumption DEF Usurped
    <3>3. CASE d # c \/ call[Loop].filled = 0
      <4>1. Room(d)' = Room(d) /\ Room(d) \in Nat
        BY <1>4, <3>3
      <4> QED BY <3>1, <3>2, <4>1
    <3>4. CASE d = c /\ call[Loop].filled # 0
      <4>1. /\ rows' = [rows EXCEPT ![due] = NoRow]
            /\ missed' = IF rows[due] = NoRow THEN missed \cup {c} ELSE missed
        BY <1>1, <3>4
      <4>2. s # due
        BY <1>2, <2>2, <4>1 DEF Main, DeskInv, TypeOK
      <4>3. rows[due] # NoRow => c \in missed
        BY <1>1, <1>2, <1>3, <2>1, <2>2, <3>4, <4>2, BesideDue, DeskAssumption
      <4>4. d \in missed'
        BY <3>4, <4>1, <4>3
      <4> QED BY <4>4
    <3> QED BY <3>3, <3>4
  <2> QED BY <1>4, <2>1, <2>2, RowsStay DEF DeskInv, Accounts
<1> QED BY <1>1, <1>2, <1>4, <1>6, <1>7, <1>8, ExitMoves

\* The part that was sold gets a row of its own.
LEMMA ExitPartlyKeeps ==
  ASSUME DeskInv, ExitPartly
  PROVE  DeskInv'
<1>1. /\ due # Nobody /\ Answered(Loop) /\ child = Nobody /\ at' = at
      /\ call[Loop].filled \in 1 .. (snap[due].qty - 1)
      /\ orders' = orders /\ held' = held /\ call' = call /\ closed' = closed /\ seen' = seen
      /\ todo' = todo /\ snap' = snap /\ due' = due
      /\ api' = api /\ missed' = missed /\ hidden' = hidden
  BY DEF ExitPartly
<1>2. PICK r \in Rows :
        /\ Unused(r)
        /\ rows' = [rows EXCEPT ![r] = [snap[due] EXCEPT !.qty = call[Loop].filled]]
        /\ child' = r
  BY DEF ExitPartly
<1>3. /\ due \in Rows /\ at \in {"manage", "cutoff"} /\ snap[due] \in Trade
      /\ snap[due].qty \in 1 .. MaxQty /\ rows[due] \in {NoRow, snap[due]}
  BY <1>1, Exiting
<1>4. call[Loop].filled \in 1 .. MaxQty
  BY <1>1, <1>3, DeskAssumption
<1>5. /\ rows' \in [Rows -> Trade \cup {NoRow}] /\ rows'[r].contract = snap[due].contract
      /\ \A s \in Rows \ {r} : rows'[s] = rows[s]
  BY <1>2, <1>3, <1>4 DEF DeskInv, TypeOK, Trade
<1>6. r # due /\ r # api /\ r \notin todo
  BY <1>2 DEF Unused
<1>7. /\ Orders' /\ Exposed' = Exposed
      /\ \A d \in Contracts : Room(d)' = Room(d)
  BY <1>1, MarketSame DEF DeskInv
<1>8. \A c \in Contracts : Room(c) \in Nat
  BY RoomType DEF DeskInv
<1>9. TypeOK'
  BY <1>1, <1>2, <1>5, <1>7 DEF DeskInv, TypeOK, Orders
<1>10. Places'
  <2>1. LoopPlace'
    BY <1>1 DEF DeskInv, Places, LoopPlace
  <2>2. TodoPlace' /\ DuePlace'
    BY <1>1, <1>3, <1>5, <1>6 DEF DeskInv, Places, TodoPlace, DuePlace, AsRead
  <2>3. ChildPlace'
    BY <1>1, <1>2, <1>5, <1>6 DEF ChildPlace, Answered
  <2>4. ApiPlace'
    <3>1. api # Nobody => rows'[api] = rows[api]
      BY <1>5, <1>6 DEF DeskInv, TypeOK
    <3> QED BY <1>1, <3>1 DEF DeskInv, Places, ApiPlace
  <2> QED BY <1>1, <1>3, <2>1, <2>2, <2>3, <2>4 DEF Places
<1>11. OneRow' /\ RowsBacked'
  <2>1. \A s \in Rows : Main(s)' => Main(s) /\ rows'[s] = rows[s]
    BY <1>1, <1>2, <1>5, DeskAssumption DEF Main
  <2>2. ASSUME NEW c \in Contracts
        PROVE  /\ c \in missed => c \in missed'
               /\ Room(c) <= Room(c)' /\ (Usurped(c) => c \in missed' \/ Usurped(c)')
    BY <1>1, <1>7, <1>8, DeskAssumption DEF Usurped
  <2> QED BY <1>7, <2>1, <2>2, RowsStay DEF DeskInv, Accounts
<1> QED BY <1>1, <1>3, <1>7, <1>9, <1>10, <1>11, ExitMoves

\* That row is closed; where the API thread was first, the exit is noted in missed.
LEMMA CloseChildKeeps ==
  ASSUME DeskInv, CloseChild
  PROVE  DeskInv'
<1> DEFINE c == snap[due].contract
<1>1. /\ child \in Rows /\ rows' = [rows EXCEPT ![child] = NoRow] /\ closed' = closed \cup {c}
      /\ child' = NoRow /\ missed' = IF rows[child] = NoRow THEN missed \cup {c} ELSE missed
      /\ orders' = orders /\ held' = held /\ call' = call /\ at' = at /\ seen' = seen
      /\ todo' = todo /\ snap' = snap /\ due' = due
      /\ api' = api /\ hidden' = hidden
  BY DEF CloseChild, Misbooked
<1>2. /\ due # Nobody /\ child # due /\ Answered(Loop)
      /\ call[Loop].filled \in 1 .. (snap[due].qty - 1)
  BY <1>1, DeskAssumption DEF DeskInv, Places, ChildPlace
<1>3. /\ due \in Rows /\ at \in {"manage", "cutoff"} /\ c \in Contracts
      /\ snap[due].qty \in 1 .. MaxQty /\ rows[due] \in {NoRow, snap[due]}
  BY <1>2, Exiting
<1>4. \A s \in Rows : rows'[s] = rows[s] \/ rows'[s] = NoRow
  BY <1>1 DEF DeskInv, TypeOK
<1>5. /\ Orders' /\ Exposed' = Exposed
      /\ \A d \in Contracts : Room(d)' = Room(d)
  BY <1>1, MarketSame DEF DeskInv
<1>6. \A d \in Contracts : Room(d) \in Nat
  BY RoomType DEF DeskInv
<1>7. TypeOK'
  <2>1. rows' \in [Rows -> Trade \cup {NoRow}]
    BY <1>1 DEF DeskInv, TypeOK
  <2>2. closed' \subseteq Contracts /\ missed' \subseteq Contracts
    BY <1>1, <1>3 DEF DeskInv, TypeOK
  <2> QED BY <1>1, <1>5, <2>1, <2>2 DEF DeskInv, TypeOK, Orders
<1>8. Places'
  <2>1. LoopPlace'
    BY <1>1 DEF DeskInv, Places, LoopPlace
  <2>2. TodoPlace' /\ DuePlace'
    BY <1>1, <1>3, <1>4 DEF DeskInv, Places, TodoPlace, DuePlace, AsRead
  <2>3. ChildPlace'
    BY <1>1, <1>2, <1>3, DeskAssumption DEF ChildPlace, Answered
  <2>4. ApiPlace'
    <3>1. api # Nobody => api \in Rows
      BY DEF DeskInv, TypeOK
    <3> QED BY <1>1, <1>4, <3>1 DEF DeskInv, Places, ApiPlace
  <2> QED BY <1>1, <1>3, <2>1, <2>2, <2>3, <2>4 DEF Places
<1>9. OneRow' /\ RowsBacked'
  <2>1. \A s \in Rows : Main(s)' => Main(s) /\ rows'[s] = rows[s]
    BY <1>1, <1>4 DEF Main, DeskInv, TypeOK
  <2>2. ASSUME NEW d \in Contracts
        PROVE  /\ d \in missed => d \in missed'
               /\ Room(d) <= Room(d)' /\ (Usurped(d) => d \in missed' \/ Usurped(d)')
    BY <1>1, <1>5, <1>6 DEF Usurped
  <2> QED BY <1>5, <2>1, <2>2, RowsStay DEF DeskInv, Accounts
<1> QED BY <1>1, <1>3, <1>5, <1>7, <1>8, <1>9, ExitMoves

\* The row of the trade is shrunk by what was sold.
LEMMA ShrinkTradeKeeps ==
  ASSUME DeskInv, ShrinkTrade
  PROVE  DeskInv'
<1> DEFINE c == snap[due].contract
           n == call[Loop].filled
<1>1. /\ child = NoRow
      /\ rows' = [rows EXCEPT ![due] = IF @ = NoRow THEN @ ELSE [@ EXCEPT !.qty = Remainder]]
      /\ missed' = IF rows[due] = NoRow THEN missed \cup {c} ELSE missed
      /\ Take(Loop) /\ due' = Nobody /\ child' = Nobody
      /\ orders' = orders /\ held' = held /\ closed' = closed /\ at' = at /\ seen' = seen
      /\ todo' = todo /\ snap' = snap /\ api' = api /\ hidden' = hidden
  BY DEF ShrinkTrade, Misbooked
<1>2. /\ due # Nobody /\ child # due /\ Answered(Loop)
      /\ n \in 1 .. (snap[due].qty - 1)
  BY <1>1, DeskAssumption DEF DeskInv, Places, ChildPlace
<1>3. /\ due \in Rows /\ at \in {"manage", "cutoff"} /\ due \notin todo /\ c \in Contracts
      /\ snap[due] \in Trade /\ snap[due].qty \in 1 .. MaxQty /\ rows[due] \in {NoRow, snap[due]}
      /\ call[Loop].side = "sell" /\ call[Loop].contract = c
      /\ Loop \in Procs /\ Api \in Procs /\ Api # Loop
  BY <1>2, Exiting
<1>4. Remainder \in 1 .. MaxQty /\ Remainder = snap[due].qty - n /\ n \in Nat
  BY <1>2, <1>3, DeskAssumption DEF Remainder
<1>5. /\ \A s \in Rows \ {due} : rows'[s] = rows[s]
      /\ rows[due] = NoRow => rows'[due] = NoRow
      /\ rows[due] # NoRow => /\ rows[due] = snap[due]
                              /\ rows'[due] \in Trade /\ rows'[due].contract = c
                              /\ rows'[due].qty = Remainder
  <2>1. rows'[due] = IF rows[due] = NoRow THEN rows[due] ELSE [rows[due] EXCEPT !.qty = Remainder]
    BY <1>1, <1>3 DEF DeskInv, TypeOK
  <2>2. [snap[due] EXCEPT !.qty = Remainder] \in Trade
    BY <1>3, <1>4 DEF Trade
  <2>3. /\ [snap[due] EXCEPT !.qty = Remainder].contract = c
        /\ [snap[due] EXCEPT !.qty = Remainder].qty = Remainder
    BY <1>3 DEF Trade
  <2>4. \A s \in Rows \ {due} : rows'[s] = rows[s]
    BY <1>1 DEF DeskInv, TypeOK
  <2> QED BY <1>3, <2>1, <2>2, <2>3, <2>4
<1>6. /\ Orders' /\ Exposed' = Exposed /\ call'[Loop] = Idle /\ call'[Api] = call[Api]
      /\ \A d \in Contracts :
           /\ Room(d) \in Nat
           /\ Room(d)' = Room(d) - (IF d = c THEN n ELSE 0)
  BY <1>1, <1>2, <1>3, TakeKeeps DEF DeskInv
<1>7. TypeOK'
  <2>1. rows' \in [Rows -> Trade \cup {NoRow}]
    <3>1. \A s \in Rows : rows'[s] \in Trade \cup {NoRow}
      BY <1>5 DEF DeskInv, TypeOK
    <3>2. rows' \in [Rows -> {rows'[s] : s \in Rows}]
      BY <1>1 DEF DeskInv, TypeOK
    <3> QED BY <3>1, <3>2
  <2>2. missed' \subseteq Contracts
    BY <1>1, <1>3 DEF DeskInv, TypeOK
  <2> QED BY <1>1, <1>6, <2>1, <2>2 DEF DeskInv, TypeOK, Orders
<1>8. Places'
  <2>1. LoopPlace' /\ DuePlace' /\ ChildPlace'
    BY <1>1, <1>6 DEF LoopPlace, DuePlace, ChildPlace
  <2>2. TodoPlace'
    BY <1>1, <1>3, <1>5 DEF DeskInv, Places, TodoPlace, AsRead
  <2>3. ApiPlace'
    <3>1. api # Nobody => api \in Rows
      BY DEF DeskInv, TypeOK
    <3>2. api # Nobody => rows'[api] = NoRow \/ rows'[api].contract = rows[api].contract
      BY <1>5, <3>1
    <3>3. api # Nobody /\ rows[api] = NoRow => rows'[api] = NoRow
      BY <1>5, <3>1
    <3> QED BY <1>1, <1>6, <3>2, <3>3 DEF DeskInv, Places, ApiPlace
  <2> QED BY <1>1, <1>3, <2>1, <2>2, <2>3 DEF Places
<1>9. \A s \in Rows : Main(s)' => Main(s) /\ rows'[s].contract = rows[s].contract
  BY <1>1, <1>3, <1>5, DeskAssumption DEF Main
<1>10. missed \subseteq missed'
  BY <1>1
<1>11. OneRow'
  BY <1>9, <1>10 DEF DeskInv, Accounts, OneRow
<1>12. ASSUME NEW s \in Rows, NEW d \in Contracts, Main(s)', rows'[s].contract = d, d \notin missed'
       PROVE  rows'[s].qty <= Room(d)'
  <2>1. /\ Main(s) /\ rows[s].contract = d /\ rows[s].qty <= Room(d)
    <3>1. ~Usurped(d)
      BY <1>1, DeskAssumption DEF Usurped
    <3> QED BY <1>9, <1>10, <1>12, <3>1 DEF DeskInv, Accounts, RowsBacked
  <2>2. CASE s = due
    <3>1. rows[due] = snap[due] /\ d = c /\ rows'[s].qty = snap[due].qty - n
      BY <1>4, <1>5, <2>1, <2>2 DEF Main
    <3>2. snap[due].qty <= Room(d) /\ Room(d) \in Nat /\ Room(d)' = Room(d) - n
      BY <1>6, <2>1, <2>2, <3>1
    <3>3. snap[due].qty \in Nat
      BY <1>3, DeskAssumption
    <3> QED BY <1>4, <3>1, <3>2, <3>3
  <2>3. CASE s # due /\ d = c
    <3>1. rows[due] # NoRow
      BY <1>1, <1>12, <2>3
    <3> QED BY <1>2, <1>10, <1>12, <2>1, <2>3, <3>1, BesideDue
  <2>4. CASE s # due /\ d # c
    <3>1. rows'[s] = rows[s] /\ Room(d)' = Room(d)
      BY <1>5, <1>6, <2>4
    <3> QED BY <2>1, <3>1
  <2> QED BY <2>2, <2>3, <2>4
<1>13. RowsBacked'
  <2>1. \A s \in Rows : Main(s)' => rows'[s].contract \in Contracts
    BY <1>7 DEF Main, TypeOK, Trade
  <2> QED BY <1>12, <2>1 DEF RowsBacked
<1> QED BY <1>1, <1>3, <1>6, <1>7, <1>8, <1>11, <1>13, ExitMoves

-----------------------------------------------------------------------------
(* The entry. *)

LEMMA PlaceEntryKeeps ==
  ASSUME DeskInv, NEW c \in Contracts, PlaceEntry(c)
  PROVE  DeskInv'
<1>1. /\ at = "capacity" /\ at' = "buy" /\ seen' = NothingSeen
      /\ hidden' = hidden \ {c} /\ missed' = missed \ {c}
      /\ c \notin Occupied /\ Cardinality(Occupied) < MaxPositions
      /\ orders' = orders /\ held' = held /\ rows' = rows /\ closed' = closed
      /\ todo' = todo /\ snap' = snap /\ due' = due /\ child' = child /\ api' = api
  BY DEF PlaceEntry
<1>2. PICK q \in 1 .. MaxQty : Place(Loop, c, "buy", q)
  BY DEF PlaceEntry
<1>3. /\ call[Loop] = Idle /\ due = Nobody /\ child = Nobody
      /\ Loop \in Procs /\ Api \in Procs /\ Api # Loop
  BY <1>1, Standing, DeskAssumption DEF DeskInv
<1>4. /\ Orders' /\ Exposed' = Exposed /\ call'[Api] = call[Api]
      /\ \A d \in Contracts : Room(d)' = Room(d)
      /\ call'[Loop] = Placing(c, "buy", q) /\ Executed(call'[Loop], orders') = 0
  BY <1>1, <1>2, <1>3, PlaceKeeps DEF DeskInv, Sides
<1>5. call'[Loop] # Idle /\ call'[Loop].side = "buy" /\ call'[Loop].contract = c
  BY <1>4, PlacingShape DEF Sides
<1>6. NoRowOf(c)
  <2>1. \A r \in Open : TickerOf[rows[r].contract] # TickerOf[c]
    BY DEF PlaceEntry
  <2> QED BY <2>1 DEF NoRowOf, Open
<1>7. \A d \in Contracts : Room(d) \in Nat
  BY RoomType DEF DeskInv
<1>8. TypeOK'
  <2>1. NothingSeen \in [Contracts -> Nat]
    BY DEF NothingSeen
  <2> QED BY <1>1, <1>4, <2>1 DEF DeskInv, TypeOK, Orders
<1>9. Places'
  BY <1>1, <1>3, <1>4, <1>5 DEF DeskInv, Places, LoopPlace, TodoPlace, DuePlace, ChildPlace, ApiPlace
<1>10. OneRow' /\ RowsBacked'
  <2>1. \A s \in Rows : Main(s)' => Main(s) /\ rows'[s] = rows[s]
    BY <1>1 DEF Main
  <2>2. ASSUME NEW s \in Rows, NEW d \in Contracts, Main(s)', rows'[s].contract = d
        PROVE  /\ d \in missed => d \in missed'
               /\ Room(d) <= Room(d)' /\ (Usurped(d) => d \in missed' \/ Usurped(d)')
    <3>1. d # c
      BY <1>6, <2>1, <2>2 DEF Main, NoRowOf
    <3> QED BY <1>1, <1>3, <1>4, <1>7, <3>1, DeskAssumption DEF Usurped
  <2> QED BY <1>4, <2>1, <2>2, RowsStay DEF DeskInv, Accounts
<1>11. SeenBacked'
  BY <1>1 DEF SeenBacked
<1>12. Unrecorded'
  <2>1. NoRowOf(c)' /\ Executed(call'[Loop], orders') <= Room(c)'
    BY <1>1, <1>4, <1>6, <1>7 DEF NoRowOf
  <2> QED BY <1>1, <1>5, <2>1 DEF Unrecorded
<1>13. Capacity'
  <2> DEFINE E == Exposed \ hidden
  <2>1. IsFiniteSet(Occupied)
    <3>1. Occupied \in SUBSET Contracts
      <4>1. \A o \in Slots : Working(o) => orders[o].contract \in Contracts
        BY OrderShape DEF DeskInv, Orders, ExecutionTypeOK, Working
      <4> QED BY <4>1 DEF Occupied, OpenOrders
    <3> QED BY <3>1, FS_Subset, DeskAssumption
  <2>2. E \subseteq Occupied
    <3>1. \A d \in Positions \ hidden : seen[d] > 0 \/ Buying(d)
      BY <1>1 DEF DeskInv, Capacity
    <3> QED BY <3>1 DEF Exposed, Positions, Occupied, Buying, OpenOrders
  <2>3. Cardinality(Occupied \cup {c}) <= MaxPositions
    <3>1. Cardinality(Occupied \cup {c}) = Cardinality(Occupied) + 1
      BY <1>1, <2>1, FS_AddElement
    <3>2. Cardinality(Occupied) \in Nat
      BY <2>1, FS_CardinalityType
    <3> QED BY <1>1, <3>1, <3>2, DeskAssumption
  <2>4. IsFiniteSet(Occupied \cup {c})
    BY <2>1, FS_AddElement
  <2>5. E' \subseteq Occupied \cup {c} /\ E' \cup {c} \subseteq Occupied \cup {c}
    BY <1>1, <1>4, <2>2
  <2> HIDE DEF E
  <2>6. Cardinality(E') <= MaxPositions /\ Cardinality(E' \cup {c}) <= MaxPositions
    BY <2>3, <2>4, <2>5, NoMore
  <2> QED BY <1>1, <1>5, <2>6 DEF E, Capacity, CapacityKept
<1> QED BY <1>4, <1>8, <1>9, <1>10, <1>11, <1>12, <1>13 DEF DeskInv, Accounts

\* The entry is recorded, with what was executed of it.
LEMMA RecordEntryKeeps ==
  ASSUME DeskInv, RecordEntry
  PROVE  DeskInv'
<1> DEFINE c == call[Loop].contract
           n == call[Loop].filled
<1>1. /\ at = "buy" /\ at' = "idle" /\ seen' = NothingSeen /\ snap' = [r \in Rows |-> NoRow]
      /\ Answered(Loop) /\ Take(Loop)
      /\ orders' = orders /\ held' = held /\ closed' = closed /\ todo' = todo
      /\ due' = due /\ child' = child /\ api' = api /\ missed' = missed /\ hidden' = hidden
  BY DEF RecordEntry, EndTick
<1>2. /\ due = Nobody /\ child = Nobody /\ call[Loop].side = "buy"
      /\ Loop \in Procs /\ Api \in Procs /\ Api # Loop
  BY <1>1, Standing, DeskAssumption DEF DeskInv, Places, LoopPlace
<1>3. /\ Orders' /\ Exposed' = Exposed /\ call'[Loop] = Idle /\ call'[Api] = call[Api]
      /\ c \in Contracts /\ n \in 0 .. MaxQty /\ Executed(call[Loop], orders) = n
      /\ \A d \in Contracts : Room(d)' = Room(d) - 0 /\ Room(d) \in Nat
  BY <1>1, <1>2, TakeKeeps DEF DeskInv
<1>4. \A d \in Contracts : Room(d)' = Room(d)
  BY <1>3
<1>5. NoRowOf(c) /\ (c \in missed \/ n <= Room(c))
  BY <1>1, <1>3 DEF DeskInv, Accounts, Unrecorded
<1>6. /\ rows' \in [Rows -> Trade \cup {NoRow}] /\ OneRow' /\ RowsBacked'
      /\ api # Nobody => rows'[api] = rows[api]
  <2>1. CASE n = 0
    <3>1. rows' = rows
      BY <2>1 DEF RecordEntry
    <3>2. OneRow' /\ RowsBacked'
      <4>1. \A s \in Rows : Main(s)' => Main(s) /\ rows'[s] = rows[s]
        BY <1>1, <3>1 DEF Main
      <4>2. ASSUME NEW d \in Contracts
            PROVE  /\ d \in missed => d \in missed'
                   /\ Room(d) <= Room(d)' /\ (Usurped(d) => d \in missed' \/ Usurped(d)')
        BY <1>1, <1>2, <1>3, DeskAssumption DEF Usurped
      <4> QED BY <1>3, <4>1, <4>2, RowsStay DEF DeskInv, Accounts
    <3> QED BY <3>1, <3>2 DEF DeskInv, TypeOK
  <2>2. CASE n # 0
    <3>1. PICK r \in Rows :
            /\ Unused(r)
            /\ rows' = [rows EXCEPT ![r] = [contract |-> c, qty |-> n, kind |-> "bot"]]
      BY <2>2 DEF RecordEntry
    <3>2. n \in 1 .. MaxQty
      BY <1>3, <2>2, DeskAssumption
    <3> HIDE DEF n, c
    <3>3. /\ rows' \in [Rows -> Trade \cup {NoRow}] /\ r # api
          /\ rows'[r].contract = c /\ rows'[r].qty = n
          /\ \A s \in Rows \ {r} : rows'[s] = rows[s]
      BY <1>3, <3>1, <3>2 DEF DeskInv, TypeOK, Trade, Kinds, Unused
    <3>4. OneRow' /\ RowsBacked'
      BY <1>1, <1>2, <1>3, <1>4, <1>5, <3>3, RowInserted
    <3> QED BY <3>3, <3>4 DEF DeskInv, TypeOK
  <2> QED BY <2>1, <2>2
<1>7. TypeOK'
  <2>1. NothingSeen \in [Contracts -> Nat] /\ [r \in Rows |-> NoRow] \in [Rows -> Trade \cup {NoRow}]
    BY DEF NothingSeen
  <2> QED BY <1>1, <1>3, <1>6, <2>1 DEF DeskInv, TypeOK, Orders
<1>8. Places'
  BY <1>1, <1>2, <1>3, <1>6 DEF DeskInv, Places, LoopPlace, TodoPlace, DuePlace, ChildPlace, ApiPlace
<1>9. SeenBacked' /\ Unrecorded'
  BY <1>1 DEF SeenBacked, Unrecorded
<1>10. Capacity'
  BY <1>1, <1>3, CapacityAfter DEF DeskInv
<1> QED BY <1>3, <1>6, <1>7, <1>8, <1>9, <1>10 DEF DeskInv, Accounts

-----------------------------------------------------------------------------
(* The API thread. *)

\* A step that leaves the tick where it is, and the rows, but for rows closed.
LEMMA Beside ==
  ASSUME DeskInv, Orders', at' = at, seen' = seen, todo' = todo, snap' = snap, due' = due, child' = child,
         closed \subseteq closed', missed \subseteq missed',
         \A r \in Rows : rows'[r] = rows[r] \/ rows'[r] = NoRow,
         call[Loop] # Idle => call'[Loop] # Idle /\ call'[Loop].contract = call[Loop].contract,
         call[Loop] = Idle => call'[Loop] = Idle,
         \A c \in Contracts :
           \/ Room(c) <= Room(c)' /\ (Usurped(c) => c \in missed' \/ Usurped(c)')
           \/ c \in missed'
           \/ c \in closed' /\ ~NoRowOf(c) /\ (Usurped(c)' \/ ~\E r \in Rows : Main(r)' /\ rows'[r].contract = c),
         at = "buy" => LET c == call[Loop].contract
                       IN \/ c \in missed'
                          \/ Executed(call'[Loop], orders') - Executed(call[Loop], orders) <= Room(c)' - Room(c)
  PROVE  Accounts'
<1>1. \A c : NoRowOf(c) => NoRowOf(c)'
  BY DEF NoRowOf
<1>2. \A c \in Contracts : Room(c) \in Nat /\ Room(c)' \in Nat
  BY RoomType, RoomTypeNext DEF DeskInv
<1>3. OneRow' /\ RowsBacked'
  <2>1. \A s \in Rows : Main(s)' => Main(s) /\ rows'[s] = rows[s]
    BY DEF Main
  <2>2. ASSUME NEW s \in Rows, NEW c \in Contracts, Main(s)', rows'[s].contract = c
        PROVE  /\ c \in missed => c \in missed'
               /\ \/ Room(c) <= Room(c)' /\ (Usurped(c) => c \in missed' \/ Usurped(c)')
                  \/ c \in missed' \/ Usurped(c)'
    BY <2>2
  <2> QED BY <2>1, <2>2, RowsStay DEF DeskInv, Accounts
<1>4. SeenBacked'
  <2>1. ASSUME at = "journal", NEW c \in Contracts
        PROVE  c \in missed' \cup closed' \/ seen[c] <= Room(c)'
    <3>1. c \in missed \cup closed \/ seen[c] <= Room(c)
      BY <2>1 DEF DeskInv, Accounts, SeenBacked
    <3>2. seen[c] \in Nat
      BY DEF DeskInv, TypeOK
    <3> QED BY <1>2, <3>1, <3>2
  <2>2. ASSUME at = "ghosts", NEW c \in Contracts, seen[c] > 0
        PROVE  NoRowOf(c)' /\ (c \in missed' \/ seen[c] <= Room(c)')
    <3>1. NoRowOf(c) /\ (c \in missed \/ seen[c] <= Room(c))
      BY <2>2 DEF DeskInv, Accounts, SeenBacked
    <3>2. seen[c] \in Nat
      BY DEF DeskInv, TypeOK
    <3> QED BY <1>1, <1>2, <3>1, <3>2
  <2> QED BY <2>1, <2>2 DEF SeenBacked
<1>5. Unrecorded'
  <2>1. ASSUME at = "ghosts"
        PROVE  /\ \A c \in todo' : NoRowOf(c)' /\ seen'[c] = 0
               /\ call'[Loop] # Idle => \A c : c = call'[Loop].contract => NoRowOf(c)' /\ seen'[c] = 0
    BY <1>1, <2>1 DEF DeskInv, Accounts, Unrecorded
  <2>2. ASSUME at = "buy", NEW c, c = call'[Loop].contract
        PROVE  NoRowOf(c)' /\ (c \in missed' \/ Executed(call'[Loop], orders') <= Room(c)')
    <3>1. call[Loop] # Idle /\ call'[Loop] # Idle /\ c = call[Loop].contract
      BY <2>2 DEF DeskInv, Places
    <3>2. /\ NoRowOf(c) /\ (c \in missed \/ Executed(call[Loop], orders) <= Room(c))
          /\ \/ c \in missed'
             \/ Executed(call'[Loop], orders') - Executed(call[Loop], orders) <= Room(c)' - Room(c)
      BY <2>2, <3>1 DEF DeskInv, Accounts, Unrecorded
    <3>3. /\ call[Loop] \in Call /\ Knows(call[Loop], orders) /\ c \in Contracts
          /\ call'[Loop] \in Call /\ Knows(call'[Loop], orders')
      BY <3>1, CallShape, DeskAssumption DEF DeskInv, Orders, ExecutionTypeOK
    <3>4. Executed(call[Loop], orders) \in Nat /\ Executed(call'[Loop], orders') \in Nat
      BY <3>3, ExecutedType DEF DeskInv, Orders, ExecutionTypeOK
    <3>5. Room(c) \in Nat /\ Room(c)' \in Nat
      BY <1>2, <3>3
    <3> QED BY <1>1, <3>2, <3>4, <3>5
  <2>3. at = "ghosts" /\ call'[Loop] # Idle => (NoRowOf(call[Loop].contract) /\ seen[call[Loop].contract] = 0)'
    BY <2>1 DEF NoRowOf
  <2>4. at = "buy" => (NoRowOf(call[Loop].contract) /\ (\/ call[Loop].contract \in missed
                                                        \/ Executed(call[Loop], orders) <= Room(call[Loop].contract)))'
    <3> SUFFICES ASSUME at = "buy", NEW c, c = call'[Loop].contract
                 PROVE  (NoRowOf(call[Loop].contract) /\ (\/ call[Loop].contract \in missed
                                                          \/ Executed(call[Loop], orders) <= Room(call[Loop].contract)))'
      OBVIOUS
    <3>1. NoRowOf(c)' /\ (c \in missed' \/ Executed(call'[Loop], orders') <= Room(c)')
      BY <2>2
    <3> QED BY <3>1 DEF NoRowOf, Room, Sold
  <2> QED BY <2>1, <2>3, <2>4 DEF Unrecorded
<1> QED BY <1>3, <1>4, <1>5 DEF Accounts

\* A trade is read, and its sell placed.
LEMMA CloseTradeByIdKeeps ==
  ASSUME DeskInv, NEW r \in Rows, CloseTradeById(r)
  PROVE  DeskInv'
<1> DEFINE c == rows[r].contract
           q == rows[r].qty
<1>1. /\ api = Nobody /\ rows[r] # NoRow /\ api' = r /\ Place(Api, c, "sell", q)
      /\ orders' = orders /\ held' = held /\ rows' = rows /\ closed' = closed /\ at' = at /\ seen' = seen
      /\ todo' = todo /\ snap' = snap /\ due' = due /\ child' = child
      /\ missed' = missed /\ hidden' = hidden
  BY DEF CloseTradeById
<1>2. /\ call[Api] = Idle /\ Loop \in Procs /\ Api \in Procs /\ Api # Loop /\ "sell" \in Sides
      /\ r # Nobody
  BY <1>1, DeskAssumption DEF DeskInv, Places, ApiPlace, Sides
<1>3. c \in Contracts /\ q \in 1 .. MaxQty
  BY <1>1 DEF DeskInv, TypeOK, Trade
<1> HIDE DEF c, q
<1>4. /\ Orders' /\ Exposed' = Exposed /\ call'[Loop] = call[Loop]
      /\ \A d \in Contracts : Room(d)' = Room(d)
      /\ \A d : Buying(d)' = Buying(d)
      /\ call'[Api] = Placing(c, "sell", q)
  BY <1>1, <1>2, <1>3, PlaceKeeps DEF DeskInv
<1>5. call'[Api] # Idle /\ call'[Api].side = "sell" /\ call'[Api].contract = c
  BY <1>2, <1>3, <1>4, PlacingShape
<1>6. TypeOK'
  BY <1>1, <1>4 DEF DeskInv, TypeOK, Orders
<1>7. Places'
  <2>1. LoopPlace' /\ TodoPlace' /\ DuePlace' /\ ChildPlace' /\ (at' = "buy" => call'[Loop] # Idle)
    BY <1>1, <1>4 DEF DeskInv, Places, LoopPlace, TodoPlace, DuePlace, ChildPlace, AsRead, Answered
  <2>2. ApiPlace'
    BY <1>1, <1>2, <1>5 DEF ApiPlace, c
  <2> QED BY <2>1, <2>2 DEF Places
<1>8. Accounts'
  <2>1. \A d \in Contracts : Room(d) \in Nat
    BY RoomType DEF DeskInv
  <2>2. \A d : Usurped(d) => Usurped(d)'
    BY <1>1 DEF Usurped
  <2>3. at = "buy" => call[Loop].contract \in Contracts /\ Executed(call[Loop], orders) \in Nat
    <3> SUFFICES ASSUME at = "buy"
                 PROVE  call[Loop].contract \in Contracts /\ Executed(call[Loop], orders) \in Nat
      OBVIOUS
    <3>1. call[Loop] \in Call /\ Knows(call[Loop], orders) /\ call[Loop].contract \in Contracts
      BY <1>2, CallShape DEF DeskInv, Places, Orders, ExecutionTypeOK
    <3> QED BY <3>1, ExecutedType DEF DeskInv, Orders, ExecutionTypeOK
  <2>4. at = "buy" => LET d == call[Loop].contract
                      IN Executed(call'[Loop], orders') - Executed(call[Loop], orders) <= Room(d)' - Room(d)
    BY <1>1, <1>4, <2>1, <2>3
  <2>5. \A d \in Contracts : Room(d) <= Room(d)'
    BY <1>4, <2>1
  <2> QED BY <1>1, <1>4, <2>2, <2>4, <2>5, Beside
<1>9. Capacity'
  <2>1. at = "capacity" => \A d \in Positions' \ hidden' : seen'[d] > 0 \/ Buying(d)'
    BY <1>1, <1>4 DEF DeskInv, Capacity, Positions
  <2> QED BY <1>1, <1>4, <2>1, CapacityAfter DEF DeskInv
<1> QED BY <1>4, <1>6, <1>7, <1>8, <1>9 DEF DeskInv

\* The sell is over; what was sold closes the trade.
LEMMA ManualAnsweredKeeps ==
  ASSUME DeskInv, ManualAnswered
  PROVE  DeskInv'
<1> PICK c : c = call[Api].contract
  OBVIOUS
<1> DEFINE n == call[Api].filled
<1>1. /\ api # Nobody /\ Answered(Api) /\ Take(Api) /\ api' = Nobody
      /\ orders' = orders /\ held' = held /\ at' = at /\ seen' = seen
      /\ todo' = todo /\ snap' = snap /\ due' = due /\ child' = child /\ hidden' = hidden
      /\ \/ n = 0 /\ rows' = rows /\ closed' = closed /\ missed' = missed
         \/ /\ rows' = [rows EXCEPT ![api] = NoRow] /\ closed' = closed \cup {c}
            /\ missed' = IF rows[api] = NoRow THEN missed \cup {c} ELSE missed
  BY DEF ManualAnswered, Misbooked
<1>2. /\ Loop \in Procs /\ Api \in Procs /\ Api # Loop /\ api \in Rows
      /\ call[Api].side = "sell" /\ (rows[api] = NoRow \/ rows[api].contract = c)
  BY <1>1, DeskAssumption DEF DeskInv, TypeOK, Places, ApiPlace
<1>3. /\ Orders' /\ Exposed' = Exposed /\ call'[Api] = Idle /\ call'[Loop] = call[Loop]
      /\ c \in Contracts /\ n \in Nat
      /\ \A d \in Contracts : Room(d) \in Nat /\ Room(d)' = Room(d) - (IF d = c THEN n ELSE 0)
      /\ \A d : Buying(d)' = Buying(d)
  BY <1>1, <1>2, TakeKeeps, DeskAssumption DEF DeskInv
<1>4. \A r \in Rows : rows'[r] = rows[r] \/ rows'[r] = NoRow
  BY <1>1 DEF DeskInv, TypeOK
<1>5. TypeOK'
  <2>1. rows' \in [Rows -> Trade \cup {NoRow}]
    BY <1>1 DEF DeskInv, TypeOK
  <2>2. closed' \subseteq Contracts /\ missed' \subseteq Contracts
    BY <1>1, <1>3 DEF DeskInv, TypeOK
  <2> QED BY <1>1, <1>3, <2>1, <2>2 DEF DeskInv, TypeOK, Orders
<1>6. Places'
  <2>1. LoopPlace' /\ (at' = "buy" => call'[Loop] # Idle)
    BY <1>1, <1>3 DEF DeskInv, Places, LoopPlace
  <2>2. TodoPlace' /\ DuePlace'
    BY <1>1, <1>3, <1>4 DEF DeskInv, Places, TodoPlace, DuePlace, AsRead
  <2>3. ChildPlace'
    <3>1. child # Nobody /\ child # NoRow => child \in Rows
      BY DEF DeskInv, TypeOK
    <3> QED BY <1>1, <1>3, <1>4, <3>1 DEF DeskInv, Places, ChildPlace, Answered
  <2>4. ApiPlace'
    BY <1>1, <1>3 DEF ApiPlace
  <2> QED BY <2>1, <2>2, <2>3, <2>4 DEF Places
<1>7. Accounts'
  <2>1. \A d : Usurped(d) => Usurped(d)'
    BY <1>1, <1>4 DEF Usurped
  <2>2. closed \subseteq closed' /\ missed \subseteq missed'
    BY <1>1
  <2>3. \A d \in Contracts : d # c \/ n = 0 => Room(d)' = Room(d) /\ Room(d) <= Room(d)'
    BY <1>3
  <2>4. ASSUME n # 0, c \notin missed'
        PROVE  /\ c \in closed' /\ ~NoRowOf(c)
               /\ Usurped(c)' \/ ~\E r \in Rows : Main(r)' /\ rows'[r].contract = c
    <3>1. /\ rows' = [rows EXCEPT ![api] = NoRow] /\ c \in closed' /\ rows[api] # NoRow
          /\ c \notin missed /\ rows[api].contract = c
      BY <1>1, <1>2, <2>4
    <3>2. rows'[api] = NoRow
      BY <1>2, <3>1 DEF DeskInv, TypeOK
    <3>3. CASE api = child
      <4>1. snap[due].contract = c
        BY <1>2, <3>1, <3>3, DeskAssumption DEF DeskInv, Places, ChildPlace
      <4>2. Usurped(c)'
        BY <1>1, <1>2, <1>3, <3>2, <3>3, <4>1 DEF Usurped
      <4>3. ~NoRowOf(c)
        BY <1>2, <3>1 DEF NoRowOf
      <4> QED BY <3>1, <4>2, <4>3
    <3>4. CASE api # child
      <4>1. ASSUME NEW r \in Rows, Main(r)', rows'[r].contract = c
            PROVE  FALSE
        <5>1. Main(r) /\ rows[r].contract = c /\ r # api
          BY <1>1, <1>4, <3>2, <4>1 DEF Main
        <5>2. Main(api)
          BY <3>1, <3>4 DEF Main
        <5> QED BY <1>2, <3>1, <5>1, <5>2 DEF DeskInv, Accounts, OneRow
      <4> QED BY <1>2, <3>1, <4>1 DEF NoRowOf
    <3> QED BY <3>3, <3>4
  <2>5. ASSUME NEW d \in Contracts
        PROVE  \/ Room(d) <= Room(d)' /\ (Usurped(d) => d \in missed' \/ Usurped(d)')
               \/ d \in missed'
               \/ d \in closed' /\ ~NoRowOf(d) /\ (Usurped(d)' \/ ~\E r \in Rows : Main(r)' /\ rows'[r].contract = d)
    <3>1. CASE d # c \/ n = 0
      BY <2>1, <2>3, <3>1
    <3>2. CASE d = c /\ n # 0
      <4>1. CASE c \in missed'
        BY <3>2, <4>1
      <4>2. CASE c \notin missed'
        <5>1. /\ c \in closed' /\ ~NoRowOf(c)
              /\ Usurped(c)' \/ ~\E r \in Rows : Main(r)' /\ rows'[r].contract = c
          BY <2>4, <3>2, <4>2
        <5>2. Usurped(c)' <=> Usurped(d)'
          BY <1>1, <1>3, <3>2 DEF Usurped
        <5> QED BY <3>2, <5>1, <5>2
      <4> QED BY <4>1, <4>2
    <3> QED BY <3>1, <3>2
  <2>6. ASSUME at = "buy", NEW d, d = call[Loop].contract
        PROVE  \/ d \in missed'
               \/ Executed(call'[Loop], orders') - Executed(call[Loop], orders) <= Room(d)' - Room(d)
    <3>1. call[Loop] \in Call /\ Knows(call[Loop], orders) /\ d \in Contracts
      BY <1>2, <2>6, CallShape DEF DeskInv, Places, Orders, ExecutionTypeOK
    <3>2. Executed(call'[Loop], orders') = Executed(call[Loop], orders) /\ Executed(call[Loop], orders) \in Nat
      BY <1>1, <1>3, <3>1, ExecutedType DEF DeskInv, Orders, ExecutionTypeOK
    <3>3. CASE d # c \/ n = 0
      <4>1. Room(d)' = Room(d) /\ Room(d) \in Nat
        BY <1>3, <2>3, <3>1, <3>3
      <4> QED BY <3>2, <4>1
    <3>4. CASE d = c /\ n # 0
      <4>1. NoRowOf(c)
        BY <2>6, <3>4 DEF DeskInv, Accounts, Unrecorded
      <4> QED BY <2>4, <3>4, <4>1
    <3> QED BY <3>3, <3>4
  <2>7. at = "buy" => LET d == call[Loop].contract
                      IN \/ d \in missed'
                         \/ Executed(call'[Loop], orders') - Executed(call[Loop], orders) <= Room(d)' - Room(d)
    BY <1>2, <1>3, <2>6
  <2> HIDE DEF n
  <2> QED BY <1>1, <1>3, <1>4, <2>2, <2>5, <2>7, Beside
<1>8. Capacity'
  <2>1. at = "capacity" => \A d \in Positions' \ hidden' : seen'[d] > 0 \/ Buying(d)'
    BY <1>1, <1>3 DEF DeskInv, Capacity, Positions
  <2> QED BY <1>1, <1>3, <2>1, CapacityAfter DEF DeskInv
<1> QED BY <1>3, <1>5, <1>6, <1>7, <1>8 DEF DeskInv

-----------------------------------------------------------------------------
(* The steps of a placement, of the broker, and the restart. *)

\* The placement p goes on; what it does not learn of is noted.
LEMMA ExecuteKeeps ==
  ASSUME DeskInv, NEW p \in Procs, Execute(p)
  PROVE  DeskInv'
<1>1. /\ PlaceOptionOrder(p)
      /\ missed' = IF /\ Selling(p) /\ call'[p].at = "done" /\ call[p].slot # Nobody
                      /\ call'[p].filled < orders[call[p].slot].filled
                   THEN missed \cup {call[p].contract} ELSE missed
      /\ rows' = rows /\ closed' = closed /\ at' = at /\ seen' = seen /\ todo' = todo /\ snap' = snap
      /\ due' = due /\ child' = child /\ api' = api /\ hidden' = hidden
  BY DEF Execute
<1>2. Orders' /\ Calm /\ OthersKnow(p) /\ GoesOn(p)
  BY <1>1, PlacementKeeps DEF DeskInv
<1>3. RoomKept
  BY <1>1, <1>2, PlacementRoom DEF DeskInv
<1>4. /\ Loop \in Procs /\ Api \in Procs /\ Loop # Api /\ p \in {Loop, Api}
      /\ call[p] \in Call /\ call[p].contract \in Contracts
  <2>1. call[p] \in Call \cup {Idle}
    BY DEF DeskInv, Orders, ExecutionTypeOK
  <2> QED BY <1>2, <2>1, CallShape, DeskAssumption DEF GoesOn
<1>5. \A q \in Procs : /\ call'[q] # Idle <=> call[q] # Idle
                       /\ call'[q].contract = call[q].contract /\ call'[q].side = call[q].side
                       /\ call'[q].qty = call[q].qty
  BY <1>2 DEF GoesOn, OthersKnow
<1>6. child # Nobody => p = Api /\ call'[Loop] = call[Loop]
  <2>1. child # Nobody => p # Loop
    BY <1>2 DEF DeskInv, Places, ChildPlace, Answered, GoesOn
  <2> QED BY <1>2, <1>4, <2>1 DEF OthersKnow
<1>7. TypeOK'
  BY <1>1, <1>2, <1>4 DEF DeskInv, TypeOK, Orders
<1>8. Places'
  <2>1. LoopPlace' /\ (at' = "buy" => call'[Loop] # Idle)
    BY <1>1, <1>4, <1>5 DEF DeskInv, Places, LoopPlace
  <2>2. TodoPlace' /\ DuePlace'
    BY <1>1, <1>4, <1>5 DEF DeskInv, Places, TodoPlace, DuePlace, AsRead
  <2>3. ChildPlace'
    BY <1>1, <1>6 DEF DeskInv, Places, ChildPlace, Answered
  <2>4. ApiPlace'
    BY <1>1, <1>4, <1>5 DEF DeskInv, Places, ApiPlace
  <2> QED BY <2>1, <2>2, <2>3, <2>4 DEF Places
<1>9. Accounts'
  <2>1. \A d : Usurped(d) => Usurped(d)'
    BY <1>1 DEF Usurped
  <2>2. at = "buy" => LET c == call[Loop].contract
                      IN \/ c \in missed'
                         \/ Executed(call'[Loop], orders') - Executed(call[Loop], orders) <= Room(c)' - Room(c)
    <3>1. at = "buy" => call[Loop] # Idle /\ call[Loop].side = "buy" /\ call[Loop].contract \in Contracts
      <4>1. call[Loop] \in Call \cup {Idle}
        BY <1>4 DEF DeskInv, Orders, ExecutionTypeOK
      <4> QED BY <4>1, CallShape, Standing, DeskAssumption DEF DeskInv, Places, LoopPlace
    <3> QED BY <1>3, <1>4, <1>5, <3>1 DEF RoomKept
  <2>3. \A d \in Contracts : Room(d) <= Room(d)' \/ d \in missed'
    BY <1>3 DEF RoomKept
  <2>4. missed \subseteq missed'
    BY <1>3 DEF RoomKept
  <2> QED BY <1>1, <1>2, <1>4, <1>5, <2>1, <2>2, <2>3, <2>4, Beside
<1>10. Capacity'
  <2>1. Exposed' \subseteq Exposed
    BY <1>2, CalmHolds DEF DeskInv
  <2>2. at = "capacity" => \A c \in Positions' \ hidden' : seen'[c] > 0 \/ Buying(c)'
    <3> SUFFICES ASSUME at = "capacity", NEW c \in Positions' \ hidden'
                 PROVE  seen'[c] > 0 \/ Buying(c)'
      OBVIOUS
    <3>1. Positions' = Positions /\ (seen[c] > 0 \/ Buying(c))
      BY <1>1, <1>2 DEF Calm, Positions, DeskInv, Capacity
    <3>2. call[Loop] = Idle
      BY Standing DEF DeskInv
    <3>3. call[p].side = "sell"
      BY <1>2, <1>4, <3>2 DEF GoesOn, DeskInv, Places, ApiPlace
    <3>4. Buying(c) => Buying(c)'
      BY <1>2, <3>3 DEF GoesOn, Buying, Working
    <3> QED BY <1>1, <3>1, <3>4
  <2>3. Orders /\ Capacity
    BY DEF DeskInv
  <2> QED BY <1>1, <1>4, <1>5, <2>1, <2>2, <2>3, CapacityAfter
<1> QED BY <1>2, <1>7, <1>8, <1>9, <1>10 DEF DeskInv

\* The broker executes, turns an order down or drops it.
LEMMA BrokerStepKeeps ==
  ASSUME DeskInv, BrokerStep
  PROVE  DeskInv'
<1>1. /\ Broker
      /\ missed' = missed \cup {orders[o].contract : o \in {x \in Slots : Untold(x)}}
      /\ hidden' = (hidden \cup {orders[o].contract : o \in {x \in Slots : Unseen(x)}}) \cap Exposed'
      /\ rows' = rows /\ closed' = closed /\ at' = at /\ seen' = seen /\ todo' = todo /\ snap' = snap
      /\ due' = due /\ child' = child /\ api' = api
  BY DEF BrokerStep
<1>2. Orders' /\ call' = call
  BY <1>1, BrokerKeeps DEF DeskInv, Traded
<1>3. RoomKept
  BY <1>2, BrokerRoom DEF DeskInv
<1>4. Loop \in Procs /\ Api \in Procs
  BY DeskAssumption
<1>5. TypeOK'
  <2>1. \A o \in Slots : orders[o] \in Order \cup {NoOrder}
    BY DEF DeskInv, Orders, ExecutionTypeOK
  <2>2. \A o \in Slots : Untold(o) => orders[o].contract \in Contracts
    <3> SUFFICES ASSUME NEW o \in Slots, Untold(o)
                 PROVE  orders[o].contract \in Contracts
      OBVIOUS
    <3>1. orders[o].status = "working"
      BY DEF Untold, Working
    <3> QED BY <2>1, <3>1, OrderShape
  <2>3. missed' \subseteq Contracts
    BY <1>1, <2>2 DEF DeskInv, TypeOK
  <2>4. Exposed' \subseteq Contracts
    <3>1. \A o \in Slots : orders'[o] \in Order \cup {NoOrder}
      BY <1>2 DEF Orders, ExecutionTypeOK
    <3>2. \A o \in Slots : orders'[o].status = "working" => orders'[o].contract \in Contracts
      BY <3>1, OrderShape
    <3> QED BY <3>2 DEF Exposed, Positions, OpenOrders, Working
  <2> QED BY <1>1, <1>2, <2>3, <2>4 DEF DeskInv, TypeOK, Orders
<1>6. Places'
  <2>1. LoopPlace' /\ TodoPlace' /\ DuePlace' /\ (at' = "buy" => call'[Loop] # Idle)
    BY <1>1, <1>2 DEF DeskInv, Places, LoopPlace, TodoPlace, DuePlace, AsRead
  <2>2. ChildPlace' /\ ApiPlace'
    BY <1>1, <1>2 DEF DeskInv, Places, ChildPlace, ApiPlace, Answered
  <2> QED BY <2>1, <2>2 DEF Places
<1>7. Accounts'
  <2>1. \A d : Usurped(d) => Usurped(d)'
    BY <1>1 DEF Usurped
  <2>2. at = "buy" => LET c == call[Loop].contract
                      IN \/ c \in missed'
                         \/ Executed(call'[Loop], orders') - Executed(call[Loop], orders) <= Room(c)' - Room(c)
    <3>1. at = "buy" => call[Loop] # Idle /\ call[Loop].side = "buy" /\ call[Loop].contract \in Contracts
      <4>1. call[Loop] \in Call \cup {Idle}
        BY <1>4 DEF DeskInv, Orders, ExecutionTypeOK
      <4> QED BY <4>1, CallShape, Standing, DeskAssumption DEF DeskInv, Places, LoopPlace
    <3> QED BY <1>2, <1>3, <3>1 DEF RoomKept
  <2>3. \A d \in Contracts : Room(d) <= Room(d)' \/ d \in missed'
    BY <1>3 DEF RoomKept
  <2>4. missed \subseteq missed'
    BY <1>3 DEF RoomKept
  <2> QED BY <1>1, <1>2, <2>1, <2>2, <2>3, <2>4, Beside
<1>8. Capacity'
  BY <1>2, BrokerCapacity DEF DeskInv, TypeOK
<1> QED BY <1>2, <1>5, <1>6, <1>7, <1>8 DEF DeskInv

\* The process ends: what its threads sold is noted, and nothing else is lost.
LEMMA RestartDeskKeeps ==
  ASSUME DeskInv, Restart
  PROVE  DeskInv'
<1>1. /\ call' = [p \in Procs |-> Idle] /\ orders' = Listed(orders, call') /\ held' = held
      /\ at' = "idle" /\ seen' = NothingSeen /\ snap' = [r \in Rows |-> NoRow]
      /\ todo' = {} /\ due' = Nobody /\ child' = Nobody /\ api' = Nobody
      /\ missed' = missed \cup {call[p].contract : p \in {q \in Procs : Selling(q)}}
      /\ rows' = rows /\ closed' = closed /\ hidden' = hidden
  BY DEF Restart, EndTick
<1>2. /\ Orders' /\ Calm
      /\ \A c \in Contracts : \/ Room(c)' = Room(c) /\ Room(c) \in Nat
                              \/ \E p \in Procs : Selling(p) /\ call[p].contract = c
  BY <1>1, RestartKeeps DEF DeskInv
<1>3. Loop \in Procs /\ Api \in Procs /\ Nobody \notin Rows
  BY DeskAssumption
<1>4. TypeOK'
  <2>1. \A p \in Procs : Selling(p) => call[p].contract \in Contracts
    <3> SUFFICES ASSUME NEW p \in Procs, Selling(p)
                 PROVE  call[p].contract \in Contracts
      OBVIOUS
    <3>1. call[p] \in Call \cup {Idle}
      BY DEF DeskInv, Orders, ExecutionTypeOK
    <3> QED BY <3>1, CallShape DEF Selling
  <2>2. missed' \subseteq Contracts
    BY <1>1, <2>1 DEF DeskInv, TypeOK
  <2>3. seen' \in [Contracts -> Nat] /\ snap' \in [Rows -> Trade \cup {NoRow}]
    BY <1>1 DEF NothingSeen
  <2> QED BY <1>1, <1>2, <2>2, <2>3 DEF DeskInv, TypeOK, Orders
<1>5. Places'
  BY <1>1, <1>3 DEF Places, LoopPlace, TodoPlace, DuePlace, ChildPlace, ApiPlace
<1>6. ASSUME NEW r \in Rows, rows[r] # NoRow, rows[r].contract \notin missed'
      PROVE  /\ Main(r) /\ rows[r].contract \notin missed /\ ~Usurped(rows[r].contract)
             /\ Room(rows[r].contract)' = Room(rows[r].contract)
  <2>1. \A p \in Procs : Selling(p) => call[p].contract # rows[r].contract
    BY <1>1, <1>6
  <2>2. child # Nobody => Selling(Loop) /\ call[Loop].contract = snap[due].contract
    BY DEF DeskInv, Places, ChildPlace, LoopPlace, Answered, Selling
  <2>3. r # child
    BY <1>3, <1>6, <2>1, <2>2, DeskAssumption DEF DeskInv, Places, ChildPlace
  <2>4. ~Usurped(rows[r].contract)
    BY <1>3, <2>1, <2>2 DEF Usurped
  <2>5. rows[r].contract \in Contracts
    BY <1>6 DEF DeskInv, TypeOK, Trade
  <2>6. rows[r].contract \notin missed
    BY <1>1, <1>6
  <2>7. \A c \in Contracts : c = rows[r].contract => Room(c)' = Room(c)
    BY <1>2, <2>1
  <2> QED BY <1>1, <1>6, <2>3, <2>4, <2>5, <2>6, <2>7 DEF Main
<1>7. OneRow'
  BY <1>1, <1>6 DEF OneRow, Main, DeskInv, Accounts
<1>8. RowsBacked'
  <2> SUFFICES ASSUME NEW r \in Rows, rows[r] # NoRow, rows[r].contract \notin missed'
               PROVE  rows[r].qty <= Room(rows[r].contract)'
    BY <1>1 DEF RowsBacked, Main
  <2>1. rows[r].qty <= Room(rows[r].contract)
    BY <1>6 DEF DeskInv, Accounts, RowsBacked
  <2>2. Room(rows[r].contract)' = Room(rows[r].contract)
    BY <1>6
  <2> QED BY <1>1, <2>1, <2>2
<1>9. SeenBacked' /\ Unrecorded'
  BY <1>1 DEF SeenBacked, Unrecorded
<1>10. Capacity'
  <2>1. Exposed' \subseteq Exposed
    BY <1>2, CalmHolds DEF DeskInv
  <2> QED BY <1>1, <2>1, CapacityAfter DEF DeskInv
<1> QED BY <1>2, <1>4, <1>5, <1>7, <1>8, <1>9, <1>10 DEF DeskInv, Accounts

LEMMA StutterKeeps ==
  ASSUME DeskInv, vars' = vars
  PROVE  DeskInv'
<1>1. /\ orders' = orders /\ held' = held /\ call' = call /\ rows' = rows /\ closed' = closed
      /\ at' = at /\ seen' = seen /\ todo' = todo /\ snap' = snap /\ due' = due /\ child' = child
      /\ api' = api /\ missed' = missed /\ hidden' = hidden
  BY DEF vars
<1>2. /\ Orders' /\ OneRow' /\ RowsBacked' /\ Exposed' \ hidden' \subseteq Exposed \ hidden
      /\ \A c \in Contracts : Room(c)' = Room(c) /\ Room(c) \in Nat
      /\ \A c : NoRowOf(c)' = NoRowOf(c)
      /\ \A c : Buying(c)' = Buying(c)
  BY <1>1, DeskStill
<1>3. TypeOK'
  BY <1>1, <1>2 DEF DeskInv, TypeOK, Orders
<1>4. Places'
  BY <1>1 DEF DeskInv, Places, LoopPlace, TodoPlace, DuePlace, AsRead, ChildPlace, ApiPlace, Answered
<1>5. SeenBacked'
  BY <1>1, <1>2 DEF DeskInv, Accounts, SeenBacked
<1>6. Unrecorded'
  <2>1. Executed(call[Loop], orders)' = Executed(call[Loop], orders)
    BY <1>1 DEF Executed
  <2>2. at = "buy" => call[Loop].contract \in Contracts
    <3>1. call[Loop] \in Call \cup {Idle}
      BY DeskAssumption DEF DeskInv, Orders, ExecutionTypeOK
    <3> QED BY <3>1, CallShape DEF DeskInv, Places
  <2> QED BY <1>1, <1>2, <2>1, <2>2 DEF DeskInv, Accounts, Unrecorded
<1>7. Capacity'
  <2>1. at' = "capacity" => \A c \in Positions' \ hidden' : seen'[c] > 0 \/ Buying(c)'
    BY <1>1, <1>2 DEF DeskInv, Capacity, Positions
  <2> QED BY <1>1, <1>2, <2>1, CapacityAfter DEF DeskInv
<1> QED BY <1>2, <1>3, <1>4, <1>5, <1>6, <1>7 DEF DeskInv, Accounts

LEMMA DeskStarts ==
  ASSUME DeskInit
  PROVE  DeskInv
<1>1. /\ orders = [o \in Slots |-> NoOrder] /\ held = [c \in Contracts |-> 0]
      /\ call = [p \in Procs |-> Idle] /\ rows = [r \in Rows |-> NoRow] /\ closed = {}
      /\ at = "idle" /\ seen = NothingSeen /\ todo = {} /\ snap = [r \in Rows |-> NoRow]
      /\ due = Nobody /\ child = Nobody /\ api = Nobody /\ missed = {} /\ hidden = {}
  BY DEF DeskInit, ExecutionInit
<1>2. \A o \in Slots : orders[o] = NoOrder /\ ~Working(o) /\ Sound(orders[o])
  <2>1. \A o \in Slots : orders[o] = NoOrder
    BY <1>1
  <2>2. NoOrder.status = "none"
    BY DEF NoOrder
  <2> QED BY <2>1, <2>2 DEF Working, Sound
<1>3. ExecutionTypeOK
  BY <1>1 DEF ExecutionTypeOK
<1>4. HeldBack
  <2> SUFFICES ASSUME NEW c \in Contracts
               PROVE  LET U == Units(Slots, [o \in Slots |-> Unsold(o, c)])
                      IN IsFiniteSet(U) /\ Cardinality(U) <= held[c]
    BY DEF HeldBack
  <2> DEFINE f == [o \in Slots |-> Unsold(o, c)]
  <2>1. \A o \in Slots : f[o] = 0
    BY <1>2 DEF Unsold
  <2> HIDE DEF f
  <2>2. IsFiniteSet(Units(Slots, f)) /\ Cardinality(Units(Slots, f)) = 0
    BY <2>1, NothingCounted
  <2>3. held[c] = 0
    BY <1>1
  <2> QED BY <2>2, <2>3 DEF f
<1>5. Orders
  BY <1>1, <1>2, <1>3, <1>4 DEF Orders, Knows
<1>6. TypeOK
  BY <1>1, <1>3 DEF TypeOK, NothingSeen
<1>7. Places
  <2>1. call[Loop] = Idle /\ call[Api] = Idle
    BY <1>1, DeskAssumption
  <2> QED BY <1>1, <2>1 DEF Places, LoopPlace, TodoPlace, DuePlace, ChildPlace, ApiPlace
<1>8. Accounts
  BY <1>1 DEF Accounts, OneRow, RowsBacked, SeenBacked, Unrecorded, Main
<1>9. Capacity
  <2>1. Exposed = {}
    BY <1>1, <1>2 DEF Exposed, Positions, OpenOrders
  <2>2. Cardinality(Exposed \ hidden) = 0
    BY <2>1, FS_EmptySet
  <2> QED BY <1>1, <2>2, DeskAssumption DEF Capacity, CapacityKept
<1> QED BY <1>5, <1>6, <1>7, <1>8, <1>9 DEF DeskInv

-----------------------------------------------------------------------------
(* The theorems. *)

(* What the desk knows of its orders, positions and open trades, the bound *)
(* on entries among it, holds whatever the broker executes, whichever      *)
(* trade the API thread closes and wherever the process ends.              *)
THEOREM DeskInductive == Spec => []DeskInv
<1>1. DeskInit => DeskInv
  BY DeskStarts
<1>2. DeskInv /\ [Next]_vars => DeskInv'
  <2> SUFFICES ASSUME DeskInv, [Next]_vars
               PROVE  DeskInv'
    OBVIOUS
  <2>1. CASE Tick
    BY <2>1, ReadPositionsKeeps, ClassifyKeeps, RetriesKeeps, AdoptKeeps, MovesOnKeeps, CancelsKeeps,
       ExitTradeKeeps, ExitEndsKeeps, ExitPartlyKeeps, CloseChildKeeps, ShrinkTradeKeeps,
       PlaceEntryKeeps, RecordEntryKeeps DEF Tick
  <2>2. CASE ManualClose
    BY <2>2, CloseTradeByIdKeeps, ManualAnsweredKeeps DEF ManualClose
  <2>3. CASE \E p \in Procs : Execute(p)
    BY <2>3, ExecuteKeeps
  <2>4. CASE BrokerStep
    BY <2>4, BrokerStepKeeps
  <2>5. CASE NewDay
    BY <2>5, MovesOnKeeps
  <2>6. CASE Restart
    BY <2>6, RestartDeskKeeps
  <2>7. CASE UNCHANGED vars
    BY <2>7, StutterKeeps
  <2> QED BY <2>1, <2>2, <2>3, <2>4, <2>5, <2>6, <2>7 DEF Next
<1> QED BY <1>1, <1>2, PTL DEF Spec

(* TypeOK: orders, positions, placements and the journal keep their shape, *)
(* whatever the interleaving of the loop, the API thread and the broker.   *)
THEOREM DeskTypeCorrect == Spec => []TypeOK
<1>1. DeskInv => TypeOK
  BY DEF DeskInv
<1> QED BY <1>1, DeskInductive, PTL

(* CapacityKept: check_broker_entry_capacity keeps what the program holds  *)
(* or is buying within max_positions, but for the entries that none of its *)
(* two readings could show.                                                *)
THEOREM CapacityKeptHolds == Spec => []CapacityKept
<1>1. DeskInv => CapacityKept
  BY DEF DeskInv, Capacity
<1> QED BY <1>1, DeskInductive, PTL

LEMMA JournalBacked ==
  ASSUME DeskInv
  PROVE  JournalIsBacked
<1> SUFFICES ASSUME Quiet, NEW c \in Contracts \ missed
             PROVE  Journaled(rows, c) <= held[c]
  BY DEF JournalIsBacked
<1>1. at = "idle" /\ call[Loop] = Idle /\ call[Api] = Idle
  BY DeskAssumption DEF Quiet
<1>2. child = Nobody /\ Nobody \notin Rows
  BY <1>1, Standing, DeskAssumption DEF DeskInv
<1>3. held[c] \in Nat /\ Room(c) = held[c]
  <2>1. held[c] \in Nat
    BY RoomType DEF DeskInv
  <2> QED BY <1>1, <2>1 DEF Room, Sold, Selling
<1>4. \A r \in Rows : rows[r] # NoRow => rows[r].qty \in Nat
  BY DEF DeskInv, TypeOK, Trade
<1> DEFINE f == [r \in Rows |-> IF rows[r] # NoRow /\ rows[r].contract = c THEN rows[r].qty ELSE 0]
<1>6. CASE \A r \in Rows : rows[r] # NoRow => rows[r].contract # c
  <2>1. \A r \in Rows : f[r] = 0
    BY <1>6
  <2> HIDE DEF f
  <2>2. Cardinality(Units(Rows, f)) = 0
    BY <2>1, NothingCounted
  <2> QED BY <1>3, <2>2 DEF f, Journaled
<1>7. ASSUME NEW r \in Rows, rows[r] # NoRow, rows[r].contract = c
      PROVE  Journaled(rows, c) <= held[c]
  <2>1. Main(r) /\ ~Usurped(c)
    BY <1>2, <1>7 DEF Main, Usurped
  <2>2. rows[r].qty <= held[c]
    BY <1>3, <1>7, <2>1 DEF DeskInv, Accounts, RowsBacked
  <2>3. \A s \in Rows : rows[s] # NoRow /\ rows[s].contract = c => s = r
    BY <1>2, <1>7, <2>1 DEF DeskInv, Accounts, OneRow, Main
  <2>4. f[r] = rows[r].qty /\ f[r] \in Nat
    BY <1>4, <1>7
  <2>5. \A s \in Rows : s # r => f[s] = 0
    BY <2>3
  <2> HIDE DEF f
  <2>6. Cardinality(Units(Rows, f)) = f[r]
    BY <2>4, <2>5, OnlyOneCounts
  <2> QED BY <2>2, <2>4, <2>6 DEF f, Journaled
<1> QED BY <1>6, <1>7

(* JournalIsBacked: between two ticks, with no exit under way, an open     *)
(* trade shows no more contracts than are held, unless some were sold with *)
(* no thread left to book them: neither partial exits, adopted positions   *)
(* nor entries filled in part make the journal claim what is not there.    *)
THEOREM JournalIsBackedHolds == Spec => []JournalIsBacked
<1>1. DeskInv => JournalIsBacked
  BY JournalBacked
<1> QED BY <1>1, DeskInductive, PTL
=============================================================================
