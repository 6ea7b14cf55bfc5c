--------------------------- MODULE TradierExecution ---------------------------
(***************************************************************************)
(* Option orders at Tradier, as broker/tradier_execution.py sends them and *)
(* waits for them.  An order is submitted once, never again: a lost answer *)
(* is looked for by the tag of the request.  The caller polls the order,   *)
(* cancels it when its time is up, and reports what the last look at it    *)
(* showed.  Nothing is written down: when the caller gives up, or the      *)
(* process ends, the order is the broker's business alone.                 *)
(*                                                                         *)
(* Prices are left out: the step of the limit and the market fallback      *)
(* change what the order pays, not what the caller may learn of it.        *)
(***************************************************************************)
EXTENDS Naturals, FiniteSets, FiniteSetsExt, Units

CONSTANTS
  Procs,      \* threads that place orders: the loop and those of the API
  Contracts,
  Slots,      \* orders the broker can hold at a time: a bound
  MaxQty,     \* contracts of one order: a bound
  Nobody

VARIABLES
  orders,     \* Slots -> an order or NoOrder
  held,       \* Contracts -> contracts of the position at the broker
  call        \* Procs -> the placement under way in each thread

Sides == {"buy", "sell"}

NoOrder == [status |-> "none"]
(* "transit": posted and not yet at the broker *)
Order == [status : {"transit", "working", "filled", "ended"}, contract : Contracts,
          side : Sides, qty : 1..MaxQty, filled : 0..MaxQty]

(* The local variables of place_option_order and _wait_for_tradier_fill. *)
Idle == [at |-> "idle"]
Call == [at : {"post", "sent", "wait", "look", "done"},
         contract : Contracts, side : Sides, qty : 1..MaxQty,
         slot : Slots \cup {Nobody}, filled : 0..MaxQty]

Working(o) == orders[o].status = "working"

(* The orders os, while the placements are cl: one that is over, and that *)
(* nobody waits for, is of no further use to anyone.                      *)
Awaited(o, cl) == \E p \in Procs : cl[p] # Idle /\ cl[p].slot = o
Listed(os, cl) ==
  [o \in Slots |-> IF os[o].status \in {"filled", "ended"} /\ ~Awaited(o, cl) THEN NoOrder ELSE os[o]]

(* What a sell may still take: the broker holds back what working sells took. *)
Unsold(o, c) ==
  IF Working(o) /\ orders[o].side = "sell" /\ orders[o].contract = c
  THEN orders[o].qty - orders[o].filled ELSE 0
Reserved(c) == Cardinality(Units(Slots, [o \in Slots |-> Unsold(o, c)]))

(* get_open_orders() *)
OpenOrders == {o \in Slots : Working(o)}

ExecutionInit ==
  /\ orders = [o \in Slots |-> NoOrder]
  /\ held = [c \in Contracts |-> 0]
  /\ call = [p \in Procs |-> Idle]

(* The arguments of place_option_order(). *)
Placing(c, s, q) ==
  [at |-> "post", contract |-> c, side |-> s, qty |-> q, slot |-> Nobody, filled |-> 0]

-----------------------------------------------------------------------------
(* The broker. *)

(* The request reaches the broker, which takes the order or turns it down. *)
Arrive(o) ==
  /\ orders[o].status = "transit"
  /\ \/ /\ orders[o].side = "sell" => orders[o].qty + Reserved(orders[o].contract) <= held[orders[o].contract]
        /\ orders' = [orders EXCEPT ![o].status = "working"]
     \/ orders' = Listed([orders EXCEPT ![o].status = "ended"], call)
  /\ UNCHANGED <<held, call>>

(* Contracts of a working order are executed. *)
Fill(o) ==
  /\ Working(o)
  /\ LET n == orders[o].filled + 1
         c == orders[o].contract
         s == IF n = orders[o].qty THEN "filled" ELSE "working"
     IN /\ orders' = Listed([orders EXCEPT ![o] = [@ EXCEPT !.filled = n, !.status = s]], call)
        /\ held' = [held EXCEPT ![c] = IF orders[o].side = "buy" THEN @ + 1 ELSE @ - 1]
  /\ UNCHANGED call

(* The session ends, or the broker drops the order. *)
Expire(o) ==
  /\ Working(o)
  /\ orders' = Listed([orders EXCEPT ![o].status = "ended"], call)
  /\ UNCHANGED <<held, call>>

Broker == \E o \in Slots : Arrive(o) \/ Fill(o) \/ Expire(o)

-----------------------------------------------------------------------------
(* place_option_order and _wait_for_tradier_fill, for the thread p. *)

Give(p, n) ==
  /\ call' = [call EXCEPT ![p] = [@ EXCEPT !.at = "done", !.slot = Nobody, !.filled = n]]
  /\ orders' = Listed(orders, call')
Goto(p, a) == call' = [call EXCEPT ![p].at = a]

(* The POST goes out; it is never repeated.  A call without credentials, or *)
(* without a limit price, sends nothing.                                    *)
Post(p) ==
  /\ call[p].at = "post"
  /\ \/ \E o \in Slots :
          /\ orders[o] = NoOrder
          /\ orders' = [orders EXCEPT ![o] = [status |-> "transit", contract |-> call[p].contract,
                          side |-> call[p].side, qty |-> call[p].qty, filled |-> 0]]
          /\ call' = [call EXCEPT ![p] = [@ EXCEPT !.at = "sent", !.slot = o]]
     \/ Give(p, 0)
  /\ UNCHANGED held

(* The answer names the order or, where it is lost, the list of orders does *)
(* by its tag.                                                              *)
Acknowledged(p) ==
  /\ call[p].at = "sent"
  /\ orders[call[p].slot].status # "transit"
  /\ Goto(p, "wait")
  /\ UNCHANGED <<orders, held>>

(* The answer is lost, and one look at the list does not show the tag, or *)
(* there is no list: the order is taken for rejected.                     *)
AnswerLost(p) ==
  /\ call[p].at = "sent"
  /\ Give(p, 0)
  /\ UNCHANGED held

(* A poll finds the order over: filled, or ended with what was executed. *)
Poll(p) ==
  /\ call[p].at = "wait"
  /\ orders[call[p].slot].status \in {"filled", "ended"}
  /\ Give(p, orders[call[p].slot].filled)
  /\ UNCHANGED held

(* Its time is up: the cancel, which the broker may not carry out. *)
CancelOrder(p) ==
  /\ call[p].at = "wait"
  /\ Goto(p, "look")
  /\ \/ /\ Working(call[p].slot)
        /\ orders' = [orders EXCEPT ![call[p].slot].status = "ended"]
     \/ UNCHANGED orders
  /\ UNCHANGED held

(* The last look.  Whatever was executed by now is the answer, the order *)
(* over or not; a failed read is an order without executions.            *)
LastLook(p) ==
  /\ call[p].at = "look"
  /\ \/ Give(p, orders[call[p].slot].filled)
     \/ Give(p, 0)
  /\ UNCHANGED held

PlaceOptionOrder(p) ==
  /\ call[p] # Idle
  /\ Post(p) \/ Acknowledged(p) \/ AnswerLost(p) \/ Poll(p) \/ CancelOrder(p) \/ LastLook(p)

ExecutionTypeOK ==
  /\ orders \in [Slots -> Order \cup {NoOrder}]
  /\ held \in [Contracts -> Nat]
  /\ call \in [Procs -> Call \cup {Idle}]
=============================================================================
