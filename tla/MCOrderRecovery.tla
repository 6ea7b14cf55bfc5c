-------------------------- MODULE MCOrderRecovery --------------------------
(***************************************************************************)
(* Instances of OrderRecovery for TLC. The full Spec starts from an empty  *)
(* journal; HeldSpec starts with one position, bought and settled earlier, *)
(* so that the exits can be explored further for the same cost.            *)
(***************************************************************************)
EXTENDS OrderRecoveryInvariant, TLC

CONSTANT Held      \* the attempt that bought the position of HeldSpec

Symmetry     == Permutations(Attempts) \cup Permutations(Procs)
HeldSymmetry == Permutations(Attempts \ {Held}) \cup Permutations(Procs)

HeldRecord ==
  [NoRecord EXCEPT
     !.state = "closed", !.trade = Held, !.qty = MaxQty, !.applied = MaxQty,
     !.req["limit"] = "known",
     !.snap["limit"] = [st |-> "filled", filled |-> MaxQty]]
HeldRow == [st |-> "open", contracts |-> MaxQty, sold |-> 0]
HeldOrders ==
  [k \in Kinds |-> IF k # "limit" THEN NoOrder ELSE
     [st |-> "filled", qty |-> MaxQty, filled |-> MaxQty, cancel |-> FALSE]]

HeldInit ==
  /\ rec   = [a \in Attempts |-> IF a = Held THEN HeldRecord ELSE NoRecord]
  /\ row   = [a \in Attempts |-> IF a = Held THEN HeldRow ELSE NoRow]
  /\ ord   = [a \in Attempts |-> IF a = Held THEN HeldOrders
                                 ELSE [k \in Kinds |-> NoOrder]]
  /\ lock  = Nobody
  /\ pc    = [p \in Procs |-> "idle"]
  /\ cur   = [p \in Procs |-> Nobody]
  /\ watch = [p \in Procs |-> "limit"]
  /\ plan  = [p \in Procs |-> NoPlan]
  /\ patch = [a \in Attempts |-> FALSE]

HeldSpec == HeldInit /\ [][Next]_vars
============================================================================
