----------------------------- MODULE MCTradeDesk -----------------------------
EXTENDS TradeDeskInvariant, TLC

CONSTANTS c1, c2, t1, t2
MCTickerOf == [c \in Contracts |-> IF c = c1 THEN t1 ELSE t2]

Swap == c1 :> c2 @@ c2 :> c1 @@ t1 :> t2 @@ t2 :> t1
Symmetry == Permutations(Slots) \cup Permutations(Rows) \cup {Swap}
=============================================================================
