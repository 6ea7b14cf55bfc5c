-------------------------------- MODULE Units --------------------------------
(***************************************************************************)
(* Sums as numbers of units: the sum of f over a set S is the cardinality  *)
(* of Units(S, f).                                                         *)
(***************************************************************************)
EXTENDS Integers, FiniteSets

\* As many units as f counts over S.
Units(S, f) == UNION {{s} \X (1 .. f[s]) : s \in S}
=============================================================================
