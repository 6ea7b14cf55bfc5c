-------------------------- MODULE MCDailyLossHalt --------------------------
(***************************************************************************)
(* DailyLossHalt with its invariant, for TLC. The cfgs give losses 0 (no   *)
(* limit crossed), 1 (the soft limit) and 2 (the hard one), or one limit   *)
(* for both where liveness is checked, and clocks of two days or three.    *)
(***************************************************************************)
EXTENDS DailyLossHaltInvariant
=============================================================================
