----------------------------- MODULE TradingHalt -----------------------------
(***************************************************************************)
(* What the daily-loss halt promises of an account, without saying how: a  *)
(* breach closes trading and the account is flattened; only when nothing   *)
(* is exposed any more does the flattening end; while the account is then  *)
(* halted nothing is exposed; and trading opens again when the time is up  *)
(* or a review says so, and not before.                                    *)
(***************************************************************************)
EXTENDS Naturals

VARIABLES
  phase,     \* "open", "flattening" or "halted"
  exposed,   \* the account holds a position, an open trade or an order
  until,     \* when a halt ends that no review lifts; 0 while open
  now

halting == <<phase, exposed, until, now>>

Init == phase = "open" /\ ~exposed /\ until = 0 /\ now = 0

\* A breach, or a worse one: the time it takes is never shortened.
Trip ==
  /\ phase' = "flattening"
  /\ until' \in Nat /\ (phase # "open" => until' >= until)
  /\ UNCHANGED <<exposed, now>>

\* Nothing else ends a flattening. The halt that is left may be over by now.
Confirm ==
  /\ phase = "flattening" /\ ~exposed
  /\ until' \in Nat
  /\ phase' = IF now < until' THEN "halted" ELSE "open"
  /\ UNCHANGED <<exposed, now>>

Reopen == phase' = "open" /\ until' = 0

Review ==
  /\ phase = "halted"
  /\ Reopen
  /\ UNCHANGED <<exposed, now>>

TimePasses ==
  /\ now' = now + 1
  /\ IF phase = "halted" /\ until <= now' THEN Reopen ELSE UNCHANGED <<phase, until>>
  /\ UNCHANGED exposed

\* Entries of a tick that was past its check, fills and closes.
Trade ==
  /\ phase # "halted"
  /\ exposed' \in BOOLEAN
  /\ UNCHANGED <<phase, until, now>>

Next == Trip \/ Confirm \/ Review \/ TimePasses \/ Trade

Spec == Init /\ [][Next]_halting
=============================================================================
