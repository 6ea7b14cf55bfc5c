----------------------------- MODULE FillLedger -----------------------------
(***************************************************************************)
(* What durable order execution promises for one contract, without saying  *)
(* how: attempts run one at a time, the market executes contracts only for *)
(* the attempt that runs, the journal books what was executed, each        *)
(* contract once, and an attempt ends with all of it booked.               *)
(***************************************************************************)
EXTENDS Integers

CONSTANTS Attempts, MaxQty

VARIABLES
  state,     \* state[a]: "unused", "active" or "closed"
  size,      \* size[a]: contracts asked for
  executed,  \* executed[a]: contracts the market has executed
  booked     \* booked[a]: contracts the journal holds

ledger == <<state, size, executed, booked>>

Init ==
  /\ state    = [a \in Attempts |-> "unused"]
  /\ size     = [a \in Attempts |-> 0]
  /\ executed = [a \in Attempts |-> 0]
  /\ booked   = [a \in Attempts |-> 0]

Open(a) ==
  /\ \A b \in Attempts : state[b] # "active"
  /\ state[a] = "unused"
  /\ \E q \in 1 .. MaxQty : size' = [size EXCEPT ![a] = q]
  /\ state' = [state EXCEPT ![a] = "active"]
  /\ UNCHANGED <<executed, booked>>

Execute(a) ==
  /\ state[a] = "active"
  /\ executed[a] < size[a]
  /\ executed' = [executed EXCEPT ![a] = @ + 1]
  /\ UNCHANGED <<state, size, booked>>

Book(a) ==
  /\ state[a] = "active"
  /\ \E n \in booked[a] .. executed[a] :
       /\ booked' = [booked EXCEPT ![a] = n]
       /\ \/ n = executed[a] /\ state' = [state EXCEPT ![a] = "closed"]
          \/ UNCHANGED state
  /\ UNCHANGED <<size, executed>>

Next == \E a \in Attempts : Open(a) \/ Execute(a) \/ Book(a)

Spec == Init /\ [][Next]_ledger
=============================================================================
