-------------------------- MODULE TradeDeskInvariant --------------------------
(***************************************************************************)
(* The inductive invariant behind the safety properties of TradeDesk:      *)
(*   Orders     what a placement knows of its order, and what the broker   *)
(*              holds back for working sells;                              *)
(*   Places     what the threads work on where they stand;                 *)
(*   Accounts   what an open row, a position read or an entry executed     *)
(*              shows is held, or was sold by a placement still under way; *)
(*   Capacity   what the entry has seen of what the program is exposed to. *)
(***************************************************************************)
EXTENDS TradeDesk

\* One placement k, over the orders os.
Knows(k, os) ==
  k # Idle =>
    /\ k.slot # Nobody <=> k.at \in {"sent", "wait", "look"}
    /\ k.at # "done" => k.filled = 0
    /\ k.slot # Nobody =>
         LET x == os[k.slot]
         IN x # NoOrder /\ x.contract = k.contract /\ x.side = k.side /\ x.qty = k.qty

\* One order x.
Sound(x) ==
  /\ x.status = "transit" => x.filled = 0
  /\ x.status = "working" => x.filled < x.qty

\* The broker never holds back more than there is.
HeldBack ==
  \A c \in Contracts : LET U == Units(Slots, [o \in Slots |-> Unsold(o, c)])
                       IN IsFiniteSet(U) /\ Cardinality(U) <= held[c]

Orders ==
  /\ ExecutionTypeOK
  /\ \A p \in Procs : Knows(call[p], orders)
  /\ \A o \in Slots : Sound(orders[o])
  /\ \A p, q \in Procs : call[p] # Idle /\ call[q] # Idle /\ call[p].slot = call[q].slot
                           => p = q \/ call[p].slot = Nobody
  /\ HeldBack

-----------------------------------------------------------------------------
LoopPlace ==
  call[Loop] # Idle =>
    \/ at = "ghosts" /\ due = Nobody /\ call[Loop].side = "sell"
    \/ /\ at \in {"manage", "cutoff"} /\ due # Nobody
       /\ call[Loop].side = "sell"
       /\ call[Loop].contract = snap[due].contract /\ call[Loop].qty <= snap[due].qty
    \/ at = "buy" /\ due = Nobody /\ call[Loop].side = "buy"

\* The row r is as the tick read it, or closed since.
AsRead(r) == r \in Rows /\ snap[r] # NoRow /\ rows[r] \in {NoRow, snap[r]}

TodoPlace ==
  /\ at \in {"sweep", "manage", "cutoff"} => \A r \in todo : AsRead(r)
  /\ at = "ghosts" => todo \subseteq Contracts
  /\ at \in {"idle", "journal", "trades", "entry", "capacity", "buy"} => todo = {}

DuePlace ==
  due # Nobody => /\ at \in {"manage", "cutoff"} /\ call[Loop] # Idle
                  /\ AsRead(due) /\ due \notin todo

ChildPlace ==
  child # Nobody =>
    /\ due # Nobody /\ child # due /\ Answered(Loop)
    /\ call[Loop].filled \in 1 .. (snap[due].qty - 1)
    /\ child # NoRow => rows[child] = NoRow \/ rows[child].contract = snap[due].contract

ApiPlace ==
  /\ api # Nobody <=> call[Api] # Idle
  /\ api # Nobody => /\ call[Api].side = "sell"
                     /\ rows[api] = NoRow \/ rows[api].contract = call[Api].contract

Places ==
  /\ LoopPlace /\ TodoPlace /\ DuePlace /\ ChildPlace /\ ApiPlace
  /\ at = "buy" => call[Loop] # Idle

-----------------------------------------------------------------------------
\* What was executed of the placement k, which may know less of it.
Executed(k, os) == IF k.slot = Nobody THEN k.filled ELSE os[k.slot].filled

\* Contracts c that the thread p sold and that are yet to be booked.
Sold(p, c) == IF Selling(p) /\ call[p].contract = c THEN Executed(call[p], orders) ELSE 0

\* What rows of c may show open between them.
Room(c) == held[c] + Sold(Loop, c) + Sold(Api, c)

\* The row of an exit in part is open while its parent still shows all of it.
Main(r) == rows[r] # NoRow /\ r # child

\* The API thread closed the row of an exit in part: that exit will miss it.
Usurped(c) == child \in Rows /\ rows[child] = NoRow /\ snap[due].contract = c

NoRowOf(c) == \A r \in Rows : rows[r] # NoRow => rows[r].contract # c

OneRow ==
  \A r, s \in Rows : Main(r) /\ Main(s) /\ rows[r].contract = rows[s].contract
                       => r = s \/ rows[r].contract \in missed

RowsBacked ==
  \A r \in Rows : Main(r) => LET c == rows[r].contract
                             IN c \in missed \/ Usurped(c) \/ rows[r].qty <= Room(c)

SeenBacked ==
  /\ at = "journal" => \A c \in Contracts : c \in missed \cup closed \/ seen[c] <= Room(c)
  /\ at = "ghosts" => \A c \in Contracts : seen[c] > 0 => NoRowOf(c) /\ (c \in missed \/ seen[c] <= Room(c))

Unrecorded ==
  /\ at = "ghosts" => \A c \in todo : NoRowOf(c) /\ seen[c] = 0
  /\ at = "ghosts" /\ call[Loop] # Idle => NoRowOf(call[Loop].contract) /\ seen[call[Loop].contract] = 0
  /\ at = "buy" => LET c == call[Loop].contract
                   IN NoRowOf(c) /\ (c \in missed \/ Executed(call[Loop], orders) <= Room(c))

Accounts == OneRow /\ RowsBacked /\ SeenBacked /\ Unrecorded

-----------------------------------------------------------------------------
Buying(c) == \E o \in Slots : Working(o) /\ orders[o].side = "buy" /\ orders[o].contract = c

Capacity ==
  /\ CapacityKept
  /\ at = "capacity" => \A c \in Positions \ hidden : seen[c] > 0 \/ Buying(c)
  /\ at = "buy" => Cardinality((Exposed \ hidden) \cup {call[Loop].contract}) <= MaxPositions

DeskInv == TypeOK /\ Orders /\ Places /\ Accounts /\ Capacity
=============================================================================
