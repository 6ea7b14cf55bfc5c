------------------------- MODULE EvidenceLedger_proofs -------------------------
(***************************************************************************)
(* Theorems about EvidenceLedger.  A pass works with what it read minutes  *)
(* ago, so the proof is about rows as values: what a row may say (RowOK),  *)
(* and that the row in the ledger continues the row that a pass read       *)
(* (Follows), whoever wrote in between.  A decision that a pass finds      *)
(* pending is therefore the decision of the ledger, and the bid that is    *)
(* good for one is good for the other.                                     *)
(***************************************************************************)
EXTENDS EvidenceLedger, TLAPS

Statuses == {"absent", "collecting", "pending_quote", "unmeasurable",
             "missing_quote", "missing_path", "priced"}
ExitReasons == {"none", "exit", "fault", "target", "stop"}
Leg == [status : Statuses, at : Nat, reason : ExitReasons, bidAt : Nat, received : Nat]
LedgerRow == [exit : Leg, trail : Leg, heard : Nat, lastBid : Nat, stop : BOOLEAN, objective : Nat]
Quote == [asked : BOOLEAN, stamp : Nat, received : Nat]
Frame == [bars : {-1} \cup Nat, last : {"whole", "shows", "hides"}]
Idle == [at |-> "idle"]
Pass == [at : {"row", "bars", "decide", "due", "quote"}, todo : SUBSET Plays,
         seen : [Plays -> LedgerRow], play : Plays \cup {NoPlay}, row : LedgerRow,
         state : LedgerRow, frame : Frame, quote : Quote]

Known(row) == row.exit.status # "absent"

\* A price is worth what NoHindsight says.
Timely(p, leg, sh) ==
  \/ /\ leg.received <= leg.at + QuoteWindow(p)
     /\ leg.at < leg.bidAt \/ (leg.at = leg.bidAt /\ ledger # "tests")
  \/ ledger = "authored" /\ rule[p] = "premium" /\ p \in sh

LegOK(p, leg, sh) ==
  /\ leg \in Leg
  /\ leg.status \in {"absent", "collecting"} => leg.at = 0 /\ leg.reason = "none"
  /\ leg.status = "pending_quote" => leg.at > 0 /\ leg.reason # "none"
  /\ leg.status = "priced" => Timely(p, leg, sh)

\* An exit by bars is the one that is due, and no bar before it is missing.
ByWholeBars(p, leg) ==
  ledger # "tests" /\ leg.reason = "exit" /\ rule[p] # "timed" /\ ~feed.forming
    => leg.at = due[p] /\ due[p] < feed.hole

RowOK(p, row, sh) ==
  /\ row \in LedgerRow
  /\ LegOK(p, row.exit, sh) /\ LegOK(p, row.trail, sh)
  /\ ByWholeBars(p, row.exit)
  /\ ~Known(row) => row = NotEnrolled
  /\ Known(row) => rule[p] \in RulesOf(ledger)

\* What decided a leg, and when, stays; a result is final.
Later(old, new) ==
  /\ old.at # 0 => new.at = old.at /\ new.reason = old.reason
  /\ ~Undone(old) => new = old
Follows(old, new) ==
  Known(old) => Known(new) /\ Later(old.exit, new.exit) /\ Later(old.trail, new.trail)

\* What a pass has in hand: rows that the ledger continues.
HandOK(p, row, ev, sh) == RowOK(p, row, sh) /\ Known(row) /\ Follows(row, ev[p])
PassOK(ob, ev, sh) ==
  \/ ob = Idle
  \/ /\ ob \in Pass
     /\ ob.at = "row" <=> ob.play = NoPlay
     /\ ob.frame.last # "whole" => feed.forming /\ ob.frame.bars > 0
     /\ ob.quote.asked => ob.quote.received > 0
     /\ \A p \in ob.todo : p # ob.play /\ HandOK(p, ob.seen[p], ev, sh)
     /\ ob.play # NoPlay => HandOK(ob.play, ob.row, ev, sh)
     /\ ob.at = "due" => Pending(ob.row) /\ ledger = "authored"
     /\ ob.at = "quote" /\ ledger = "authored" =>
          Pending(ob.row) \/ rule[ob.play] = "premium"
     /\ ob.at = "quote" /\ ledger = "tests" =>
          /\ RowOK(ob.play, ob.state, sh) /\ Follows(ob.row, ob.state)
          /\ ob.state.heard = ob.row.heard

\* What only one pass has in hand is the row of the ledger.
Exclusive ==
  ledger = "authored" => \A p \in Plays \ shared : \A o \in Observers :
    p \in InHand(o) =>
      /\ \A v \in Observers : p \in InHand(v) => v = o
      /\ p \in observer[o].todo => observer[o].seen[p] = evidence[p]
      /\ p = observer[o].play => observer[o].row = evidence[p]

Setting ==
  /\ ledger \in {"authored", "study", "tests"}
  /\ rule \in [Plays -> RulesOf(ledger) \cup {"none"}] /\ due \in [Plays -> 1..Cap]
  /\ feed \in [hole : 1..(Cap + 1), forming : BOOLEAN]
  /\ minute \in Minutes \ {0} /\ faults \in 0..Faults
  /\ shared \subseteq Plays

EvidenceInv ==
  /\ Setting
  /\ evidence \in [Plays -> LedgerRow] /\ \A p \in Plays : RowOK(p, evidence[p], shared)
  /\ DOMAIN observer = Observers /\ observer = [o \in Observers |-> observer[o]]
  /\ \A o \in Observers : PassOK(observer[o], evidence, shared)
  /\ Exclusive
  /\ silence \in [Plays -> Nat] /\ \A p \in Plays : silence[p] <= MaxGap
-----------------------------------------------------------------------------
(* Times and rows. *)

LEMMA TwoTimes ==
  ASSUME NEW a \in Int, NEW b \in Int
  PROVE  /\ Earliest({a, b}) = IF a <= b THEN a ELSE b
         /\ Latest({a, b}) = IF a <= b THEN b ELSE a
<1>1. \E t \in {a, b} : \A u \in {a, b} : t <= u
  OBVIOUS
<1>2. Earliest({a, b}) \in {a, b} /\ \A u \in {a, b} : Earliest({a, b}) <= u
  BY <1>1 DEF Earliest
<1>3. \E t \in {a, b} : \A u \in {a, b} : u <= t
  OBVIOUS
<1>4. Latest({a, b}) \in {a, b} /\ \A u \in {a, b} : u <= Latest({a, b})
  BY <1>3 DEF Latest
<1> QED
  BY <1>2, <1>4

LEMMA Constants ==
  ASSUME EvidenceAssumption
  PROVE  /\ Cap \in Nat \ {0} /\ Window \in Nat \ {0} /\ Short \in Nat \ {0} /\ MaxAge \in Nat \ {0}
         /\ MaxGap \in Nat \ {0} /\ Lateness \in Nat \ {0} /\ Faults \in Nat
         /\ LastMinute \in Nat \ {0} /\ NextDay \in Nat \ {0} /\ Minutes \subseteq Nat
         /\ NextDay > LastMinute
<1>1. /\ Cap \in Nat \ {0} /\ Window \in Nat \ {0} /\ Short \in Nat \ {0} /\ MaxAge \in Nat \ {0}
      /\ MaxGap \in Nat \ {0} /\ Lateness \in Nat \ {0} /\ Faults \in Nat
  BY DEF EvidenceAssumption
<1>2. LastMinute \in Nat \ {0} /\ NextDay \in Nat \ {0} /\ NextDay > LastMinute
  BY <1>1 DEF LastMinute, NextDay
<1>3. Minutes \subseteq Nat
  BY <1>2 DEF Minutes
<1> QED
  BY <1>1, <1>2, <1>3

\* An excuse is never taken back.
LEMMA SharedGrows ==
  ASSUME NEW p, NEW row, NEW sh, NEW sh2, sh \subseteq sh2, RowOK(p, row, sh)
  PROVE  RowOK(p, row, sh2)
<1>1. \A leg : LegOK(p, leg, sh) => LegOK(p, leg, sh2)
  BY DEF LegOK, Timely
<1> QED
  BY <1>1 DEF RowOK

LEMMA FreshRows ==
  ASSUME NEW p, NEW sh
  PROVE  /\ RowOK(p, NotEnrolled, sh) /\ ~Known(NotEnrolled)
         /\ rule[p] \in RulesOf(ledger) => RowOK(p, Enrolled(p), sh) /\ Known(Enrolled(p))
         /\ NotEnrolled.heard = 0 /\ Enrolled(p).heard = 0
<1>1. Undecided \in Leg /\ LegOK(p, Undecided, sh)
  BY DEF Undecided, Leg, LegOK, Statuses, ExitReasons
<1>2. Row \in LedgerRow /\ Row.exit = Undecided /\ Row.trail = Undecided /\ Row.heard = 0
  BY <1>1 DEF Row, LedgerRow
<1>3. /\ NotEnrolled \in LedgerRow /\ NotEnrolled.trail = Undecided /\ NotEnrolled.heard = 0
      /\ NotEnrolled.exit = [Undecided EXCEPT !.status = "absent"]
  BY <1>1, <1>2 DEF NotEnrolled, LedgerRow, Leg, Statuses
<1>4. [Undecided EXCEPT !.status = "absent"] = [status |-> "absent", at |-> 0, reason |-> "none", bidAt |-> 0, received |-> 0]
  BY DEF Undecided
<1>5. RowOK(p, NotEnrolled, sh) /\ ~Known(NotEnrolled)
  BY <1>1, <1>3, <1>4 DEF RowOK, Known, LegOK, Leg, Statuses, ExitReasons, ByWholeBars
<1>6. /\ Enrolled(p) \in LedgerRow /\ Enrolled(p).exit = Undecided /\ Enrolled(p).trail = Undecided
      /\ Enrolled(p).heard = 0
  BY <1>2 DEF Enrolled, LedgerRow
<1>7. Known(Enrolled(p)) /\ ByWholeBars(p, Undecided)
  BY <1>6 DEF Known, Undecided, ByWholeBars
<1> QED
  BY <1>1, <1>3, <1>5, <1>6, <1>7 DEF RowOK

LEMMA FollowsTransitive ==
  ASSUME NEW a, NEW b, NEW c, Follows(a, b), Follows(b, c)
  PROVE  Follows(a, c)
<1>1. ASSUME NEW x, NEW y, NEW z, Later(x, y), Later(y, z)
      PROVE  Later(x, z)
  BY <1>1 DEF Later
<1> QED
  BY <1>1 DEF Follows

LEMMA FollowsItself ==
  ASSUME NEW a
  PROVE  Follows(a, a)
BY DEF Follows, Later

\* A row with another exit leg.
LEMMA NewExit ==
  ASSUME NEW p, NEW sh, NEW row, RowOK(p, row, sh), Known(row),
         NEW leg, LegOK(p, leg, sh), leg.status # "absent", ByWholeBars(p, leg), Later(row.exit, leg)
  PROVE  /\ RowOK(p, [row EXCEPT !.exit = leg], sh) /\ Follows(row, [row EXCEPT !.exit = leg])
         /\ Known([row EXCEPT !.exit = leg]) /\ [row EXCEPT !.exit = leg].exit = leg
<1>1. row \in LedgerRow /\ leg \in Leg
  BY DEF RowOK, LegOK
<1>2. /\ [row EXCEPT !.exit = leg] \in LedgerRow
      /\ [row EXCEPT !.exit = leg].exit = leg /\ [row EXCEPT !.exit = leg].trail = row.trail
  BY <1>1 DEF LedgerRow
<1>3. Known([row EXCEPT !.exit = leg])
  BY <1>2 DEF Known
<1>4. Later(row.trail, row.trail)
  BY DEF Later
<1> QED
  BY <1>2, <1>3, <1>4 DEF RowOK, Follows

\* ... and one with another trail leg, or other notes about its path.
LEMMA NewTrail ==
  ASSUME NEW p, NEW sh, NEW row, RowOK(p, row, sh), Known(row),
         NEW leg, LegOK(p, leg, sh), Later(row.trail, leg)
  PROVE  /\ RowOK(p, [row EXCEPT !.trail = leg], sh) /\ Follows(row, [row EXCEPT !.trail = leg])
         /\ Known([row EXCEPT !.trail = leg]) /\ [row EXCEPT !.trail = leg].trail = leg
<1>1. row \in LedgerRow /\ leg \in Leg
  BY DEF RowOK, LegOK
<1>2. /\ [row EXCEPT !.trail = leg] \in LedgerRow
      /\ [row EXCEPT !.trail = leg].exit = row.exit /\ [row EXCEPT !.trail = leg].trail = leg
  BY <1>1 DEF LedgerRow
<1>3. Later(row.exit, row.exit)
  BY DEF Later
<1> QED
  BY <1>2, <1>3 DEF RowOK, Follows, Known

LEMMA NewNotes ==
  ASSUME NEW p, NEW sh, NEW row, RowOK(p, row, sh), Known(row),
         NEW next \in LedgerRow, next.exit = row.exit, next.trail = row.trail
  PROVE  RowOK(p, next, sh) /\ Follows(row, next) /\ Known(next)
<1>1. Later(row.exit, row.exit) /\ Later(row.trail, row.trail)
  BY DEF Later
<1> QED
  BY <1>1 DEF RowOK, Follows, Known

-----------------------------------------------------------------------------
(* Decisions and prices. *)

\* The exit that bars decide is the one that is due, with no bar missing.
LEMMA DecisionMeans ==
  ASSUME EvidenceAssumption, Setting, NEW p \in Plays, NEW frame \in Frame, NEW now \in Nat,
         frame.last # "whole" => feed.forming /\ frame.bars > 0
  PROVE  LET event == Decision(p, frame, now) IN
         /\ event.at \in Nat /\ event.reason \in {"none", "exit", "fault", "waiting"}
         /\ event.reason = "exit" => event.at > 0
         /\ event.reason = "exit" /\ rule[p] # "timed" /\ ~feed.forming
              => event.at = due[p] /\ due[p] < feed.hole
<1>1. /\ Cap \in Nat \ {0} /\ Lateness \in Nat /\ due[p] \in 1..Cap /\ feed.hole \in 1..(Cap + 1)
      /\ frame.bars \in {-1} \cup Nat /\ frame.last \in {"whole", "shows", "hides"}
  BY Constants DEF Setting, Frame
<1> DEFINE exit == ShownExit(p, frame)
           missing == FirstMissing(frame)
<1>2. exit \in Nat \ {0} /\ (~feed.forming => exit = due[p])
  BY <1>1, TwoTimes DEF ShownExit
<1>3. missing \in Nat /\ missing <= feed.hole
  BY <1>1, TwoTimes DEF FirstMissing
<1>4. Earliest({now, Cap}) \in Nat
  BY <1>1, TwoTimes
<1> HIDE DEF exit, missing
<1>5. FirstExit(p, frame, now) =
        IF exit < missing /\ exit <= now THEN Event(exit, "exit")
        ELSE IF missing > Earliest({now, Cap}) THEN NoEvent
        ELSE IF now > missing + Lateness THEN Event(missing, "fault")
        ELSE Event(0, "waiting")
  BY DEF FirstExit, exit, missing
<1>6. /\ FirstExit(p, frame, now).at \in Nat
      /\ FirstExit(p, frame, now).reason \in {"none", "exit", "fault", "waiting"}
      /\ FirstExit(p, frame, now).reason = "exit" => FirstExit(p, frame, now).at = exit /\ exit < missing
  BY <1>2, <1>3, <1>5 DEF Event, NoEvent
<1>7. CASE now = NextDay \/ rule[p] = "timed"
  BY <1>1, <1>7 DEF Decision, Event, NoEvent
<1>8. CASE now # NextDay /\ rule[p] # "timed"
  BY <1>1, <1>2, <1>3, <1>6, <1>8 DEF Decision
<1> QED
  BY <1>7, <1>8

\* The leg of a decision.
LEMMA LatchedOK ==
  ASSUME EvidenceAssumption, Setting, NEW p \in Plays, NEW frame \in Frame, NEW now \in Nat, NEW sh,
         frame.last # "whole" => feed.forming /\ frame.bars > 0,
         Decides(Decision(p, frame, now)),
         NEW leg, LegOK(p, leg, sh), leg.status = "collecting"
  PROVE  LET next == Latched(leg, Decision(p, frame, now)) IN
         /\ LegOK(p, next, sh) /\ next.status \in {"pending_quote", "unmeasurable"}
         /\ ByWholeBars(p, next) /\ Later(leg, next)
<1> DEFINE event == Decision(p, frame, now)
           next == Latched(leg, event)
<1>1. /\ event.at \in Nat /\ event.reason \in {"exit", "fault"}
      /\ event.reason = "exit" => event.at > 0
      /\ event.reason = "exit" /\ rule[p] # "timed" /\ ~feed.forming
           => event.at = due[p] /\ due[p] < feed.hole
  BY DecisionMeans DEF Decides
<1> HIDE DEF event
<1>2. /\ next \in Leg /\ next.at = event.at /\ next.reason = event.reason
      /\ next.status = IF event.reason = "exit" THEN "pending_quote" ELSE "unmeasurable"
  BY <1>1 DEF Latched, LegOK, Leg, Statuses, ExitReasons
<1>3. leg.at = 0 /\ Undone(leg)
  BY DEF LegOK, Undone
<1> HIDE DEF next
<1>4. LegOK(p, next, sh)
  BY <1>1, <1>2 DEF LegOK
<1>5. ByWholeBars(p, next) /\ Later(leg, next)
  BY <1>1, <1>2, <1>3 DEF ByWholeBars, Later
<1> QED
  BY <1>1, <1>2, <1>4, <1>5 DEF next, event

LEMMA MissedOK ==
  ASSUME NEW p, NEW sh, NEW leg, LegOK(p, leg, sh), leg.status = "pending_quote", ByWholeBars(p, leg)
  PROVE  LET next == [leg EXCEPT !.status = "missing_quote"] IN
         /\ LegOK(p, next, sh) /\ next.status = "missing_quote"
         /\ ByWholeBars(p, next) /\ Later(leg, next)
<1> DEFINE next == [leg EXCEPT !.status = "missing_quote"]
<1>1. /\ next \in Leg /\ next.status = "missing_quote" /\ next.at = leg.at /\ next.reason = leg.reason
  BY DEF LegOK, Leg, Statuses
<1> HIDE DEF next
<1> QED
  BY <1>1 DEF LegOK, ByWholeBars, Later, Undone, next

\* A bid of after the decision prices it.
LEMMA FilledOK ==
  ASSUME NEW p, NEW sh, NEW leg, LegOK(p, leg, sh), Undone(leg), ByWholeBars(p, leg),
         NEW quote \in Quote,
         Timely(p, Filled(leg, quote), sh)
  PROVE  LET next == Filled(leg, quote) IN
         /\ LegOK(p, next, sh) /\ next.status = "priced" /\ next.at = leg.at /\ next.reason = leg.reason
         /\ ByWholeBars(p, next) /\ Later(leg, next)
<1> DEFINE next == Filled(leg, quote)
<1>1. /\ next \in Leg /\ next.status = "priced" /\ next.at = leg.at /\ next.reason = leg.reason
  BY DEF Filled, LegOK, Leg, Statuses, Quote
<1> HIDE DEF next
<1> QED
  BY <1>1 DEF LegOK, ByWholeBars, Later, next

LEMMA FilledFields ==
  ASSUME NEW leg \in Leg, NEW quote \in Quote
  PROVE  /\ Filled(leg, quote).at = leg.at /\ Filled(leg, quote).bidAt = quote.stamp
         /\ Filled(leg, quote).received = quote.received /\ Filled(leg, quote).reason = leg.reason
BY DEF Filled, Leg

-----------------------------------------------------------------------------
(* The authored exits. *)

LEMMA LatchOK ==
  ASSUME EvidenceAssumption, Setting, NEW p \in Plays, NEW frame \in Frame, NEW now \in Nat, NEW sh,
         frame.last # "whole" => feed.forming /\ frame.bars > 0,
         Decides(Decision(p, frame, now)),
         RowOK(p, evidence[p], sh), Known(evidence[p])
  PROVE  LET next == Latch(p, Decision(p, frame, now)) IN
         RowOK(p, next, sh) /\ Known(next) /\ Follows(evidence[p], next)
<1> DEFINE event == Decision(p, frame, now)
           leg == Latched(evidence[p].exit, event)
<1>1. CASE evidence[p].exit.status = "collecting"
  <2>1. /\ LegOK(p, leg, sh) /\ leg.status \in {"pending_quote", "unmeasurable"}
        /\ ByWholeBars(p, leg) /\ Later(evidence[p].exit, leg)
    BY <1>1, LatchedOK DEF RowOK
  <2>2. Latch(p, event) = [evidence[p] EXCEPT !.exit = leg]
    BY <1>1 DEF Latch
  <2> HIDE DEF leg, event
  <2>3. /\ RowOK(p, [evidence[p] EXCEPT !.exit = leg], sh) /\ Known([evidence[p] EXCEPT !.exit = leg])
        /\ Follows(evidence[p], [evidence[p] EXCEPT !.exit = leg])
    BY <2>1, NewExit
  <2> QED
    BY <2>2, <2>3 DEF event
<1>2. CASE evidence[p].exit.status # "collecting"
  BY <1>2, FollowsItself DEF Latch
<1> QED
  BY <1>1, <1>2

LEMMA DeadlineOK ==
  ASSUME NEW p, NEW sh, NEW row, RowOK(p, row, sh), Known(row), Pending(row)
  PROVE  LET next == [row EXCEPT !.exit.status = "missing_quote"] IN
         RowOK(p, next, sh) /\ Known(next) /\ Follows(row, next)
<1> DEFINE leg == [row.exit EXCEPT !.status = "missing_quote"]
<1>1. LegOK(p, leg, sh) /\ leg.status = "missing_quote" /\ ByWholeBars(p, leg) /\ Later(row.exit, leg)
  BY MissedOK DEF RowOK, Pending
<1>2. [row EXCEPT !.exit.status = "missing_quote"] = [row EXCEPT !.exit = leg]
  OBVIOUS
<1> HIDE DEF leg
<1> QED
  BY <1>1, <1>2, NewExit

\* A decision that a pass read is still the one of the ledger.
LEMMA SameDecision ==
  ASSUME NEW p, NEW sh, NEW row, NEW next, RowOK(p, row, sh), Known(row), Pending(row), Follows(row, next)
  PROVE  next.exit.at = row.exit.at /\ next.exit.reason = row.exit.reason /\ next.exit.reason # "none"
BY DEF RowOK, LegOK, Pending, Follows, Later

LEMMA ExecutableMeans ==
  ASSUME NEW quote \in Quote, NEW at \in Nat, Executable(quote, at)
  PROVE  quote.stamp > 0 /\ at <= quote.stamp /\ quote.stamp <= quote.received /\ quote.received <= at + Window
BY DEF Executable, Quote

LEMMA SampledMeans ==
  ASSUME EvidenceAssumption, NEW quote \in Quote, Sampled(quote)
  PROVE  quote.stamp > 0 /\ quote.stamp <= quote.received /\ quote.received <= quote.stamp + Short
<1> DEFINE since == quote.received - Short
<1>1. Short \in Nat /\ quote.received \in Nat /\ quote.stamp \in Nat
  BY Constants DEF Quote
<1>2. since \in Int /\ 0 \in Int
  BY <1>1
<1>3. quote.stamp > 0 /\ quote.stamp <= quote.received /\ Latest({0, since}) <= quote.stamp
  BY DEF Sampled, Executable
<1> HIDE DEF since
<1>4. Latest({0, since}) = IF 0 <= since THEN since ELSE 0
  BY <1>2, TwoTimes
<1>5. since <= quote.stamp
  BY <1>1, <1>2, <1>3, <1>4
<1> QED
  BY <1>1, <1>3, <1>5 DEF since

LEMMA PricedBarsOK ==
  ASSUME EvidenceAssumption, NEW p \in Plays, NEW sh, NEW quote \in Quote, NEW row,
         ledger = "authored", rule[p] = "bars",
         RowOK(p, evidence[p], sh), Known(evidence[p]),
         RowOK(p, row, sh), Known(row), Pending(row), Follows(row, evidence[p])
  PROVE  LET next == PricedBars(p, row, quote) IN
         RowOK(p, next, sh) /\ Known(next) /\ Follows(evidence[p], next)
<1> DEFINE leg == Filled(evidence[p].exit, quote)
<1>1. CASE Pending(evidence[p]) /\ Executable(quote, row.exit.at)
  <2>1. evidence[p].exit \in Leg /\ row.exit.at \in Nat /\ evidence[p].exit.at = row.exit.at
    BY SameDecision DEF RowOK, LegOK, Leg
  <2>2. row.exit.at <= quote.stamp /\ quote.received <= row.exit.at + Window
    BY <1>1, <2>1, ExecutableMeans
  <2>3. leg.at = row.exit.at /\ leg.bidAt = quote.stamp /\ leg.received = quote.received
    BY <2>1, FilledFields
  <2>4. QuoteWindow(p) = Window
    BY DEF QuoteWindow
  <2>5. Timely(p, leg, sh)
    BY <2>1, <2>2, <2>3, <2>4, Constants DEF Timely, Quote
  <2>6. Undone(evidence[p].exit)
    BY <1>1 DEF Pending, Undone
  <2>7. LegOK(p, leg, sh) /\ leg.status = "priced" /\ ByWholeBars(p, leg) /\ Later(evidence[p].exit, leg)
    BY <2>5, <2>6, FilledOK DEF RowOK
  <2>8. PricedBars(p, row, quote) = [evidence[p] EXCEPT !.exit = leg]
    BY <1>1 DEF PricedBars
  <2> HIDE DEF leg
  <2> QED
    BY <2>7, <2>8, NewExit
<1>2. CASE ~(Pending(evidence[p]) /\ Executable(quote, row.exit.at))
  BY <1>2, FollowsItself DEF PricedBars
<1> QED
  BY <1>1, <1>2

LEMMA PricedPremiumOK ==
  ASSUME EvidenceAssumption, NEW p \in Plays, NEW sh, NEW quote \in Quote, NEW row, NEW target \in BOOLEAN,
         ledger = "authored", rule[p] = "premium",
         RowOK(p, evidence[p], sh), Known(evidence[p]),
         RowOK(p, row, sh), Known(row), Follows(row, evidence[p]),
         Pending(row) \/ (p \notin sh => row = evidence[p])
  PROVE  LET next == PricedPremium(p, row, quote, target) IN
         RowOK(p, next, sh) /\ Known(next) /\ Follows(evidence[p], next)
<1> DEFINE old == evidence[p]
           own == IF old.exit.reason = "none"
                  THEN [old.exit EXCEPT !.at = quote.stamp, !.reason = "target"] ELSE old.exit
           good == /\ quote.stamp > old.lastBid
                   /\ IF Pending(row)
                      THEN quote.received <= row.exit.at + Short /\ Executable(quote, row.exit.at)
                      ELSE Sampled(quote)
           leg == Filled(own, quote)
           heard == [old EXCEPT !.lastBid = quote.stamp]
<1>1. /\ old \in LedgerRow /\ old.exit \in Leg /\ LegOK(p, old.exit, sh) /\ ByWholeBars(p, old.exit)
      /\ row.exit \in Leg /\ quote.stamp \in Nat /\ quote.received \in Nat /\ Short \in Nat
      /\ QuoteWindow(p) = Short
  BY Constants DEF RowOK, LegOK, Quote, QuoteWindow
<1>2. PricedPremium(p, row, quote, target) =
        IF ~good THEN old
        ELSE IF (Pending(row) \/ target) /\ Undone(old.exit) THEN [old EXCEPT !.lastBid = quote.stamp, !.exit = leg]
        ELSE heard
  BY DEF PricedPremium
<1>3. CASE ~good
  BY <1>2, <1>3, FollowsItself
<1>4. /\ heard \in LedgerRow /\ heard.exit = old.exit /\ heard.trail = old.trail
  BY <1>1 DEF LedgerRow
<1> HIDE DEF heard
<1>5. RowOK(p, heard, sh) /\ Follows(old, heard) /\ Known(heard)
  BY <1>4, NewNotes
<1>6. CASE good /\ ~((Pending(row) \/ target) /\ Undone(old.exit))
  BY <1>2, <1>5, <1>6
<1>7. CASE good /\ (Pending(row) \/ target) /\ Undone(old.exit)
  <2>1. own \in Leg /\ Undone(own) /\ Later(old.exit, own)
    BY <1>1, <1>7 DEF Leg, ExitReasons, LegOK, Undone, Later
  <2>2. ByWholeBars(p, own)
    <3>1. CASE old.exit.reason = "none"
      <4>1. own.reason = "target"
        BY <1>1, <3>1 DEF Leg
      <4> QED
        BY <4>1 DEF ByWholeBars
    <3> QED
      BY <1>1, <3>1
  <2>3. leg.at = own.at /\ leg.bidAt = quote.stamp /\ leg.received = quote.received /\ leg.reason = own.reason
    BY <2>1, FilledFields
  <2>4. Timely(p, leg, sh)
    <3>1. CASE Pending(row)
      <4>1. old.exit.at = row.exit.at /\ old.exit.reason # "none" /\ own = old.exit
        BY <3>1, SameDecision
      <4>2. row.exit.at \in Nat /\ row.exit.at <= quote.stamp /\ quote.received <= row.exit.at + Short
        BY <1>1, <1>7, <3>1, ExecutableMeans DEF Leg
      <4> QED
        BY <1>1, <2>3, <4>1, <4>2 DEF Timely
    <3>2. CASE ~Pending(row) /\ p \in sh
      BY <3>2 DEF Timely
    <3>3. CASE ~Pending(row) /\ p \notin sh
      <4>1. old.exit.reason = "none"
        BY <1>1, <1>7, <3>3 DEF LegOK, Undone, Pending
      <4>2. own.at = quote.stamp
        BY <1>1, <4>1 DEF Leg
      <4>3. quote.received <= quote.stamp + Short
        BY <1>7, <3>3, SampledMeans
      <4> QED
        BY <1>1, <2>3, <4>2, <4>3 DEF Timely
    <3> QED
      BY <3>1, <3>2, <3>3
  <2>5. leg \in Leg /\ leg.status = "priced"
    BY <2>1 DEF Filled, Leg, Statuses, Quote
  <2>6. LegOK(p, leg, sh) /\ ByWholeBars(p, leg)
    BY <2>2, <2>3, <2>4, <2>5 DEF LegOK, ByWholeBars
  <2>7. Later(old.exit, leg)
    BY <2>1, <2>3, <1>7 DEF Later
  <2>8. [old EXCEPT !.lastBid = quote.stamp, !.exit = leg] = [heard EXCEPT !.exit = leg]
    BY <1>1 DEF heard, LedgerRow
  <2> HIDE DEF leg
  <2>9. /\ RowOK(p, [heard EXCEPT !.exit = leg], sh) /\ Known([heard EXCEPT !.exit = leg])
        /\ Follows(heard, [heard EXCEPT !.exit = leg])
    BY <1>4, <1>5, <2>5, <2>6, <2>7, NewExit
  <2>10. Follows(old, [heard EXCEPT !.exit = leg])
    BY <1>5, <2>9, FollowsTransitive
  <2> QED
    BY <1>2, <1>7, <2>8, <2>9, <2>10
<1> QED
  BY <1>3, <1>6, <1>7

-----------------------------------------------------------------------------
(* The study: a state replaces the one it was made of. *)

LEMMA AdvancedOK ==
  ASSUME EvidenceAssumption, Setting, NEW p \in Plays, NEW frame \in Frame, NEW now \in Nat, NEW sh,
         frame.last # "whole" => feed.forming /\ frame.bars > 0,
         NEW row, RowOK(p, row, sh), Known(row)
  PROVE  LET next == Advanced(p, row, frame, now) IN
         /\ RowOK(p, next, sh) /\ Known(next) /\ Follows(row, next)
         /\ Pending(next) => now <= next.exit.at + QuoteWindow(p)
<1> DEFINE event == Decision(p, frame, now)
           leg == IF row.exit.status = "collecting" /\ Decides(event) THEN Latched(row.exit, event) ELSE row.exit
           missed == [leg EXCEPT !.status = "missing_quote"]
           last == IF leg.status = "pending_quote" /\ now > leg.at + QuoteWindow(p) THEN missed ELSE leg
<1>1. LegOK(p, row.exit, sh) /\ ByWholeBars(p, row.exit) /\ row.exit.status # "absent"
  BY DEF RowOK, Known
<1>2. LegOK(p, leg, sh) /\ leg.status # "absent" /\ ByWholeBars(p, leg) /\ Later(row.exit, leg)
  <2>1. CASE row.exit.status = "collecting" /\ Decides(event)
    BY <1>1, <2>1, LatchedOK
  <2>2. CASE ~(row.exit.status = "collecting" /\ Decides(event))
    BY <1>1, <2>2 DEF Later
  <2> QED
    BY <2>1, <2>2
<1>3. Advanced(p, row, frame, now) = [row EXCEPT !.exit = last]
  BY DEF Advanced
<1> HIDE DEF leg, event
<1>4. LegOK(p, last, sh) /\ last.status # "absent" /\ ByWholeBars(p, last) /\ Later(row.exit, last)
  <2>1. CASE leg.status = "pending_quote" /\ now > leg.at + QuoteWindow(p)
    <3>1. LegOK(p, missed, sh) /\ missed.status = "missing_quote" /\ ByWholeBars(p, missed) /\ Later(leg, missed)
      BY <1>2, <2>1, MissedOK
    <3>2. Undone(leg)
      BY <2>1 DEF Undone
    <3> QED
      BY <1>2, <2>1, <3>1, <3>2 DEF Later
  <2>2. CASE ~(leg.status = "pending_quote" /\ now > leg.at + QuoteWindow(p))
    BY <1>2, <2>2
  <2> QED
    BY <2>1, <2>2
<1>5. last.status = "pending_quote" => now <= last.at + QuoteWindow(p)
  <2>1. leg \in Leg /\ QuoteWindow(p) \in Nat
    BY <1>2, Constants DEF LegOK, QuoteWindow
  <2>2. missed.status = "missing_quote"
    BY <2>1 DEF Leg
  <2> QED
    BY <2>1, <2>2 DEF Leg
<1> HIDE DEF last
<1> QED
  BY <1>3, <1>4, <1>5, NewExit DEF Pending

LEMMA PricedStudyOK ==
  ASSUME EvidenceAssumption, Setting, NEW p \in Plays, NEW frame \in Frame, NEW quote \in Quote, NEW sh,
         frame.last # "whole" => feed.forming /\ frame.bars > 0,
         ledger = "study", NEW target \in BOOLEAN,
         NEW row, RowOK(p, row, sh), Known(row)
  PROVE  LET next == PricedStudy(p, row, frame, quote, target) IN
         RowOK(p, next, sh) /\ Known(next) /\ Follows(row, next)
<1> DEFINE out == Advanced(p, row, frame, quote.received)
           waits == out.exit.status = "collecting" /\ Decision(p, frame, quote.received).reason = "waiting"
           good == /\ IF Pending(out) THEN Executable(quote, out.exit.at) ELSE Sampled(quote)
                   /\ rule[p] = "premium" => quote.stamp > out.lastBid
           heard == IF rule[p] = "premium" THEN [out EXCEPT !.lastBid = quote.stamp] ELSE out
           own == [heard.exit EXCEPT !.at = quote.stamp, !.reason = "target"]
           priced == [heard EXCEPT !.exit = Filled(@, quote)]
           hit == [heard EXCEPT !.exit = Filled([@ EXCEPT !.at = quote.stamp, !.reason = "target"], quote)]
<1>1. quote.stamp \in Nat /\ quote.received \in Nat /\ Short \in Nat /\ Window \in Nat
  BY Constants DEF Quote
<1>2. /\ RowOK(p, out, sh) /\ Known(out) /\ Follows(row, out)
      /\ Pending(out) => quote.received <= out.exit.at + QuoteWindow(p)
  BY <1>1, AdvancedOK
<1>3. PricedStudy(p, row, frame, quote, target) =
        IF ~Undone(out.exit) \/ waits \/ ~good THEN out
        ELSE IF Pending(out) THEN priced
        ELSE IF rule[p] # "premium" \/ ~target THEN heard
        ELSE hit
  BY DEF PricedStudy
<1> HIDE DEF out, waits
<1>4. /\ heard \in LedgerRow /\ heard.exit = out.exit /\ heard.trail = out.trail
  <2>1. out \in LedgerRow
    BY <1>2 DEF RowOK
  <2> QED
    BY <1>1, <2>1 DEF LedgerRow
<1> HIDE DEF heard
<1>5. RowOK(p, heard, sh) /\ Follows(out, heard) /\ Known(heard)
  BY <1>2, <1>4, NewNotes
<1>6. /\ heard.exit \in Leg /\ LegOK(p, heard.exit, sh) /\ ByWholeBars(p, heard.exit)
  BY <1>5 DEF RowOK, LegOK
<1>7. CASE ~Undone(out.exit) \/ waits \/ ~good
  BY <1>2, <1>3, <1>7
<1>8. CASE Undone(out.exit) /\ ~waits /\ good /\ Pending(out)
  <2> DEFINE leg == Filled(heard.exit, quote)
  <2>1. out.exit.at \in Nat /\ out.exit.at <= quote.stamp
    BY <1>4, <1>6, <1>8, ExecutableMeans DEF Leg
  <2>2. Timely(p, leg, sh)
    BY <1>2, <1>4, <1>6, <1>8, <2>1, FilledFields DEF Timely, Quote
  <2>3. LegOK(p, leg, sh) /\ leg.status = "priced" /\ ByWholeBars(p, leg) /\ Later(heard.exit, leg)
    BY <1>4, <1>6, <1>8, <2>2, FilledOK
  <2>4. priced = [heard EXCEPT !.exit = leg]
    OBVIOUS
  <2> HIDE DEF leg, priced
  <2>5. RowOK(p, priced, sh) /\ Known(priced) /\ Follows(heard, priced)
    BY <1>5, <2>3, <2>4, NewExit
  <2>6. Follows(row, priced)
    BY <1>2, <1>5, <2>5, FollowsTransitive
  <2> QED
    BY <1>3, <1>8, <2>5, <2>6
<1>9. CASE Undone(out.exit) /\ ~waits /\ good /\ ~Pending(out) /\ (rule[p] # "premium" \/ ~target)
  <2>1. Follows(row, heard)
    BY <1>2, <1>5, FollowsTransitive
  <2> QED
    BY <1>3, <1>5, <1>9, <2>1
<1>10. CASE Undone(out.exit) /\ ~waits /\ good /\ ~Pending(out) /\ rule[p] = "premium" /\ target
  <2> DEFINE leg == Filled(own, quote)
  <2>1. heard.exit.status = "collecting" /\ heard.exit.at = 0
    BY <1>4, <1>6, <1>10 DEF Undone, Pending, LegOK
  <2>2. own \in Leg /\ own.at = quote.stamp /\ own.reason = "target" /\ own.status = "collecting"
    BY <1>1, <1>6, <2>1 DEF Leg, ExitReasons
  <2> HIDE DEF own
  <2>3. leg.at = quote.stamp /\ leg.bidAt = quote.stamp /\ leg.received = quote.received /\ leg.reason = "target"
    BY <2>2, FilledFields
  <2>4. quote.received <= quote.stamp + Short /\ QuoteWindow(p) = Short
    BY <1>10, SampledMeans DEF QuoteWindow
  <2>5. leg \in Leg /\ leg.status = "priced"
    BY <2>2 DEF Filled, Leg, Statuses, Quote
  <2> HIDE DEF leg
  <2>6. LegOK(p, leg, sh) /\ ByWholeBars(p, leg) /\ Later(heard.exit, leg)
    BY <1>1, <2>1, <2>3, <2>4, <2>5 DEF LegOK, Timely, ByWholeBars, Later, Undone
  <2>7. hit = [heard EXCEPT !.exit = leg]
    BY DEF leg, own
  <2> HIDE DEF hit
  <2>8. RowOK(p, hit, sh) /\ Known(hit) /\ Follows(heard, hit)
    BY <1>5, <2>5, <2>6, <2>7, NewExit
  <2>9. Follows(row, hit)
    BY <1>2, <1>5, <2>8, FollowsTransitive
  <2> QED
    BY <1>3, <1>10, <2>8, <2>9
<1> QED
  BY <1>7, <1>8, <1>9, <1>10

-----------------------------------------------------------------------------
(* The tests: two legs, and a path that is heard. *)

LEMMA TimedOutOK ==
  ASSUME EvidenceAssumption, NEW p, NEW sh, NEW leg, LegOK(p, leg, sh), NEW now \in Nat, ledger = "tests"
  PROVE  LET next == TimedOut(leg, now) IN
         /\ LegOK(p, next, sh) /\ ByWholeBars(p, next) /\ Later(leg, next)
         /\ next.status \in {"absent", "collecting"} => next = leg
         /\ next.status = "collecting" => now < Cap
<1> DEFINE next == [leg EXCEPT !.status = "pending_quote", !.at = Cap, !.reason = "exit"]
<1>1. leg \in Leg /\ Cap \in Nat \ {0} /\ \A l : ByWholeBars(p, l)
  BY Constants DEF LegOK, ByWholeBars
<1>2. CASE leg.status = "collecting" /\ now >= Cap
  <2>1. next \in Leg /\ next.status = "pending_quote" /\ next.at = Cap /\ next.reason = "exit"
    BY <1>1 DEF Leg, Statuses, ExitReasons
  <2>2. TimedOut(leg, now) = next
    BY <1>2 DEF TimedOut
  <2> HIDE DEF next
  <2> QED
    BY <1>1, <1>2, <2>1, <2>2 DEF LegOK, Later, Undone
<1>3. CASE ~(leg.status = "collecting" /\ now >= Cap)
  BY <1>1, <1>3 DEF TimedOut, Later
<1> QED
  BY <1>2, <1>3

LEMMA ExpiredOK ==
  ASSUME NEW p, NEW sh, NEW leg, LegOK(p, leg, sh), NEW now \in Nat, ledger = "tests"
  PROVE  LET next == Expired(leg, now) IN
         /\ LegOK(p, next, sh) /\ ByWholeBars(p, next) /\ Later(leg, next)
         /\ next.status \in {"absent", "collecting"} => next = leg
<1>1. \A l : ByWholeBars(p, l)
  BY DEF ByWholeBars
<1>2. CASE leg.status = "pending_quote" /\ now > leg.at + Short
  BY <1>1, <1>2, MissedOK DEF Expired
<1>3. CASE ~(leg.status = "pending_quote" /\ now > leg.at + Short)
  BY <1>1, <1>3 DEF Expired, Later
<1> QED
  BY <1>2, <1>3

LEMMA LegDueOK ==
  ASSUME EvidenceAssumption, NEW p, NEW sh, NEW leg, LegOK(p, leg, sh), NEW now \in Nat, ledger = "tests"
  PROVE  LET next == Expired(TimedOut(leg, now), now) IN
         /\ LegOK(p, next, sh) /\ ByWholeBars(p, next) /\ Later(leg, next)
         /\ next.status \in {"absent", "collecting"} => next = leg
         /\ next.status = "collecting" => now < Cap
<1> DEFINE mid == TimedOut(leg, now)
           next == Expired(mid, now)
<1>1. /\ LegOK(p, mid, sh) /\ Later(leg, mid)
      /\ mid.status \in {"absent", "collecting"} => mid = leg
      /\ mid.status = "collecting" => now < Cap
  BY TimedOutOK
<1> HIDE DEF mid
<1>2. /\ LegOK(p, next, sh) /\ ByWholeBars(p, next) /\ Later(mid, next)
      /\ next.status \in {"absent", "collecting"} => next = mid
  BY <1>1, ExpiredOK
<1> HIDE DEF next
<1>3. Later(leg, next)
  BY <1>1, <1>2 DEF Later
<1> QED
  BY <1>1, <1>2, <1>3 DEF mid, next

LEMMA PathLost ==
  ASSUME NEW p, NEW sh, NEW leg, LegOK(p, leg, sh), leg.status = "collecting"
  PROVE  LET next == [leg EXCEPT !.status = "missing_path"] IN
         LegOK(p, next, sh) /\ next.status = "missing_path" /\ Later(leg, next)
<1> DEFINE next == [leg EXCEPT !.status = "missing_path"]
<1>1. next \in Leg /\ next.status = "missing_path" /\ next.at = leg.at /\ next.reason = leg.reason
  BY DEF LegOK, Leg, Statuses
<1> HIDE DEF next
<1> QED
  BY <1>1 DEF LegOK, Later, Undone, next

\* A path that is still followed was heard not long ago.
LEMMA DueLegsOK ==
  ASSUME EvidenceAssumption, NEW p, NEW sh, NEW row, RowOK(p, row, sh), Known(row), NEW now \in Nat,
         ledger = "tests"
  PROVE  LET next == DueLegs(row, now) IN
         /\ RowOK(p, next, sh) /\ Known(next) /\ Follows(row, next) /\ next.heard = row.heard
         /\ next.trail.status = "collecting" => now <= row.heard + MaxGap
<1> DEFINE control == Expired(TimedOut(row.exit, now), now)
           trail == IF Lost(row, now) THEN [row.trail EXCEPT !.status = "missing_path"]
                    ELSE Expired(TimedOut(row.trail, now), now)
<1>1. /\ LegOK(p, row.exit, sh) /\ LegOK(p, row.trail, sh) /\ row.exit.status # "absent"
      /\ row \in LedgerRow /\ row.heard \in Nat /\ Cap \in Nat /\ MaxGap \in Nat
  BY Constants DEF RowOK, Known, LedgerRow
<1>2. LegOK(p, control, sh) /\ ByWholeBars(p, control) /\ Later(row.exit, control) /\ control.status # "absent"
  <2> DEFINE leg == row.exit
  <2>1. LegOK(p, leg, sh) /\ leg.status # "absent"
    BY <1>1
  <2> HIDE DEF leg
  <2>2. LET next == Expired(TimedOut(leg, now), now) IN
        LegOK(p, next, sh) /\ ByWholeBars(p, next) /\ Later(leg, next) /\ next.status # "absent"
    BY <2>1, LegDueOK
  <2> QED
    BY <2>2 DEF leg
<1>3. /\ LegOK(p, trail, sh) /\ Later(row.trail, trail)
      /\ trail.status = "collecting" => now <= row.heard + MaxGap
  <2>1. CASE Lost(row, now)
    <3>1. row.trail.status = "collecting"
      BY <2>1 DEF Lost
    <3> QED
      BY <1>1, <2>1, <3>1, PathLost
  <2>2. CASE ~Lost(row, now)
    <3> DEFINE leg == row.trail
               next == Expired(TimedOut(leg, now), now)
    <3>1. LegOK(p, leg, sh)
      BY <1>1
    <3> HIDE DEF leg
    <3>2. /\ LegOK(p, next, sh) /\ Later(leg, next)
          /\ next.status \in {"absent", "collecting"} => next = leg
          /\ next.status = "collecting" => now < Cap
      BY <3>1, LegDueOK
    <3>3. trail = next
      BY <2>2 DEF leg
    <3> HIDE DEF next, trail
    <3>5. ASSUME trail.status = "collecting"
          PROVE  now <= row.heard + MaxGap
      <4>1. row.trail.status = "collecting" /\ now < Cap
        BY <3>2, <3>3, <3>5 DEF leg
      <4>2. now \in Int /\ Cap \in Int
        BY <1>1
      <4>3. Earliest({now, Cap}) = IF now <= Cap THEN now ELSE Cap
        BY <4>2, TwoTimes
      <4>4. ~(Earliest({now, Cap}) > row.heard + MaxGap)
        BY <2>2, <4>1 DEF Lost
      <4> QED
        BY <1>1, <4>1, <4>3, <4>4
    <3> QED
      BY <3>2, <3>3, <3>5 DEF leg
  <2> QED
    BY <2>1, <2>2
<1>4. DueLegs(row, now) = [[row EXCEPT !.exit = control] EXCEPT !.trail = trail]
  BY <1>1 DEF DueLegs, LedgerRow
<1> HIDE DEF control, trail
<1> DEFINE mid == [row EXCEPT !.exit = control]
<1>5. RowOK(p, mid, sh) /\ Known(mid) /\ Follows(row, mid) /\ mid.trail = row.trail /\ mid.heard = row.heard
  BY <1>1, <1>2, NewExit DEF LedgerRow
<1> HIDE DEF mid
<1>6. /\ RowOK(p, [mid EXCEPT !.trail = trail], sh) /\ Known([mid EXCEPT !.trail = trail])
      /\ Follows(mid, [mid EXCEPT !.trail = trail]) /\ [mid EXCEPT !.trail = trail].trail = trail
  BY <1>3, <1>5, NewTrail
<1>7. [mid EXCEPT !.trail = trail].heard = mid.heard
  BY <1>5 DEF RowOK, LedgerRow
<1>8. Follows(row, [mid EXCEPT !.trail = trail])
  BY <1>5, <1>6, FollowsTransitive
<1> QED
  BY <1>3, <1>4, <1>5, <1>6, <1>7, <1>8 DEF mid

LEMMA ObjectiveOK ==
  ASSUME NEW p, NEW sh, NEW row, RowOK(p, row, sh), Known(row), NEW frame, NEW now \in Nat
  PROVE  LET next == Objective(p, row, frame, now) IN
         RowOK(p, next, sh) /\ Known(next) /\ Follows(row, next) /\ next.heard = row.heard
<1> DEFINE leg == [row.trail EXCEPT !.status = "missing_path"]
           lost == [row EXCEPT !.trail = leg]
           seen == [row EXCEPT !.objective = now]
<1>1. row \in LedgerRow /\ LegOK(p, row.trail, sh)
  BY DEF RowOK
<1>2. Objective(p, row, frame, now) = row
      \/ (row.trail.status = "collecting" /\ Objective(p, row, frame, now) \in {lost, seen})
  BY DEF Objective
<1>3. CASE row.trail.status = "collecting" /\ Objective(p, row, frame, now) = lost
  <2>1. LegOK(p, leg, sh) /\ Later(row.trail, leg)
    BY <1>1, <1>3, PathLost
  <2> HIDE DEF leg
  <2>2. lost.heard = row.heard
    BY <1>1 DEF LedgerRow
  <2> QED
    BY <1>3, <2>1, <2>2, NewTrail
<1>4. CASE Objective(p, row, frame, now) = seen
  <2>1. seen \in LedgerRow /\ seen.exit = row.exit /\ seen.trail = row.trail /\ seen.heard = row.heard
    BY <1>1 DEF LedgerRow
  <2> HIDE DEF seen
  <2> QED
    BY <1>4, <2>1, NewNotes
<1> QED
  BY <1>2, <1>3, <1>4, FollowsItself

\* A bid of after the decision fills it.
LEMMA FilledLaterOK ==
  ASSUME EvidenceAssumption, NEW p, NEW sh, NEW leg, LegOK(p, leg, sh), NEW quote \in Quote,
         ledger = "tests", QuoteWindow(p) = Short
  PROVE  LET next == FilledLater(leg, quote) IN
         /\ LegOK(p, next, sh) /\ ByWholeBars(p, next) /\ Later(leg, next)
         /\ next.status \in {"absent", "collecting"} => next = leg
<1>1. ByWholeBars(p, leg)
  BY DEF ByWholeBars
<1>2. CASE leg.status = "pending_quote" /\ quote.stamp > leg.at /\ quote.received <= leg.at + Short
  <2>1. Timely(p, Filled(leg, quote), sh) /\ Undone(leg)
    BY <1>2, FilledFields DEF Timely, LegOK, Undone
  <2> QED
    BY <1>1, <1>2, <2>1, FilledOK DEF FilledLater
<1>3. CASE ~(leg.status = "pending_quote" /\ quote.stamp > leg.at /\ quote.received <= leg.at + Short)
  BY <1>1, <1>3 DEF FilledLater, Later
<1> QED
  BY <1>2, <1>3

\* A path is heard only while it is followed, so never after a silence.
LEMMA HeardBidOK ==
  ASSUME EvidenceAssumption, NEW p, NEW sh, NEW row, RowOK(p, row, sh), Known(row),
         NEW quote \in Quote, NEW bid \in Bids, ledger = "tests",
         row.trail.status = "collecting" => quote.received <= row.heard + MaxGap
  PROVE  LET next == HeardBid(p, row, quote, bid) IN
         /\ RowOK(p, next, sh) /\ Known(next) /\ Follows(row, next)
         /\ next.heard <= row.heard + MaxGap
<1> DEFINE now == quote.received
           filled == [row EXCEPT !.exit = FilledLater(@, quote), !.trail = FilledLater(@, quote)]
           heard == [filled EXCEPT !.lastBid = quote.stamp, !.heard = now]
           counts == rule[p] # "recovery" \/ (row.objective > 0 /\ quote.stamp > row.objective)
           leg == [heard.trail EXCEPT !.status = "pending_quote", !.at = now, !.reason = "stop"]
           crossed == [heard EXCEPT !.trail = leg]
           raised == [heard EXCEPT !.stop = @ \/ bid = "high"]
<1>1. /\ row \in LedgerRow /\ LegOK(p, row.exit, sh) /\ LegOK(p, row.trail, sh) /\ row.exit.status # "absent"
      /\ row.heard \in Nat /\ now \in Nat /\ quote.stamp \in Nat /\ MaxGap \in Nat /\ Short \in Nat
  BY Constants DEF RowOK, Known, LedgerRow, Quote
<1>2. QuoteWindow(p) = Short
  BY DEF RowOK, RulesOf, QuoteWindow
<1>3. /\ RowOK(p, filled, sh) /\ Known(filled) /\ Follows(row, filled) /\ filled.heard = row.heard
      /\ filled.trail.status = "collecting" => filled.trail = row.trail
  <2> DEFINE exit == FilledLater(row.exit, quote)
             trail == FilledLater(row.trail, quote)
             mid == [row EXCEPT !.exit = exit]
  <2>1. /\ LegOK(p, exit, sh) /\ ByWholeBars(p, exit) /\ Later(row.exit, exit)
        /\ exit.status \in {"absent", "collecting"} => exit = row.exit
    BY <1>1, <1>2, FilledLaterOK
  <2>2. /\ LegOK(p, trail, sh) /\ Later(row.trail, trail)
        /\ trail.status \in {"absent", "collecting"} => trail = row.trail
    BY <1>1, <1>2, FilledLaterOK
  <2>3. filled = [mid EXCEPT !.trail = trail]
    BY <1>1 DEF LedgerRow
  <2> HIDE DEF exit, trail, filled
  <2>4. RowOK(p, mid, sh) /\ Known(mid) /\ Follows(row, mid)
    BY <1>1, <2>1, NewExit
  <2>5. mid.trail = row.trail /\ mid.heard = row.heard /\ mid \in LedgerRow
    BY <1>1, <2>4 DEF LedgerRow, RowOK
  <2> HIDE DEF mid
  <2>6. RowOK(p, filled, sh) /\ Known(filled) /\ Follows(mid, filled) /\ filled.trail = trail
    BY <2>2, <2>3, <2>4, <2>5, NewTrail
  <2>7. filled.heard = row.heard
    BY <2>3, <2>5 DEF LedgerRow
  <2> QED
    BY <2>2, <2>4, <2>6, <2>7, FollowsTransitive
<1> HIDE DEF filled
<1>4. /\ heard \in LedgerRow /\ heard.exit = filled.exit /\ heard.trail = filled.trail /\ heard.heard = now
  BY <1>1, <1>3 DEF RowOK, LedgerRow
<1>5. RowOK(p, heard, sh) /\ Known(heard) /\ Follows(filled, heard)
  BY <1>3, <1>4, NewNotes
<1>6. Follows(row, heard)
  BY <1>3, <1>5, FollowsTransitive
<1>7. filled.trail.status = "collecting" => now <= row.heard + MaxGap
  BY <1>3
<1>8. HeardBid(p, row, quote, bid) =
        IF ~Sampled(quote) THEN row
        ELSE IF filled.trail.status # "collecting" \/ bid = "stale ask" \/ quote.stamp <= row.lastBid THEN filled
        ELSE IF ~counts THEN heard
        ELSE IF row.stop /\ bid = "low" THEN crossed
        ELSE raised
  BY DEF HeardBid, filled
<1> HIDE DEF heard, counts
<1>9. HeardBid(p, row, quote, bid) = row
      \/ HeardBid(p, row, quote, bid) = filled
      \/ (filled.trail.status = "collecting" /\ HeardBid(p, row, quote, bid) \in {heard, raised})
      \/ (filled.trail.status = "collecting" /\ Sampled(quote) /\ HeardBid(p, row, quote, bid) = crossed)
  BY <1>8
<1>10. CASE HeardBid(p, row, quote, bid) = row
  BY <1>1, <1>10, FollowsItself
<1>11. CASE HeardBid(p, row, quote, bid) = filled
  BY <1>1, <1>3, <1>11
<1>12. CASE filled.trail.status = "collecting" /\ HeardBid(p, row, quote, bid) = heard
  BY <1>4, <1>5, <1>6, <1>7, <1>12
<1>13. CASE filled.trail.status = "collecting" /\ HeardBid(p, row, quote, bid) = raised
  <2>1. raised \in LedgerRow /\ raised.exit = heard.exit /\ raised.trail = heard.trail /\ raised.heard = now
    BY <1>4 DEF LedgerRow
  <2> HIDE DEF raised
  <2>2. RowOK(p, raised, sh) /\ Known(raised) /\ Follows(heard, raised)
    BY <1>5, <2>1, NewNotes
  <2> QED
    BY <1>6, <1>7, <1>13, <2>1, <2>2, FollowsTransitive
<1>14. CASE filled.trail.status = "collecting" /\ Sampled(quote) /\ HeardBid(p, row, quote, bid) = crossed
  <2>1. heard.trail \in Leg /\ heard.trail.status = "collecting" /\ heard.trail.at = 0
    BY <1>4, <1>5, <1>14 DEF RowOK, LegOK
  <2>2. now > 0
    BY <1>1, <1>14, SampledMeans
  <2>3. leg \in Leg /\ leg.status = "pending_quote" /\ leg.at = now /\ leg.reason = "stop"
    BY <1>1, <2>1 DEF Leg, Statuses, ExitReasons
  <2> HIDE DEF leg
  <2>4. LegOK(p, leg, sh) /\ Later(heard.trail, leg)
    BY <2>1, <2>2, <2>3 DEF LegOK, Later, Undone
  <2>5. RowOK(p, crossed, sh) /\ Known(crossed) /\ Follows(heard, crossed)
    BY <1>5, <2>4, NewTrail
  <2>6. crossed.heard = now
    BY <1>4 DEF LedgerRow
  <2> QED
    BY <1>6, <1>7, <1>14, <2>5, <2>6, FollowsTransitive
<1> QED
  BY <1>9, <1>10, <1>11, <1>12, <1>13, <1>14

-----------------------------------------------------------------------------
(* Passes. *)

\* What is said of rows and passes depends on the market, which does not change.
LEMMA SameMarket ==
  ASSUME UNCHANGED market
  PROVE  /\ \A p, row, sh : RowOK(p, row, sh)' <=> RowOK(p, row, sh)
         /\ \A ob, ev, sh : PassOK(ob, ev, sh)' <=> PassOK(ob, ev, sh)
<1>1. ASSUME NEW p, NEW leg, NEW sh
      PROVE  /\ LegOK(p, leg, sh)' <=> LegOK(p, leg, sh)
             /\ ByWholeBars(p, leg)' <=> ByWholeBars(p, leg)
  BY DEF market, LegOK, Timely, QuoteWindow, ByWholeBars
<1>2. ASSUME NEW p, NEW row, NEW sh
      PROVE  RowOK(p, row, sh)' <=> RowOK(p, row, sh)
  BY <1>1 DEF market, RowOK, RulesOf
<1>3. ASSUME NEW p, NEW row, NEW ev, NEW sh
      PROVE  HandOK(p, row, ev, sh)' <=> HandOK(p, row, ev, sh)
  BY <1>2 DEF HandOK
<1>4. ASSUME NEW ob, NEW ev, NEW sh
      PROVE  PassOK(ob, ev, sh)' <=> PassOK(ob, ev, sh)
  BY <1>2, <1>3 DEF market, PassOK
<1> QED
  BY <1>2, <1>4

\* The ledger may go on under a pass.
LEMMA LedgerGoesOn ==
  ASSUME NEW ob, NEW ev, NEW ev2, NEW sh, NEW sh2, PassOK(ob, ev, sh), sh \subseteq sh2,
         \A p \in Plays : Follows(ev[p], ev2[p])
  PROVE  PassOK(ob, ev2, sh2)
<1>1. ASSUME NEW p \in Plays, NEW row, HandOK(p, row, ev, sh)
      PROVE  HandOK(p, row, ev2, sh2)
  <2>1. RowOK(p, row, sh2)
    BY <1>1, SharedGrows DEF HandOK
  <2>2. Follows(row, ev2[p])
    BY <1>1, FollowsTransitive DEF HandOK
  <2> QED
    BY <1>1, <2>1, <2>2 DEF HandOK
<1>2. CASE ob = Idle
  BY <1>2 DEF PassOK
<1>3. CASE ob # Idle
  <2>1. ob \in Pass /\ ob.todo \subseteq Plays /\ ob.play \in Plays \cup {NoPlay}
    BY <1>3 DEF PassOK, Pass
  <2>2. \A p \in ob.todo : p # ob.play /\ HandOK(p, ob.seen[p], ev2, sh2)
    BY <1>1, <1>3, <2>1 DEF PassOK
  <2>3. ob.play # NoPlay => HandOK(ob.play, ob.row, ev2, sh2)
    BY <1>1, <1>3, <2>1 DEF PassOK
  <2>4. ob.at = "quote" /\ ledger = "tests" =>
          /\ RowOK(ob.play, ob.state, sh2) /\ Follows(ob.row, ob.state)
          /\ ob.state.heard = ob.row.heard
    BY <1>3, SharedGrows DEF PassOK
  <2> QED
    BY <1>3, <2>1, <2>2, <2>3, <2>4 DEF PassOK
<1> QED
  BY <1>2, <1>3

\* A pass that is done with its row.
LEMMA NextRowOK ==
  ASSUME NEW ob, NEW ev, NEW sh, PassOK(ob, ev, sh), ob # Idle,
         NEW frame \in Frame, frame.last # "whole" => feed.forming /\ frame.bars > 0,
         NEW quote \in Quote, quote.asked => quote.received > 0
  PROVE  LET next == NextRow([ob EXCEPT !.frame = frame, !.quote = quote]) IN
         /\ PassOK(next, ev, sh)
         /\ next \in Pass /\ next.todo = ob.todo /\ next.seen = ob.seen /\ next.play = NoPlay
<1> DEFINE next == NextRow([ob EXCEPT !.frame = frame, !.quote = quote])
<1>1. NotEnrolled \in LedgerRow /\ ob \in Pass
  BY FreshRows DEF RowOK, PassOK
<1>2. next = [ob EXCEPT !.frame = frame, !.quote = quote, !.at = "row", !.play = NoPlay,
                        !.row = NotEnrolled, !.state = NotEnrolled]
  BY <1>1 DEF NextRow, Pass
<1> HIDE DEF next
<1>3. next \in Pass
  BY <1>1, <1>2 DEF Pass
<1>4. /\ next.at = "row" /\ next.todo = ob.todo /\ next.seen = ob.seen /\ next.play = NoPlay
      /\ next.frame = frame /\ next.quote = quote
  BY <1>1, <1>2 DEF Pass
<1>5. \A p \in ob.todo : p # NoPlay /\ HandOK(p, ob.seen[p], ev, sh)
  BY <1>1, EvidenceAssumption DEF PassOK, Pass, EvidenceAssumption
<1>6. PassOK(next, ev, sh)
  BY <1>3, <1>4, <1>5 DEF PassOK
<1> QED
  BY <1>3, <1>4, <1>6 DEF next

\* ... and one that goes on with it.
LEMMA SameRowOK ==
  ASSUME NEW ob, NEW ev, NEW sh, PassOK(ob, ev, sh), ob # Idle, ob.play # NoPlay,
         NEW next \in Pass,
         next.todo = ob.todo, next.seen = ob.seen, next.play = ob.play, next.quote = ob.quote,
         next.at # "row", HandOK(ob.play, next.row, ev, sh),
         next.frame.last # "whole" => feed.forming /\ next.frame.bars > 0,
         next.at = "due" => Pending(next.row) /\ ledger = "authored",
         next.at = "quote" /\ ledger = "authored" => Pending(next.row) \/ rule[ob.play] = "premium",
         next.at = "quote" /\ ledger = "tests" =>
           RowOK(ob.play, next.state, sh) /\ Follows(next.row, next.state) /\ next.state.heard = next.row.heard
  PROVE  PassOK(next, ev, sh)
<1>1. /\ \A p \in ob.todo : p # ob.play /\ HandOK(p, ob.seen[p], ev, sh)
      /\ ob.quote.asked => ob.quote.received > 0
  BY DEF PassOK
<1> QED
  BY <1>1 DEF PassOK

\* What a write of the row in hand leaves.
Written(row, p) ==
  /\ evidence' \in [Plays -> LedgerRow]
  /\ \A q \in Plays : /\ RowOK(q, evidence'[q], shared) /\ Follows(evidence[q], evidence'[q])
                      /\ evidence'[q] = IF q = p THEN row ELSE evidence[q]

LEMMA PutOK ==
  ASSUME EvidenceInv, NEW p \in Plays, NEW row, Put(p, row), RowOK(p, row, shared), Follows(evidence[p], row)
  PROVE  Written(row, p)
<1>1. row \in LedgerRow /\ evidence \in [Plays -> LedgerRow] /\ \A q \in Plays : RowOK(q, evidence[q], shared)
  BY DEF EvidenceInv, RowOK
<1>2. /\ evidence' \in [Plays -> LedgerRow]
      /\ \A q \in Plays : evidence'[q] = IF q = p THEN row ELSE evidence[q]
  BY <1>1 DEF Put
<1> QED
  BY <1>1, <1>2, FollowsItself DEF Written

LEMMA NothingPut ==
  ASSUME EvidenceInv, NEW p, UNCHANGED evidence
  PROVE  Written(evidence[p], p)
<1>1. evidence \in [Plays -> LedgerRow] /\ \A q \in Plays : RowOK(q, evidence[q], shared)
  BY DEF EvidenceInv
<1> QED
  BY <1>1, FollowsItself DEF Written

\* One step of one pass, which may write the row it has in hand.
LEMMA PassActs ==
  ASSUME EvidenceInv, NEW o \in Observers, observer[o] # Idle,
         NEW ob, observer' = [observer EXCEPT ![o] = ob],
         NEW row, Written(row, observer[o].play),
         PassOK(ob, evidence', shared),
         ob # Idle =>
           /\ ob.todo \subseteq observer[o].todo
           /\ \A p \in ob.todo : ob.seen[p] = observer[o].seen[p]
           /\ ob.play = NoPlay
              \/ /\ ob.play \in observer[o].todo \cup {observer[o].play}
                 /\ ledger = "authored" /\ ob.play \notin shared => ob.row = evidence'[ob.play],
         UNCHANGED <<market, minute, shared>>, faults' \in 0..Faults,
         silence' \in [Plays -> Nat], \A p \in Plays : silence'[p] <= MaxGap
  PROVE  EvidenceInv'
<1>1. UNCHANGED market
  BY DEF market
<1>2. Setting'
  BY DEF EvidenceInv, Setting, market, RulesOf
<1>3. /\ evidence' \in [Plays -> LedgerRow]
      /\ \A q \in Plays : /\ RowOK(q, evidence'[q], shared) /\ Follows(evidence[q], evidence'[q])
                          /\ q # observer[o].play => evidence'[q] = evidence[q]
  BY DEF Written
<1>4. /\ DOMAIN observer' = Observers /\ observer' = [v \in Observers |-> observer'[v]]
      /\ observer'[o] = ob /\ \A v \in Observers \ {o} : observer'[v] = observer[v]
  BY DEF EvidenceInv
<1>5. \A v \in Observers : PassOK(observer'[v], evidence', shared)
  <2>1. \A v \in Observers : PassOK(observer[v], evidence, shared)
    BY DEF EvidenceInv
  <2> QED
    BY <1>3, <1>4, <2>1, LedgerGoesOn
<1>6. Exclusive'
  <2>1. /\ observer[o] \in Pass /\ observer[o].at # "idle" /\ observer[o].play \notin observer[o].todo
        /\ ob # Idle => ob \in Pass /\ ob.at # "idle"
        /\ Idle.at = "idle"
    BY DEF EvidenceInv, PassOK, Pass, Idle
  <2>2. InHand(o) = observer[o].todo \cup {observer[o].play}
    BY <2>1 DEF InHand
  <2>3. \A v \in Observers \ {o} : InHand(v)' = InHand(v)
    BY <1>4 DEF InHand
  <2>4. InHand(o)' = IF ob = Idle THEN {} ELSE ob.todo \cup {ob.play}
    BY <1>4, <2>1 DEF InHand
  <2>5. NoPlay \notin Plays
    BY EvidenceAssumption DEF EvidenceAssumption
  <2> SUFFICES ASSUME ledger = "authored", NEW p \in Plays, p \notin shared,
                      NEW v \in Observers, p \in InHand(v)'
               PROVE  /\ \A w \in Observers : p \in InHand(w)' => w = v
                      /\ p \in observer'[v].todo => observer'[v].seen[p] = evidence'[p]
                      /\ p = observer'[v].play => observer'[v].row = evidence'[p]
    BY DEF Exclusive, market
  <2>6. \A w \in Observers : p \in InHand(w)' => p \in InHand(w)
    BY <2>2, <2>3, <2>4, <2>5
  <2>7. /\ \A w \in Observers : p \in InHand(w) => w = v
        /\ p \in observer[v].todo => observer[v].seen[p] = evidence[p]
        /\ p = observer[v].play => observer[v].row = evidence[p]
    BY <2>6 DEF EvidenceInv, Exclusive
  <2>8. CASE v # o
    <3>1. p # observer[o].play
      BY <2>2, <2>7, <2>8
    <3> QED
      BY <1>3, <1>4, <2>6, <2>7, <2>8, <3>1
  <2>9. CASE v = o
    <3>1. ob # Idle
      BY <2>4, <2>9
    <3>2. p \in ob.todo => ob.seen[p] = observer[o].seen[p] /\ p \in observer[o].todo
      BY <3>1
    <3>3. p \in ob.todo => ob.seen[p] = evidence'[p]
      BY <1>3, <2>1, <2>7, <2>9, <3>2
    <3>4. p = ob.play => ob.row = evidence'[p]
      BY <2>5, <3>1
    <3> QED
      BY <1>4, <2>6, <2>7, <2>9, <3>3, <3>4
  <2> QED
    BY <2>8, <2>9
<1>7. /\ \A p \in Plays : RowOK(p, evidence[p], shared)'
      /\ \A v \in Observers : PassOK(observer[v], evidence, shared)'
  BY <1>1, <1>3, <1>5, SameMarket
<1> QED
  BY <1>2, <1>3, <1>4, <1>6, <1>7 DEF EvidenceInv

-----------------------------------------------------------------------------
(* The steps. *)

\* Every row of the ledger goes on as it began.
Onward == EvidenceInv' /\ \A p \in Plays : Follows(evidence[p], evidence'[p])

LEMMA WrittenGoesOn ==
  ASSUME EvidenceInv, NEW o \in Observers, NEW row, NEW p, Written(row, p)
  PROVE  /\ PassOK(observer[o], evidence, shared) /\ PassOK(observer[o], evidence', shared)
         /\ \A q \in Plays : Follows(evidence[q], evidence'[q])
BY LedgerGoesOn DEF EvidenceInv, Written

LEMMA TakeRowOnward ==
  ASSUME EvidenceInv, NEW o \in Observers, TakeRow(o)
  PROVE  Onward
<1> DEFINE ob == observer[o]
<1>1. PICK p \in ob.todo : observer' = [observer EXCEPT ![o] = Taken(o, p)]
  BY DEF TakeRow
<1> DEFINE at == IF NeedsBars(o, p) THEN "bars" ELSE "decide"
           next == Taken(o, p)
<1>2. /\ ob.at = "row" /\ UNCHANGED <<market, minute, evidence, shared, silence, faults>>
      /\ Idle.at = "idle" /\ NotEnrolled \in LedgerRow /\ NoPlay \notin Plays
  BY EvidenceAssumption, FreshRows DEF TakeRow, Idle, RowOK, EvidenceAssumption
<1>3. Written(evidence[ob.play], ob.play)
  BY <1>2, NothingPut
<1>4. PassOK(ob, evidence, shared) /\ PassOK(ob, evidence', shared)
  BY <1>3, WrittenGoesOn
<1>5. /\ ob # Idle /\ ob \in Pass /\ p \in Plays /\ ob.seen[p] \in LedgerRow
      /\ HandOK(p, ob.seen[p], evidence', shared)
  BY <1>2, <1>4 DEF PassOK, Pass
<1>6. /\ next \in Pass /\ next.at = at /\ next.todo = ob.todo \ {p} /\ next.play = p /\ next.row = ob.seen[p]
      /\ next.seen = [ob.seen EXCEPT ![p] = NotEnrolled] /\ next.frame = ob.frame /\ next.quote = ob.quote
  BY <1>2, <1>5 DEF Pass, Taken
<1>7. \A q \in next.todo : q # p /\ next.seen[q] = ob.seen[q]
  BY <1>5, <1>6 DEF Pass
<1>8. observer' = [observer EXCEPT ![o] = next]
  BY <1>1
<1> HIDE DEF next
<1>9. PassOK(next, evidence', shared)
  BY <1>2, <1>4, <1>5, <1>6, <1>7 DEF PassOK
<1>10. ledger = "authored" /\ p \notin shared => ob.seen[p] = evidence'[p]
  <2>1. p \in InHand(o)
    BY <1>1, <1>2 DEF InHand
  <2> QED
    BY <1>1, <1>2, <1>5, <2>1 DEF EvidenceInv, Exclusive
<1>11. /\ next.todo \subseteq ob.todo /\ \A q \in next.todo : next.seen[q] = ob.seen[q]
       /\ next.play \in ob.todo \cup {ob.play}
       /\ ledger = "authored" /\ next.play \notin shared => next.row = evidence'[next.play]
  BY <1>6, <1>7, <1>10
<1>12. faults' \in 0..Faults /\ silence' \in [Plays -> Nat] /\ \A q \in Plays : silence'[q] <= MaxGap
  BY <1>2 DEF EvidenceInv, Setting
<1> HIDE DEF ob
<1>13. EvidenceInv'
  BY <1>2, <1>3, <1>5, <1>8, <1>9, <1>11, <1>12, PassActs DEF ob
<1> QED
  BY <1>3, <1>13, WrittenGoesOn DEF Onward

\* A pass that stops.
LEMMA StopsOnward ==
  ASSUME EvidenceInv, NEW o \in Observers, EndObservation(o) \/ BreakOff(o)
  PROVE  Onward
<1>1. /\ observer[o].at # "idle" /\ observer' = [observer EXCEPT ![o] = Idle] /\ Idle.at = "idle"
      /\ UNCHANGED <<market, minute, evidence, shared, silence>> /\ faults' \in {faults, faults + 1}
      /\ faults' # faults => faults < Faults
  BY DEF EndObservation, BreakOff, Idle
<1>2. Written(evidence[observer[o].play], observer[o].play) /\ PassOK(Idle, evidence', shared)
  BY <1>1, NothingPut DEF PassOK
<1>3. faults' \in 0..Faults /\ silence' \in [Plays -> Nat] /\ \A q \in Plays : silence'[q] <= MaxGap
  BY <1>1, Constants, EvidenceAssumption DEF EvidenceInv, Setting
<1>4. EvidenceInv'
  BY <1>1, <1>2, <1>3, PassActs
<1> QED
  BY <1>2, <1>4, WrittenGoesOn DEF Onward

LEMMA MinuteCounts ==
  ASSUME EvidenceInv
  PROVE  minute \in Nat \ {0} /\ Cap \in Nat \ {0} /\ Earliest({minute, Cap}) \in Nat
<1>1. minute \in Nat \ {0} /\ Cap \in Nat \ {0}
  BY Constants, EvidenceAssumption DEF EvidenceInv, Setting
<1>2. minute \in Int /\ Cap \in Int
  BY <1>1
<1>3. Earliest({minute, Cap}) = IF minute <= Cap THEN minute ELSE Cap
  BY <1>2, TwoTimes
<1> QED
  BY <1>1, <1>3

LEMMA FramesOK ==
  ASSUME EvidenceInv, NEW frame \in Frames
  PROVE  frame \in Frame /\ (frame.last # "whole" => feed.forming /\ frame.bars > 0)
<1>1. CASE frame \in [bars : 0..Earliest({minute, Cap}), last : {"whole"}]
  BY <1>1, MinuteCounts DEF Frame
<1>2. CASE feed.forming /\ frame \in [bars : {minute + 1}, last : {"shows", "hides"}]
  BY <1>2, MinuteCounts DEF Frame
<1> QED
  BY <1>1, <1>2 DEF Frames

LEMMA AnswersOK ==
  ASSUME EvidenceInv, NEW o \in Observers, observer[o] # Idle, NEW quote \in Answers(o)
  PROVE  quote \in Quote /\ (quote.asked => quote.received > 0)
<1>1. CASE observer[o].quote.asked
  BY <1>1 DEF Answers, EvidenceInv, PassOK, Pass
<1>2. CASE ~observer[o].quote.asked
  <2>1. {0} \cup {t \in Minutes : t <= minute /\ minute <= t + MaxAge + 1} \subseteq Nat
    BY Constants, EvidenceAssumption
  <2>2. quote \in [asked : {TRUE}, received : {minute}, stamp : Nat]
    BY <1>2, <2>1 DEF Answers
  <2>3. quote.received > 0
    BY <2>2, MinuteCounts
  <2>4. [asked : {TRUE}, received : {minute}, stamp : Nat] \subseteq Quote
    BY MinuteCounts DEF Quote
  <2> QED
    BY <2>2, <2>3, <2>4, Zenon
<1> QED
  BY <1>1, <1>2

\* A pass in the middle of a row, when it has read bars or not.
LEMMA InTheMiddle ==
  ASSUME EvidenceInv, NEW o \in Observers, observer[o].at \in {"bars", "decide", "due", "quote"},
         NEW ev, PassOK(observer[o], ev, shared)
  PROVE  LET ob == observer[o] IN
         /\ ob # Idle /\ ob \in Pass /\ ob.play \in Plays /\ ob.play # NoPlay /\ HandOK(ob.play, ob.row, ev, shared)
         /\ ob.row \in LedgerRow /\ ob.state \in LedgerRow /\ ob.frame \in Frame /\ ob.quote \in Quote
         /\ ob.frame.last # "whole" => feed.forming /\ ob.frame.bars > 0
         /\ ob.quote.asked => ob.quote.received > 0
         /\ ledger = "authored" /\ ob.play \notin shared => ob.row = evidence[ob.play]
<1>1. observer[o] # Idle /\ observer[o].at # "idle" /\ observer[o].at # "row"
  BY DEF Idle
<1>2. observer[o] \in Pass /\ observer[o].play # NoPlay
  BY <1>1 DEF PassOK
<1>3. observer[o].play \in Plays /\ observer[o].play \in InHand(o)
  BY <1>1, <1>2 DEF Pass, InHand
<1>4. ledger = "authored" /\ observer[o].play \notin shared => observer[o].row = evidence[observer[o].play]
  BY <1>3 DEF EvidenceInv, Exclusive
<1> QED
  BY <1>1, <1>2, <1>3, <1>4 DEF PassOK, Pass

LEMMA Unhurried ==
  ASSUME EvidenceInv, UNCHANGED silence
  PROVE  silence' \in [Plays -> Nat] /\ \A q \in Plays : silence'[q] <= MaxGap
BY DEF EvidenceInv

LEMMA ReadBarsOnward ==
  ASSUME EvidenceInv, NEW o \in Observers, ReadBars(o)
  PROVE  Onward
<1> DEFINE ob == observer[o]
<1>1. ob.at = "bars" /\ UNCHANGED <<market, minute, evidence, shared, silence, faults>>
  BY DEF ReadBars
<1>2. PICK frame \in Frames : observer' = [observer EXCEPT ![o] = [@ EXCEPT !.at = "decide", !.frame = frame]]
  BY DEF ReadBars
<1> DEFINE next == [ob EXCEPT !.at = "decide", !.frame = frame]
<1>3. Written(evidence[ob.play], ob.play)
  BY <1>1, NothingPut
<1>4. PassOK(ob, evidence', shared)
  BY <1>3, WrittenGoesOn
<1>5. /\ ob # Idle /\ ob \in Pass /\ ob.play \in Plays /\ ob.play # NoPlay /\ HandOK(ob.play, ob.row, evidence', shared)
      /\ ob.state \in LedgerRow
      /\ ledger = "authored" /\ ob.play \notin shared => ob.row = evidence[ob.play]
  BY <1>1, <1>4, InTheMiddle
<1>6. frame \in Frame /\ (frame.last # "whole" => feed.forming /\ frame.bars > 0)
  BY FramesOK
<1>7. /\ next \in Pass /\ next.todo = ob.todo /\ next.seen = ob.seen /\ next.play = ob.play /\ next.quote = ob.quote
      /\ next.at = "decide" /\ next.row = ob.row /\ next.frame = frame
  BY <1>5, <1>6 DEF Pass
<1> HIDE DEF next
<1>8. PassOK(next, evidence', shared)
  BY <1>4, <1>5, <1>6, <1>7, SameRowOK
<1>9. faults' \in 0..Faults /\ silence' \in [Plays -> Nat] /\ \A q \in Plays : silence'[q] <= MaxGap
  BY <1>1, Unhurried DEF EvidenceInv, Setting
<1>10. observer' = [observer EXCEPT ![o] = next]
  BY <1>2 DEF next
<1> HIDE DEF ob
<1>11. EvidenceInv'
  BY <1>1, <1>3, <1>5, <1>7, <1>8, <1>9, <1>10, PassActs DEF ob
<1> QED
  BY <1>3, <1>11, WrittenGoesOn DEF Onward

\* A row that is given up, or that nothing more is done about.
LEMMA GivenUpOnward ==
  ASSUME EvidenceInv, NEW o \in Observers, observer[o].at \in {"bars", "decide", "due", "quote"},
         NEW frame \in Frame, frame.last # "whole" => feed.forming /\ frame.bars > 0,
         NEW quote \in Quote, quote.asked => quote.received > 0,
         observer' = [observer EXCEPT ![o] = NextRow([observer[o] EXCEPT !.frame = frame, !.quote = quote])],
         NEW row, Written(row, observer[o].play),
         UNCHANGED <<market, minute, shared>>, faults' \in 0..Faults,
         silence' \in [Plays -> Nat], \A q \in Plays : silence'[q] <= MaxGap
  PROVE  Onward
<1> DEFINE ob == observer[o]
           next == NextRow([ob EXCEPT !.frame = frame, !.quote = quote])
<1>1. PassOK(ob, evidence', shared) /\ ob # Idle
  BY WrittenGoesOn, InTheMiddle
<1>2. /\ PassOK(next, evidence', shared)
      /\ next \in Pass /\ next.todo = ob.todo /\ next.seen = ob.seen /\ next.play = NoPlay
  BY <1>1, NextRowOK
<1> HIDE DEF next
<1>3. observer' = [observer EXCEPT ![o] = next]
  BY DEF next
<1>4. EvidenceInv'
  BY <1>1, <1>2, <1>3, PassActs
<1> QED
  BY <1>4, WrittenGoesOn DEF Onward

\* What NextRow leaves out.
LEMMA LeftOut ==
  ASSUME NEW ob \in Pass, NEW frame \in Frame, NEW quote \in Quote
  PROVE  /\ ob = [ob EXCEPT !.frame = ob.frame, !.quote = ob.quote]
         /\ [ob EXCEPT !.quote = quote] = [ob EXCEPT !.frame = ob.frame, !.quote = quote]
         /\ [ob EXCEPT !.frame = frame] = [ob EXCEPT !.frame = frame, !.quote = ob.quote]
<1>1. ob = [ob EXCEPT !.frame = ob.frame, !.quote = ob.quote]
  BY DEF Pass
<1>2. [ob EXCEPT !.quote = quote] = [ob EXCEPT !.frame = ob.frame, !.quote = quote]
  BY DEF Pass
<1>3. [ob EXCEPT !.frame = frame] = [ob EXCEPT !.frame = frame, !.quote = ob.quote]
  BY DEF Pass
<1> QED
  BY <1>1, <1>2, <1>3

\* A pass that goes on with its row.
LEMMA StaysOnward ==
  ASSUME EvidenceInv, NEW o \in Observers, observer[o].at \in {"bars", "decide", "due", "quote"},
         NEW next \in Pass, observer' = [observer EXCEPT ![o] = next],
         NEW row, Written(row, observer[o].play),
         next.todo = observer[o].todo, next.seen = observer[o].seen, next.play = observer[o].play,
         next.quote = observer[o].quote,
         next.at # "row", HandOK(observer[o].play, next.row, evidence', shared),
         next.frame.last # "whole" => feed.forming /\ next.frame.bars > 0,
         next.at = "due" => Pending(next.row) /\ ledger = "authored",
         next.at = "quote" /\ ledger = "authored" => Pending(next.row) \/ rule[observer[o].play] = "premium",
         next.at = "quote" /\ ledger = "tests" =>
           RowOK(observer[o].play, next.state, shared) /\ Follows(next.row, next.state) /\ next.state.heard = next.row.heard,
         ledger = "authored" /\ observer[o].play \notin shared => next.row = evidence'[observer[o].play],
         UNCHANGED <<market, minute, shared>>, faults' \in 0..Faults,
         silence' \in [Plays -> Nat], \A q \in Plays : silence'[q] <= MaxGap
  PROVE  Onward
<1> DEFINE ob == observer[o]
<1>1. PassOK(ob, evidence', shared) /\ ob # Idle /\ ob.play # NoPlay
  BY WrittenGoesOn, InTheMiddle
<1>2. PassOK(next, evidence', shared)
  BY <1>1, SameRowOK
<1>3. EvidenceInv'
  BY <1>1, <1>2, PassActs
<1> QED
  BY <1>3, WrittenGoesOn DEF Onward

LEMMA ReadFailsOnward ==
  ASSUME EvidenceInv, NEW o \in Observers, ReadFails(o)
  PROVE  Onward
<1> DEFINE ob == observer[o]
           none == [bars |-> 0, last |-> "whole"]
           next == [ob EXCEPT !.at = "decide", !.frame = none]
<1>1. ob.at = "bars" /\ UNCHANGED <<market, minute, evidence, shared, silence>> /\ faults' = faults + 1 /\ faults < Faults
  BY DEF ReadFails
<1>2. /\ faults' \in 0..Faults /\ silence' \in [Plays -> Nat] /\ \A q \in Plays : silence'[q] <= MaxGap
  BY <1>1, Unhurried, Constants, EvidenceAssumption DEF EvidenceInv, Setting
<1>3. Written(evidence[ob.play], ob.play)
  BY <1>1, NothingPut
<1>4. PassOK(ob, evidence', shared)
  BY <1>3, WrittenGoesOn
<1>5. /\ ob # Idle /\ ob \in Pass /\ ob.play \in Plays /\ HandOK(ob.play, ob.row, evidence', shared)
      /\ ob.frame \in Frame /\ ob.quote \in Quote
      /\ ob.frame.last # "whole" => feed.forming /\ ob.frame.bars > 0
      /\ ob.quote.asked => ob.quote.received > 0
      /\ ledger = "authored" /\ ob.play \notin shared => ob.row = evidence'[ob.play]
  BY <1>1, <1>4, InTheMiddle
<1>6. none \in Frame /\ none.last = "whole"
  BY DEF Frame
<1>7. \/ observer' = [observer EXCEPT ![o] = next]
      \/ observer' = [observer EXCEPT ![o] = NextRow(ob)]
      \/ observer' = [observer EXCEPT ![o] = NextRow([ob EXCEPT !.frame = none])]
  BY DEF ReadFails
<1>8. CASE observer' = [observer EXCEPT ![o] = next]
  <2>1. /\ next \in Pass /\ next.todo = ob.todo /\ next.seen = ob.seen /\ next.play = ob.play /\ next.quote = ob.quote
        /\ next.at = "decide" /\ next.row = ob.row /\ next.frame = none
    BY <1>5, <1>6 DEF Pass
  <2> HIDE DEF next, none
  <2> QED
    BY <1>1, <1>2, <1>3, <1>5, <1>6, <1>8, <2>1, StaysOnward
<1>9. CASE observer' = [observer EXCEPT ![o] = NextRow(ob)]
  <2>1. observer' = [observer EXCEPT ![o] = NextRow([ob EXCEPT !.frame = ob.frame, !.quote = ob.quote])]
    BY <1>5, <1>9, LeftOut
  <2> QED
    BY <1>1, <1>2, <1>3, <1>5, <2>1, GivenUpOnward
<1>10. CASE observer' = [observer EXCEPT ![o] = NextRow([ob EXCEPT !.frame = none])]
  <2> HIDE DEF none
  <2>1. observer' = [observer EXCEPT ![o] = NextRow([ob EXCEPT !.frame = none, !.quote = ob.quote])]
    BY <1>5, <1>6, <1>10, LeftOut
  <2> QED
    BY <1>1, <1>2, <1>3, <1>5, <1>6, <2>1, GivenUpOnward
<1> QED
  BY <1>7, <1>8, <1>9, <1>10

LEMMA QuoteFailsOnward ==
  ASSUME EvidenceInv, NEW o \in Observers, QuoteFails(o)
  PROVE  Onward
<1> DEFINE ob == observer[o]
           quote == [asked |-> TRUE, stamp |-> 0, received |-> minute]
<1>1. /\ ob.at = "quote" /\ UNCHANGED <<market, minute, evidence, shared, silence, faults>>
      /\ observer' = [observer EXCEPT ![o] = NextRow([ob EXCEPT !.quote = quote])]
  BY DEF QuoteFails
<1>2. /\ faults' \in 0..Faults /\ silence' \in [Plays -> Nat] /\ \A q \in Plays : silence'[q] <= MaxGap
  BY <1>1, Unhurried DEF EvidenceInv, Setting
<1>3. Written(evidence[ob.play], ob.play)
  BY <1>1, NothingPut
<1>4. /\ ob \in Pass /\ ob.frame \in Frame
      /\ ob.frame.last # "whole" => feed.forming /\ ob.frame.bars > 0
  BY <1>1, <1>3, InTheMiddle, WrittenGoesOn
<1>5. quote \in Quote /\ quote.received > 0
  BY MinuteCounts DEF Quote
<1> HIDE DEF quote
<1>6. observer' = [observer EXCEPT ![o] = NextRow([ob EXCEPT !.frame = ob.frame, !.quote = quote])]
  BY <1>1, <1>4, <1>5, LeftOut
<1> QED
  BY <1>1, <1>2, <1>3, <1>4, <1>5, <1>6, GivenUpOnward

LEMMA SetAt ==
  ASSUME NEW ob \in Pass, NEW at \in {"bars", "decide", "due", "quote"}
  PROVE  LET next == [ob EXCEPT !.at = at] IN
         /\ next \in Pass /\ next.at = at /\ next.todo = ob.todo /\ next.seen = ob.seen /\ next.play = ob.play
         /\ next.row = ob.row /\ next.state = ob.state /\ next.frame = ob.frame /\ next.quote = ob.quote
BY DEF Pass

LEMMA SetAtAndRow ==
  ASSUME NEW ob \in Pass, NEW at \in {"bars", "decide", "due", "quote"}, NEW row \in LedgerRow
  PROVE  LET next == [ob EXCEPT !.at = at, !.row = row] IN
         /\ next \in Pass /\ next.at = at /\ next.todo = ob.todo /\ next.seen = ob.seen /\ next.play = ob.play
         /\ next.row = row /\ next.state = ob.state /\ next.frame = ob.frame /\ next.quote = ob.quote
BY DEF Pass

\* What a pass in the middle of a row knows, of the ledger before and after its step.
LEMMA AtWork ==
  ASSUME EvidenceInv, NEW o \in Observers, observer[o].at \in {"bars", "decide", "due", "quote"},
         NEW row, Written(row, observer[o].play)
  PROVE  LET ob == observer[o] IN
         /\ ob # Idle /\ ob \in Pass /\ ob.play \in Plays /\ ob.row \in LedgerRow
         /\ HandOK(ob.play, ob.row, evidence, shared) /\ HandOK(ob.play, ob.row, evidence', shared)
         /\ evidence'[ob.play] = row
         /\ ob.frame \in Frame /\ ob.quote \in Quote
         /\ ob.frame.last # "whole" => feed.forming /\ ob.frame.bars > 0
         /\ ob.quote.asked => ob.quote.received > 0
         /\ ledger = "authored" /\ ob.play \notin shared => ob.row = evidence[ob.play]
<1>1. PassOK(observer[o], evidence, shared) /\ PassOK(observer[o], evidence', shared)
  BY WrittenGoesOn
<1> QED
  BY <1>1, InTheMiddle DEF Written

LEMMA RowInHand ==
  ASSUME EvidenceInv, NEW o \in Observers, observer[o].at \in {"bars", "decide", "due", "quote"}
  PROVE  LET ob == observer[o] IN
         /\ ob \in Pass /\ ob.play \in Plays /\ ob.row \in LedgerRow /\ ob.state \in LedgerRow
         /\ RowOK(ob.play, ob.row, shared) /\ Known(ob.row) /\ Follows(ob.row, evidence[ob.play])
         /\ RowOK(ob.play, evidence[ob.play], shared) /\ Known(evidence[ob.play])
         /\ ob.frame \in Frame /\ (ob.frame.last # "whole" => feed.forming /\ ob.frame.bars > 0)
         /\ ledger = "authored" /\ ob.play \notin shared => ob.row = evidence[ob.play]
<1>1. PassOK(observer[o], evidence, shared)
  BY DEF EvidenceInv
<1> QED
  BY <1>1, InTheMiddle DEF HandOK, Follows, EvidenceInv

LEMMA DecideAuthoredOnward ==
  ASSUME EvidenceInv, NEW o \in Observers, DecideAuthored(o)
  PROVE  Onward
<1> DEFINE ob == observer[o]
           p == ob.play
           event == Decision(p, ob.frame, minute)
           latched == Latch(p, event)
<1>1. /\ ledger = "authored" /\ ob.at = "decide" /\ UNCHANGED <<market, minute, shared, silence, faults>>
  BY DEF DecideAuthored
<1>2. /\ faults' \in 0..Faults /\ silence' \in [Plays -> Nat] /\ \A q \in Plays : silence'[q] <= MaxGap
  BY <1>1, Unhurried DEF EvidenceInv, Setting
<1>3. \/ /\ Pending(ob.row) /\ observer' = [observer EXCEPT ![o].at = "due"] /\ UNCHANGED evidence
      \/ /\ Decides(event) /\ Put(p, latched)
         /\ \/ Pending(latched) /\ observer' = [observer EXCEPT ![o] = [ob EXCEPT !.at = "due", !.row = latched]]
            \/ observer' = [observer EXCEPT ![o] = NextRow(ob)]
      \/ /\ rule[p] = "premium" /\ observer' = [observer EXCEPT ![o] = [ob EXCEPT !.at = "quote"]] /\ UNCHANGED evidence
      \/ /\ observer' = [observer EXCEPT ![o] = NextRow(ob)] /\ UNCHANGED evidence
  BY DEF DecideAuthored
<1> HIDE DEF event
<1>4. CASE Pending(ob.row) /\ observer' = [observer EXCEPT ![o].at = "due"] /\ UNCHANGED evidence
  <2> DEFINE next == [ob EXCEPT !.at = "due"]
  <2>1. Written(evidence[p], p)
    BY <1>4, NothingPut
  <2>2. /\ next \in Pass /\ next.at = "due" /\ next.todo = ob.todo /\ next.seen = ob.seen /\ next.play = ob.play
        /\ next.row = ob.row /\ next.frame = ob.frame /\ next.quote = ob.quote
    BY <1>1, <2>1, AtWork, SetAt
  <2>3. observer' = [observer EXCEPT ![o] = next]
    BY <1>4
  <2>4. /\ HandOK(p, ob.row, evidence', shared)
        /\ ob.frame.last # "whole" => feed.forming /\ ob.frame.bars > 0
        /\ p \notin shared => ob.row = evidence'[p]
    BY <1>1, <2>1, AtWork
  <2> HIDE DEF next
  <2> QED
    BY <1>1, <1>2, <1>4, <2>1, <2>2, <2>3, <2>4, StaysOnward
<1>5. CASE /\ Decides(event) /\ Put(p, latched)
           /\ \/ Pending(latched) /\ observer' = [observer EXCEPT ![o] = [ob EXCEPT !.at = "due", !.row = latched]]
              \/ observer' = [observer EXCEPT ![o] = NextRow(ob)]
  <2>1. RowOK(p, latched, shared) /\ Known(latched) /\ Follows(evidence[p], latched)
    BY <1>1, <1>5, RowInHand, MinuteCounts, LatchOK, EvidenceAssumption DEF event, EvidenceInv
  <2>2. p \in Plays
    BY <1>1, RowInHand
  <2> HIDE DEF latched
  <2>3. Written(latched, p)
    BY <1>5, <2>1, <2>2, PutOK
  <2>4. CASE Pending(latched) /\ observer' = [observer EXCEPT ![o] = [ob EXCEPT !.at = "due", !.row = latched]]
    <3> DEFINE next == [ob EXCEPT !.at = "due", !.row = latched]
    <3>1. latched \in LedgerRow
      BY <2>1 DEF RowOK
    <3>2. /\ next \in Pass /\ next.at = "due" /\ next.todo = ob.todo /\ next.seen = ob.seen /\ next.play = ob.play
          /\ next.row = latched /\ next.frame = ob.frame /\ next.quote = ob.quote
      <4>1. ob \in Pass
        BY <1>1, RowInHand
      <4> HIDE DEF ob
      <4> QED
        BY <3>1, <4>1 DEF Pass
    <3>3. /\ HandOK(p, latched, evidence', shared) /\ evidence'[p] = latched
          /\ ob.frame.last # "whole" => feed.forming /\ ob.frame.bars > 0
      BY <1>1, <2>1, <2>3, AtWork, FollowsItself DEF HandOK
    <3> HIDE DEF next
    <3>4. observer' = [observer EXCEPT ![o] = next]
      BY <2>4 DEF next
    <3> QED
      BY <1>1, <1>2, <2>3, <2>4, <3>2, <3>3, <3>4, StaysOnward
  <2>5. CASE observer' = [observer EXCEPT ![o] = NextRow(ob)]
    <3>1. observer' = [observer EXCEPT ![o] = NextRow([ob EXCEPT !.frame = ob.frame, !.quote = ob.quote])]
      BY <1>1, <2>3, <2>5, AtWork, LeftOut
    <3> QED
      BY <1>1, <1>2, <2>3, <3>1, AtWork, GivenUpOnward
  <2> QED
    BY <1>5, <2>4, <2>5
<1>6. CASE rule[p] = "premium" /\ observer' = [observer EXCEPT ![o] = [ob EXCEPT !.at = "quote"]] /\ UNCHANGED evidence
  <2> DEFINE next == [ob EXCEPT !.at = "quote"]
  <2>1. Written(evidence[p], p)
    BY <1>6, NothingPut
  <2>2. /\ next \in Pass /\ next.at = "quote" /\ next.todo = ob.todo /\ next.seen = ob.seen /\ next.play = ob.play
        /\ next.row = ob.row /\ next.frame = ob.frame /\ next.quote = ob.quote
    BY <1>1, <2>1, AtWork, SetAt
  <2>3. observer' = [observer EXCEPT ![o] = next]
    BY <1>6
  <2>4. /\ HandOK(p, ob.row, evidence', shared)
        /\ ob.frame.last # "whole" => feed.forming /\ ob.frame.bars > 0
        /\ p \notin shared => ob.row = evidence'[p]
    BY <1>1, <2>1, AtWork
  <2> HIDE DEF next
  <2> QED
    <3>1. /\ next.at # "row" /\ next.at # "due" /\ ledger # "tests"
          /\ rule[observer[o].play] = "premium" /\ observer[o].at \in {"bars", "decide", "due", "quote"}
      BY <1>1, <1>6, <2>2
    <3> HIDE DEF ob
    <3> QED
      BY <1>1, <1>2, <1>6, <2>1, <2>2, <2>3, <2>4, <3>1, StaysOnward DEF ob
<1>7. CASE observer' = [observer EXCEPT ![o] = NextRow(ob)] /\ UNCHANGED evidence
  <2>1. Written(evidence[p], p)
    BY <1>7, NothingPut
  <2>2. observer' = [observer EXCEPT ![o] = NextRow([ob EXCEPT !.frame = ob.frame, !.quote = ob.quote])]
    BY <1>1, <1>7, <2>1, AtWork, LeftOut
  <2> QED
    BY <1>1, <1>2, <2>1, <2>2, AtWork, GivenUpOnward
<1> QED
  BY <1>3, <1>4, <1>5, <1>6, <1>7

\* The row of a pass is done with, whatever was written.
LEMMA DoneOnward ==
  ASSUME EvidenceInv, NEW o \in Observers, observer[o].at \in {"bars", "decide", "due", "quote"},
         NEW row, Written(row, observer[o].play),
         observer' = [observer EXCEPT ![o] = NextRow(observer[o])],
         UNCHANGED <<market, minute, shared, silence, faults>>
  PROVE  Onward
<1> DEFINE ob == observer[o]
<1>1. /\ faults' \in 0..Faults /\ silence' \in [Plays -> Nat] /\ \A q \in Plays : silence'[q] <= MaxGap
  BY Unhurried DEF EvidenceInv, Setting
<1>2. observer' = [observer EXCEPT ![o] = NextRow([ob EXCEPT !.frame = ob.frame, !.quote = ob.quote])]
  BY AtWork, LeftOut
<1> QED
  BY <1>1, <1>2, AtWork, GivenUpOnward

\* ... or after an answer.
LEMMA AnsweredOnward ==
  ASSUME EvidenceInv, NEW o \in Observers, observer[o].at = "quote", NEW quote \in Answers(o),
         NEW row, Written(row, observer[o].play),
         observer' = [observer EXCEPT ![o] = NextRow([observer[o] EXCEPT !.quote = quote])],
         UNCHANGED <<market, minute, shared, faults>>,
         silence' \in [Plays -> Nat], \A q \in Plays : silence'[q] <= MaxGap
  PROVE  Onward
<1> DEFINE ob == observer[o]
<1>1. faults' \in 0..Faults
  BY DEF EvidenceInv, Setting
<1>2. ob # Idle /\ quote \in Quote /\ (quote.asked => quote.received > 0)
  BY AtWork, AnswersOK
<1>3. observer' = [observer EXCEPT ![o] = NextRow([ob EXCEPT !.frame = ob.frame, !.quote = quote])]
  BY <1>2, AtWork, LeftOut
<1> QED
  BY <1>1, <1>2, <1>3, AtWork, GivenUpOnward

LEMMA CheckDeadlineOnward ==
  ASSUME EvidenceInv, NEW o \in Observers, CheckDeadline(o)
  PROVE  Onward
<1> DEFINE ob == observer[o]
           p == ob.play
           row == IF Pending(evidence[p]) THEN [evidence[p] EXCEPT !.exit.status = "missing_quote"]
                  ELSE evidence[p]
           next == [ob EXCEPT !.at = "quote"]
<1>1. ob.at = "due" /\ UNCHANGED <<market, minute, shared, silence, faults>>
  BY DEF CheckDeadline
<1>2. \/ Put(p, row) /\ observer' = [observer EXCEPT ![o] = NextRow(ob)]
      \/ observer' = [observer EXCEPT ![o] = next] /\ UNCHANGED evidence
  BY DEF CheckDeadline
<1>3. p \in Plays /\ RowOK(p, evidence[p], shared) /\ Known(evidence[p])
  BY <1>1, RowInHand
<1>4. CASE Put(p, row) /\ observer' = [observer EXCEPT ![o] = NextRow(ob)]
  <2>1. RowOK(p, row, shared) /\ Follows(evidence[p], row)
    BY <1>3, DeadlineOK, FollowsItself
  <2> HIDE DEF row
  <2>2. Written(row, p)
    BY <1>3, <1>4, <2>1, PutOK
  <2> QED
    BY <1>1, <1>4, <2>2, DoneOnward
<1>5. CASE observer' = [observer EXCEPT ![o] = next] /\ UNCHANGED evidence
  <2>1. Written(evidence[p], p)
    BY <1>5, NothingPut
  <2>2. /\ next \in Pass /\ next.at = "quote" /\ next.todo = ob.todo /\ next.seen = ob.seen /\ next.play = ob.play
        /\ next.row = ob.row /\ next.frame = ob.frame /\ next.quote = ob.quote
    BY <1>1, RowInHand, SetAt
  <2>3. /\ HandOK(p, ob.row, evidence', shared)
        /\ ob.frame.last # "whole" => feed.forming /\ ob.frame.bars > 0
        /\ ledger = "authored" /\ p \notin shared => ob.row = evidence'[p]
    BY <1>1, <2>1, AtWork
  <2>4. Pending(ob.row) /\ ledger = "authored"
    BY <1>1, AtWork, <2>1 DEF EvidenceInv, PassOK
  <2>5. /\ faults' \in 0..Faults /\ silence' \in [Plays -> Nat] /\ \A q \in Plays : silence'[q] <= MaxGap
    BY <1>1, Unhurried DEF EvidenceInv, Setting
  <2> HIDE DEF next
  <2> QED
    BY <1>1, <1>5, <2>1, <2>2, <2>3, <2>4, <2>5, StaysOnward
<1> QED
  BY <1>2, <1>4, <1>5

LEMMA PriceAuthoredOnward ==
  ASSUME EvidenceInv, NEW o \in Observers, PriceAuthored(o)
  PROVE  Onward
<1> DEFINE ob == observer[o]
           p == ob.play
           Priced(quote, target) == IF rule[p] = "bars" THEN PricedBars(p, ob.row, quote)
                                  ELSE PricedPremium(p, ob.row, quote, target)
<1>1. ledger = "authored" /\ ob.at = "quote" /\ UNCHANGED <<market, minute, shared, silence, faults>>
  BY DEF PriceAuthored
<1>2. PICK quote \in Answers(o), target \in BOOLEAN :
        /\ Put(p, Priced(quote, target))
        /\ observer' = [observer EXCEPT ![o] = NextRow([ob EXCEPT !.quote = quote])]
  BY DEF PriceAuthored
<1>3. /\ ob \in Pass /\ p \in Plays /\ RowOK(p, evidence[p], shared) /\ Known(evidence[p])
      /\ RowOK(p, ob.row, shared) /\ Known(ob.row) /\ Follows(ob.row, evidence[p])
      /\ p \notin shared => ob.row = evidence[p]
  BY <1>1, RowInHand
<1>4. quote \in Quote /\ Idle.at = "idle"
  BY <1>1, AnswersOK DEF Idle
<1>5. Pending(ob.row) \/ rule[p] = "premium"
  BY <1>1, <1>4 DEF EvidenceInv, PassOK
<1>6. rule[p] \in {"bars", "premium"}
  BY <1>1, <1>3 DEF RowOK, RulesOf
<1> DEFINE row == Priced(quote, target)
<1>7. RowOK(p, row, shared) /\ Follows(evidence[p], row)
  <2>1. CASE rule[p] = "bars"
    BY <1>1, <1>3, <1>4, <1>5, <2>1, PricedBarsOK, EvidenceAssumption
  <2>2. CASE rule[p] = "premium"
    BY <1>1, <1>3, <1>4, <2>2, PricedPremiumOK, EvidenceAssumption
  <2> QED
    BY <1>6, <2>1, <2>2
<1>8. Put(p, row)
  BY <1>2
<1> HIDE DEF row
<1>9. Written(row, p)
  BY <1>3, <1>7, <1>8, PutOK
<1>10. silence' \in [Plays -> Nat] /\ \A q \in Plays : silence'[q] <= MaxGap
  BY <1>1, Unhurried
<1> QED
  BY <1>1, <1>2, <1>9, <1>10, AnsweredOnward

LEMMA SwappedOK ==
  ASSUME EvidenceInv, NEW p \in Plays, NEW before, NEW after,
         RowOK(p, after, shared), Follows(before, after)
  PROVE  RowOK(p, Swapped(p, before, after), shared) /\ Follows(evidence[p], Swapped(p, before, after))
BY FollowsItself DEF Swapped, EvidenceInv

LEMMA AdvanceStudyOnward ==
  ASSUME EvidenceInv, NEW o \in Observers, AdvanceStudy(o)
  PROVE  Onward
<1> DEFINE ob == observer[o]
           p == ob.play
           new == Advanced(p, ob.row, ob.frame, minute)
           row == Swapped(p, ob.row, new)
<1>1. ledger = "study" /\ ob.at = "decide" /\ UNCHANGED <<market, minute, shared, silence, faults>>
  BY DEF AdvanceStudy
<1>2. /\ Put(p, row)
      /\ \/ /\ new = ob.row \/ evidence[p] = ob.row
            /\ observer' = [observer EXCEPT ![o] = [ob EXCEPT !.at = "quote", !.row = new]]
         \/ observer' = [observer EXCEPT ![o] = NextRow(ob)]
  BY DEF AdvanceStudy
<1>3. /\ ob \in Pass /\ p \in Plays /\ RowOK(p, ob.row, shared) /\ Known(ob.row) /\ Follows(ob.row, evidence[p])
      /\ ob.frame \in Frame /\ (ob.frame.last # "whole" => feed.forming /\ ob.frame.bars > 0)
  BY <1>1, RowInHand
<1>4. RowOK(p, new, shared) /\ Known(new) /\ Follows(ob.row, new)
  BY <1>3, MinuteCounts, AdvancedOK, EvidenceAssumption DEF EvidenceInv
<1> HIDE DEF new
<1>5. RowOK(p, row, shared) /\ Follows(evidence[p], row)
  BY <1>3, <1>4, SwappedOK
<1>6. new = ob.row \/ evidence[p] = ob.row => Follows(new, row)
  BY <1>3, FollowsItself DEF Swapped
<1> HIDE DEF row
<1>7. Written(row, p)
  BY <1>2, <1>3, <1>5, PutOK
<1>8. CASE /\ new = ob.row \/ evidence[p] = ob.row
           /\ observer' = [observer EXCEPT ![o] = [ob EXCEPT !.at = "quote", !.row = new]]
  <2> DEFINE next == [ob EXCEPT !.at = "quote", !.row = new]
  <2>1. new \in LedgerRow
    BY <1>4 DEF RowOK
  <2>2. /\ next \in Pass /\ next.at = "quote" /\ next.todo = ob.todo /\ next.seen = ob.seen /\ next.play = ob.play
        /\ next.row = new /\ next.frame = ob.frame /\ next.quote = ob.quote
    <3> HIDE DEF ob
    <3> QED
      BY <1>3, <2>1 DEF Pass
  <2>3. evidence'[p] = row
    BY <1>1, <1>7, AtWork
  <2>4. HandOK(p, new, evidence', shared)
    BY <1>4, <1>6, <1>8, <2>3 DEF HandOK
  <2>5. /\ faults' \in 0..Faults /\ silence' \in [Plays -> Nat] /\ \A q \in Plays : silence'[q] <= MaxGap
    BY <1>1, Unhurried DEF EvidenceInv, Setting
  <2>6. observer' = [observer EXCEPT ![o] = next]
    BY <1>8
  <2>7. next.at # "row" /\ next.at # "due" /\ ledger # "tests" /\ ledger # "authored"
    BY <1>1, <2>2
  <2> HIDE DEF next
  <2> QED
    BY <1>1, <1>3, <1>7, <2>2, <2>4, <2>5, <2>6, <2>7, StaysOnward
<1>9. CASE observer' = [observer EXCEPT ![o] = NextRow(ob)]
  BY <1>1, <1>7, <1>9, DoneOnward
<1> QED
  BY <1>2, <1>8, <1>9

LEMMA PriceStudyOnward ==
  ASSUME EvidenceInv, NEW o \in Observers, PriceStudy(o)
  PROVE  Onward
<1> DEFINE ob == observer[o]
           p == ob.play
           Priced(quote, target) == PricedStudy(p, ob.row, ob.frame, quote, target)
<1>1. ledger = "study" /\ ob.at = "quote" /\ UNCHANGED <<market, minute, shared, silence, faults>>
  BY DEF PriceStudy
<1>2. PICK quote \in Answers(o), target \in BOOLEAN :
        /\ Put(p, Swapped(p, ob.row, Priced(quote, target)))
        /\ observer' = [observer EXCEPT ![o] = NextRow([ob EXCEPT !.quote = quote])]
  BY DEF PriceStudy
<1>3. /\ p \in Plays /\ RowOK(p, ob.row, shared) /\ Known(ob.row)
      /\ ob.frame \in Frame /\ (ob.frame.last # "whole" => feed.forming /\ ob.frame.bars > 0)
  BY <1>1, RowInHand
<1>4. quote \in Quote /\ Idle.at = "idle"
  BY <1>1, AnswersOK DEF Idle
<1> DEFINE new == Priced(quote, target)
           row == Swapped(p, ob.row, new)
<1>5. RowOK(p, new, shared) /\ Follows(ob.row, new)
  BY <1>1, <1>3, <1>4, PricedStudyOK, EvidenceAssumption DEF EvidenceInv
<1> HIDE DEF new
<1>6. RowOK(p, row, shared) /\ Follows(evidence[p], row)
  BY <1>3, <1>5, SwappedOK
<1>7. Put(p, row)
  BY <1>2 DEF new
<1> HIDE DEF row
<1>8. Written(row, p)
  BY <1>3, <1>6, <1>7, PutOK
<1>9. silence' \in [Plays -> Nat] /\ \A q \in Plays : silence'[q] <= MaxGap
  BY <1>1, Unhurried
<1> QED
  BY <1>1, <1>2, <1>8, <1>9, AnsweredOnward

LEMMA PathTestsOnward ==
  ASSUME EvidenceInv, NEW o \in Observers, PathTests(o)
  PROVE  Onward
<1> DEFINE ob == observer[o]
           p == ob.play
           seen == Objective(p, ob.row, ob.frame, minute)
           new == DueLegs(seen, minute)
           row == Swapped(p, ob.row, new)
           next == [ob EXCEPT !.at = "quote", !.state = new]
<1>1. ledger = "tests" /\ ob.at = "decide" /\ UNCHANGED <<market, minute, shared, silence, faults>>
  BY DEF PathTests
<1>2. \/ observer' = [observer EXCEPT ![o] = next] /\ UNCHANGED evidence
      \/ Put(p, row) /\ observer' = [observer EXCEPT ![o] = NextRow(ob)]
  BY DEF PathTests
<1>3. /\ ob \in Pass /\ p \in Plays /\ RowOK(p, ob.row, shared) /\ Known(ob.row) /\ Follows(ob.row, evidence[p])
      /\ ob.frame \in Frame /\ (ob.frame.last # "whole" => feed.forming /\ ob.frame.bars > 0)
  BY <1>1, RowInHand
<1>4. RowOK(p, seen, shared) /\ Known(seen) /\ Follows(ob.row, seen) /\ seen.heard = ob.row.heard
  BY <1>3, MinuteCounts, ObjectiveOK
<1> HIDE DEF seen
<1>5. RowOK(p, new, shared) /\ Known(new) /\ Follows(seen, new) /\ new.heard = seen.heard
  <2>1. minute \in Nat
    BY MinuteCounts
  <2> HIDE DEF ob
  <2>2. RowOK(p, new, shared) /\ Follows(seen, new)
    BY <1>1, <1>4, <2>1, DueLegsOK, EvidenceAssumption
  <2>3. Known(new)
    BY <1>1, <1>4, <2>1, DueLegsOK, EvidenceAssumption
  <2>4. new.heard = seen.heard
    BY <1>1, <1>4, <2>1, DueLegsOK, EvidenceAssumption
  <2> QED
    BY <2>2, <2>3, <2>4
<1> HIDE DEF new
<1>6. Follows(ob.row, new) /\ new.heard = ob.row.heard /\ new \in LedgerRow
  BY <1>4, <1>5, FollowsTransitive DEF RowOK
<1>7. RowOK(p, row, shared) /\ Follows(evidence[p], row)
  BY <1>3, <1>5, <1>6, SwappedOK
<1> HIDE DEF row
<1>8. CASE observer' = [observer EXCEPT ![o] = next] /\ UNCHANGED evidence
  <2>1. Written(evidence[p], p)
    BY <1>8, NothingPut
  <2>2. /\ next \in Pass /\ next.at = "quote" /\ next.todo = ob.todo /\ next.seen = ob.seen /\ next.play = ob.play
        /\ next.row = ob.row /\ next.frame = ob.frame /\ next.quote = ob.quote /\ next.state = new
    <3> HIDE DEF ob
    <3> QED
      BY <1>3, <1>6 DEF Pass
  <2>3. HandOK(p, ob.row, evidence', shared)
    BY <1>1, <2>1, AtWork
  <2>4. /\ faults' \in 0..Faults /\ silence' \in [Plays -> Nat] /\ \A q \in Plays : silence'[q] <= MaxGap
    BY <1>1, Unhurried DEF EvidenceInv, Setting
  <2>5. next.at # "row" /\ next.at # "due" /\ ledger # "authored"
    BY <1>1, <2>2
  <2> HIDE DEF next
  <2> QED
    BY <1>1, <1>3, <1>5, <1>6, <1>8, <2>1, <2>2, <2>3, <2>4, <2>5, StaysOnward
<1>9. CASE Put(p, row) /\ observer' = [observer EXCEPT ![o] = NextRow(ob)]
  <2>1. Written(row, p)
    BY <1>3, <1>7, <1>9, PutOK
  <2> QED
    BY <1>1, <1>9, <2>1, DoneOnward
<1> QED
  BY <1>2, <1>8, <1>9

LEMMA PriceTestsOnward ==
  ASSUME EvidenceInv, NEW o \in Observers, PriceTests(o)
  PROVE  Onward
<1> DEFINE ob == observer[o]
           p == ob.play
<1>1. ledger = "tests" /\ ob.at = "quote" /\ UNCHANGED <<market, minute, shared, faults>>
  BY DEF PriceTests
<1>2. PICK quote \in Answers(o), bid \in Bids :
        LET new == Swapped(p, ob.row, HeardBid(p, DueLegs(ob.state, quote.received), quote, bid)) IN
        /\ Put(p, new)
        /\ silence' = [silence EXCEPT ![p] = Latest({@, new.heard - evidence[p].heard})]
        /\ observer' = [observer EXCEPT ![o] = NextRow([ob EXCEPT !.quote = quote])]
  BY DEF PriceTests
<1> DEFINE due2 == DueLegs(ob.state, quote.received)
           told == HeardBid(p, due2, quote, bid)
           row == Swapped(p, ob.row, told)
<1>3. /\ p \in Plays /\ RowOK(p, ob.row, shared) /\ Known(ob.row) /\ ob.row \in LedgerRow
      /\ RowOK(p, evidence[p], shared)
  BY <1>1, RowInHand
<1>4. quote \in Quote /\ quote.received \in Nat /\ Idle.at = "idle"
  <2>1. quote \in Quote /\ Idle.at = "idle"
    BY <1>1, AnswersOK DEF Idle
  <2> QED
    BY <2>1 DEF Quote
<1>5. RowOK(p, ob.state, shared) /\ Follows(ob.row, ob.state) /\ ob.state.heard = ob.row.heard
  BY <1>1, <1>4 DEF EvidenceInv, PassOK
<1>6. Known(ob.state)
  BY <1>3, <1>5 DEF Follows
<1>7. /\ RowOK(p, due2, shared) /\ Follows(ob.state, due2)
      /\ Known(due2) /\ due2.heard = ob.state.heard
      /\ due2.trail.status = "collecting" => quote.received <= due2.heard + MaxGap
  <2> DEFINE state == ob.state
             now == quote.received
  <2>1. RowOK(p, state, shared) /\ Known(state) /\ now \in Nat
    BY <1>4, <1>5, <1>6
  <2> HIDE DEF ob, state, now
  <2>2. RowOK(p, DueLegs(state, now), shared) /\ Follows(state, DueLegs(state, now))
    BY <1>1, <2>1, DueLegsOK, EvidenceAssumption
  <2>3. Known(DueLegs(state, now))
    BY <1>1, <2>1, DueLegsOK, EvidenceAssumption
  <2>4. DueLegs(state, now).heard = state.heard
    BY <1>1, <2>1, DueLegsOK, EvidenceAssumption
  <2>5. DueLegs(state, now).trail.status = "collecting" => now <= state.heard + MaxGap
    BY <1>1, <2>1, DueLegsOK, EvidenceAssumption
  <2> QED
    BY <2>2, <2>3, <2>4, <2>5 DEF state, now
<1> HIDE DEF due2
<1>8. /\ RowOK(p, told, shared) /\ Known(told) /\ Follows(due2, told)
      /\ told.heard <= due2.heard + MaxGap
  BY <1>1, <1>4, <1>7, HeardBidOK, EvidenceAssumption
<1> HIDE DEF told
<1>9. Follows(ob.row, told) /\ told.heard <= ob.row.heard + MaxGap
  BY <1>5, <1>7, <1>8, FollowsTransitive
<1>10. RowOK(p, row, shared) /\ Follows(evidence[p], row)
  BY <1>3, <1>8, <1>9, SwappedOK
<1> DEFINE quiet == row.heard - evidence[p].heard
<1>11. quiet \in Int /\ quiet <= MaxGap /\ MaxGap \in Nat
  <2>1. /\ row.heard \in Nat /\ evidence[p].heard \in Nat /\ MaxGap \in Nat
    BY <1>3, <1>10, Constants, EvidenceAssumption DEF RowOK, LedgerRow
  <2>2. row = IF evidence[p] = ob.row THEN told ELSE evidence[p]
    BY DEF Swapped
  <2> HIDE DEF row
  <2> QED
    BY <1>9, <2>1, <2>2
<1>12. /\ Put(p, row) /\ silence' = [silence EXCEPT ![p] = Latest({@, quiet})]
       /\ observer' = [observer EXCEPT ![o] = NextRow([ob EXCEPT !.quote = quote])]
  BY <1>2 DEF told, due2
<1> HIDE DEF row, quiet
<1>13. silence' \in [Plays -> Nat] /\ \A q \in Plays : silence'[q] <= MaxGap
  <2> DEFINE old == silence[p]
  <2>1. silence \in [Plays -> Nat] /\ \A q \in Plays : silence[q] <= MaxGap
    BY DEF EvidenceInv
  <2>2. old \in Int /\ old \in Nat /\ old <= MaxGap
    BY <1>3, <2>1
  <2> HIDE DEF old
  <2>3. Latest({old, quiet}) = IF old <= quiet THEN quiet ELSE old
    BY <1>11, <2>2, TwoTimes
  <2>4. Latest({old, quiet}) \in Nat /\ Latest({old, quiet}) <= MaxGap
    BY <1>11, <2>2, <2>3
  <2> QED
    BY <1>3, <1>12, <2>1, <2>4 DEF old
<1>14. Written(row, p)
  BY <1>3, <1>10, <1>12, PutOK
<1> QED
  BY <1>1, <1>12, <1>13, <1>14, AnsweredOnward

\* What an enrolment leaves.
LEMMA RowsMove ==
  ASSUME EvidenceInv,
         evidence' \in [Plays -> LedgerRow],
         \A p \in Plays : /\ RowOK(p, evidence'[p], shared')
                          /\ evidence'[p] # evidence[p] => evidence[p] = NotEnrolled,
         shared \subseteq shared', shared' \subseteq Plays
  PROVE  /\ \A p \in Plays : Follows(evidence[p], evidence'[p])
         /\ \A o \in Observers : PassOK(observer[o], evidence', shared')
         /\ \A o \in Observers, p \in Plays : p \in InHand(o) => evidence'[p] = evidence[p]
<1>1. \A p \in Plays : Follows(evidence[p], evidence'[p])
  BY FreshRows, FollowsItself DEF Follows
<1>2. \A o \in Observers : PassOK(observer[o], evidence', shared')
  BY <1>1, LedgerGoesOn DEF EvidenceInv
<1>3. ASSUME NEW o \in Observers, NEW p \in Plays, p \in InHand(o)
      PROVE  evidence'[p] = evidence[p]
  <2>1. observer[o] # Idle /\ PassOK(observer[o], evidence, shared)
    BY <1>3 DEF InHand, Idle, EvidenceInv
  <2>2. p \in observer[o].todo \/ (p = observer[o].play /\ p # NoPlay)
    BY <1>3, EvidenceAssumption DEF InHand, EvidenceAssumption
  <2>3. Known(evidence[p])
    BY <2>1, <2>2 DEF PassOK, HandOK, Follows
  <2> QED
    BY <2>3, FreshRows
<1> QED
  BY <1>1, <1>2, <1>3

LEMMA RecordStudyOnward ==
  ASSUME EvidenceInv, NEW p \in Plays, RecordStudy(p)
  PROVE  Onward
<1>1. /\ ledger = "study" /\ rule[p] # "none" /\ evidence[p] = NotEnrolled
      /\ evidence' = [evidence EXCEPT ![p] = Enrolled(p)]
      /\ UNCHANGED <<market, minute, observer, shared, silence, faults>>
  BY DEF RecordStudy
<1>2. /\ evidence \in [Plays -> LedgerRow] /\ \A q \in Plays : RowOK(q, evidence[q], shared)
      /\ rule[p] \in RulesOf(ledger) /\ shared \subseteq Plays
  BY <1>1 DEF EvidenceInv, Setting
<1>3. RowOK(p, Enrolled(p), shared)
  BY <1>2, FreshRows
<1>4. /\ evidence' \in [Plays -> LedgerRow]
      /\ \A q \in Plays : /\ RowOK(q, evidence'[q], shared)
                          /\ evidence'[q] # evidence[q] => evidence[q] = NotEnrolled
  BY <1>1, <1>2, <1>3 DEF RowOK
<1>5. /\ \A q \in Plays : Follows(evidence[q], evidence'[q])
      /\ \A o \in Observers : PassOK(observer[o], evidence', shared)
  BY <1>1, <1>2, <1>4, RowsMove
<1>6. /\ \A q \in Plays : RowOK(q, evidence[q], shared)'
      /\ \A o \in Observers : PassOK(observer[o], evidence, shared)'
  BY <1>1, <1>4, <1>5, SameMarket
<1>7. Setting' /\ Exclusive'
  BY <1>1 DEF EvidenceInv, Setting, market, RulesOf, Exclusive
<1>8. EvidenceInv'
  BY <1>1, <1>4, <1>6, <1>7 DEF EvidenceInv
<1> QED
  BY <1>5, <1>8 DEF Onward

LEMMA TimeGoesOnOnward ==
  ASSUME EvidenceInv, TimeGoesOn
  PROVE  Onward
<1>1. UNCHANGED <<market, evidence, observer, shared, silence, faults>>
  BY DEF TimeGoesOn
<1>2. minute' \in Minutes \ {0}
  <2>1. minute \in Minutes /\ minute \in Nat \ {0} /\ LastMinute \in Nat /\ NextDay \in Nat \ {0}
    BY MinuteCounts, Constants, EvidenceAssumption DEF EvidenceInv, Setting
  <2>2. minute' = IF minute < LastMinute THEN minute + 1 ELSE NextDay
    BY DEF TimeGoesOn
  <2> QED
    BY <2>1, <2>2 DEF Minutes
<1>3. Setting'
  BY <1>1, <1>2 DEF EvidenceInv, Setting, market, RulesOf
<1>4. /\ \A q \in Plays : RowOK(q, evidence[q], shared)'
      /\ \A o \in Observers : PassOK(observer[o], evidence, shared)'
  BY <1>1, SameMarket DEF EvidenceInv
<1>5. Exclusive'
  BY <1>1 DEF EvidenceInv, Exclusive, InHand, market
<1>6. EvidenceInv'
  BY <1>1, <1>3, <1>4, <1>5 DEF EvidenceInv
<1> QED
  BY <1>1, <1>6, FollowsItself DEF Onward

LEMMA BeginPassOnward ==
  ASSUME EvidenceInv, NEW o \in Observers, BeginPass(o)
  PROVE  Onward
<1> DEFINE rows == [p \in Plays |->
                      IF rule[p] = "none" \/ ledger = "study" THEN evidence[p] ELSE EnrolledOnce(p)]
           open == {p \in Plays : Active(rows[p])}
           others == UNION {InHand(v) : v \in Observers \ {o}}
           next == [at |-> "row", todo |-> open,
                    seen |-> [p \in Plays |-> IF p \in open THEN rows[p] ELSE NotEnrolled],
                    play |-> NoPlay, row |-> NotEnrolled, state |-> NotEnrolled,
                    frame |-> NotRead, quote |-> NotAsked]
<1>1. /\ observer[o].at = "idle" /\ evidence' = rows /\ observer' = [observer EXCEPT ![o] = next]
      /\ shared' = shared \cup (open \cap others)
      /\ UNCHANGED <<market, minute, silence, faults>>
  BY DEF BeginPass
<1>2. /\ evidence \in [Plays -> LedgerRow] /\ \A q \in Plays : RowOK(q, evidence[q], shared)
      /\ rule \in [Plays -> RulesOf(ledger) \cup {"none"}] /\ shared \subseteq Plays
      /\ NoPlay \notin Plays
  BY EvidenceAssumption DEF EvidenceInv, Setting, EvidenceAssumption
<1>3. shared \subseteq shared' /\ shared' \subseteq Plays /\ \A p \in open \ shared' : p \notin others
  BY <1>1, <1>2
<1>4. ASSUME NEW p \in Plays
      PROVE  RowOK(p, rows[p], shared) /\ (rows[p] # evidence[p] => evidence[p] = NotEnrolled)
  <2>1. CASE rows[p] = evidence[p]
    BY <1>2, <2>1
  <2>2. CASE rows[p] # evidence[p]
    <3>1. evidence[p] = NotEnrolled /\ rows[p] = Enrolled(p) /\ rule[p] # "none"
      BY <2>2 DEF EnrolledOnce
    <3>2. rule[p] \in RulesOf(ledger)
      BY <1>2, <3>1
    <3> QED
      BY <3>1, <3>2, FreshRows
  <2> QED
    BY <2>1, <2>2
<1> HIDE DEF others
<1>5. /\ evidence' \in [Plays -> LedgerRow]
      /\ \A p \in Plays : /\ RowOK(p, evidence'[p], shared')
                          /\ evidence'[p] # evidence[p] => evidence[p] = NotEnrolled
  <2> HIDE DEF rows
  <2>1. \A p \in Plays : rows[p] \in LedgerRow /\ RowOK(p, rows[p], shared')
    BY <1>3, <1>4, SharedGrows DEF RowOK
  <2>2. rows \in [Plays -> LedgerRow]
    BY <2>1 DEF rows
  <2> QED
    BY <1>1, <1>4, <2>1, <2>2
<1> HIDE DEF rows
<1>6. /\ \A p \in Plays : Follows(evidence[p], evidence'[p])
      /\ \A v \in Observers : PassOK(observer[v], evidence', shared')
      /\ \A v \in Observers, p \in Plays : p \in InHand(v) => evidence'[p] = evidence[p]
  BY <1>3, <1>5, RowsMove
<1>7. \A p \in open : HandOK(p, evidence'[p], evidence', shared')
  <2>1. \A p \in open : Known(evidence'[p])
    BY <1>1, <1>5 DEF Active, RowOK
  <2> QED
    BY <1>5, <2>1, FollowsItself DEF HandOK
<1>8. PassOK(next, evidence', shared')
  <2>1. NotEnrolled \in LedgerRow
    BY FreshRows DEF RowOK
  <2>2. next.seen \in [Plays -> LedgerRow]
    BY <1>1, <1>5, <2>1
  <2>3. NotRead \in Frame /\ NotRead.last = "whole" /\ NotAsked \in Quote /\ ~NotAsked.asked
    BY DEF NotRead, NotAsked, Frame, Quote
  <2>4. next \in Pass
    BY <2>1, <2>2, <2>3 DEF Pass
  <2>5. \A p \in open : next.seen[p] = evidence'[p] /\ p # NoPlay
    BY <1>1, <1>2
  <2>6. /\ next.at = "row" /\ next.play = NoPlay /\ next.todo = open /\ next.frame = NotRead /\ next.quote = NotAsked
    OBVIOUS
  <2> HIDE DEF next, open
  <2> QED
    BY <1>7, <2>3, <2>4, <2>5, <2>6 DEF PassOK
<1>9. \A p \in open : next.seen[p] = evidence'[p]
  BY <1>1
<1>10. next.at = "row" /\ next.todo = open /\ next.play = NoPlay
  OBVIOUS
<1> HIDE DEF next, open
<1>11. /\ DOMAIN observer' = Observers /\ observer' = [v \in Observers |-> observer'[v]]
       /\ observer'[o] = next /\ \A v \in Observers \ {o} : observer'[v] = observer[v]
  BY <1>1 DEF EvidenceInv
<1>12. Exclusive'
  <2>1. InHand(o)' = open \cup {NoPlay}
    BY <1>10, <1>11 DEF InHand
  <2>2. \A v \in Observers \ {o} : InHand(v)' = InHand(v)
    BY <1>11 DEF InHand
  <2> SUFFICES ASSUME ledger = "authored", NEW p \in Plays, p \notin shared',
                      NEW v \in Observers, p \in InHand(v)'
               PROVE  /\ \A w \in Observers : p \in InHand(w)' => w = v
                      /\ p \in observer'[v].todo => observer'[v].seen[p] = evidence'[p]
                      /\ p = observer'[v].play => observer'[v].row = evidence'[p]
    BY <1>1 DEF Exclusive, market
  <2>3. CASE p \in open
    <3>1. \A w \in Observers \ {o} : p \notin InHand(w)
      BY <1>3, <2>3 DEF others
    <3>2. v = o
      BY <2>2, <3>1
    <3> QED
      BY <1>2, <1>9, <1>10, <1>11, <2>2, <3>1, <3>2
  <2>4. CASE p \notin open
    <3>1. v # o /\ p \in InHand(v)
      BY <1>2, <2>1, <2>2, <2>4
    <3>2. p \notin InHand(o)'
      BY <1>2, <2>1, <2>4
    <3>3. /\ \A w \in Observers : p \in InHand(w) => w = v
          /\ p \in observer[v].todo => observer[v].seen[p] = evidence[p]
          /\ p = observer[v].play => observer[v].row = evidence[p]
      BY <1>3, <3>1 DEF EvidenceInv, Exclusive
    <3> QED
      BY <1>6, <1>11, <2>2, <3>1, <3>2, <3>3
  <2> QED
    BY <2>3, <2>4
<1>13. /\ \A q \in Plays : RowOK(q, evidence[q], shared)'
       /\ \A v \in Observers : PassOK(observer[v], evidence, shared)'
  BY <1>1, <1>5, <1>6, <1>8, <1>11, SameMarket
<1>14. Setting'
  BY <1>1, <1>3 DEF EvidenceInv, Setting, market, RulesOf
<1>15. EvidenceInv'
  BY <1>1, <1>5, <1>11, <1>12, <1>13, <1>14 DEF EvidenceInv
<1> QED
  BY <1>6, <1>15 DEF Onward

-----------------------------------------------------------------------------
LEMMA EvidenceBegins ==
  ASSUME EvidenceInit
  PROVE  EvidenceInv
<1>1. Setting
  <2>1. 1 \in Minutes \ {0} /\ 0 \in 0..Faults
    BY Constants, EvidenceAssumption DEF Minutes
  <2> QED
    BY <2>1 DEF EvidenceInit, Setting
<1>2. evidence \in [Plays -> LedgerRow] /\ \A p \in Plays : RowOK(p, evidence[p], shared)
  BY FreshRows DEF EvidenceInit, RowOK
<1>3. /\ DOMAIN observer = Observers /\ observer = [o \in Observers |-> observer[o]]
      /\ \A o \in Observers : observer[o] = Idle /\ observer[o].at = "idle"
  BY DEF EvidenceInit, Idle
<1>4. (\A o \in Observers : PassOK(observer[o], evidence, shared)) /\ Exclusive
  BY <1>3 DEF PassOK, Exclusive, InHand
<1>5. silence \in [Plays -> Nat] /\ \A p \in Plays : silence[p] <= MaxGap
  BY Constants, EvidenceAssumption DEF EvidenceInit
<1> QED
  BY <1>1, <1>2, <1>3, <1>4, <1>5 DEF EvidenceInv

LEMMA EvidenceStep ==
  ASSUME EvidenceInv, [EvidenceNext]_evidenceVars
  PROVE  Onward
<1>1. CASE TimeGoesOn
  BY <1>1, TimeGoesOnOnward
<1>2. CASE \E p \in Plays : RecordStudy(p)
  BY <1>2, RecordStudyOnward
<1>3. ASSUME NEW o \in Observers, BeginPass(o) \/ ReadBars(o) \/ ReadFails(o) \/ BreakOff(o)
      PROVE  Onward
  BY <1>3, BeginPassOnward, ReadBarsOnward, ReadFailsOnward, StopsOnward
<1>4. ASSUME NEW o \in Observers, Decide(o)
      PROVE  Onward
  BY <1>4, DecideAuthoredOnward, AdvanceStudyOnward, PathTestsOnward DEF Decide
<1>5. ASSUME NEW o \in Observers, Price(o)
      PROVE  Onward
  BY <1>5, PriceAuthoredOnward, PriceStudyOnward, PriceTestsOnward DEF Price
<1>6. ASSUME NEW o \in Observers, PassStep(o)
      PROVE  Onward
  BY <1>4, <1>5, <1>6, TakeRowOnward, StopsOnward, CheckDeadlineOnward, QuoteFailsOnward DEF PassStep
<1>7. CASE UNCHANGED evidenceVars
  <2>1. UNCHANGED market /\ UNCHANGED evidence /\ UNCHANGED observer /\ UNCHANGED shared
        /\ UNCHANGED silence /\ UNCHANGED minute /\ UNCHANGED faults
    BY <1>7 DEF evidenceVars, market
  <2>2. /\ \A q \in Plays : RowOK(q, evidence[q], shared)'
        /\ \A o \in Observers : PassOK(observer[o], evidence, shared)'
    BY <2>1, SameMarket DEF EvidenceInv
  <2>3. Setting' /\ Exclusive'
    BY <2>1 DEF EvidenceInv, Setting, Exclusive, InHand, market, RulesOf
  <2>4. EvidenceInv'
    BY <2>1, <2>2, <2>3 DEF EvidenceInv
  <2> QED
    BY <2>1, <2>4, FollowsItself DEF Onward
<1> QED
  BY <1>1, <1>2, <1>3, <1>6, <1>7 DEF EvidenceNext

\* EvidenceInv holds in every state: what passes have in hand and what the
\* ledger says agree, however the passes overlap.
THEOREM EvidenceInductive == EvidenceSpec => []EvidenceInv
<1>1. EvidenceInit => EvidenceInv
  BY EvidenceBegins
<1>2. EvidenceInv /\ [EvidenceNext]_evidenceVars => EvidenceInv'
  BY EvidenceStep DEF Onward
<1> QED
  BY <1>1, <1>2, PTL DEF EvidenceSpec

\* No price is older than the decision that it pays for, and none came too
\* late for it: capture_authored_exits, the study and the profit tests.
THEOREM NoHindsightHolds == EvidenceSpec => []NoHindsight
<1>1. EvidenceInv => NoHindsight
  BY DEF EvidenceInv, RowOK, LegOK, Timely, NoHindsight, Legs
<1> QED
  BY <1>1, EvidenceInductive, PTL

\* No exit is decided across a missing bar, and no trail across a silence.
THEOREM NoGapBeforeExitHolds == EvidenceSpec => []NoGapBeforeExit
<1>1. EvidenceInv => NoGapBeforeExit
  BY DEF EvidenceInv, RowOK, ByWholeBars, NoGapBeforeExit
<1> QED
  BY <1>1, EvidenceInductive, PTL

\* What decided an exit, and when, is never decided again, and a result is final.
THEOREM DecisionStaysHolds == EvidenceSpec => DecisionStays
<1>1. ASSUME EvidenceInv, [EvidenceNext]_evidenceVars, NEW p \in Plays, NEW leg \in {"exit", "trail"}
      PROVE  /\ evidence[p][leg].at # 0 =>
                  evidence'[p][leg].at = evidence[p][leg].at /\ evidence'[p][leg].reason = evidence[p][leg].reason
             /\ evidence[p] # NotEnrolled /\ ~Undone(evidence[p][leg]) => evidence'[p][leg] = evidence[p][leg]
  <2>1. Follows(evidence[p], evidence'[p]) /\ RowOK(p, evidence[p], shared)
    BY <1>1, EvidenceStep DEF Onward, EvidenceInv
  <2>2. CASE Known(evidence[p])
    <3>1. Later(evidence[p].exit, evidence'[p].exit) /\ Later(evidence[p].trail, evidence'[p].trail)
      BY <2>1, <2>2 DEF Follows
    <3>2. CASE leg = "exit"
      BY <3>1, <3>2 DEF Later
    <3>3. CASE leg = "trail"
      BY <3>1, <3>3 DEF Later
    <3> QED
      BY <3>2, <3>3
  <2>3. CASE ~Known(evidence[p])
    <3>1. evidence[p] = NotEnrolled
      BY <2>1, <2>3 DEF RowOK
    <3>2. NotEnrolled.exit.at = 0 /\ NotEnrolled.trail.at = 0
      BY DEF NotEnrolled, Row, Undecided
    <3> QED
      BY <3>1, <3>2
  <2> QED
    BY <2>2, <2>3
<1>2. EvidenceInv /\ [EvidenceNext]_evidenceVars =>
        \A p \in Plays : \A leg \in {"exit", "trail"} :
          /\ evidence[p][leg].at # 0 =>
               evidence'[p][leg].at = evidence[p][leg].at /\ evidence'[p][leg].reason = evidence[p][leg].reason
          /\ evidence[p] # NotEnrolled /\ ~Undone(evidence[p][leg]) => evidence'[p][leg] = evidence[p][leg]
  BY <1>1
<1> QED
  BY <1>2, EvidenceInductive, PTL DEF EvidenceSpec, DecisionStays

LEMMA EvidenceInvTypes == EvidenceInv => EvidenceTypeOK
<1> SUFFICES ASSUME EvidenceInv PROVE EvidenceTypeOK
  OBVIOUS
<1>1. silence \in [Plays -> 0..MaxGap]
  BY Constants, EvidenceAssumption DEF EvidenceInv
<1> QED
  BY <1>1 DEF EvidenceInv, Setting, EvidenceTypeOK

\* The types of the ledgers and of what is known about them.
THEOREM EvidenceTypeCorrect == EvidenceSpec => []EvidenceTypeOK
  BY EvidenceInvTypes, EvidenceInductive, PTL
=============================================================================
