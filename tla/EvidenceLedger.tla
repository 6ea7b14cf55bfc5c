---------------------------- MODULE EvidenceLedger ----------------------------
(***************************************************************************)
(* The evidence on the exits of paper plays: what a strategy would have    *)
(* sold an option for.  The research worker polls: a decision is written   *)
(* down first, and a later bid of the exchange, if one comes in time,      *)
(* prices it.  There are three ledgers.  The authored exits and their      *)
(* variants are updated under a condition on the row; the study of         *)
(* expirations and the profit tests keep a state that is compared before   *)
(* it is replaced.                                                         *)
(*                                                                         *)
(* The plays are on one ticker and one contract, the case in which a pass  *)
(* shares bars and quotes, and began at minute 0.  Prices and rules are    *)
(* data: the bar at whose close a play's exit is due is given, whether a   *)
(* bid reaches a target or a stop is chance.  The ledgers share nothing:   *)
(* a behaviour shows one.                                                  *)
(***************************************************************************)
EXTENDS Integers, FiniteSets

CONSTANTS
  Observers,    \* passes that may overlap
  Poller,       \* the one that passes every minute
  Plays,        \* candidates
  NoPlay,
  Cap,          \* minute of the last exit: 15:55, or the end of a timer
  Window, Short,\* minutes in which a decision is priced: 5, and 1
  MaxAge,       \* minutes after which a bid is too old: 2
  MaxGap,       \* minutes that a path may be unheard: 2
  Lateness,     \* minutes after which a bar counts as missing: 5
  Faults        \* bound on passes that are broken off and reads of bars that fail

ASSUME EvidenceAssumption ==
  /\ Poller \in Observers /\ NoPlay \notin Plays
  /\ {Cap, Window, Short, MaxAge, MaxGap, Lateness} \subseteq Nat \ {0}
  /\ Faults \in Nat

VARIABLES
  ledger,       \* the ledger of this behaviour: "authored", "study" or "tests"
  rule,         \* Plays -> how its exits are decided, "none" for no play
  due,          \* Plays -> the minute in which its bars decide the exit
  feed,         \* hole: a bar nobody has; forming: an unfinished bar is handed out
  minute,       \* the clock; NextDay is any time of a later day
  evidence,     \* Plays -> its row
  observer,     \* Observers -> its pass
  shared,       \* history: plays that two passes had in hand at once
  silence,      \* history: longest time between two bids of a path
  faults

market == <<ledger, rule, due, feed>>
evidenceVars == <<ledger, rule, due, feed, minute, evidence, observer, shared, silence, faults>>

LastMinute == Cap + Window + 1
NextDay == LastMinute + Lateness
Minutes == 0..LastMinute \cup {NextDay}
RulesOf(l) ==
  CASE l = "authored" -> {"bars", "premium"}
    [] l = "study" -> {"bars", "premium", "timed"}
    [] l = "tests" -> {"trail", "loss", "recovery"}

Earliest(s) == CHOOSE t \in s : \A u \in s : t <= u
Latest(s) == CHOOSE t \in s : \A u \in s : u <= t

-----------------------------------------------------------------------------
(* Rows: two legs in the tests, one otherwise. *)
Undecided == [status |-> "collecting", at |-> 0, reason |-> "none", bidAt |-> 0, received |-> 0]
Row == [exit |-> Undecided, trail |-> Undecided, heard |-> 0, lastBid |-> 0,
        stop |-> FALSE, objective |-> 0]
NotEnrolled == [Row EXCEPT !.exit.status = "absent"]
Undone(leg) == leg.status \in {"collecting", "pending_quote"}
Active(row) ==
  /\ row # NotEnrolled
  /\ Undone(row.exit) \/ (ledger = "tests" /\ Undone(row.trail))
Pending(row) == row.exit.status = "pending_quote"
Enrolled(p) == [Row EXCEPT !.stop = rule[p] = "loss"]      \* a loss limit is a stop from the start

(* A quote: when its bid was made, 0 for none, and when it was received. *)
NotAsked == [asked |-> FALSE, stamp |-> 0, received |-> 0]

(* executable_bid(): a bid made after the decision, and still fresh. *)
MutantExecutable(quote, at) ==      \* any fresh bid will do
  quote.stamp > 0 /\ quote.received <= at + Window /\ quote.received <= quote.stamp + MaxAge
Executable(quote, at) ==
  /\ quote.stamp > 0
  /\ at <= quote.stamp /\ quote.stamp <= quote.received
  /\ quote.received <= at + Window /\ quote.received <= quote.stamp + MaxAge

(* What a path that is not decided is sampled with: a bid of the last minute. *)
Sampled(quote) == Executable(quote, Latest({0, quote.received - Short}))

Filled(leg, quote) ==
  [leg EXCEPT !.status = "priced", !.bidAt = quote.stamp, !.received = quote.received]

-----------------------------------------------------------------------------
(* Decisions from bars.  A frame has the bars up to one minute; of an       *)
(* unfinished last one it can be said only what it shows by now.           *)
NotRead == [bars |-> -1, last |-> "whole"]
NoEvent == [at |-> 0, reason |-> "none"]
Event(t, reason) == [at |-> t, reason |-> reason]
FirstMissing(frame) == Earliest({feed.hole, frame.bars + 1})
ShownExit(p, frame) ==
  IF frame.last = "shows" THEN Earliest({frame.bars, due[p]})
  ELSE IF frame.last = "hides" /\ frame.bars = due[p] THEN Cap + 1
  ELSE due[p]

MutantFirstExit(p, frame, now) ==      \* missing bars are skipped
  IF ShownExit(p, frame) <= Earliest({frame.bars, now}) THEN Event(ShownExit(p, frame), "exit") ELSE NoEvent
(* first_exit(): every bar up to the exit must be there. *)
FirstExit(p, frame, now) ==
  LET exit == ShownExit(p, frame)
      missing == FirstMissing(frame)
  IN IF exit < missing /\ exit <= now THEN Event(exit, "exit")
     ELSE IF missing > Earliest({now, Cap}) THEN NoEvent
     ELSE IF now > missing + Lateness THEN Event(missing, "fault")
     ELSE Event(0, "waiting")

(* A play of an earlier day is lost; a timer needs no bars. *)
Decision(p, frame, now) ==
  IF now = NextDay THEN Event(Cap, "fault")
  ELSE IF rule[p] = "timed" THEN IF now >= Cap THEN Event(Cap, "exit") ELSE NoEvent
  ELSE FirstExit(p, frame, now)

Decides(event) == event.reason \in {"exit", "fault"}
Latched(leg, event) ==
  [leg EXCEPT !.status = IF event.reason = "exit" THEN "pending_quote" ELSE "unmeasurable",
              !.at = event.at, !.reason = event.reason]
QuoteWindow(p) == IF rule[p] \in {"premium", "trail", "loss", "recovery"} THEN Short ELSE Window

-----------------------------------------------------------------------------
EvidenceInit ==
  /\ ledger \in {"authored", "study", "tests"}
  /\ rule \in [Plays -> RulesOf(ledger) \cup {"none"}]
  /\ due \in [Plays -> 1..Cap]
  /\ feed \in [hole : 1..(Cap + 1), forming : BOOLEAN]
  /\ minute = 1
  /\ evidence = [p \in Plays |-> NotEnrolled]
  /\ observer = [o \in Observers |-> [at |-> "idle"]]
  /\ shared = {} /\ silence = [p \in Plays |-> 0] /\ faults = 0

InHand(o) == IF observer[o].at = "idle" THEN {} ELSE observer[o].todo \cup {observer[o].play}

(* record() of the study: the first selection of a contract wins, and must *)
(* belong to the minute of the setup.                                      *)
RecordStudy(p) ==
  /\ ledger = "study" /\ rule[p] # "none" /\ minute <= 1
  /\ evidence[p] = NotEnrolled
  /\ evidence' = [evidence EXCEPT ![p] = Enrolled(p)]
  /\ UNCHANGED <<market, minute, observer, shared, silence, faults>>

(* A pass enrolls what is new and reads what is open, in one transaction. *)
EnrolledOnce(p) == IF evidence[p] = NotEnrolled THEN Enrolled(p) ELSE evidence[p]

BeginPass(o) ==
  /\ observer[o].at = "idle"
  /\ LET rows == [p \in Plays |->
                    IF rule[p] = "none" \/ ledger = "study" THEN evidence[p] ELSE EnrolledOnce(p)]
         open == {p \in Plays : Active(rows[p])}
     IN /\ open # {}
        /\ evidence' = rows
        /\ observer' = [observer EXCEPT ![o] =
             [at |-> "row", todo |-> open, seen |-> [p \in Plays |-> IF p \in open THEN rows[p] ELSE NotEnrolled],
              play |-> NoPlay, row |-> NotEnrolled, state |-> NotEnrolled, frame |-> NotRead, quote |-> NotAsked]]
        /\ shared' = shared \cup (open \cap UNION {InHand(v) : v \in Observers \ {o}})
  /\ UNCHANGED <<market, minute, silence, faults>>

(* Whether a row needs bars that the pass has not read. *)
NeedsBars(o, p) ==
  LET row == observer[o].seen[p] IN
  /\ observer[o].frame = NotRead
  /\ CASE rule[p] = "premium" /\ ledger = "authored" -> TRUE
       [] rule[p] = "bars" /\ ledger = "authored" -> ~Pending(row) /\ minute # NextDay
       [] rule[p] = "recovery" -> row.trail.status = "collecting" /\ row.objective = 0
       [] OTHER -> ledger = "study" /\ rule[p] # "timed" /\ ~Pending(row)

Taken(o, p) ==
  [observer[o] EXCEPT !.at = IF NeedsBars(o, p) THEN "bars" ELSE "decide", !.todo = @ \ {p}, !.play = p,
                      !.row = observer[o].seen[p], !.seen = [@ EXCEPT ![p] = NotEnrolled]]

(* Rows whose decision waits for a price come first. *)
TakeRow(o) ==
  /\ observer[o].at = "row"
  /\ \E p \in observer[o].todo :
       /\ (ledger # "tests" /\ \E q \in observer[o].todo : Pending(observer[o].seen[q]))
            => Pending(observer[o].seen[p])
       /\ observer' = [observer EXCEPT ![o] = Taken(o, p)]
  /\ UNCHANGED <<market, minute, evidence, shared, silence, faults>>

EndObservation(o) ==
  /\ observer[o].at = "row" /\ observer[o].todo = {}
  /\ observer' = [observer EXCEPT ![o] = [at |-> "idle"]]
  /\ UNCHANGED <<market, minute, evidence, shared, silence, faults>>

(* The worker is stopped, or its process ends. *)
BreakOff(o) ==
  /\ observer[o].at # "idle" /\ faults < Faults
  /\ observer' = [observer EXCEPT ![o] = [at |-> "idle"]]
  /\ faults' = faults + 1
  /\ UNCHANGED <<market, minute, evidence, shared, silence>>

NextRow(ob) == [ob EXCEPT !.at = "row", !.play = NoPlay, !.row = NotEnrolled, !.state = NotEnrolled]

(* session_frame(): a provider may lag behind, and the one that stands in  *)
(* for it may hand out the bar of the minute that is not over.             *)
Frames ==
  [bars : 0..Earliest({minute, Cap}), last : {"whole"}] \cup
  (IF feed.forming /\ minute + 1 < Cap THEN [bars : {minute + 1}, last : {"shows", "hides"}] ELSE {})

ReadBars(o) ==
  /\ observer[o].at = "bars"
  /\ \E frame \in Frames :
       observer' = [observer EXCEPT ![o] = [@ EXCEPT !.at = "decide", !.frame = frame]]
  /\ UNCHANGED <<market, minute, evidence, shared, silence, faults>>

(* The read raises: rows of other tests do without, a row is given up until *)
(* the next pass, and only premium rows ask again in the same pass.        *)
ReadFails(o) ==
  /\ observer[o].at = "bars" /\ faults < Faults
  /\ LET ob == observer[o]
         none == [bars |-> 0, last |-> "whole"]
     IN observer' = [observer EXCEPT ![o] =
          IF ledger = "tests" THEN [ob EXCEPT !.at = "decide", !.frame = none]
          ELSE IF ledger = "authored" /\ rule[ob.play] = "premium" THEN NextRow(ob)
          ELSE NextRow([ob EXCEPT !.frame = none])]
  /\ faults' = faults + 1
  /\ UNCHANGED <<market, minute, evidence, shared, silence>>

(* The answer to the one question about the contract that a pass asks. *)
Answers(o) ==
  IF observer[o].quote.asked THEN {observer[o].quote}
  ELSE [asked : {TRUE}, received : {minute},
        stamp : {0} \cup {t \in Minutes : t <= minute /\ minute <= t + MaxAge + 1}]

(* The question raises: its row is given up, the others have no quote. *)
QuoteFails(o) ==
  /\ observer[o].at = "quote" /\ ~observer[o].quote.asked /\ ledger # "tests"
  /\ observer' = [observer EXCEPT ![o] =
       NextRow([observer[o] EXCEPT !.quote = [asked |-> TRUE, stamp |-> 0, received |-> minute]])]
  /\ UNCHANGED <<market, minute, evidence, shared, silence, faults>>

Put(p, row) == evidence' = [evidence EXCEPT ![p] = row]

-----------------------------------------------------------------------------
(* Authored exits.  UPDATE ... WHERE status = 'collecting' *)
MutantLatch(p, event) == [evidence[p] EXCEPT !.exit = Latched(@, event)]      \* no WHERE
Latch(p, event) ==
  IF evidence[p].exit.status = "collecting"
  THEN [evidence[p] EXCEPT !.exit = Latched(@, event)] ELSE evidence[p]

DecideAuthored(o) ==
  /\ ledger = "authored" /\ observer[o].at = "decide"
  /\ LET ob == observer[o]
         p == ob.play
         event == Decision(p, ob.frame, minute)
     IN IF Pending(ob.row) THEN
          /\ observer' = [observer EXCEPT ![o].at = "due"]
          /\ UNCHANGED evidence
        ELSE IF Decides(event) THEN
          /\ Put(p, Latch(p, event))
          /\ observer' = [observer EXCEPT ![o] =
               IF Pending(Latch(p, event)) THEN [ob EXCEPT !.at = "due", !.row = Latch(p, event)]
               ELSE NextRow(ob)]
        ELSE
          /\ observer' = [observer EXCEPT ![o] =
               IF rule[p] = "premium" /\ event = NoEvent THEN [ob EXCEPT !.at = "quote"] ELSE NextRow(ob)]
          /\ UNCHANGED evidence
  /\ UNCHANGED <<market, minute, shared, silence, faults>>

CheckDeadline(o) ==
  /\ observer[o].at = "due"
  /\ LET ob == observer[o]
         p == ob.play
     IN IF minute > ob.row.exit.at + QuoteWindow(p) THEN
          /\ Put(p, IF Pending(evidence[p]) THEN [evidence[p] EXCEPT !.exit.status = "missing_quote"]
                    ELSE evidence[p])
          /\ observer' = [observer EXCEPT ![o] = NextRow(ob)]
        ELSE observer' = [observer EXCEPT ![o].at = "quote"] /\ UNCHANGED evidence
  /\ UNCHANGED <<market, minute, shared, silence, faults>>

(* A bid in time prices the decision that waits for it ... *)
PricedBars(p, row, quote) ==
  IF Pending(evidence[p]) /\ Executable(quote, row.exit.at)
  THEN [evidence[p] EXCEPT !.exit = Filled(@, quote)] ELSE evidence[p]

(* ... and a premium that reaches its target is a decision of its own. *)
PricedPremium(p, row, quote, target) ==
  LET old == evidence[p]
      good == /\ quote.stamp > old.lastBid
              /\ IF Pending(row)
                 THEN quote.received <= row.exit.at + Short /\ Executable(quote, row.exit.at)
                 ELSE Sampled(quote)
      own == IF old.exit.reason = "none"
             THEN [old.exit EXCEPT !.at = quote.stamp, !.reason = "target"] ELSE old.exit
  IN IF ~good THEN old
     ELSE IF (Pending(row) \/ target) /\ Undone(old.exit)
     THEN [old EXCEPT !.lastBid = quote.stamp, !.exit = Filled(own, quote)]
     ELSE [old EXCEPT !.lastBid = quote.stamp]

PriceAuthored(o) ==
  /\ ledger = "authored" /\ observer[o].at = "quote"
  /\ \E quote \in Answers(o), target \in BOOLEAN :
       LET ob == observer[o] IN
       /\ Put(ob.play, IF rule[ob.play] = "bars" THEN PricedBars(ob.play, ob.row, quote)
                       ELSE PricedPremium(ob.play, ob.row, quote, target))
       /\ observer' = [observer EXCEPT ![o] = NextRow([ob EXCEPT !.quote = quote])]
  /\ UNCHANGED <<market, minute, shared, silence, faults>>

-----------------------------------------------------------------------------
(* The study and the tests replace a state only if it is the one they read. *)
Swapped(p, before, after) == IF evidence[p] = before THEN after ELSE evidence[p]

(* advance() of the study *)
Advanced(p, row, frame, now) ==
  LET event == Decision(p, frame, now)
      exit == IF row.exit.status = "collecting" /\ Decides(event) THEN Latched(row.exit, event) ELSE row.exit
  IN [row EXCEPT !.exit =
       IF exit.status = "pending_quote" /\ now > exit.at + QuoteWindow(p)
       THEN [exit EXCEPT !.status = "missing_quote"] ELSE exit]

AdvanceStudy(o) ==
  /\ ledger = "study" /\ observer[o].at = "decide"
  /\ LET ob == observer[o]
         p == ob.play
         new == Advanced(p, ob.row, ob.frame, minute)
         asks == Pending(new) \/ (rule[p] = "premium" /\ new.exit.status = "collecting")
     IN /\ Put(p, Swapped(p, ob.row, new))
        /\ observer' = [observer EXCEPT ![o] =
             IF asks /\ (new = ob.row \/ evidence[p] = ob.row)
             THEN [ob EXCEPT !.at = "quote", !.row = new] ELSE NextRow(ob)]
  /\ UNCHANGED <<market, minute, shared, silence, faults>>

PricedStudy(p, row, frame, quote, target) ==
  LET out == Advanced(p, row, frame, quote.received)
      waits == out.exit.status = "collecting" /\ Decision(p, frame, quote.received).reason = "waiting"
      good == /\ IF Pending(out) THEN Executable(quote, out.exit.at) ELSE Sampled(quote)
              /\ rule[p] = "premium" => quote.stamp > out.lastBid
      heard == IF rule[p] = "premium" THEN [out EXCEPT !.lastBid = quote.stamp] ELSE out
  IN IF ~Undone(out.exit) \/ waits \/ ~good THEN out
     ELSE IF Pending(out) THEN [heard EXCEPT !.exit = Filled(@, quote)]
     ELSE IF rule[p] # "premium" \/ ~target THEN heard
     ELSE [heard EXCEPT !.exit = Filled([@ EXCEPT !.at = quote.stamp, !.reason = "target"], quote)]

PriceStudy(o) ==
  /\ ledger = "study" /\ observer[o].at = "quote"
  /\ \E quote \in Answers(o), target \in BOOLEAN :
       LET ob == observer[o] IN
       /\ Put(ob.play, Swapped(ob.play, ob.row, PricedStudy(ob.play, ob.row, ob.frame, quote, target)))
       /\ observer' = [observer EXCEPT ![o] = NextRow([ob EXCEPT !.quote = quote])]
  /\ UNCHANGED <<market, minute, shared, silence, faults>>

-----------------------------------------------------------------------------
(* The tests: the control leg sells when the time is over, the trail leg at *)
(* the first bid under a stop that rising bids have pulled up, if the path *)
(* was heard all along.                                                    *)
MutantExpired(leg, now) == leg      \* a decision waits for its price for ever
Expired(leg, now) ==
  IF leg.status = "pending_quote" /\ now > leg.at + Short THEN [leg EXCEPT !.status = "missing_quote"] ELSE leg
TimedOut(leg, now) ==
  IF leg.status = "collecting" /\ now >= Cap
  THEN [leg EXCEPT !.status = "pending_quote", !.at = Cap, !.reason = "exit"] ELSE leg
Lost(row, now) == row.trail.status = "collecting" /\ Earliest({now, Cap}) > row.heard + MaxGap

DueLegs(row, now) ==
  [row EXCEPT !.exit = Expired(TimedOut(@, now), now),
              !.trail = IF Lost(row, now) THEN [@ EXCEPT !.status = "missing_path"]
                        ELSE Expired(TimedOut(@, now), now)]

(* observe_target(): the recovery of the price, before which bids do not   *)
(* count, is seen in time, on whole bars without a gap, or not at all.     *)
Objective(p, row, frame, now) ==
  LET bars == Earliest({now, Cap})
      reached == ShownExit(p, frame)
      missing == FirstMissing(frame)
  IN IF rule[p] # "recovery" \/ row.trail.status # "collecting" \/ row.objective > 0 THEN row
     ELSE IF reached < missing /\ reached <= bars
     THEN IF now > reached + MaxGap THEN [row EXCEPT !.trail.status = "missing_path"]
          ELSE [row EXCEPT !.objective = now]
     ELSE IF missing <= bars /\ now > missing + MaxGap THEN [row EXCEPT !.trail.status = "missing_path"]
     ELSE row

NeedsQuote(row) == Undone(row.trail) \/ Pending(row)

PathTests(o) ==
  /\ ledger = "tests" /\ observer[o].at = "decide"
  /\ LET ob == observer[o]
         p == ob.play
         new == DueLegs(Objective(p, ob.row, ob.frame, minute), minute)
     IN IF NeedsQuote(new) THEN
          /\ observer' = [observer EXCEPT ![o] = [@ EXCEPT !.at = "quote", !.state = new]]
          /\ UNCHANGED evidence
        ELSE
          /\ Put(p, Swapped(p, ob.row, new))
          /\ observer' = [observer EXCEPT ![o] = NextRow(ob)]
  /\ UNCHANGED <<market, minute, shared, silence, faults>>

(* A decision of before is filled by a bid of after it. *)
FilledLater(leg, quote) ==
  IF leg.status = "pending_quote" /\ quote.stamp > leg.at /\ quote.received <= leg.at + Short
  THEN Filled(leg, quote) ELSE leg

(* What a bid does to the stop: nothing, cross it, raise it; or its ask is *)
(* stale, and nothing of it counts.                                        *)
Bids == {"plain", "low", "high", "stale ask"}
HeardBid(p, row, quote, bid) ==
  LET now == quote.received
      filled == [row EXCEPT !.exit = FilledLater(@, quote), !.trail = FilledLater(@, quote)]
      heard == [filled EXCEPT !.lastBid = quote.stamp, !.heard = now]
      counts == rule[p] # "recovery" \/ (row.objective > 0 /\ quote.stamp > row.objective)
  IN IF ~Sampled(quote) THEN row
     ELSE IF filled.trail.status # "collecting" \/ bid = "stale ask" \/ quote.stamp <= row.lastBid THEN filled
     ELSE IF ~counts THEN heard
     ELSE IF row.stop /\ bid = "low"
     THEN [heard EXCEPT !.trail = [@ EXCEPT !.status = "pending_quote", !.at = now, !.reason = "stop"]]
     ELSE [heard EXCEPT !.stop = @ \/ bid = "high"]

PriceTests(o) ==
  /\ ledger = "tests" /\ observer[o].at = "quote"
  /\ \E quote \in Answers(o), bid \in Bids :
       LET ob == observer[o]
           p == ob.play
           new == Swapped(p, ob.row, HeardBid(p, DueLegs(ob.state, quote.received), quote, bid))
       IN /\ Put(p, new)
          /\ silence' = [silence EXCEPT ![p] = Latest({@, new.heard - evidence[p].heard})]
          /\ observer' = [observer EXCEPT ![o] = NextRow([ob EXCEPT !.quote = quote])]
  /\ UNCHANGED <<market, minute, shared, faults>>

-----------------------------------------------------------------------------
TimeGoesOn ==
  /\ minute # NextDay
  /\ minute' = IF minute < LastMinute THEN minute + 1 ELSE NextDay
  /\ UNCHANGED <<market, evidence, observer, shared, silence, faults>>

Decide(o) == DecideAuthored(o) \/ AdvanceStudy(o) \/ PathTests(o)
Price(o) == PriceAuthored(o) \/ PriceStudy(o) \/ PriceTests(o)
PassStep(o) == TakeRow(o) \/ EndObservation(o) \/ Decide(o) \/ CheckDeadline(o) \/ Price(o) \/ QuoteFails(o)

EvidenceNext ==
  \/ TimeGoesOn
  \/ \E p \in Plays : RecordStudy(p)
  \/ \E o \in Observers : BeginPass(o) \/ PassStep(o) \/ ReadBars(o) \/ ReadFails(o) \/ BreakOff(o)

EvidenceSpec == EvidenceInit /\ [][EvidenceNext]_evidenceVars

(* The worker passes every minute, also on later days, and each pass goes  *)
(* on; another one may stall anywhere.  Of quotes nothing is assumed.      *)
EvidenceFairness ==
  /\ WF_evidenceVars(TimeGoesOn)
  /\ WF_evidenceVars(BeginPass(Poller) \/ PassStep(Poller) \/ ReadBars(Poller) \/ ReadFails(Poller))

-----------------------------------------------------------------------------
Legs(p) == {evidence[p].exit} \cup (IF ledger = "tests" THEN {evidence[p].trail} ELSE {})

(* A price is a bid that was made after the exit was decided, and received *)
(* in time, though the bid was asked for by another row, before the pass   *)
(* stalled, or by a pass that another one overtook.  The tests do not take *)
(* the bid that triggered an exit for its price.  Two passes that have a   *)
(* premium row in hand may price a stop with a bid of before it.           *)
NoHindsight ==
  \A p \in Plays : \A leg \in Legs(p) :
    leg.status = "priced" =>
      \/ /\ leg.received <= leg.at + QuoteWindow(p)
         /\ leg.at < leg.bidAt \/ (leg.at = leg.bidAt /\ ledger # "tests")
      \/ ledger = "authored" /\ rule[p] = "premium" /\ p \in shared

(* "Persist the first trigger": what decided, and when, stays, whoever      *)
(* polls with older knowledge; a result is final.                          *)
DecisionStays ==
  [][\A p \in Plays : \A leg \in {"exit", "trail"} :
       /\ evidence[p][leg].at # 0 =>
            evidence'[p][leg].at = evidence[p][leg].at /\ evidence'[p][leg].reason = evidence[p][leg].reason
       /\ evidence[p] # NotEnrolled /\ ~Undone(evidence[p][leg]) => evidence'[p][leg] = evidence[p][leg]
    ]_evidenceVars

(* No decision across a gap in what was seen.  An exit by bars is the first *)
(* one there was, with no bar missing before it, and only the bar of a      *)
(* minute that is not over can deceive; the trail ends by its rules only    *)
(* where the bids of its path were never silent for too long.               *)
NoGapBeforeExit ==
  \A p \in Plays :
    IF ledger = "tests" THEN evidence[p].trail.reason # "none" => silence[p] <= MaxGap
    ELSE evidence[p].exit.reason = "exit" /\ rule[p] # "timed" /\ ~feed.forming
           => evidence[p].exit.at = due[p] /\ due[p] < feed.hole

(* Every play that is enrolled gets a result, a price or the reason why it *)
(* has none, also where nothing is ever quoted again.                      *)
EvidenceSettles == []<>(\A p \in Plays : ~Active(evidence[p]))

EvidenceTypeOK ==
  /\ rule \in [Plays -> RulesOf(ledger) \cup {"none"}] /\ due \in [Plays -> 1..Cap]
  /\ minute \in Minutes /\ faults \in 0..Faults
  /\ shared \subseteq Plays /\ silence \in [Plays -> 0..MaxGap]
=============================================================================
