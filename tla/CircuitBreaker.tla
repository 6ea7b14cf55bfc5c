---------------------------- MODULE CircuitBreaker ----------------------------
(***************************************************************************)
(* The circuit breaker around every GET to Alpaca: two global variables    *)
(* that all threads read and write without a lock.  Three connection       *)
(* failures in a row open it, and while it is open no request goes out.    *)
(*                                                                         *)
(* Time is what is left of the cooldown, in ticks.  What a request asks    *)
(* for, and the alerts of broker_health, are left out.                     *)
(***************************************************************************)
EXTENDS Naturals

CONSTANTS
  Callers,      \* threads: loops, requests, research workers
  Threshold,    \* _CB_THRESHOLD
  Cooldown,     \* _CB_COOLDOWN, in ticks
  Retries       \* attempts of _retry

ASSUME BreakerAssumption ==
  Threshold \in Nat \ {0} /\ Cooldown \in Nat \ {0} /\ Retries \in Nat \ {0}

VARIABLES
  failCount,    \* _cb_fail_count; a count above the threshold is like the threshold
  openFor,      \* what is left until _cb_open_until
  get,          \* Callers -> where _get is
  outage,       \* history: the threshold was reached, and no call succeeded since
  failures      \* history: failures of each caller in this outage and cooldown

breakerVars == <<failCount, openFor, get, outage, failures>>

Resting == [at |-> "rest"]
Get == {Resting} \cup [at : {"sent"}, attempt : 1..Retries]
  \cup [at : {"ok", "down", "opening"}]

BreakerInit ==
  /\ failCount = 0 /\ openFor = 0
  /\ get = [p \in Callers |-> Resting]
  /\ outage = FALSE /\ failures = [p \in Callers |-> 0]

NoFailures == failures' = [p \in Callers |-> 0]

(* _get(): an open circuit raises before anything is sent. *)
MutantMayCall == TRUE      \* calls go out, and their failures prolong the cooldown
MayCall == openFor = 0

CallAlpaca(p) ==
  /\ get[p] = Resting
  /\ MayCall
  /\ get' = [get EXCEPT ![p] = [at |-> "sent", attempt |-> 1]]
  /\ UNCHANGED <<failCount, openFor, outage, failures>>

(* _retry(): an answer, an error of the client's own, or no connection end *)
(* the call; other errors are tried again.  Only the first and the third   *)
(* are recorded.                                                           *)
Attempt(p) ==
  /\ get[p].at = "sent"
  /\ \/ \E a \in {"ok", "down"} : get' = [get EXCEPT ![p] = [at |-> a]]
     \/ get[p].attempt < Retries /\ get' = [get EXCEPT ![p].attempt = @ + 1]
     \/ get' = [get EXCEPT ![p] = Resting]
  /\ UNCHANGED <<failCount, openFor, outage, failures>>

RecordSuccess(p) ==
  /\ get[p].at = "ok"
  /\ failCount' = 0 /\ openFor' = 0
  /\ get' = [get EXCEPT ![p] = Resting]
  /\ outage' = FALSE /\ NoFailures

(* _cb_record_failure() counts; the time until which the circuit is open is *)
(* computed, and stored a moment later.  After a cooldown the count is what *)
(* it was: one more failure opens the circuit again.                        *)
MutantCounted ==      \* an open circuit starts to count anew
  IF failCount < Threshold THEN failCount + 1 ELSE 1
Counted == IF failCount < Threshold THEN failCount + 1 ELSE failCount

RecordFailure(p) ==
  /\ get[p].at = "down"
  /\ failCount' = Counted
  /\ get' = [get EXCEPT ![p] = IF Counted < Threshold THEN Resting ELSE [at |-> "opening"]]
  /\ failures' = IF outage /\ failures[p] < 2 THEN [failures EXCEPT ![p] = @ + 1] ELSE failures
  /\ outage' = (outage \/ Counted = Threshold)
  /\ UNCHANGED openFor

OpenCircuit(p) ==
  /\ get[p].at = "opening"
  /\ openFor' = Cooldown
  /\ get' = [get EXCEPT ![p] = Resting]
  /\ UNCHANGED <<failCount, outage, failures>>

(* A tick is long beside the moment in which a failure is recorded. *)
PassTime ==
  /\ openFor > 0 /\ \A p \in Callers : get[p].at # "opening"
  /\ openFor' = openFor - 1
  /\ IF openFor = 1 THEN NoFailures ELSE UNCHANGED failures
  /\ UNCHANGED <<failCount, get, outage>>

BreakerStep(p) ==
  CallAlpaca(p) \/ Attempt(p) \/ RecordSuccess(p) \/ RecordFailure(p) \/ OpenCircuit(p)

BreakerNext == PassTime \/ \E p \in Callers : BreakerStep(p)

BreakerSpec == BreakerInit /\ [][BreakerNext]_breakerVars

(* Time passes, and a call that has begun ends: requests have a timeout. *)
BreakerFairness ==
  /\ WF_breakerVars(PassTime)
  /\ \A p \in Callers : WF_breakerVars(get[p] # Resting /\ BreakerStep(p))

-----------------------------------------------------------------------------
BreakerTypeOK ==
  /\ failCount \in 0..Threshold /\ openFor \in 0..Cooldown
  /\ get \in [Callers -> Get]
  /\ outage \in BOOLEAN /\ failures \in [Callers -> 0..2]

(* In an outage a thread waits for the network once per cooldown: the first *)
(* failure after it, of whichever thread, opens the circuit again.          *)
OneFailurePerCooldown == \A p \in Callers : failures[p] <= 1

(* A circuit that is open lets a call through some day, also where calls *)
(* that were under way go on failing.                                    *)
ProbedAgain == openFor > 0 ~> openFor = 0
=============================================================================
