---------------------------- MODULE Parts_proofs ----------------------------
(***************************************************************************)
(* Theorems about the parts that share no state: ResearchWorker,           *)
(* CircuitBreaker, SettingsStore and PositionExit, and what MCParts runs   *)
(* side by side with them.                                                 *)
(***************************************************************************)
EXTENDS MCParts, EvidenceLedger_proofs

-----------------------------------------------------------------------------
(* Theorems about ResearchWorker.  Only the registered worker is alive;    *)
(* where no loop runs it is closed; and one that is not closed is about    *)
(* the account of now (Current), unless the account was changed under a    *)
(* running loop.  So what a worker finds open before it begins a pass it   *)
(* reads with the keys of the account of the pass.                         *)

\* What the worker r has, if it may still begin a pass.
Current(r) ==
  \/ r.closed \/ r.at = "dead"
  \/ /\ r.pending \in {NoAccount, account}
     /\ r.at \in {"check", "readers", "run", "pass"} => r.snapshot = account
     /\ r.identity # NoAccount => r.identity = account /\ r.readers = account
     /\ r.at \in {"run", "pass"} => r.identity = account

Reads(r) == r.at = "pass" => r.readers = r.snapshot

ResearchInv ==
  /\ ResearchTypeOK
  /\ \A w \in Workers : Alive(w) => registered = w
  /\ loop = "off" => \A w \in Workers : Alive(w) => worker[w].closed
  /\ ~mixed => \A w \in Workers : Current(worker[w]) /\ Reads(worker[w])

-----------------------------------------------------------------------------
(* Records. *)

LEMMA FreshType ==
  ASSUME NEW p \in Accounts \cup {NoAccount}, NEW a \in {"dead", "head"}
  PROVE  /\ [Fresh EXCEPT !.pending = p] \in Worker
         /\ [Fresh EXCEPT !.at = a] \in Worker
         /\ [Fresh EXCEPT !.pending = p].at = "head"
         /\ [Fresh EXCEPT !.pending = p].pending = p
         /\ [Fresh EXCEPT !.pending = p].identity = NoAccount
         /\ [Fresh EXCEPT !.at = a].at = a
  BY DEF Fresh, Worker

LEMMA FieldTypes ==
  ASSUME NEW r \in Worker, NEW p \in Accounts \cup {NoAccount}, NEW q \in Accounts \cup {NoAccount},
         NEW b \in BOOLEAN, NEW a \in {"dead", "head", "wait", "check", "readers", "run", "pass"}
  PROVE  /\ [r EXCEPT !.pending = p] \in Worker
         /\ [r EXCEPT !.closed = b] \in Worker
         /\ [r EXCEPT !.at = a] \in Worker
         /\ [r EXCEPT !.at = a, !.busy = b, !.snapshot = p] \in Worker
         /\ [r EXCEPT !.snapshot = p, !.pending = q, !.busy = b, !.at = a] \in Worker
         /\ [r EXCEPT !.readers = p, !.identity = q, !.at = a] \in Worker
<1>1. [r EXCEPT !.pending = p] \in Worker
  BY DEF Worker
<1>2. [r EXCEPT !.closed = b] \in Worker
  BY DEF Worker
<1>3. [r EXCEPT !.at = a] \in Worker
  BY DEF Worker
<1>4. [r EXCEPT !.at = a, !.busy = b, !.snapshot = p] \in Worker
  BY DEF Worker
<1>5. [r EXCEPT !.snapshot = p, !.pending = q, !.busy = b, !.at = a] \in Worker
  BY DEF Worker
<1>6. [r EXCEPT !.readers = p, !.identity = q, !.at = a] \in Worker
  BY DEF Worker
<1> QED  BY <1>1, <1>2, <1>3, <1>4, <1>5, <1>6

LEMMA Fields ==
  ASSUME NEW r \in Worker
  PROVE  /\ r.pending \in Accounts \cup {NoAccount} /\ r.snapshot \in Accounts \cup {NoAccount}
         /\ r.identity \in Accounts \cup {NoAccount} /\ r.readers \in Accounts \cup {NoAccount}
         /\ r.closed \in BOOLEAN /\ r.busy \in BOOLEAN
         /\ r.at \in {"dead", "head", "wait", "check", "readers", "run", "pass"}
  BY DEF Worker

-----------------------------------------------------------------------------
(* The loop and the requests. *)

\* An empty registry of workers (research_worker.py:13-14) satisfies the invariant.
THEOREM ResearchStarts == ResearchInit => ResearchInv
<1> SUFFICES ASSUME ResearchInit PROVE ResearchInv
  OBVIOUS
<1>1. \A w \in Workers : worker[w] \in Worker /\ worker[w].at = "dead"
  BY FreshType DEF ResearchInit
<1>2. ResearchTypeOK
  BY <1>1, FreshType DEF ResearchInit, ResearchTypeOK
<1> QED  BY <1>1, <1>2 DEF ResearchInv, Alive, Current, Reads

\* A step that leaves the workers, the account and the registry alone.
LEMMA WorkersAlone ==
  ASSUME ResearchInv, UNCHANGED <<account, registered, worker, mixed>>,
         loop' \in {"off", "run", "ending"}, stopEvent' \in BOOLEAN, submitted' \in BOOLEAN,
         rekeying' \in BOOLEAN, loop' = "off" => loop = "off"
  PROVE  ResearchInv'
<1>1. ResearchTypeOK'
  BY DEF ResearchInv, ResearchTypeOK
<1> QED  BY <1>1 DEF ResearchInv, Alive, Current, Reads

LEMMA LoopSteps ==
  ASSUME ResearchInv, StartLoop \/ StopLoop \/ NextMinute \/ EndLoop \/ RekeyCheck
  PROVE  ResearchInv'
  BY WorkersAlone DEF ResearchInv, ResearchTypeOK, StartLoop, StopLoop, NextMinute, EndLoop, RekeyCheck

\* The registered worker is closed.
LEMMA ClosedWorkers ==
  ASSUME ResearchInv, worker' = Closed(worker), UNCHANGED <<stopEvent, submitted, account, rekeying, registered, mixed>>,
         loop' \in {"off", "run", "ending"}
  PROVE  ResearchInv'
<1>1. \A w \in Workers : /\ worker'[w] \in Worker
                         /\ worker'[w].at = worker[w].at
                         /\ w = registered => worker'[w].closed
                         /\ w # registered => worker'[w] = worker[w]
                         /\ worker'[w].readers = worker[w].readers
                         /\ worker'[w].snapshot = worker[w].snapshot
  <2> SUFFICES ASSUME NEW w \in Workers
               PROVE  /\ worker'[w] \in Worker /\ worker'[w].at = worker[w].at
                      /\ w = registered => worker'[w].closed
                      /\ w # registered => worker'[w] = worker[w]
                      /\ worker'[w].readers = worker[w].readers /\ worker'[w].snapshot = worker[w].snapshot
    OBVIOUS
  <2>1. worker[w] \in Worker /\ [worker[w] EXCEPT !.closed = TRUE] \in Worker
    BY FieldTypes DEF ResearchInv, ResearchTypeOK
  <2>2. worker'[w] = IF w = registered THEN [worker[w] EXCEPT !.closed = TRUE] ELSE worker[w]
    BY WorkerAssumption DEF ResearchInv, ResearchTypeOK, Closed
  <2>3. LET c == [worker[w] EXCEPT !.closed = TRUE]
        IN c.closed /\ c.at = worker[w].at /\ c.readers = worker[w].readers /\ c.snapshot = worker[w].snapshot
    BY <2>1 DEF Worker
  <2> QED  BY <2>1, <2>2, <2>3
<1>2. ResearchTypeOK'
  BY <1>1, WorkerAssumption DEF ResearchInv, ResearchTypeOK, Closed
<1>3. \A w \in Workers : Alive(w)' => registered' = w /\ worker'[w].closed
  BY <1>1 DEF ResearchInv, Alive
<1>4. ~mixed' => \A w \in Workers : Current(worker[w])' /\ Reads(worker[w])'
  BY <1>1, <1>3 DEF ResearchInv, Alive, Current, Reads
<1> QED  BY <1>2, <1>3, <1>4 DEF ResearchInv

LEMMA ClosingSteps ==
  ASSUME ResearchInv, StopResearch \/ RemoveStrategy
  PROVE  ResearchInv'
  BY ClosedWorkers DEF ResearchInv, ResearchTypeOK, StopResearch, RemoveStrategy

LEMMA SubmitResearchStep ==
  ASSUME ResearchInv, SubmitResearch
  PROVE  ResearchInv'
<1>1. CASE Reusable(registered)
  <2>1. CASE UNCHANGED <<worker, submitted>>
    BY <1>1, <2>1, WorkersAlone DEF ResearchInv, ResearchTypeOK, SubmitResearch
  <2>2. CASE Take(registered)
    <3>1. registered \in Workers
      BY <1>1 DEF ResearchInv, ResearchTypeOK, Reusable
    <3>2. /\ worker' = [worker EXCEPT ![registered].pending = account]
          /\ UNCHANGED <<loop, stopEvent, account, rekeying, registered, mixed>> /\ submitted' = TRUE
      BY <1>1, <2>2 DEF SubmitResearch, Take
    <3>3. \A w \in Workers : /\ worker'[w] \in Worker
                             /\ w # registered => worker'[w] = worker[w]
      BY <3>1, <3>2, FieldTypes DEF ResearchInv, ResearchTypeOK
    <3>4. LET r == worker[registered]
              s == worker'[registered]
          IN /\ s.at = r.at /\ s.closed = r.closed /\ s.snapshot = r.snapshot
             /\ s.identity = r.identity /\ s.readers = r.readers /\ s.pending = account
      BY <3>1, <3>2 DEF ResearchInv, ResearchTypeOK, Worker
    <3>5. ResearchTypeOK'
      BY <3>1, <3>2, <3>3 DEF ResearchInv, ResearchTypeOK
    <3>6. \A w \in Workers : (Alive(w) <=> Alive(w)') /\ worker'[w].closed = worker[w].closed
      BY <3>3, <3>4 DEF Alive
    <3>7. ~mixed' => \A w \in Workers : Current(worker[w])' /\ Reads(worker[w])'
      BY <3>2, <3>3, <3>4 DEF ResearchInv, Current, Reads
    <3> QED  BY <3>2, <3>5, <3>6, <3>7 DEF ResearchInv
  <2> QED  BY <1>1, <2>1, <2>2 DEF SubmitResearch
<1>2. CASE ~Reusable(registered)
  <2>1. PICK n \in Workers :
          /\ ~Alive(n) /\ registered' = n /\ submitted' = ~stopEvent
          /\ worker' = [worker EXCEPT ![n] = [Fresh EXCEPT !.pending = IF stopEvent THEN NoAccount ELSE account]]
    BY <1>2 DEF SubmitResearch
  <2>2. /\ UNCHANGED <<loop, stopEvent, account, rekeying, mixed>> /\ loop = "run"
        /\ account \in Accounts /\ stopEvent \in BOOLEAN
    BY DEF SubmitResearch, ResearchInv, ResearchTypeOK
  <2>3. \A w \in Workers : ~Alive(w)
    BY <1>2, WorkerAssumption DEF ResearchInv, Reusable
  <2>4. (IF stopEvent THEN NoAccount ELSE account) \in {NoAccount, account}
    OBVIOUS
  <2>5. worker'[n].at = "head" /\ worker'[n].pending \in {NoAccount, account} /\ worker'[n].identity = NoAccount
    BY <2>1, <2>2, <2>4, FreshType DEF ResearchInv, ResearchTypeOK
  <2>6. \A w \in Workers : w # n => worker'[w] = worker[w]
    BY <2>1 DEF ResearchInv, ResearchTypeOK
  <2>7. ResearchTypeOK'
    BY <2>1, <2>2, <2>4, FreshType DEF ResearchInv, ResearchTypeOK
  <2>8. ~mixed' => \A w \in Workers : Current(worker[w])' /\ Reads(worker[w])'
    BY <2>2, <2>5, <2>6 DEF ResearchInv, Current, Reads
  <2>9. \A w \in Workers : Alive(w)' => registered' = w
    BY <2>1, <2>3, <2>6 DEF Alive
  <2> QED  BY <2>2, <2>7, <2>8, <2>9 DEF ResearchInv
<1> QED  BY <1>1, <1>2

LEMMA SaveAccountStep ==
  ASSUME ResearchInv, SaveAccount
  PROVE  ResearchInv'
<1>1. ResearchTypeOK'
  BY DEF ResearchInv, ResearchTypeOK, SaveAccount
<1>2. ~mixed' => \A w \in Workers : Current(worker[w])' /\ Reads(worker[w])'
  <2> SUFFICES ASSUME ~mixed', NEW w \in Workers PROVE Current(worker[w])' /\ Reads(worker[w])'
    OBVIOUS
  <2>1. ~mixed /\ loop = "off"
    BY DEF SaveAccount
  <2>2. worker[w].closed \/ worker[w].at = "dead"
    BY <2>1 DEF ResearchInv, Alive
  <2> QED  BY <2>1, <2>2 DEF SaveAccount, ResearchInv, Current, Reads
<1> QED  BY <1>1, <1>2 DEF ResearchInv, Alive, SaveAccount

-----------------------------------------------------------------------------
(* The worker. *)

\* A worker that moves from r to s keeps the invariant if s is as good as r.
LEMMA WorkerMoves ==
  ASSUME ResearchInv, NEW w \in Workers, NEW s \in Worker,
         worker' = [worker EXCEPT ![w] = s],
         UNCHANGED <<loop, stopEvent, submitted, account, rekeying, registered, mixed>>,
         Alive(w), s.closed = worker[w].closed,
         ~mixed => Current(s) /\ Reads(s)
  PROVE  ResearchInv'
<1>1. worker'[w] = s /\ \A v \in Workers : v # w => worker'[v] = worker[v]
  BY DEF ResearchInv, ResearchTypeOK
<1>2. ResearchTypeOK'
  BY DEF ResearchInv, ResearchTypeOK
<1>3. \A v \in Workers : Alive(v)' => Alive(v) /\ worker'[v].closed = worker[v].closed
  BY <1>1 DEF Alive
<1>4. ~mixed' => \A v \in Workers : Current(worker[v])' /\ Reads(worker[v])'
  BY <1>1 DEF ResearchInv, Current, Reads
<1> QED  BY <1>2, <1>3, <1>4 DEF ResearchInv

LEMMA WorkerSteps ==
  ASSUME ResearchInv, NEW w \in Workers, WorkerStep(w)
  PROVE  ResearchInv'
<1> DEFINE r == worker[w]
<1>0. /\ UNCHANGED <<loop, stopEvent, submitted, account, rekeying, registered, mixed>>
      /\ r \in Worker /\ account \in Accounts /\ account # NoAccount
      /\ ~mixed => Current(r) /\ Reads(r)
  BY WorkerAssumption DEF WorkerStep, ResearchInv, ResearchTypeOK
<1>1. ASSUME NEW a \in {"dead", "head", "wait", "check", "readers", "run", "pass"}, MoveTo(w, a), r.at # "dead",
             ~mixed => Current([r EXCEPT !.at = a]) /\ Reads([r EXCEPT !.at = a])
      PROVE  ResearchInv'
  <2>1. worker' = [worker EXCEPT ![w] = [r EXCEPT !.at = a]]
    BY <1>1 DEF MoveTo
  <2>2. [r EXCEPT !.at = a] \in Worker
    BY <1>0, <1>1, FieldTypes
  <2>3. [r EXCEPT !.at = a].closed = r.closed
    BY <1>0 DEF Worker
  <2> QED  BY <1>0, <1>1, <2>1, <2>2, <2>3, WorkerMoves DEF Alive
<1>2. ASSUME PassOver(w), r.at # "dead" PROVE ResearchInv'
  <2> DEFINE s == [r EXCEPT !.at = "head", !.busy = FALSE, !.snapshot = NoAccount]
  <2>1. worker' = [worker EXCEPT ![w] = s]
    BY <1>2 DEF PassOver
  <2>2. /\ s \in Worker /\ s.closed = r.closed /\ s.at = "head"
        /\ s.pending = r.pending /\ s.identity = r.identity /\ s.readers = r.readers
    <3>1. s \in Worker
      BY <1>0, FieldTypes
    <3> QED  BY <1>0, <3>1 DEF Worker
  <2>3. ~mixed => Current(s) /\ Reads(s)
    BY <1>0, <1>2, <2>2 DEF Current, Reads
  <2> QED  BY <1>0, <1>2, <2>1, <2>2, <2>3, WorkerMoves DEF Alive
<1>3. ASSUME NEW a \in {"dead", "head", "wait", "check", "readers", "run", "pass"}
      PROVE  LET s == [r EXCEPT !.at = a]
             IN /\ s.at = a /\ s.closed = r.closed /\ s.pending = r.pending /\ s.snapshot = r.snapshot
                /\ s.identity = r.identity /\ s.readers = r.readers
  BY <1>0 DEF Worker
<1>4. CASE Loop(w)
  BY <1>0, <1>1, <1>3, <1>4 DEF Loop, Current, Reads
<1>5. CASE TakePending(w)
  <2> DEFINE s == [r EXCEPT !.snapshot = r.pending, !.pending = NoAccount, !.busy = r.pending # NoAccount,
                            !.at = IF r.pending = NoAccount THEN "head" ELSE "check"]
  <2>1. worker' = [worker EXCEPT ![w] = s]
    BY <1>5 DEF TakePending
  <2>2. /\ s \in Worker /\ s.closed = r.closed /\ s.pending = NoAccount /\ s.snapshot = r.pending
        /\ s.identity = r.identity /\ s.readers = r.readers
        /\ s.at = IF r.pending = NoAccount THEN "head" ELSE "check"
    <3>1. (r.pending # NoAccount) \in BOOLEAN /\ (IF r.pending = NoAccount THEN "head" ELSE "check") \in {"head", "check"}
      OBVIOUS
    <3>2. s \in Worker
      BY <1>0, <3>1, Fields, FieldTypes
    <3> QED  BY <1>0, <3>2 DEF Worker
  <2>3. ~mixed => Current(s) /\ Reads(s)
    BY <1>0, <1>5, <2>2 DEF TakePending, Current, Reads
  <2> QED  BY <1>0, <1>5, <2>1, <2>2, <2>3, WorkerMoves DEF Alive, TakePending
<1>6. CASE CheckAccount(w)
  <2>1. CASE PassOver(w)
    BY <1>2, <1>6, <2>1 DEF CheckAccount
  <2>2. CASE MoveTo(w, "readers")
    BY <1>0, <1>1, <1>3, <1>6, <2>2 DEF CheckAccount, Current, Reads
  <2> QED  BY <1>6, <2>1, <2>2 DEF CheckAccount
<1>7. CASE MakeReaders(w)
  <2>1. CASE r.identity = r.snapshot /\ MoveTo(w, "run")
    BY <1>0, <1>1, <1>3, <1>7, <2>1 DEF MakeReaders, Current, Reads
  <2>2. CASE PassOver(w)
    BY <1>2, <1>7, <2>2 DEF MakeReaders
  <2>3. CASE worker' = [worker EXCEPT ![w].readers = account, ![w].identity = r.snapshot, ![w].at = "run"]
    <3> DEFINE s == [r EXCEPT !.readers = account, !.identity = r.snapshot, !.at = "run"]
    <3>1. worker' = [worker EXCEPT ![w] = s]
      BY <2>3
    <3>2. /\ s \in Worker /\ s.closed = r.closed /\ s.pending = r.pending /\ s.snapshot = r.snapshot
          /\ s.identity = r.snapshot /\ s.readers = account /\ s.at = "run"
      <4>1. s \in Worker
        BY <1>0, Fields, FieldTypes
      <4> QED  BY <1>0, <4>1 DEF Worker
    <3>3. ~mixed => Current(s) /\ Reads(s)
      BY <1>0, <1>7, <3>2 DEF MakeReaders, Current, Reads
    <3> QED  BY <1>0, <1>7, <3>1, <3>2, <3>3, WorkerMoves DEF Alive, MakeReaders
  <2> QED  BY <1>7, <2>1, <2>2, <2>3 DEF MakeReaders
<1>8. CASE RunPass(w)
  <2>1. CASE PassOver(w)
    BY <1>2, <1>8, <2>1 DEF RunPass
  <2>2. CASE ~Stopped(w) /\ MoveTo(w, "pass")
    BY <1>0, <1>1, <1>3, <1>8, <2>2 DEF RunPass, Stopped, Current, Reads
  <2> QED  BY <1>8, <2>1, <2>2 DEF RunPass
<1>9. CASE EndPass(w)
  BY <1>2, <1>9 DEF EndPass
<1> QED  BY <1>4, <1>5, <1>6, <1>7, <1>8, <1>9 DEF WorkerStep

LEMMA ResearchKeeps ==
  ASSUME ResearchInv, [ResearchNext]_researchVars
  PROVE  ResearchInv'
<1>1. CASE StartLoop \/ StopLoop \/ NextMinute \/ EndLoop \/ RekeyCheck
  BY <1>1, LoopSteps
<1>2. CASE StopResearch \/ RemoveStrategy
  BY <1>2, ClosingSteps
<1>3. CASE SubmitResearch \/ SaveAccount
  BY <1>3, SubmitResearchStep, SaveAccountStep
<1>4. ASSUME NEW w \in Workers, WorkerStep(w) PROVE ResearchInv'
  BY <1>4, WorkerSteps
<1>5. CASE UNCHANGED researchVars
  BY <1>5, WorkersAlone DEF researchVars, ResearchInv, ResearchTypeOK
<1> QED  BY <1>1, <1>2, <1>3, <1>4, <1>5 DEF ResearchNext

-----------------------------------------------------------------------------
\* What workers, registry and loop are to each other holds in every reachable state, for
\* any threads and accounts.
THEOREM ResearchInductive == ResearchSpec => []ResearchInv
<1>1. ResearchInv /\ [ResearchNext]_researchVars => ResearchInv'
  BY ResearchKeeps
<1> QED  BY ResearchStarts, <1>1, PTL DEF ResearchSpec

\* Type correctness, for every value of the constants.
THEOREM ResearchTypeCorrect == ResearchSpec => []ResearchTypeOK
<1>1. ResearchInv => ResearchTypeOK
  BY DEF ResearchInv
<1> QED  BY ResearchInductive, <1>1, PTL

\* No two workers of a user are alive (research_worker.py:87-92), however many stops,
\* starts and removals of strategies close them.
THEOREM OneWorkerHolds == ResearchSpec => []OneWorker
<1>1. ResearchInv => OneWorker
  BY DEF ResearchInv, OneWorker
<1> QED  BY ResearchInductive, <1>1, PTL

\* A pass reads with the keys of its account (research_worker.py:70-78), unless the account
\* was changed under a running loop.
THEOREM PassReadsItsAccountHolds == ResearchSpec => []PassReadsItsAccount
<1>1. ResearchInv => PassReadsItsAccount
  BY DEF ResearchInv, Reads, PassReadsItsAccount
<1> QED  BY ResearchInductive, <1>1, PTL

-----------------------------------------------------------------------------
(* Theorems about CircuitBreaker.  A thread whose failure was counted in   *)
(* this cooldown is about to open the circuit, or rests behind an open one *)
(* (Waits): it cannot fail again before time or a success clears the       *)
(* counts.                                                                 *)

Waits ==
  \A p \in Callers :
    failures[p] # 0 =>
      /\ failures[p] = 1
      /\ get[p].at = "opening" \/ (get[p] = Resting /\ openFor > 0)

BreakerInv ==
  /\ BreakerTypeOK
  /\ outage => failCount = Threshold
  /\ Waits

LEMMA InGet ==
  /\ Resting \in Get /\ Resting.at = "rest"
  /\ \A a \in {"ok", "down", "opening"} : [at |-> a] \in Get
  /\ \A n \in 1..Retries : [at |-> "sent", attempt |-> n] \in Get
  BY DEF Get, Resting

LEMMA Zeros == 0 \in 0..Threshold /\ 0 \in 0..Cooldown /\ [p \in Callers |-> 0] \in [Callers -> 0..2]
<1>1. 0 \in 0..Threshold /\ 0 \in 0..Cooldown
  BY BreakerAssumption
<1>2. 0 \in 0..2
  OBVIOUS
<1> QED  BY <1>1, <1>2

LEMMA SentCall ==
  ASSUME NEW g \in Get, g.at = "sent"
  PROVE  /\ g.attempt \in 1..Retries
         /\ g.attempt < Retries => [g EXCEPT !.attempt = @ + 1] \in Get
         /\ \A n \in 1..Retries : [g EXCEPT !.attempt = n].at = "sent"
<1>1. g \in [at : {"sent"}, attempt : 1..Retries]
  BY DEF Get, Resting
<1> QED  BY <1>1, BreakerAssumption DEF Get

\* A new process, whose circuit is closed and whose count is zero (common.py:101-106),
\* satisfies the invariant.
THEOREM BreakerStarts == BreakerInit => BreakerInv
<1> SUFFICES ASSUME BreakerInit PROVE BreakerInv
  OBVIOUS
<1>1. BreakerTypeOK
  BY InGet, Zeros DEF BreakerInit, BreakerTypeOK
<1>2. Waits
  BY DEF BreakerInit, Waits
<1> QED  BY <1>1, <1>2 DEF BreakerInit, BreakerInv

LEMMA CallAlpacaStep ==
  ASSUME BreakerInv, NEW p \in Callers, CallAlpaca(p)
  PROVE  BreakerInv'
<1>1. 1 \in 1..Retries
  BY BreakerAssumption
<1>2. BreakerTypeOK'
  BY <1>1, InGet DEF BreakerInv, BreakerTypeOK, CallAlpaca
<1>3. Waits'
  BY DEF BreakerInv, BreakerTypeOK, Waits, CallAlpaca, MayCall, Resting
<1> QED  BY <1>2, <1>3 DEF BreakerInv, CallAlpaca

LEMMA AttemptStep ==
  ASSUME BreakerInv, NEW p \in Callers, Attempt(p)
  PROVE  BreakerInv'
<1>1. get[p] \in Get /\ get[p].at = "sent"
  BY DEF BreakerInv, BreakerTypeOK, Attempt
<1>2. PICK g \in Get : get' = [get EXCEPT ![p] = g]
  BY <1>1, InGet, SentCall DEF Attempt
<1>3. BreakerTypeOK'
  BY <1>2 DEF BreakerInv, BreakerTypeOK, Attempt
<1>4. failures[p] = 0
  BY <1>1, InGet DEF BreakerInv, Waits
<1>5. Waits'
  BY <1>2, <1>4 DEF BreakerInv, BreakerTypeOK, Waits, Attempt
<1> QED  BY <1>3, <1>5 DEF BreakerInv, Attempt

LEMMA RecordSuccessStep ==
  ASSUME BreakerInv, NEW p \in Callers, RecordSuccess(p)
  PROVE  BreakerInv'
<1>1. BreakerTypeOK'
  BY InGet, Zeros DEF BreakerInv, BreakerTypeOK, RecordSuccess, NoFailures
<1>2. Waits'
  BY DEF Waits, RecordSuccess, NoFailures
<1> QED  BY <1>1, <1>2 DEF BreakerInv, RecordSuccess

LEMMA RecordFailureStep ==
  ASSUME BreakerInv, NEW p \in Callers, RecordFailure(p)
  PROVE  BreakerInv'
<1> USE BreakerAssumption
<1>1. Counted \in 1..Threshold /\ (outage => Counted = Threshold)
  BY DEF BreakerInv, BreakerTypeOK, Counted
<1>2. failures[p] = 0
  BY InGet DEF BreakerInv, Waits, RecordFailure
<1>3. BreakerTypeOK'
  BY <1>1, <1>2, InGet DEF BreakerInv, BreakerTypeOK, RecordFailure
<1>4. (outage => failCount = Threshold)'
  BY <1>1 DEF RecordFailure
<1>5. Waits'
  <2> SUFFICES ASSUME NEW q \in Callers, failures'[q] # 0
               PROVE  failures'[q] = 1 /\ (get'[q].at = "opening" \/ (get'[q] = Resting /\ openFor' > 0))
    BY DEF Waits
  <2>1. CASE q = p
    BY <2>1, <1>1, <1>2 DEF BreakerInv, BreakerTypeOK, RecordFailure
  <2>2. CASE q # p
    BY <2>2 DEF BreakerInv, BreakerTypeOK, Waits, RecordFailure
  <2> QED  BY <2>1, <2>2
<1> QED  BY <1>3, <1>4, <1>5 DEF BreakerInv

LEMMA OpenCircuitStep ==
  ASSUME BreakerInv, NEW p \in Callers, OpenCircuit(p)
  PROVE  BreakerInv'
<1>1. BreakerTypeOK'
  BY InGet, BreakerAssumption DEF BreakerInv, BreakerTypeOK, OpenCircuit
<1>2. Waits'
  BY BreakerAssumption DEF BreakerInv, BreakerTypeOK, Waits, OpenCircuit
<1> QED  BY <1>1, <1>2 DEF BreakerInv, OpenCircuit

LEMMA PassTimeStep ==
  ASSUME BreakerInv, PassTime
  PROVE  BreakerInv'
<1>1. BreakerTypeOK'
  BY BreakerAssumption DEF BreakerInv, BreakerTypeOK, PassTime, NoFailures
<1>2. Waits'
  BY BreakerAssumption DEF BreakerInv, BreakerTypeOK, Waits, PassTime, NoFailures
<1> QED  BY <1>1, <1>2 DEF BreakerInv, PassTime

LEMMA BreakerKeeps ==
  ASSUME BreakerInv, [BreakerNext]_breakerVars
  PROVE  BreakerInv'
<1>1. CASE PassTime
  BY <1>1, PassTimeStep
<1>2. ASSUME NEW p \in Callers, BreakerStep(p) PROVE BreakerInv'
  BY <1>2, CallAlpacaStep, AttemptStep, RecordSuccessStep, RecordFailureStep, OpenCircuitStep
  DEF BreakerStep
<1>3. CASE UNCHANGED breakerVars
  BY <1>3 DEF breakerVars, BreakerInv, BreakerTypeOK, Waits
<1> QED  BY <1>1, <1>2, <1>3 DEF BreakerNext

\* What makes a second failure in one cooldown impossible holds in every reachable
\* state, for any threads, threshold, cooldown and number of retries.
THEOREM BreakerInductive == BreakerSpec => []BreakerInv
<1>1. BreakerInv /\ [BreakerNext]_breakerVars => BreakerInv'
  BY BreakerKeeps
<1> QED  BY BreakerStarts, <1>1, PTL DEF BreakerSpec

\* Type correctness, for every value of the constants.
THEOREM BreakerTypeCorrect == BreakerSpec => []BreakerTypeOK
<1>1. BreakerInv => BreakerTypeOK
  BY DEF BreakerInv
<1> QED  BY BreakerInductive, <1>1, PTL

\* In an outage no thread waits for the network twice in one cooldown (common.py:126-130),
\* though counter and open-until time are globals that every thread writes.
THEOREM OneFailurePerCooldownHolds == BreakerSpec => []OneFailurePerCooldown
<1>1. BreakerInv => OneFailurePerCooldown
  <2> SUFFICES ASSUME BreakerInv, NEW p \in Callers PROVE failures[p] <= 1
    BY DEF OneFailurePerCooldown
  <2>1. failures[p] = 0 \/ failures[p] = 1
    BY DEF BreakerInv, Waits
  <2> QED  BY <2>1
<1> QED  BY BreakerInductive, <1>1, PTL

-----------------------------------------------------------------------------
(* Theorems about SettingsStore.  Between its read and its write a thread  *)
(* that changes the file under the lock holds the lock, and what it is     *)
(* about to write is made of the file as it still is, unless its read      *)
(* failed (Locked): its write adds the decision to the keys and leaves the *)
(* others alone.                                                           *)

\* What a thread has read and is about to write.
LockedWriting ==
  [at : {"locked"}, key : Keys, pairs : SUBSET Pairs, on : BOOLEAN, updates : Files, read : BOOLEAN]
PageWriting == [at : {"page"}, updates : Files]
Writing == {NotWriting} \cup LockedWriting \cup PageWriting

Stored ==
  /\ file \in Files /\ holder \in Writers \cup {Nobody}
  /\ decided \in [Keys -> SUBSET Pairs]
  /\ writing \in [Writers -> Writing]

Locked ==
  \A t \in Writers : writing[t].at = "locked" =>
    /\ holder = t
    /\ writing[t].read =>
         writing[t].updates = UpdatesFor(file, writing[t].key, writing[t].pairs, writing[t].on)

SettingsInv == Stored /\ Locked /\ DecisionsAddUp

-----------------------------------------------------------------------------
(* The operators. *)

LEMMA DefaultsType == Defaults \in Files
  BY DEF Defaults, Files

LEMMA PairsType ==
  ASSUME NEW f \in Files, NEW k \in Keys
  PROVE  PairsOf(f, k) \in SUBSET Pairs
  BY DEF Files, PairsOf

LEMMA ChangedType ==
  ASSUME NEW xs \in SUBSET Pairs, NEW qs \in SUBSET Pairs, NEW on
  PROVE  Changed(xs, qs, on) \in SUBSET Pairs
  BY DEF Changed

LEMMA UpdatesType ==
  ASSUME NEW f \in Files, NEW k \in Keys, NEW xs \in SUBSET Pairs, NEW on
  PROVE  UpdatesFor(f, k, xs, on) \in Files
  BY PairsType, ChangedType, DefaultsType DEF UpdatesFor, Files

LEMMA UpdatedType ==
  ASSUME NEW f \in Files, NEW u \in Files
  PROVE  Updated(f, u) \in Files
  BY DEF Updated, Files

LEMMA ReadType == \A f \in GetSettings : file \in Files => f \in Files
  BY DefaultsType DEF GetSettings

LEMMA WritingType ==
  /\ NotWriting \in Writing /\ NotWriting.at = "rest"
  /\ \A w \in Writing : w.at = "locked" => w \in LockedWriting
  /\ \A w \in Writing : w.at = "page" => w \in PageWriting
  /\ \A u \in Files : [at |-> "page", updates |-> u] \in Writing
  BY DEF Writing, NotWriting, LockedWriting, PageWriting

\* A write of updates that are made of the file changes their key as decided, and no other.
LEMMA UpdatesAddUp ==
  ASSUME NEW f \in Files, NEW k \in Keys, NEW xs \in SUBSET Pairs, NEW on, NEW j \in Keys
  PROVE  PairsOf(Updated(f, UpdatesFor(f, k, xs, on)), j) =
           IF j = k THEN Changed(PairsOf(f, k), xs, on) ELSE PairsOf(f, j)
<1>1. Changed(PairsOf(f, k), xs, on) \in SUBSET Pairs
  BY PairsType, ChangedType
<1>2. UpdatesFor(f, k, xs, on)[j] = IF j = k THEN Changed(PairsOf(f, k), xs, on) ELSE Absent
  BY DEF UpdatesFor, Defaults
<1>3. Changed(PairsOf(f, k), xs, on) # Absent
  BY <1>1, SettingsAssumption
<1>4. Updated(f, UpdatesFor(f, k, xs, on))[j] =
        IF j = k THEN Changed(PairsOf(f, k), xs, on) ELSE f[j]
  BY <1>2, <1>3 DEF Updated
<1> QED  BY <1>3, <1>4 DEF PairsOf

\* A write of nothing leaves every key as it is.
LEMMA NothingUpdated ==
  ASSUME NEW f \in Files
  PROVE  Updated(f, Defaults) = f
  BY DEF Updated, Defaults, Files

-----------------------------------------------------------------------------
(* The steps. *)

\* Files without a writer (atomic_files.py:18-19) satisfy the invariant.
THEOREM SettingsStarts == SettingsInit => SettingsInv
<1> SUFFICES ASSUME SettingsInit PROVE SettingsInv
  OBVIOUS
<1>1. Stored
  BY DefaultsType, WritingType DEF SettingsInit, Stored
<1>2. Locked
  BY WritingType DEF SettingsInit, Locked
<1>3. DecisionsAddUp
  BY DEF SettingsInit, DecisionsAddUp, PairsOf, Defaults
<1> QED  BY <1>1, <1>2, <1>3 DEF SettingsInv

\* A save that no decision of the thread that holds the lock is undone by.
LEMMA Saved ==
  ASSUME Stored, DecisionsAddUp, NEW u \in Files, NEW protected \in BOOLEAN,
         NEW decisions \in [Keys -> SUBSET Pairs], SaveSettings(u, protected, decisions),
         protected => \A k \in Keys : PairsOf(Updated(file, u), k) = decisions[k]
  PROVE  file' \in Files /\ decided' \in [Keys -> SUBSET Pairs] /\ DecisionsAddUp'
<1>1. PICK current \in GetSettings :
        /\ file' = Updated(current, u)
        /\ decided' = IF current = file /\ protected THEN decisions ELSE [k \in Keys |-> PairsOf(file', k)]
  BY DEF SaveSettings
<1>2. file' \in Files
  BY <1>1, ReadType, UpdatedType DEF Stored
<1>3. CASE current = file /\ protected
  BY <1>1, <1>2, <1>3 DEF DecisionsAddUp
<1>4. CASE ~(current = file /\ protected)
  BY <1>1, <1>2, <1>4, PairsType DEF DecisionsAddUp
<1> QED  BY <1>2, <1>3, <1>4

\* A read under the lock.
LEMMA ReadsUnderLock ==
  ASSUME SettingsInv, NEW t \in Writers, TakeLock(t), UNCHANGED <<file, decided>>,
         NEW f \in GetSettings, NEW k \in Keys, NEW xs \in SUBSET Pairs, NEW on \in BOOLEAN,
         ReadUnderLock(t, f, k, xs, on)
  PROVE  SettingsInv'
<1> DEFINE w == [at |-> "locked", key |-> k, pairs |-> xs, on |-> on,
                 updates |-> UpdatesFor(f, k, xs, on), read |-> f = file]
<1>1. UpdatesFor(f, k, xs, on) \in Files
  BY ReadType, UpdatesType DEF SettingsInv, Stored
<1>2. w \in LockedWriting
  BY <1>1 DEF LockedWriting
<1>3. writing' = [writing EXCEPT ![t] = w]
  BY DEF ReadUnderLock
<1>4. Stored'
  BY <1>2, <1>3 DEF SettingsInv, Stored, Writing, TakeLock
<1>5. Locked'
  <2> SUFFICES ASSUME NEW s \in Writers, writing'[s].at = "locked"
               PROVE  /\ holder' = s
                      /\ writing'[s].read => writing'[s].updates =
                           UpdatesFor(file', writing'[s].key, writing'[s].pairs, writing'[s].on)
    BY DEF Locked, UpdatesFor, PairsOf
  <2>1. CASE s = t
    BY <1>3, <2>1 DEF SettingsInv, Stored, TakeLock
  <2>2. CASE s # t
    BY <1>3, <2>2, SettingsAssumption DEF SettingsInv, Stored, Locked, TakeLock, Writers
  <2> QED  BY <2>1, <2>2
<1>6. DecisionsAddUp'
  BY DEF SettingsInv, DecisionsAddUp, PairsOf
<1> QED  BY <1>4, <1>5, <1>6 DEF SettingsInv

LEMMA LockedReadStep ==
  ASSUME SettingsInv, NEW t \in Writers, LockedRead(t)
  PROVE  SettingsInv'
<1>1. PICK f \in GetSettings, k \in {"retired", "paused"}, p \in Pairs, on \in BOOLEAN :
        ReadUnderLock(t, f, k, {p}, on)
  BY DEF LockedRead
<1>2. k \in Keys /\ {p} \in SUBSET Pairs
  BY DEF Keys
<1> QED  BY <1>1, <1>2, ReadsUnderLock DEF LockedRead

LEMMA GuardReadStep ==
  ASSUME SettingsInv, GuardRead
  PROVE  SettingsInv'
<1>1. ToPause \in SUBSET Pairs /\ "losing" \in Keys /\ file \in GetSettings /\ Guard \in Writers
  BY SettingsAssumption DEF ToPause, Keys, GetSettings, Writers
<1> QED  BY <1>1, ReadsUnderLock DEF GuardRead

\* A write by a thread that has the lock to itself.
LEMMA SavedUnderLock ==
  ASSUME Stored, Locked, NEW t \in Writers, DoneWriting(t), holder' \in Writers \cup {Nobody},
         holder' = holder \/ holder = t, file' \in Files, decided' \in [Keys -> SUBSET Pairs],
         file' = file \/ \A s \in Writers : writing[s].at = "locked" => s = t
  PROVE  Stored' /\ Locked'
<1>1. Stored'
  BY WritingType DEF Stored, DoneWriting
<1>2. Locked'
  <2> SUFFICES ASSUME NEW s \in Writers, writing'[s].at = "locked"
               PROVE  /\ holder' = s
                      /\ writing'[s].read => writing'[s].updates =
                           UpdatesFor(file', writing'[s].key, writing'[s].pairs, writing'[s].on)
    BY DEF Locked, UpdatesFor, PairsOf
  <2>1. s # t /\ writing'[s] = writing[s]
    BY WritingType DEF Stored, DoneWriting
  <2>2. file' = file /\ holder = s
    BY <2>1 DEF Locked
  <2> QED  BY <2>1, <2>2 DEF Locked
<1> QED  BY <1>1, <1>2

LEMMA LockedWriteStep ==
  ASSUME SettingsInv, NEW t \in Writers, LockedWrite(t)
  PROVE  SettingsInv'
<1> DEFINE w == writing[t]
           decisions == [decided EXCEPT ![w.key] = Changed(@, w.pairs, w.on)]
<1>1. w \in LockedWriting
  BY WritingType DEF SettingsInv, Stored, LockedWrite
<1>2. w.key \in Keys /\ w.pairs \in SUBSET Pairs /\ w.updates \in Files /\ w.read \in BOOLEAN
  BY <1>1 DEF LockedWriting
<1>3. decisions \in [Keys -> SUBSET Pairs]
  BY <1>2, ChangedType DEF SettingsInv, Stored
<1>4. w.read => \A k \in Keys : PairsOf(Updated(file, w.updates), k) = decisions[k]
  <2> SUFFICES ASSUME w.read, NEW k \in Keys PROVE PairsOf(Updated(file, w.updates), k) = decisions[k]
    OBVIOUS
  <2>1. w.updates = UpdatesFor(file, w.key, w.pairs, w.on)
    BY DEF SettingsInv, Locked, LockedWrite
  <2>2. PairsOf(Updated(file, w.updates), k) =
          IF k = w.key THEN Changed(PairsOf(file, w.key), w.pairs, w.on) ELSE PairsOf(file, k)
    BY <1>2, <2>1, UpdatesAddUp DEF SettingsInv, Stored
  <2> QED  BY <1>2, <2>2 DEF SettingsInv, Stored, DecisionsAddUp
<1>5. SaveSettings(w.updates, w.read, decisions)
  BY DEF LockedWrite
<1>6. file' \in Files /\ decided' \in [Keys -> SUBSET Pairs] /\ DecisionsAddUp'
  BY <1>2, <1>3, <1>4, <1>5, Saved DEF SettingsInv
<1>7. holder = t /\ holder' = Nobody /\ DoneWriting(t)
  BY DEF SettingsInv, Locked, LockedWrite
<1>8. \A s \in Writers : writing[s].at = "locked" => s = t
  BY <1>7 DEF SettingsInv, Locked
<1>9. Stored' /\ Locked'
  BY <1>6, <1>7, <1>8, SavedUnderLock DEF SettingsInv
<1> QED  BY <1>6, <1>9 DEF SettingsInv

LEMMA UnlockedReadStep ==
  ASSUME SettingsInv, NEW t \in Writers, UnlockedRead(t)
  PROVE  SettingsInv'
<1>1. PICK u \in Files : writing' = [writing EXCEPT ![t] = [at |-> "page", updates |-> u]]
  <2>1. PICK f \in GetSettings :
          \/ writing' = [writing EXCEPT ![t] = [at |-> "page", updates |-> f]]
          \/ \E p \in Pairs, on \in BOOLEAN :
               writing' = [writing EXCEPT ![t] = [at |-> "page", updates |-> UpdatesFor(f, "paused", {p}, on)]]
    BY DEF UnlockedRead
  <2>2. f \in Files
    BY ReadType DEF SettingsInv, Stored
  <2>3. \A p \in Pairs, on \in BOOLEAN : UpdatesFor(f, "paused", {p}, on) \in Files
    BY <2>2, UpdatesType DEF Keys
  <2> QED  BY <2>1, <2>2, <2>3
<1>2. [at |-> "page", updates |-> u].at # "locked"
  OBVIOUS
<1>3. Stored'
  BY <1>1, WritingType DEF SettingsInv, Stored, UnlockedRead
<1>4. Locked'
  BY <1>1, <1>2 DEF SettingsInv, Stored, Locked, UnlockedRead, UpdatesFor, PairsOf
<1>5. DecisionsAddUp'
  BY DEF SettingsInv, DecisionsAddUp, UnlockedRead, PairsOf
<1> QED  BY <1>3, <1>4, <1>5 DEF SettingsInv

\* Nobody is between a read and a write under the lock while the lock is free.
LEMMA LockIsFree ==
  ASSUME SettingsInv, holder = Nobody, NEW s \in Writers
  PROVE  writing[s].at # "locked"
  BY SettingsAssumption DEF SettingsInv, Locked, Writers

LEMMA UnlockedWriteStep ==
  ASSUME SettingsInv, NEW t \in Writers, UnlockedWrite(t)
  PROVE  SettingsInv'
<1>1. writing[t].updates \in Files
  BY WritingType DEF SettingsInv, Stored, UnlockedWrite, PageWriting
<1>2. file' \in Files /\ decided' \in [Keys -> SUBSET Pairs] /\ DecisionsAddUp'
  BY <1>1, Saved DEF SettingsInv, Stored, UnlockedWrite
<1>3. Stored' /\ Locked'
  BY <1>2, LockIsFree, SavedUnderLock DEF SettingsInv, Stored, UnlockedWrite
<1> QED  BY <1>2, <1>3 DEF SettingsInv

LEMMA SaveOtherStep ==
  ASSUME SettingsInv, SaveOther
  PROVE  SettingsInv'
<1>1. \A k \in Keys : PairsOf(Updated(file, Defaults), k) = decided[k]
  BY NothingUpdated DEF SettingsInv, Stored, DecisionsAddUp
<1>2. file' \in Files /\ decided' \in [Keys -> SUBSET Pairs] /\ DecisionsAddUp'
  BY <1>1, DefaultsType, Saved DEF SettingsInv, Stored, SaveOther
<1>3. Stored'
  BY <1>2 DEF SettingsInv, Stored, SaveOther
<1>4. Locked'
  BY LockIsFree DEF Locked, SaveOther
<1> QED  BY <1>2, <1>3, <1>4 DEF SettingsInv

LEMMA GiveUpStep ==
  ASSUME SettingsInv, NEW t \in Writers, GiveUp(t)
  PROVE  SettingsInv'
<1>1. holder' \in Writers \cup {Nobody} /\ (holder' = holder \/ holder = t)
  BY DEF SettingsInv, Stored, GiveUp
<1>2. Stored' /\ Locked'
  BY <1>1, SavedUnderLock DEF SettingsInv, Stored, GiveUp
<1>3. DecisionsAddUp'
  BY DEF SettingsInv, DecisionsAddUp, GiveUp, PairsOf
<1> QED  BY <1>2, <1>3 DEF SettingsInv

LEMMA SettingsKeeps ==
  ASSUME SettingsInv, [SettingsNext]_settingsVars
  PROVE  SettingsInv'
<1>1. CASE GuardRead \/ SaveOther
  BY <1>1, GuardReadStep, SaveOtherStep
<1>2. ASSUME NEW t \in Writers,
             LockedRead(t) \/ LockedWrite(t) \/ UnlockedRead(t) \/ UnlockedWrite(t) \/ GiveUp(t)
      PROVE  SettingsInv'
  BY <1>2, LockedReadStep, LockedWriteStep, UnlockedReadStep, UnlockedWriteStep, GiveUpStep
<1>3. CASE UNCHANGED settingsVars
  BY <1>3 DEF settingsVars, SettingsInv, Stored, Locked, DecisionsAddUp, UpdatesFor, PairsOf
<1> QED  BY <1>1, <1>2, <1>3 DEF SettingsNext

-----------------------------------------------------------------------------
\* Who is about to write under the lock holds it, and writes what the file and the
\* decision make of each other: in every reachable state, for any requests, pairs and
\* losers, and whether reads of the file fail or not.
THEOREM SettingsInductive == SettingsSpec => []SettingsInv
<1>1. SettingsInv /\ [SettingsNext]_settingsVars => SettingsInv'
  BY SettingsKeeps
<1> QED  BY SettingsStarts, <1>1, PTL DEF SettingsSpec

\* Type correctness, for every value of the constants.
THEOREM SettingsTypeCorrect == SettingsSpec => []SettingsTypeOK
<1>1. SettingsInv => SettingsTypeOK
  BY DEF SettingsInv, Stored, SettingsTypeOK, Writing, LockedWriting, PageWriting
<1> QED  BY SettingsInductive, <1>1, PTL

\* Changes that are read and written under the lock of the file add up
\* (atomic_files.py:4-6), whatever other writers do, also where reads of the file fail.
THEOREM DecisionsAddUpHolds == SettingsSpec => []DecisionsAddUp
<1>1. SettingsInv => DecisionsAddUp
  BY DEF SettingsInv
<1> QED  BY SettingsInductive, <1>1, PTL

-----------------------------------------------------------------------------
(* Theorems about PositionExit.  A profit take is counted as soon as it is *)
(* on its way, not when it is booked: what is booked and what one order or *)
(* attempt may still add is half of the position at most (TakenCounted),   *)
(* and the generic manager sends its only one while the journal shows none *)
(* (OnceOnly).  Memory and file may forget, but they never keep a profit   *)
(* take as pending that they also show as done (NotAgain).                 *)

HalfCap == Larger(1, size \div 2)

TakesProfit == policy \in {"adaptive", "atr10"}

\* The books of a trade, the order on its way and the attempt nobody knows of.
Books ==
  /\ trade.contracts + trade.taken <= size
  /\ order # NoOrder => unresolved = NoAttempt
  /\ order.at = "sent" => order.qty <= trade.contracts
  /\ order.at = "answered" => order.sold <= order.qty
  /\ unresolved.sold <= trade.contracts
  /\ unresolved.kind = "hold" => unresolved = NoAttempt

\* Contracts that a profit take under way may still add to those taken.
TakenCounted ==
  /\ trade.taken <= HalfCap
  /\ order.at = "sent" /\ order.kind = "stage1" => trade.taken + order.qty <= HalfCap
  /\ unresolved.kind = "stage1" => trade.taken + unresolved.sold <= HalfCap

OnceOnly ==
  policy = "adaptive" =>
    /\ order.at = "sent" /\ order.kind = "stage1" => trade.taken = 0
    /\ unresolved.kind = "stage1" => trade.taken = 0

\* Nobody asks again for a profit take that is done.
NotAgain ==
  /\ ps.pending = "stage1" => TakesProfit /\ (policy = "adaptive" => ~ps.stage1_done)
  /\ saved.pending = "stage1" => TakesProfit /\ (policy = "adaptive" => ~saved.stage1_done)

ExitInv == ExitTypeOK /\ Books /\ TakenCounted /\ OnceOnly /\ NotAgain

-----------------------------------------------------------------------------
(* What a tick may send. *)

LEMMA Bounds ==
  ASSUME ExitAssumption, ExitTypeOK
  PROVE  /\ size \in Nat \ {0} /\ HalfCap \in Nat \ {0}
         /\ trade.contracts \in 0..size /\ trade.taken \in 0..size
         /\ PartialRemaining \in Nat /\ Half \in Nat
<1>1. size \in Nat \ {0} /\ trade.contracts \in 0..size /\ trade.taken \in 0..size
  BY DEF ExitAssumption, ExitTypeOK
<1>2. \A n \in Nat : n \div 2 \in Nat /\ 2 * (n \div 2) <= n
  OBVIOUS
<1>3. HalfCap \in Nat \ {0}
  BY <1>1, <1>2 DEF HalfCap, Larger
<1>4. PartialRemaining \in Nat
  BY <1>1, <1>2 DEF PartialRemaining, Larger
<1>5. Half \in Nat
  BY <1>1, <1>2, <1>4 DEF Half, Larger, Smaller
<1> QED
  BY <1>1, <1>3, <1>4, <1>5

\* Half of what is left now is half of the position at most.
LEMMA HalfCounts ==
  ASSUME ExitAssumption, ExitInv, Open, TakesProfit, policy = "adaptive" => trade.taken = 0
  PROVE  trade.taken + Half <= HalfCap
<1>1. /\ size \in Nat \ {0} /\ trade.contracts \in 0..size /\ trade.taken \in 0..size
      /\ trade.contracts + trade.taken <= size /\ trade.taken <= HalfCap
  BY Bounds DEF ExitInv, Books, TakenCounted
<1>2. \A m, n \in Nat : m <= n => m \div 2 <= n \div 2
  OBVIOUS
<1>3. (trade.contracts + trade.taken) \div 2 <= size \div 2 /\ trade.contracts \div 2 <= size \div 2
  BY <1>1, <1>2
<1>4. /\ size \div 2 \in Nat /\ trade.contracts \div 2 \in Nat
      /\ (trade.contracts + trade.taken) \div 2 \in Nat
  BY <1>1
<1>5. CASE policy = "adaptive"
  BY <1>1, <1>3, <1>4, <1>5 DEF Half, HalfCap, Larger
<1>6. CASE policy = "atr10"
  BY <1>1, <1>3, <1>4, <1>6 DEF Half, PartialRemaining, HalfCap, Larger, Smaller
<1> QED
  BY <1>5, <1>6 DEF TakesProfit

\* A position that was marked shows the profit takes of the journal.
LEMMA MarkedShows ==
  ASSUME ExitAssumption, ExitInv
  PROVE  /\ Marked \in PositionState
         /\ Marked.pending = "stage1" => TakesProfit /\ (policy = "adaptive" => ~Marked.stage1_done)
         /\ policy = "adaptive" /\ trade.taken > 0 => Marked.stage1_done
<1>1. ps \in PositionState /\ policy \in Policies /\ PartialRemaining \in Nat /\ trade.taken \in Nat
  BY Bounds DEF ExitInv, ExitTypeOK
<1>2. ps.pending = "stage1" => TakesProfit /\ (policy = "adaptive" => ~ps.stage1_done)
  BY DEF ExitInv, NotAgain
<1>3. CASE policy = "atr10"
  BY <1>1, <1>2, <1>3 DEF Marked, RestoreStage1, PositionState, Reasons, TakesProfit
<1>4. CASE policy # "atr10" /\ ~ps.stage1_done /\ trade.taken > 0
  BY <1>1, <1>2, <1>4 DEF Marked, RestoreStage1, PositionState, Reasons, TakesProfit
<1>5. CASE policy # "atr10" /\ ~(~ps.stage1_done /\ trade.taken > 0)
  BY <1>1, <1>2, <1>5 DEF Marked, RestoreStage1, PositionState, Reasons, TakesProfit
<1> QED
  BY <1>3, <1>4, <1>5

LEMMA DueProfit ==
  ASSUME ExitAssumption, ExitInv, NEW asked \in Asked(Marked)
  PROVE  /\ Resolved(Marked, asked) \in Reasons
         /\ Resolved(Marked, asked) = "stage1" =>
              TakesProfit /\ (policy = "adaptive" => ~Marked.stage1_done /\ trade.taken = 0)
<1>1. policy \in Policies /\ trade.taken \in Nat
  BY Bounds DEF ExitInv, ExitTypeOK
<1>2. asked \in Reasons /\ (asked = "stage1" => TakesProfit /\ (policy = "adaptive" => ~Marked.stage1_done))
  BY <1>1 DEF Asked, AdaptiveAsks, ResearchAsks, Policies, Reasons, TakesProfit
<1> QED
  BY <1>1, <1>2, MarkedShows DEF Resolved, PositionState

\* What is sent: all that is left, or a profit take that counts.
Sent ==
  \/ order' = NoOrder
  \/ /\ unresolved = NoAttempt
     /\ order' = [at |-> "sent", kind |-> "full", qty |-> trade.contracts]
  \/ /\ unresolved = NoAttempt /\ TakesProfit /\ (policy = "adaptive" => trade.taken = 0)
     /\ \E q \in 1..trade.contracts :
          trade.taken + q <= HalfCap /\ order' = [at |-> "sent", kind |-> "stage1", qty |-> q]

LEMMA ManageSends ==
  ASSUME ExitAssumption, ExitInv, NEW session \in BOOLEAN, NEW mark \in BOOLEAN, Manage(session, mark)
  PROVE  /\ Sent /\ giveback' \in {"no", "armed", "pending"}
         /\ ps' \in PositionState /\ saved' \in [pending : Reasons, stage1_done : BOOLEAN]
         /\ NotAgain'
<1>1. /\ giveback \in {"no", "armed", "pending"} /\ ps \in PositionState
      /\ saved \in [pending : Reasons, stage1_done : BOOLEAN]
      /\ policy' = policy /\ Open /\ NotAgain
      /\ TakesProfit' = TakesProfit
  BY DEF ExitInv, ExitTypeOK, Manage, TakesProfit
<1>2. CASE Liquidate
  <2>1. Sent /\ giveback' = giveback
    BY <1>2 DEF Liquidate, SellAll, Send, Sent
  <2>2. ps' \in PositionState /\ ps'.pending = "full"
    BY <1>1, <1>2 DEF Liquidate, PositionState, Reasons
  <2>3. /\ saved' \in [pending : Reasons, stage1_done : BOOLEAN]
        /\ saved'.pending = "full" \/ saved' = saved
    BY <1>1, <1>2 DEF Liquidate, Write, Reasons
  <2> QED
    BY <1>1, <2>1, <2>2, <2>3 DEF NotAgain
<1>3. CASE Evaluate
  <2>1. PICK asked \in Asked(Marked) :
          LET isDue == IF giveback' = "pending" THEN "full" ELSE Resolved(Marked, asked)
              q == [Marked EXCEPT !.pending = isDue]
          IN IF isDue = "stage1" /\ Half = 0
             THEN /\ ps' = [Marked EXCEPT !.pending = "hold"]
                  /\ Write(InFile(ps')) /\ order' = NoOrder
             ELSE /\ ps' = q
                  /\ Write(InFile(q))
                  /\ CASE isDue = "hold" -> order' = NoOrder
                       [] isDue = "full" -> SellAll("full")
                       [] isDue = "stage1" /\ Half >= trade.contracts -> SellAll("full")
                       [] OTHER -> Send("stage1", Half)
    BY <1>3 DEF Evaluate
  <2> DEFINE isDue == IF giveback' = "pending" THEN "full" ELSE Resolved(Marked, asked)
             next == IF isDue = "stage1" /\ Half = 0 THEN "hold" ELSE isDue
  <2>2. giveback' \in {"no", "armed", "pending"}
    BY <1>1, <1>3 DEF Evaluate, Giveback
  <2>3. /\ isDue \in Reasons
        /\ isDue = "stage1" => TakesProfit /\ (policy = "adaptive" => ~Marked.stage1_done /\ trade.taken = 0)
    BY DueProfit DEF Reasons
  <2>4. ps' = [Marked EXCEPT !.pending = next] /\ saved' \in {InFile(ps'), saved}
    BY <2>1 DEF Write
  <2>5. /\ ps' \in PositionState /\ ps'.pending = next /\ ps'.stage1_done = Marked.stage1_done
    BY <2>3, <2>4, MarkedShows DEF PositionState, Reasons
  <2>6. /\ InFile(ps') \in [pending : Reasons, stage1_done : BOOLEAN]
        /\ InFile(ps').pending = next /\ InFile(ps').stage1_done = Marked.stage1_done
    BY <2>5 DEF PositionState, InFile
  <2>7. saved' \in [pending : Reasons, stage1_done : BOOLEAN]
    BY <1>1, <2>4, <2>6
  <2>8. next = "stage1" => TakesProfit /\ (policy = "adaptive" => ~Marked.stage1_done)
    BY <2>3
  <2>9. NotAgain'
    BY <1>1, <2>4, <2>5, <2>6, <2>8 DEF NotAgain
  <2>10. Sent
    <3>1. \/ order' = NoOrder
          \/ SellAll("full")
          \/ isDue = "stage1" /\ Half # 0 /\ ~(Half >= trade.contracts) /\ Send("stage1", Half)
      BY <2>1, <2>3 DEF Reasons
    <3>2. CASE order' = NoOrder
      BY <3>2 DEF Sent
    <3>3. CASE SellAll("full")
      BY <3>3 DEF SellAll, Send, Sent
    <3>4. CASE isDue = "stage1" /\ Half # 0 /\ ~(Half >= trade.contracts) /\ Send("stage1", Half)
      <4>1. Half \in 1..trade.contracts
        BY <3>4, Bounds DEF ExitInv
      <4>2. trade.taken + Half <= HalfCap
        BY <1>1, <2>3, <3>4, HalfCounts
      <4> QED
        BY <2>3, <3>4, <4>1, <4>2 DEF Send, Sent
    <3> QED
      BY <3>1, <3>2, <3>3, <3>4
  <2> QED
    BY <2>2, <2>5, <2>7, <2>9, <2>10
<1> QED
  BY <1>2, <1>3 DEF Manage
-----------------------------------------------------------------------------
(* The invariant. *)

LEMMA ExitInitially ==
  ASSUME ExitAssumption, ExitInit
  PROVE  ExitInv
<1>1. size \in Nat \ {0} /\ size \div 2 \in Nat
  BY DEF ExitAssumption, ExitInit
<1>2. ExitTypeOK
  BY <1>1 DEF ExitAssumption, ExitInit, ExitTypeOK, PositionState, Forgotten, InFile, Reasons, NoOrder, NoAttempt
<1>3. Books
  BY <1>1 DEF ExitInit, Books, NoOrder, NoAttempt
<1>4. TakenCounted /\ OnceOnly
  BY <1>1 DEF ExitInit, TakenCounted, OnceOnly, HalfCap, Larger, NoOrder, NoAttempt
<1>5. NotAgain
  BY DEF ExitInit, NotAgain, Forgotten, InFile
<1> QED
  BY <1>2, <1>3, <1>4, <1>5 DEF ExitInv

\* A step that only sends.
LEMMA ManageStep ==
  ASSUME ExitAssumption, ExitInv, NEW session \in BOOLEAN, NEW mark \in BOOLEAN, Manage(session, mark)
  PROVE  ExitInv'
<1>1. /\ Sent /\ giveback' \in {"no", "armed", "pending"}
      /\ ps' \in PositionState /\ saved' \in [pending : Reasons, stage1_done : BOOLEAN]
      /\ NotAgain'
  BY ManageSends
<1>2. /\ UNCHANGED <<policy, size, age, trade, unresolved, restarts>> /\ Open
      /\ order = NoOrder /\ HalfCap' = HalfCap
  BY DEF Manage, HalfCap
<1>3. /\ ExitTypeOK /\ Books /\ TakenCounted /\ OnceOnly
      /\ trade.contracts \in 1..size /\ trade.taken \in 0..size /\ HalfCap \in Nat
      /\ size \in Nat
  BY <1>2, Bounds DEF ExitInv, Open
<1>4. CASE order' = NoOrder
  <2>1. ExitTypeOK'
    BY <1>1, <1>2, <1>3, <1>4 DEF ExitTypeOK
  <2>2. Books' /\ TakenCounted' /\ OnceOnly'
    BY <1>2, <1>3, <1>4 DEF Books, TakenCounted, OnceOnly
  <2> QED
    BY <1>1, <2>1, <2>2 DEF ExitInv
<1>5. CASE unresolved = NoAttempt /\ order' = [at |-> "sent", kind |-> "full", qty |-> trade.contracts]
  <2>1. ExitTypeOK'
    BY <1>1, <1>2, <1>3, <1>5 DEF ExitTypeOK
  <2>2. Books' /\ TakenCounted' /\ OnceOnly'
    BY <1>2, <1>3, <1>5 DEF Books, TakenCounted, OnceOnly
  <2> QED
    BY <1>1, <2>1, <2>2 DEF ExitInv
<1>6. ASSUME unresolved = NoAttempt, policy = "adaptive" => trade.taken = 0,
             NEW q \in 1..trade.contracts, trade.taken + q <= HalfCap,
             order' = [at |-> "sent", kind |-> "stage1", qty |-> q]
      PROVE  ExitInv'
  <2>1. ExitTypeOK'
    BY <1>1, <1>2, <1>3, <1>6 DEF ExitTypeOK
  <2>2. Books' /\ TakenCounted' /\ OnceOnly'
    BY <1>2, <1>3, <1>6 DEF Books, TakenCounted, OnceOnly
  <2> QED
    BY <1>1, <2>1, <2>2 DEF ExitInv
<1> QED
  BY <1>1, <1>4, <1>5, <1>6 DEF Sent

\* What of the state a step about the order starts from.
LEMMA OrderFacts ==
  ASSUME ExitAssumption, ExitInv
  PROVE  /\ size \in Nat /\ HalfCap \in Nat
         /\ trade \in [contracts : 0..size, taken : 0..size]
         /\ trade.contracts + trade.taken <= size
         /\ order.at = "sent" => /\ order.kind \in {"stage1", "full"} /\ order.qty \in 1..trade.contracts
                                 /\ unresolved = NoAttempt
         /\ order.at = "answered" => /\ order.kind \in {"stage1", "full"} /\ order.qty \in 1..size
                                     /\ order.sold \in 0..order.qty
         /\ unresolved.kind \in Reasons /\ unresolved.sold \in 0..trade.contracts
BY Bounds DEF ExitInv, ExitTypeOK, Books, NoOrder

LEMMA AnswerStep ==
  ASSUME ExitAssumption, ExitInv, NEW n \in 0..size, Answer(n)
  PROVE  ExitInv'
<1>1. /\ order.at = "sent" /\ n \in 0..order.qty /\ trade' = Booked(order.kind, n)
      /\ order' = [at |-> "answered", kind |-> order.kind, qty |-> order.qty, sold |-> n]
      /\ UNCHANGED <<policy, size, age, giveback, ps, saved, unresolved, restarts>> /\ HalfCap' = HalfCap
  BY DEF Answer, HalfCap
<1>2. /\ trade'.contracts = trade.contracts - n
      /\ trade'.taken = trade.taken + (IF order.kind = "stage1" THEN n ELSE 0)
      /\ trade' \in [contracts : 0..size, taken : 0..size]
      /\ trade'.contracts + trade'.taken <= size
  BY <1>1, OrderFacts DEF Booked
<1>3. ExitTypeOK'
  BY <1>1, <1>2, OrderFacts DEF ExitInv, ExitTypeOK
<1>4. Books'
  BY <1>1, <1>2, OrderFacts DEF ExitInv, Books, NoAttempt
<1>5. TakenCounted' /\ OnceOnly'
  BY <1>1, <1>2, OrderFacts DEF ExitInv, TakenCounted, OnceOnly, NoAttempt
<1>6. NotAgain'
  BY <1>1 DEF ExitInv, NotAgain, TakesProfit
<1> QED
  BY <1>3, <1>4, <1>5, <1>6 DEF ExitInv

LEMMA NoAnswerStep ==
  ASSUME ExitAssumption, ExitInv, NEW n \in 0..size, NoAnswer(n)
  PROVE  ExitInv'
<1>1. /\ order.at = "sent" /\ n \in 0..order.qty
      /\ unresolved' = [kind |-> order.kind, sold |-> n] /\ order' = NoOrder
      /\ UNCHANGED <<policy, size, age, trade, giveback, ps, saved, restarts>> /\ HalfCap' = HalfCap
  BY DEF NoAnswer, HalfCap
<1>2. ExitTypeOK'
  BY <1>1, OrderFacts DEF ExitInv, ExitTypeOK, Reasons
<1>3. Books'
  BY <1>1, OrderFacts DEF ExitInv, Books, NoOrder
<1>4. TakenCounted' /\ OnceOnly'
  BY <1>1, OrderFacts DEF ExitInv, TakenCounted, OnceOnly, NoOrder
<1>5. NotAgain'
  BY <1>1 DEF ExitInv, NotAgain, TakesProfit
<1> QED
  BY <1>2, <1>3, <1>4, <1>5 DEF ExitInv

LEMMA ReportStep ==
  ASSUME ExitAssumption, ExitInv, Report
  PROVE  ExitInv'
<1>1. /\ order.at = "answered" /\ order' = NoOrder
      /\ UNCHANGED <<policy, size, age, trade, giveback, unresolved, restarts>> /\ HalfCap' = HalfCap
  BY DEF Report, HalfCap
<1>2. ps \in PositionState /\ saved \in [pending : Reasons, stage1_done : BOOLEAN] /\ NotAgain
  BY DEF ExitInv, ExitTypeOK
<1>3. CASE ~Open
  <2>1. ps' = Forgotten /\ saved' \in {InFile(Forgotten), saved}
    BY <1>3 DEF Report, Write
  <2>2. /\ Forgotten \in PositionState /\ InFile(Forgotten) \in [pending : Reasons, stage1_done : BOOLEAN]
        /\ Forgotten.pending = "hold" /\ InFile(Forgotten).pending = "hold"
    BY DEF Forgotten, InFile, PositionState, Reasons
  <2>3. NotAgain'
    BY <1>1, <1>2, <2>1, <2>2 DEF NotAgain, TakesProfit
  <2>4. ExitTypeOK'
    BY <1>1, <1>2, <2>1, <2>2 DEF ExitInv, ExitTypeOK
  <2>5. Books' /\ TakenCounted' /\ OnceOnly'
    BY <1>1, OrderFacts DEF ExitInv, Books, TakenCounted, OnceOnly, NoOrder
  <2> QED
    BY <2>3, <2>4, <2>5 DEF ExitInv
<1>4. CASE Open /\ order.kind = "stage1" /\ order.sold > 0
  <2>1. ps' = AfterStage1 /\ saved' \in {[saved EXCEPT !.pending = ps'.pending], saved}
    BY <1>4 DEF Report, Write
  <2>2. /\ ps' \in PositionState
        /\ ps'.pending = "stage1" => policy = "atr10"
        /\ ps'.pending \in {"stage1", "hold"}
    BY <1>1, <1>2, <2>1, OrderFacts DEF AfterStage1, PositionState, Reasons
  <2>3. /\ saved' \in [pending : Reasons, stage1_done : BOOLEAN]
        /\ saved'.pending = ps'.pending \/ saved' = saved
    BY <1>2, <2>1, <2>2 DEF Reasons
  <2>4. NotAgain'
    BY <1>1, <1>2, <2>2, <2>3 DEF NotAgain, TakesProfit
  <2>5. ExitTypeOK'
    BY <1>1, <2>2, <2>3 DEF ExitInv, ExitTypeOK, NoOrder
  <2>6. Books' /\ TakenCounted' /\ OnceOnly'
    BY <1>1, OrderFacts DEF ExitInv, Books, TakenCounted, OnceOnly, NoOrder
  <2> QED
    BY <2>4, <2>5, <2>6 DEF ExitInv
<1>5. CASE Open /\ ~(order.kind = "stage1" /\ order.sold > 0)
  <2>1. UNCHANGED <<ps, saved>>
    BY <1>5 DEF Report
  <2> QED
    BY <1>1, <2>1, OrderFacts DEF ExitInv, ExitTypeOK, Books, TakenCounted, OnceOnly, NotAgain, TakesProfit, NoOrder
<1> QED
  BY <1>3, <1>4, <1>5

LEMMA ReconcileStep ==
  ASSUME ExitAssumption, ExitInv, Reconcile
  PROVE  ExitInv'
<1>1. /\ unresolved # NoAttempt /\ order = NoOrder /\ unresolved' = NoAttempt
      /\ trade' = Booked(unresolved.kind, unresolved.sold)
      /\ UNCHANGED <<policy, size, age, giveback, ps, saved, order, restarts>> /\ HalfCap' = HalfCap
  BY DEF Reconcile, HalfCap
<1>2. /\ trade'.contracts = trade.contracts - unresolved.sold
      /\ trade'.taken = trade.taken + (IF unresolved.kind = "stage1" THEN unresolved.sold ELSE 0)
      /\ trade' \in [contracts : 0..size, taken : 0..size]
      /\ trade'.contracts + trade'.taken <= size
  BY <1>1, OrderFacts DEF Booked
<1>3. ExitTypeOK'
  BY <1>1, <1>2, OrderFacts DEF ExitInv, ExitTypeOK, NoAttempt, Reasons
<1>4. Books'
  BY <1>1, <1>2, OrderFacts DEF ExitInv, Books, NoAttempt, NoOrder
<1>5. TakenCounted' /\ OnceOnly'
  BY <1>1, <1>2, OrderFacts DEF ExitInv, TakenCounted, OnceOnly, NoAttempt, NoOrder
<1>6. NotAgain'
  BY <1>1 DEF ExitInv, NotAgain, TakesProfit
<1> QED
  BY <1>3, <1>4, <1>5, <1>6 DEF ExitInv

LEMMA RestartStep ==
  ASSUME ExitAssumption, ExitInv, Restart
  PROVE  ExitInv'
<1>1. /\ restarts < MaxRestarts /\ restarts' = restarts + 1 /\ order' = NoOrder
      /\ ps' = [Forgotten EXCEPT !.pending = saved.pending, !.stage1_done = saved.stage1_done]
      /\ UNCHANGED <<policy, size, age, trade, giveback, saved>> /\ HalfCap' = HalfCap
  BY DEF Restart, HalfCap
<1>2. saved \in [pending : Reasons, stage1_done : BOOLEAN] /\ restarts \in 0..MaxRestarts /\ MaxRestarts \in Nat
  BY DEF ExitInv, ExitTypeOK, ExitAssumption
<1>3. /\ ps' \in PositionState /\ restarts' \in 0..MaxRestarts
      /\ ps'.pending = saved.pending /\ ps'.stage1_done = saved.stage1_done
  <2>1. ps' = [pending |-> saved.pending, stage1_done |-> saved.stage1_done, floor |-> FALSE, priced |-> FALSE]
    BY <1>1 DEF Forgotten
  <2>2. restarts' \in 0..MaxRestarts
    BY <1>1, <1>2
  <2>3. ps' \in PositionState
    BY <1>2, <2>1 DEF PositionState
  <2> QED
    BY <2>1, <2>2, <2>3
<1>4. NotAgain'
  BY <1>1, <1>3 DEF ExitInv, NotAgain, TakesProfit
<1>5. CASE order.at # "sent" /\ UNCHANGED unresolved
  <2>1. ExitTypeOK'
    BY <1>1, <1>3, <1>5 DEF ExitInv, ExitTypeOK
  <2>2. Books' /\ TakenCounted' /\ OnceOnly'
    BY <1>1, <1>5, OrderFacts DEF ExitInv, Books, TakenCounted, OnceOnly, NoOrder
  <2> QED
    BY <1>4, <2>1, <2>2 DEF ExitInv
<1>6. ASSUME order.at = "sent", NEW n \in 0..order.qty, unresolved' = [kind |-> order.kind, sold |-> n]
      PROVE  ExitInv'
  <2>1. ExitTypeOK'
    BY <1>1, <1>3, <1>6, OrderFacts DEF ExitInv, ExitTypeOK, Reasons
  <2>2. Books' /\ TakenCounted' /\ OnceOnly'
    BY <1>1, <1>6, OrderFacts DEF ExitInv, Books, TakenCounted, OnceOnly, NoOrder
  <2> QED
    BY <1>4, <2>1, <2>2 DEF ExitInv
<1> QED
  BY <1>5, <1>6 DEF Restart

LEMMA ExitStep ==
  ASSUME ExitAssumption, ExitInv, [ExitNext]_exitVars
  PROVE  ExitInv'
<1>1. ASSUME NEW session \in BOOLEAN, NEW mark \in BOOLEAN, Manage(session, mark)
      PROVE  ExitInv'
  BY <1>1, ManageStep
<1>2. ASSUME NEW n \in 0..size, Answer(n) \/ NoAnswer(n)
      PROVE  ExitInv'
  BY <1>2, AnswerStep, NoAnswerStep
<1>3. CASE Report \/ Reconcile \/ Restart
  BY <1>3, ReportStep, ReconcileStep, RestartStep
<1>4. CASE TradeAges
  <2>1. UNCHANGED <<policy, size, trade, giveback, ps, saved, order, unresolved, restarts>> /\ age' \in 0..2
    BY <1>4 DEF TradeAges, ExitInv, ExitTypeOK
  <2> QED
    BY <2>1 DEF ExitInv, ExitTypeOK, Books, TakenCounted, OnceOnly, NotAgain, TakesProfit, HalfCap
<1>5. CASE Heartbeat
  <2>1. /\ UNCHANGED <<policy, size, age, trade, giveback, ps, order, unresolved, restarts>>
        /\ saved' = InFile(Forgotten)
    BY <1>5 DEF Heartbeat
  <2>2. saved' \in [pending : Reasons, stage1_done : BOOLEAN] /\ saved'.pending = "hold"
    BY <2>1 DEF InFile, Forgotten, Reasons
  <2> QED
    BY <2>1, <2>2 DEF ExitInv, ExitTypeOK, Books, TakenCounted, OnceOnly, NotAgain, TakesProfit, HalfCap
<1>6. CASE UNCHANGED exitVars
  BY <1>6 DEF exitVars, ExitInv, ExitTypeOK, Books, TakenCounted, OnceOnly, NotAgain, TakesProfit, HalfCap
<1> QED
  BY <1>1, <1>2, <1>3, <1>4, <1>5, <1>6 DEF ExitNext

\* Every reachable state satisfies the invariant, for all sizes and any number
\* of restarts (_manage_open_position, _close_position, restore_stage1).
THEOREM ExitInductive == ExitSpec => []ExitInv
<1>1. ExitInit => ExitInv
  BY ExitInitially, ExitAssumption
<1>2. ExitInv /\ [ExitNext]_exitVars => ExitInv'
  BY ExitStep, ExitAssumption
<1> QED
  BY <1>1, <1>2, PTL DEF ExitSpec

\* The variables keep their types.
THEOREM ExitTypeCorrect == ExitSpec => []ExitTypeOK
BY ExitInductive, PTL DEF ExitInv

\* Profit is taken on half of the position at most, whatever is sold in part,
\* found by a reconciliation, or forgotten in a restart before the file is
\* written.
THEOREM HalfAtMostHolds == ExitSpec => []HalfAtMost
<1>1. ExitInv => HalfAtMost
  BY DEF ExitInv, TakenCounted, HalfAtMost, HalfCap
<1> QED
  BY <1>1, ExitInductive, PTL

-----------------------------------------------------------------------------
(* MCParts: the part that moves keeps its invariant, and the others rest   *)
(* in states that satisfy theirs.                                          *)

PartsInv ==
  /\ focus \in {"research", "breaker", "exit", "settings", "evidence"}
  /\ ResearchInv /\ BreakerInv /\ ExitInv /\ SettingsInv /\ EvidenceInv

LEMMA ClosedExitOK == ClosedExit => ExitInv
<1> SUFFICES ASSUME ClosedExit PROVE ExitInv
  OBVIOUS
<1>1. size \in Nat \ {0} /\ 0 \in 0..size /\ 0 \in 0..MaxRestarts /\ HalfCap \in Nat
  BY ExitAssumption DEF ExitAssumption, ClosedExit, HalfCap, Larger
<1>2. /\ Forgotten \in PositionState /\ InFile(Forgotten) \in [pending : Reasons, stage1_done : BOOLEAN]
      /\ Forgotten.pending = "hold" /\ InFile(Forgotten).pending = "hold"
      /\ NoAttempt \in [kind : Reasons, sold : 0..size] /\ NoAttempt.kind = "hold" /\ NoAttempt.sold = 0
      /\ NoOrder.at = "none"
  BY <1>1 DEF Forgotten, PositionState, InFile, Reasons, NoAttempt, NoOrder
<1>3. ExitTypeOK
  BY <1>1, <1>2 DEF ClosedExit, ExitTypeOK
<1>4. Books /\ TakenCounted /\ OnceOnly /\ NotAgain
  BY <1>1, <1>2 DEF ClosedExit, Books, TakenCounted, OnceOnly, NotAgain
<1> QED
  BY <1>3, <1>4 DEF ExitInv

LEMMA PausedSettingsOK == PausedSettings => SettingsInv
<1> SUFFICES ASSUME PausedSettings PROVE SettingsInv
  OBVIOUS
<1>1. Losers \in SUBSET Pairs /\ "losing" \in Keys
  BY SettingsAssumption DEF SettingsAssumption, Keys
<1>2. file \in Files
  BY <1>1, DefaultsType, UpdatesType DEF PausedSettings
<1>3. Stored /\ Locked
  BY <1>2, WritingType, PairsType DEF PausedSettings, Stored, Locked
<1>4. DecisionsAddUp
  BY DEF PausedSettings, DecisionsAddUp
<1> QED
  BY <1>3, <1>4 DEF SettingsInv

LEMMA NoPlaysOK == NoPlays => EvidenceInv
<1> SUFFICES ASSUME NoPlays PROVE EvidenceInv
  OBVIOUS
<1>1. Setting
  <2>1. NextDay \in Minutes \ {0} /\ 0 \in 0..Faults /\ Cap \in 1..Cap /\ Cap + 1 \in 1..(Cap + 1)
    BY Constants, EvidenceAssumption DEF Minutes
  <2>2. feed \in [hole : 1..(Cap + 1), forming : BOOLEAN]
    BY <2>1 DEF NoPlays
  <2> QED
    BY <2>1, <2>2 DEF NoPlays, Setting
<1>2. evidence \in [Plays -> LedgerRow] /\ \A p \in Plays : RowOK(p, evidence[p], shared)
  BY FreshRows DEF NoPlays, RowOK
<1>3. /\ DOMAIN observer = Observers /\ observer = [o \in Observers |-> observer[o]]
      /\ \A o \in Observers : observer[o] = Idle /\ observer[o].at = "idle"
  BY DEF NoPlays, Idle
<1>4. (\A o \in Observers : PassOK(observer[o], evidence, shared)) /\ Exclusive
  BY <1>3 DEF PassOK, Exclusive, InHand
<1>5. silence \in [Plays -> Nat] /\ \A p \in Plays : silence[p] <= MaxGap
  BY Constants, EvidenceAssumption DEF NoPlays
<1> QED
  BY <1>1, <1>2, <1>3, <1>4, <1>5 DEF EvidenceInv

LEMMA PartsBegin == Init => PartsInv
<1> SUFFICES ASSUME Init PROVE PartsInv
  OBVIOUS
<1>1. ResearchInv /\ BreakerInv
  BY ResearchStarts, BreakerStarts DEF Init
<1>2. ExitInv
  BY ClosedExitOK, ExitInitially, ExitAssumption DEF Init
<1>3. SettingsInv
  BY PausedSettingsOK, SettingsStarts DEF Init
<1>4. EvidenceInv
  BY NoPlaysOK, EvidenceBegins DEF Init, OnePlay
<1> QED
  BY <1>1, <1>2, <1>3, <1>4 DEF Init, PartsInv

LEMMA PartsStep ==
  ASSUME PartsInv, [Next]_partsVars
  PROVE  PartsInv'
<1>1. /\ focus' = focus
      /\ [ResearchNext]_researchVars /\ [BreakerNext]_breakerVars /\ [ExitNext]_exitVars
      /\ [SettingsNext]_settingsVars /\ [EvidenceNext]_evidenceVars
  BY DEF Next, partsVars
<1>2. ResearchInv' /\ BreakerInv'
  BY <1>1, ResearchKeeps, BreakerKeeps DEF PartsInv
<1>3. ExitInv' /\ SettingsInv'
  BY <1>1, ExitStep, ExitAssumption, SettingsKeeps DEF PartsInv
<1>4. EvidenceInv'
  BY <1>1, EvidenceStep DEF PartsInv, Onward
<1> QED
  BY <1>1, <1>2, <1>3, <1>4 DEF PartsInv

\* Side by side the parts keep the invariants that each of them keeps alone.
THEOREM PartsInductive == Spec => []PartsInv
<1>1. PartsInv /\ [Next]_partsVars => PartsInv'
  BY PartsStep
<1> QED
  BY PartsBegin, <1>1, PTL DEF Spec

\* The variables of all the parts keep their types, for every value of the constants.
THEOREM PartsTypeCorrect == Spec => []TypeOK
<1>1. ResearchInv => ResearchTypeOK
  BY DEF ResearchInv
<1>2. BreakerInv => BreakerTypeOK
  BY DEF BreakerInv
<1>3. ExitInv => ExitTypeOK
  BY DEF ExitInv
<1>4. SettingsInv => SettingsTypeOK
  BY DEF SettingsInv, Stored, SettingsTypeOK, Writing, LockedWriting, PageWriting
<1>5. EvidenceInv => EvidenceTypeOK
  BY EvidenceInvTypes
<1>6. PartsInv => TypeOK
  BY <1>1, <1>2, <1>3, <1>4, <1>5 DEF PartsInv, TypeOK
<1> QED
  BY PartsInductive, <1>6, PTL
=============================================================================
