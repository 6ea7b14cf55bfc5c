------------------------ MODULE BotLifecycle_proofs ------------------------
(***************************************************************************)
(* Theorems about BotLifecycle. What a thread holds follows from where it  *)
(* is: Moves lifts that to a step that takes and releases nothing, and     *)
(* each step that does has a lemma of its own.                             *)
(***************************************************************************)
EXTENDS BotLifecycle, TLAPS

\* A thread that moves without taking the lock or the registry.
LEMMA Moves ==
  ASSUME Control, NEW t \in Threads,
         \A s \in Threads : s # t => pc'[s] = pc[s],
         lock' = lock, registered' = registered,
         t \in Workers => /\ pc'[t] \in WorkerPlaces
                          /\ pc'[t] \in Inside => pc[t] \in Inside
                          /\ pc'[t] \in Known => pc[t] \in Known,
         t \in Requests => pc'[t] \in RequestPlaces \ Probing
  PROVE  Control'
  BY ThreadAssumption DEF Control, Threads

LEMMA NoFileType == NoFile \in FileType
  BY DEF NoFile, FileType

LEMMA SnapshotType == \A b, c \in BOOLEAN : Snapshot(b, c) \in FileType
  BY DEF Snapshot, FileType

LEMMA FieldsType ==
  ASSUME NEW f \in FileType, NEW b \in BOOLEAN
  PROVE  /\ f.running \in BOOLEAN /\ f.disabled \in BOOLEAN /\ f.latch \in BOOLEAN
         /\ [f EXCEPT !.running = b] \in FileType
         /\ [f EXCEPT !.latch = b] \in FileType
         /\ [f EXCEPT !.exists = TRUE] \in FileType
         /\ [f EXCEPT !.exists = TRUE, !.latch = b] \in FileType
         /\ [f EXCEPT !.running = FALSE, !.disabled = TRUE] \in FileType
  BY DEF FileType

LEMMA Announced ==
  ASSUME TypeOK, NEW file \in FileType, Announce(file)
  PROVE  saved' \in FileType /\ asked' \in {"none", "start", "run", "stop"}
  BY DEF TypeOK, Announce

\* A service without a loop, whose user has not asked for one, satisfies the invariant.
THEOREM InitHolds == Init => IInv
<1> SUFFICES ASSUME Init PROVE IInv
  OBVIOUS
<1>1. TypeOK
  BY NoFileType DEF Init, TypeOK, Threads, WorkerPlaces, RequestPlaces
<1>2. Control
  BY ThreadAssumption
  DEF Init, Control, Threads, WorkerPlaces, RequestPlaces, Inside, Known, Startup, Cycle,
      Ending, Probing
<1> QED  BY <1>1, <1>2 DEF IInv

----------------------------------------------------------------------------
(* Requests.                                                               *)

USE DEF At, Goto, Serve, Looping, memory, files, history, Startup, Cycle, Ending, Inside,
        Known, Probing, WorkerPlaces, RequestPlaces

LEMMA StartProbeStep ==
  ASSUME IInv, NEW r \in Requests, StartProbe(r)
  PROVE  IInv'
<1>1. TypeOK'
  BY DEF IInv, TypeOK, Threads, StartProbe
<1>2. Control'
  BY ThreadAssumption DEF IInv, TypeOK, Control, Threads, StartProbe
<1> QED  BY <1>1, <1>2 DEF IInv

LEMMA StartReleaseStep ==
  ASSUME IInv, NEW r \in Requests, StartRelease(r)
  PROVE  IInv'
<1>1. TypeOK'
  BY DEF IInv, TypeOK, Threads, StartRelease
<1>2. Control'
  BY ThreadAssumption DEF IInv, TypeOK, Control, Threads, StartRelease
<1> QED  BY <1>1, <1>2 DEF IInv

LEMMA StartSpawnStep ==
  ASSUME IInv, NEW r \in Requests, StartSpawn(r)
  PROVE  IInv'
<1>1. TypeOK'
  BY DEF IInv, TypeOK, Threads, StartSpawn
<1>2. Control'
  BY ThreadAssumption DEF IInv, TypeOK, Control, Threads, StartSpawn
<1> QED  BY <1>1, <1>2 DEF IInv

LEMMA StatusProbeStep ==
  ASSUME IInv, NEW r \in Requests, StatusProbe(r)
  PROVE  IInv'
<1>1. TypeOK'
  BY DEF IInv, TypeOK, Threads, StatusProbe
<1>2. Control'
  BY ThreadAssumption DEF IInv, TypeOK, Control, Threads, StatusProbe
<1> QED  BY <1>1, <1>2 DEF IInv

LEMMA StatusReleaseStep ==
  ASSUME IInv, NEW r \in Requests, StatusRelease(r)
  PROVE  IInv'
<1>1. TypeOK'
  BY DEF IInv, TypeOK, Threads, StatusRelease
<1>2. Control'
  BY ThreadAssumption DEF IInv, TypeOK, Control, Threads, StatusRelease
<1> QED  BY <1>1, <1>2 DEF IInv

LEMMA StopSignalStep ==
  ASSUME IInv, NEW r \in Requests, StopSignal(r)
  PROVE  IInv'
<1>1. TypeOK'
  BY DEF IInv, TypeOK, Threads, StopSignal
<1>2. Control'
  BY Moves, ThreadAssumption DEF IInv, TypeOK, Threads, StopSignal
<1> QED  BY <1>1, <1>2 DEF IInv

LEMMA StopReadStep ==
  ASSUME IInv, NEW r \in Requests, StopRead(r)
  PROVE  IInv'
<1>1. TypeOK'
  BY NoFileType DEF IInv, TypeOK, Threads, StopRead
<1>2. Control'
  BY Moves, ThreadAssumption DEF IInv, TypeOK, Threads, StopRead
<1> QED  BY <1>1, <1>2 DEF IInv

LEMMA StopWriteStep ==
  ASSUME IInv, NEW r \in Requests, StopWrite(r)
  PROVE  IInv'
<1>0. saved' \in FileType /\ kept' \in [Requests -> FileType]
  <2>1. kept[r] \in FileType /\ saved \in FileType
    BY DEF IInv, TypeOK
  <2>2. [kept[r] EXCEPT !.running = FALSE, !.disabled = TRUE] \in FileType
    BY <2>1, FieldsType
  <2>3. saved' \in FileType
    BY <2>1, <2>2 DEF StopWrite, Written
  <2>4. kept' \in [Requests -> FileType]
    BY NoFileType DEF IInv, TypeOK, StopWrite
  <2> QED  BY <2>3, <2>4
<1>1. TypeOK'
  BY <1>0 DEF IInv, TypeOK, Threads, StopWrite
<1>2. Control'
  BY Moves, ThreadAssumption DEF IInv, TypeOK, Threads, StopWrite, Written
<1> QED  BY <1>1, <1>2 DEF IInv

LEMMA RekeyCheckStep ==
  ASSUME IInv, NEW r \in Requests, RekeyCheck(r)
  PROVE  IInv'
<1>1. TypeOK'
  BY DEF IInv, TypeOK, Threads, RekeyCheck
<1>2. Control'
  BY Moves, ThreadAssumption DEF IInv, TypeOK, Threads, RekeyCheck
<1> QED  BY <1>1, <1>2 DEF IInv

LEMMA SaveKeysStep ==
  ASSUME IInv, NEW r \in Requests, SaveKeys(r)
  PROVE  IInv'
<1>1. TypeOK'
  BY DEF IInv, TypeOK, Threads, SaveKeys
<1>2. Control'
  BY Moves, ThreadAssumption DEF IInv, TypeOK, Threads, SaveKeys
<1> QED  BY <1>1, <1>2 DEF IInv

LEMMA RekeyReadStep ==
  ASSUME IInv, NEW r \in Requests, RekeyRead(r)
  PROVE  IInv'
<1>1. TypeOK'
  BY NoFileType DEF IInv, TypeOK, Threads, RekeyRead
<1>2. Control'
  BY Moves, ThreadAssumption DEF IInv, TypeOK, Threads, RekeyRead
<1> QED  BY <1>1, <1>2 DEF IInv

LEMMA RekeyWriteStep ==
  ASSUME IInv, NEW r \in Requests, RekeyWrite(r)
  PROVE  IInv'
<1>0. saved' \in FileType /\ kept' \in [Requests -> FileType]
  <2>1. kept[r] \in FileType /\ saved \in FileType
    BY DEF IInv, TypeOK
  <2>2. [kept[r] EXCEPT !.exists = TRUE] \in FileType
    BY <2>1, FieldsType
  <2>3. saved' \in FileType
    BY <2>1, <2>2 DEF RekeyWrite, Written
  <2>4. kept' \in [Requests -> FileType]
    BY NoFileType DEF IInv, TypeOK, RekeyWrite
  <2> QED  BY <2>3, <2>4
<1>1. TypeOK'
  BY <1>0 DEF IInv, TypeOK, Threads, RekeyWrite
<1>2. Control'
  BY Moves, ThreadAssumption DEF IInv, TypeOK, Threads, RekeyWrite, Written
<1> QED  BY <1>1, <1>2 DEF IInv

LEMMA ManualCloseStep ==
  ASSUME IInv, NEW r \in Requests, ManualClose(r)
  PROVE  IInv'
<1>1. TypeOK'
  BY FieldsType DEF IInv, TypeOK, Threads, ManualClose, Closed, Written, WithLatch
<1>2. Control'
  BY Moves, ThreadAssumption DEF IInv, TypeOK, Threads, ManualClose, Closed, Written, WithLatch
<1> QED  BY <1>1, <1>2 DEF IInv

LEMMA MaintainStep ==
  ASSUME IInv, NEW r \in Requests,
         NEW state \in {"off", "collect", "halt"}, Maintain(r, state)
  PROVE  IInv'
<1>1. TypeOK'
  BY DEF IInv, TypeOK, Threads, Maintain
<1>2. Control'
  BY Moves, ThreadAssumption DEF IInv, TypeOK, Threads, Maintain
<1> QED  BY <1>1, <1>2 DEF IInv

----------------------------------------------------------------------------
(* The loop.                                                               *)

LEMMA EnterStep ==
  ASSUME IInv, NEW w \in Workers, Enter(w)
  PROVE  IInv'
<1>1. TypeOK'
  BY DEF IInv, TypeOK, Threads, Enter
<1>2. Control'
  BY Moves, ThreadAssumption DEF IInv, TypeOK, Threads, Enter
<1> QED  BY <1>1, <1>2 DEF IInv

LEMMA AcquireStep ==
  ASSUME IInv, NEW w \in Workers, Acquire(w)
  PROVE  IInv'
<1>1. TypeOK'
  BY DEF IInv, TypeOK, Threads, Acquire
<1>2. Control'
  BY ThreadAssumption DEF IInv, TypeOK, Control, Threads, Acquire
<1> QED  BY <1>1, <1>2 DEF IInv

LEMMA TurnedAwayStep ==
  ASSUME IInv, NEW w \in Workers, TurnedAway(w)
  PROVE  IInv'
<1>1. TypeOK'
  BY DEF IInv, TypeOK, Threads, TurnedAway
<1>2. Control'
  BY Moves, ThreadAssumption DEF IInv, TypeOK, Threads, TurnedAway
<1> QED  BY <1>1, <1>2 DEF IInv

LEMMA RegisterStep ==
  ASSUME IInv, NEW w \in Workers, Register(w)
  PROVE  IInv'
<1>1. TypeOK'
  BY DEF IInv, TypeOK, Threads, Register
<1>2. Control'
  BY ThreadAssumption DEF IInv, TypeOK, Control, Threads, Register
<1> QED  BY <1>1, <1>2 DEF IInv

LEMMA ClearStopStep ==
  ASSUME IInv, NEW w \in Workers, ClearStop(w)
  PROVE  IInv'
<1>1. TypeOK'
  BY DEF IInv, TypeOK, Threads, ClearStop
<1>2. Control'
  BY Moves, ThreadAssumption DEF IInv, TypeOK, Threads, ClearStop
<1> QED  BY <1>1, <1>2 DEF IInv

LEMMA BeginFailsStep ==
  ASSUME IInv, NEW w \in Workers, BeginFails(w)
  PROVE  IInv'
<1>0. saved' \in FileType /\ asked' \in {"none", "start", "run", "stop"}
  BY SnapshotType DEF IInv, TypeOK, BeginFails
<1>1. TypeOK'
  BY <1>0 DEF IInv, TypeOK, Threads, BeginFails
<1>2. Control'
  BY Moves, ThreadAssumption DEF IInv, TypeOK, Threads, BeginFails
<1> QED  BY <1>1, <1>2 DEF IInv

LEMMA BeginStep ==
  ASSUME IInv, NEW w \in Workers, Begin(w)
  PROVE  IInv'
<1>1. TypeOK'
  BY FieldsType DEF IInv, TypeOK, Threads, Begin
<1>2. Control'
  BY Moves, ThreadAssumption DEF IInv, TypeOK, Threads, Begin
<1> QED  BY <1>1, <1>2 DEF IInv

LEMMA BeginLoopStep ==
  ASSUME IInv, NEW w \in Workers, BeginLoop(w)
  PROVE  IInv'
<1>0. saved' \in FileType /\ asked' \in {"none", "start", "run", "stop"}
  BY Announced, SnapshotType DEF IInv, TypeOK, BeginLoop
<1>1. TypeOK'
  BY <1>0 DEF IInv, TypeOK, Threads, BeginLoop
<1>2. Control'
  BY Moves, ThreadAssumption DEF IInv, TypeOK, Threads, BeginLoop, Announce
<1> QED  BY <1>1, <1>2 DEF IInv

LEMMA LoopHeadStep ==
  ASSUME IInv, NEW w \in Workers, LoopHead(w)
  PROVE  IInv'
<1>1. TypeOK'
  BY DEF IInv, TypeOK, Threads, LoopHead
<1>2. Control'
  BY Moves, ThreadAssumption DEF IInv, TypeOK, Threads, LoopHead
<1> QED  BY <1>1, <1>2 DEF IInv

LEMMA BeginTickStep ==
  ASSUME IInv, NEW w \in Workers, BeginTick(w)
  PROVE  IInv'
<1>1. TypeOK'
  BY DEF IInv, TypeOK, Threads, BeginTick
<1>2. Control'
  BY Moves, ThreadAssumption DEF IInv, TypeOK, Threads, BeginTick
<1> QED  BY <1>1, <1>2 DEF IInv

LEMMA EndBatchStep ==
  ASSUME IInv, NEW w \in Workers, EndBatch(w)
  PROVE  IInv'
<1>1. TypeOK'
  BY DEF IInv, TypeOK, Threads, EndBatch
<1>2. Control'
  BY Moves, ThreadAssumption DEF IInv, TypeOK, Threads, EndBatch
<1> QED  BY <1>1, <1>2 DEF IInv

LEMMA TickWriteStep ==
  ASSUME IInv, NEW w \in Workers, TickWrite(w)
  PROVE  IInv'
<1>0. saved' \in FileType /\ asked' \in {"none", "start", "run", "stop"}
  BY Announced, SnapshotType DEF IInv, TypeOK, TickWrite
<1>1. TypeOK'
  BY <1>0 DEF IInv, TypeOK, Threads, TickWrite
<1>2. Control'
  BY Moves, ThreadAssumption DEF IInv, TypeOK, Threads, TickWrite, Announce
<1> QED  BY <1>1, <1>2 DEF IInv

LEMMA SkipStep ==
  ASSUME IInv, NEW w \in Workers, Skip(w)
  PROVE  IInv'
<1>1. TypeOK'
  BY DEF IInv, TypeOK, Threads, Skip
<1>2. Control'
  BY Moves, ThreadAssumption DEF IInv, TypeOK, Threads, Skip
<1> QED  BY <1>1, <1>2 DEF IInv

LEMMA OpenTradeStep ==
  ASSUME IInv, NEW w \in Workers, OpenTrade(w)
  PROVE  IInv'
<1>1. TypeOK'
  BY FieldsType DEF IInv, TypeOK, Threads, OpenTrade
<1>2. Control'
  BY Moves, ThreadAssumption DEF IInv, TypeOK, Threads, OpenTrade
<1> QED  BY <1>1, <1>2 DEF IInv

LEMMA HoldStep ==
  ASSUME IInv, NEW w \in Workers, Hold(w)
  PROVE  IInv'
<1>1. TypeOK'
  BY FieldsType DEF IInv, TypeOK, Threads, Hold, Written, WithLatch
<1>2. Control'
  BY Moves, ThreadAssumption DEF IInv, TypeOK, Threads, Hold, Written, WithLatch
<1> QED  BY <1>1, <1>2 DEF IInv

LEMMA DecideStep ==
  ASSUME IInv, NEW w \in Workers, Decide(w)
  PROVE  IInv'
<1>1. TypeOK'
  BY FieldsType DEF IInv, TypeOK, Threads, Decide, Written, WithLatch
<1>2. Control'
  BY Moves, ThreadAssumption DEF IInv, TypeOK, Threads, Decide, Written, WithLatch
<1> QED  BY <1>1, <1>2 DEF IInv

LEMMA ExitConfirmedStep ==
  ASSUME IInv, NEW w \in Workers, ExitConfirmed(w)
  PROVE  IInv'
<1>1. TypeOK'
  BY FieldsType DEF IInv, TypeOK, Threads, ExitConfirmed, Written, WithLatch
<1>2. Control'
  BY Moves, ThreadAssumption DEF IInv, TypeOK, Threads, ExitConfirmed, Written, WithLatch
<1> QED  BY <1>1, <1>2 DEF IInv

LEMMA ExitUnconfirmedStep ==
  ASSUME IInv, NEW w \in Workers, ExitUnconfirmed(w)
  PROVE  IInv'
<1>1. TypeOK'
  BY DEF IInv, TypeOK, Threads, ExitUnconfirmed
<1>2. Control'
  BY Moves, ThreadAssumption DEF IInv, TypeOK, Threads, ExitUnconfirmed
<1> QED  BY <1>1, <1>2 DEF IInv

LEMMA FlattenStep ==
  ASSUME IInv, NEW w \in Workers, Flatten(w)
  PROVE  IInv'
<1>1. TypeOK'
  BY FieldsType DEF IInv, TypeOK, Threads, Flatten, Closed, Written, WithLatch
<1>2. Control'
  BY Moves, ThreadAssumption DEF IInv, TypeOK, Threads, Flatten, Closed, Written, WithLatch
<1> QED  BY <1>1, <1>2 DEF IInv

LEMMA CycleFailsStep ==
  ASSUME IInv, NEW w \in Workers, CycleFails(w)
  PROVE  IInv'
<1>0. saved' \in FileType /\ asked' \in {"none", "start", "run", "stop"}
  BY Announced, SnapshotType DEF IInv, TypeOK, CycleFails
<1>1. TypeOK'
  BY <1>0 DEF IInv, TypeOK, Threads, CycleFails
<1>2. Control'
  BY Moves, ThreadAssumption DEF IInv, TypeOK, Threads, CycleFails, Announce
<1> QED  BY <1>1, <1>2 DEF IInv

LEMMA UnregisterStep ==
  ASSUME IInv, NEW w \in Workers, Unregister(w)
  PROVE  IInv'
<1>1. TypeOK'
  BY DEF IInv, TypeOK, Threads, Unregister
<1>2. Control'
  BY ThreadAssumption DEF IInv, TypeOK, Control, Threads, Unregister
<1> QED  BY <1>1, <1>2 DEF IInv

LEMMA ReleaseStep ==
  ASSUME IInv, NEW w \in Workers, Release(w)
  PROVE  IInv'
<1>1. TypeOK'
  BY DEF IInv, TypeOK, Threads, Release
<1>2. Control'
  BY ThreadAssumption DEF IInv, TypeOK, Control, Threads, Release
<1> QED  BY <1>1, <1>2 DEF IInv

----------------------------------------------------------------------------
(* The service.                                                            *)

LEMMA ShutdownStep ==
  ASSUME IInv, Shutdown
  PROVE  IInv'
<1>1. TypeOK'
  BY DEF IInv, TypeOK, Threads, Shutdown
<1>2. Control'
  BY ThreadAssumption DEF IInv, TypeOK, Control, Threads, Shutdown
<1> QED  BY <1>1, <1>2 DEF IInv

LEMMA ExitStep ==
  ASSUME IInv, Exit
  PROVE  IInv'
<1>1. TypeOK'
  BY NoFileType DEF IInv, TypeOK, Threads, Exit
<1>2. Control'
  BY ThreadAssumption DEF IInv, TypeOK, Control, Threads, Exit
<1> QED  BY <1>1, <1>2 DEF IInv

LEMMA BootStep ==
  ASSUME IInv, Boot
  PROVE  IInv'
<1>1. TypeOK'
  BY DEF IInv, TypeOK, Threads, Boot, Resumable
<1>2. Control'
  BY ThreadAssumption DEF IInv, TypeOK, Control, Threads, Boot, Resumable
<1> QED  BY <1>1, <1>2 DEF IInv

LEMMA BootWithoutKeysStep ==
  ASSUME IInv, BootWithoutKeys
  PROVE  IInv'
<1>1. TypeOK'
  BY FieldsType DEF IInv, TypeOK, Threads, BootWithoutKeys, Written
<1>2. Control'
  BY ThreadAssumption DEF IInv, TypeOK, Control, Threads, BootWithoutKeys, Written
<1> QED  BY <1>1, <1>2 DEF IInv

----------------------------------------------------------------------------
(* The theorems.                                                           *)

\* The inductive invariant holds in every reachable state: every thread holds
\* what its place in run_trading_loop, start_bot or get_status says it holds.
THEOREM LifecycleInductive == Spec => []IInv
<1>1. IInv /\ [Next]_vars => IInv'
  <2> SUFFICES ASSUME IInv, [Next]_vars PROVE IInv'
    OBVIOUS
  <2>1. ASSUME NEW r \in Requests, Request(r) \/ Reply(r) PROVE IInv'
    BY <2>1, StartProbeStep, StartReleaseStep, StartSpawnStep, StatusProbeStep,
       StatusReleaseStep, StopSignalStep, StopReadStep, StopWriteStep, RekeyCheckStep,
       SaveKeysStep, RekeyReadStep, RekeyWriteStep, ManualCloseStep, MaintainStep
    DEF Request, Reply
  <2>2. ASSUME NEW w \in Workers, Step(w) PROVE IInv'
    <3>1. CASE StartUp(w)
      BY <3>1, EnterStep, AcquireStep, TurnedAwayStep, RegisterStep, ClearStopStep,
         BeginStep, BeginLoopStep
      DEF StartUp
    <3>2. CASE Run(w)
      BY <3>2, LoopHeadStep, BeginTickStep, EndBatchStep, TickWriteStep, SkipStep,
         OpenTradeStep, HoldStep, DecideStep, ExitConfirmedStep, ExitUnconfirmedStep,
         FlattenStep
      DEF Run
    <3> QED
      BY <2>2, <3>1, <3>2, BeginFailsStep, CycleFailsStep, UnregisterStep, ReleaseStep
      DEF Step, Fail
  <2>3. CASE Service
    BY <2>3, ShutdownStep, ExitStep, BootStep, BootWithoutKeysStep DEF Service
  <2>4. CASE UNCHANGED vars
    BY <2>4 DEF IInv, TypeOK, Control, vars
  <2> QED  BY <2>1, <2>2, <2>3, <2>4 DEF Next
<1> QED  BY InitHolds, <1>1, PTL DEF Spec

\* Type correctness, of the life cycle and of bot_state.json.
THEOREM TypeCorrect == Spec => []TypeOK
<1>1. IInv => TypeOK
  BY DEF IInv
<1> QED  BY LifecycleInductive, <1>1, PTL

\* There is at most one loop for the user, it holds the lock, and a shutdown finds
\* it registered (lifecycle.py:58-82, locks.py:35-46).
THEOREM LoopIsKnownHolds == Spec => []LoopIsKnown
<1>1. IInv => LoopIsKnown
  BY DEF IInv, Control, LoopIsKnown
<1> QED  BY LifecycleInductive, <1>1, PTL

----------------------------------------------------------------------------
(* Resuming. With one request at a time, and no change of credentials, what *)
(* a Stop will write it has said before, and no heartbeat contradicts a run.*)

OneAtATime == \A r, s \in Requests : r = s

Resumes ==
  /\ RunIsResumed
  /\ \A r \in Requests : /\ pc[r] \in {"stopping", "marking"} => asked = "stop"
                         /\ pc[r] \notin {"checking", "rekeying", "restating"}

\* A step of a loop that writes a snapshot of a running loop or leaves the two
\* flags as they are.
LEMMA LoopKeepsResumes ==
  ASSUME IInv, Resumes, NEW w \in Workers, NEW q, Goto(w, q),
         \/ asked' = asked
         \/ asked' = "run" /\ asked = "start"
         \/ asked' = "none" /\ asked # "stop",
         asked' = "run" => \/ saved'.running /\ ~saved'.disabled
                          \/ /\ asked = "run"
                             /\ saved'.running = saved.running
                             /\ saved'.disabled = saved.disabled
  PROVE  Resumes'
<1>1. \A r \in Requests : pc'[r] = pc[r]
  BY ThreadAssumption DEF IInv, TypeOK, Threads
<1> QED  BY <1>1 DEF Resumes, RunIsResumed

LEMMA AnnouncedResumes ==
  ASSUME Resumes, NEW latch \in BOOLEAN, Announce(Snapshot(TRUE, latch))
  PROVE  /\ asked' = asked \/ (asked' = "run" /\ asked = "start")
         /\ asked' = "run" => saved'.running /\ ~saved'.disabled
  BY DEF Announce, Snapshot, Resumes, RunIsResumed

LEMMA LatchKeepsFlags ==
  ASSUME TypeOK, NEW latch \in BOOLEAN, Written(WithLatch(latch))
  PROVE  saved'.running = saved.running /\ saved'.disabled = saved.disabled
  BY DEF TypeOK, Written, WithLatch, FileType

LEMMA RequestResumes ==
  ASSUME IInv, Resumes, ~Rekeying, OneAtATime,
         NEW r \in Requests, Request(r) \/ Reply(r)
  PROVE  Resumes'
<1> USE ThreadAssumption
<1>1. CASE StartProbe(r)
  BY <1>1 DEF StartProbe, Resumes, RunIsResumed, OneAtATime, IInv, TypeOK, Threads
<1>2. CASE StartRelease(r)
  BY <1>2 DEF StartRelease, Resumes, RunIsResumed, OneAtATime, IInv, TypeOK, Threads
<1>3. CASE StartSpawn(r)
  BY <1>3 DEF StartSpawn, Resumes, RunIsResumed, OneAtATime, IInv, TypeOK, Threads
<1>4. CASE StatusProbe(r)
  BY <1>4 DEF StatusProbe, Resumes, RunIsResumed, OneAtATime, IInv, TypeOK, Threads
<1>5. CASE StatusRelease(r)
  BY <1>5 DEF StatusRelease, Resumes, RunIsResumed, OneAtATime, IInv, TypeOK, Threads
<1>6. CASE StopSignal(r)
  BY <1>6 DEF StopSignal, Resumes, RunIsResumed, OneAtATime, IInv, TypeOK, Threads
<1>7. CASE StopRead(r)
  BY <1>7 DEF StopRead, Resumes, RunIsResumed, OneAtATime, IInv, TypeOK, Threads
<1>8. CASE StopWrite(r)
  BY <1>8 DEF StopWrite, Resumes, RunIsResumed, OneAtATime, IInv, TypeOK, Threads
<1>9. CASE \E state \in {"off", "collect", "halt"} : Maintain(r, state)
  BY <1>9 DEF Maintain, Resumes, RunIsResumed, OneAtATime, IInv, TypeOK, Threads
<1>10. CASE ManualClose(r)
  <2>1. saved'.running = saved.running /\ saved'.disabled = saved.disabled
    BY <1>10, LatchKeepsFlags DEF IInv, ManualClose, Closed
  <2> QED
    BY <2>1, <1>10
    DEF ManualClose, Closed, Resumes, RunIsResumed, OneAtATime, IInv, TypeOK, Threads
<1>11. ~RekeyCheck(r) /\ ~SaveKeys(r) /\ ~RekeyRead(r) /\ ~RekeyWrite(r)
  BY DEF Resumes, RekeyCheck, SaveKeys, RekeyRead, RekeyWrite
<1> QED
  BY <1>1, <1>2, <1>3, <1>4, <1>5, <1>6, <1>7, <1>8, <1>9, <1>10, <1>11 DEF Request, Reply

LEMMA LoopResumes ==
  ASSUME IInv, Resumes, NEW w \in Workers, Step(w)
  PROVE  Resumes'
<1>1. ASSUME NEW q, Goto(w, q), UNCHANGED <<saved, asked>> PROVE Resumes'
  <2>1. asked' = "run" => /\ asked = "run"
                          /\ saved'.running = saved.running
                          /\ saved'.disabled = saved.disabled
    BY <1>1
  <2> QED  BY <1>1, <2>1, LoopKeepsResumes
<1>2. ASSUME NEW q, NEW latch \in BOOLEAN, Goto(w, q), Announce(Snapshot(TRUE, latch))
      PROVE  Resumes'
  BY <1>2, AnnouncedResumes, LoopKeepsResumes
<1>3. ASSUME NEW q, NEW latch \in BOOLEAN, Goto(w, q), Written(WithLatch(latch)),
             asked' = asked
      PROVE  Resumes'
  <2>1. saved'.running = saved.running /\ saved'.disabled = saved.disabled
    BY <1>3, LatchKeepsFlags DEF IInv
  <2> QED  BY <1>3, <2>1, LoopKeepsResumes
<1>4. CASE StartUp(w)
  <2>1. CASE BeginLoop(w)
    BY <1>2, <2>1 DEF BeginLoop, IInv, TypeOK
  <2>2. CASE Enter(w) \/ Acquire(w) \/ TurnedAway(w) \/ Register(w) \/ ClearStop(w) \/ Begin(w)
    BY <1>1, <2>2 DEF Enter, Acquire, TurnedAway, Register, ClearStop, Begin
  <2> QED  BY <1>4, <2>1, <2>2 DEF StartUp
<1>5. CASE Run(w)
  <2>1. CASE LoopHead(w) \/ BeginTick(w) \/ EndBatch(w) \/ Skip(w) \/ ExitUnconfirmed(w)
    BY <1>1, <2>1 DEF LoopHead, BeginTick, EndBatch, Skip, ExitUnconfirmed
  <2>2. CASE TickWrite(w)
    BY <1>2, <2>2 DEF TickWrite
  <2>3. CASE OpenTrade(w)
    BY <2>3, LoopKeepsResumes DEF OpenTrade, IInv, TypeOK, FileType, Resumes, RunIsResumed
  <2>4. CASE Hold(w) \/ Decide(w) \/ ExitConfirmed(w) \/ Flatten(w)
    BY <1>3, <2>4 DEF Hold, Decide, ExitConfirmed, Flatten, Closed
  <2> QED  BY <1>5, <2>1, <2>2, <2>3, <2>4 DEF Run
<1>6. CASE BeginFails(w)
  <2>1. CASE UNCHANGED <<saved, asked>>
    BY <1>1, <1>6, <2>1 DEF BeginFails
  <2>2. CASE asked' = IF asked = "stop" THEN "stop" ELSE "none"
    BY <1>6, <2>2, LoopKeepsResumes DEF BeginFails
  <2> QED  BY <1>6, <2>1, <2>2 DEF BeginFails
<1>7. CASE CycleFails(w)
  BY <1>2, <1>7 DEF CycleFails
<1>8. CASE Unregister(w) \/ Release(w)
  BY <1>1, <1>8 DEF Unregister, Release
<1> QED  BY <1>4, <1>5, <1>6, <1>7, <1>8 DEF Step, Fail

LEMMA ServiceResumes ==
  ASSUME IInv, Resumes, Service
  PROVE  Resumes'
<1> USE ThreadAssumption
<1>1. CASE Shutdown
  BY <1>1 DEF Shutdown, Resumes, RunIsResumed
<1>2. CASE Exit
  BY <1>2 DEF Exit, Resumes, RunIsResumed, Threads
<1>3. CASE Boot
  BY <1>3 DEF Boot, Resumes, RunIsResumed, IInv, TypeOK, Threads
<1>4. CASE BootWithoutKeys
  <2>1. asked' = "run" => saved'.running /\ saved' = saved /\ asked = "run"
    BY <1>4 DEF BootWithoutKeys, Written, IInv, TypeOK, FileType
  <2> QED
    BY <1>4, <2>1 DEF BootWithoutKeys, Resumes, RunIsResumed
<1> QED  BY <1>1, <1>2, <1>3, <1>4 DEF Service

\* While the last word is a Start that a loop recorded, bot_state.json says that the
\* loop is to be resumed: with one request at a time and unchanged credentials, no
\* crash, shutdown, failed cycle or failed write loses it (locks.py:59-61).
THEOREM RunIsResumedHolds ==
  ASSUME ~Rekeying, OneAtATime
  PROVE  Spec => []RunIsResumed
<1>1. Init => Resumes
  BY ThreadAssumption DEF Init, Resumes, RunIsResumed, Threads
<1>2. IInv /\ Resumes /\ [Next]_vars => Resumes'
  <2> SUFFICES ASSUME IInv, Resumes, [Next]_vars PROVE Resumes'
    OBVIOUS
  <2>1. CASE UNCHANGED vars
    BY <2>1 DEF vars, Resumes, RunIsResumed
  <2> QED
    BY <2>1, RequestResumes, LoopResumes, ServiceResumes DEF Next
<1>3. Resumes => RunIsResumed
  BY DEF Resumes
<1> QED  BY LifecycleInductive, <1>1, <1>2, <1>3, PTL DEF Spec
=============================================================================
