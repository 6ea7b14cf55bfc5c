---------------------------- MODULE BotLifecycle ----------------------------
(***************************************************************************)
(* The life of one user's trading loop: started and stopped by requests,   *)
(* halted by maintenance, stopped by a shutdown of the service, resumed    *)
(* when the service boots; and bot_state.json, which the loop, the         *)
(* requests and the next boot share.                                       *)
(*                                                                         *)
(* Of that file three things matter: "running" and "auto_start_disabled",  *)
(* by which a boot decides, and the exit latch of the open position, by    *)
(* which a new loop knows that the exit was decided. A step of the loop is *)
(* one call of run_trading_loop or of a tick between two accesses to what  *)
(* threads share.                                                          *)
(***************************************************************************)
EXTENDS Integers

CONSTANTS
  Workers,     \* loop threads: the bound on how many live at a time
  Requests,    \* API threads
  Nobody,      \* holds the lock, or is registered, when nobody is
  Rekeying     \* whether users change their credentials

Threads == Workers \cup Requests

ASSUME ThreadAssumption ==
  /\ Workers \cap Requests = {} /\ Nobody \notin Threads
  /\ Rekeying \in BOOLEAN

VARIABLES
  up,           \* the service: "up", "closing" or "down"
  saved,        \* bot_state.json
  maintenance,  \* the maintenance file: "off", "collect" or "halt"
  stop,         \* the user's stop event
  lock,         \* holder of the user's loop lock
  registered,   \* the loop thread in _USER_THREADS
  pc,           \* where each thread is
  kept,         \* what a request has read of bot_state.json
  trade,        \* the journal has an open trade
  firing,       \* its exit is pending, in the loop's memory
  mixed,        \* history: credentials were saved since the loop took its own
  asked,        \* history: the user's last word, "run" once a loop recorded it
  decided       \* history: an exit was decided and persisted, and is not done

memory  == <<stop, lock, registered, firing>>
files   == <<saved, maintenance>>
history == <<mixed, asked, decided>>
vars    == <<up, saved, maintenance, stop, lock, registered, pc, kept, trade,
             firing, mixed, asked, decided>>

----------------------------------------------------------------------------
FileType == [exists : BOOLEAN, running : BOOLEAN, disabled : BOOLEAN, latch : BOOLEAN]
NoFile   == [exists |-> FALSE, running |-> FALSE, disabled |-> FALSE, latch |-> FALSE]

\* A snapshot replaces the whole file: what it does not name is gone.
Snapshot(running, latch) ==
  [exists |-> TRUE, running |-> running, disabled |-> FALSE, latch |-> latch]

\* atomic_update_json: one field of whatever is there.
WithLatch(latch) == [saved EXCEPT !.exists = TRUE, !.latch = latch]

\* A write that fails is logged or ignored, and what follows goes on.
Written(file) == saved' = file \/ saved' = saved

Cycle    == {"head", "batch", "tick", "watch", "manage", "exit"}
Startup  == {"register", "clear", "begin", "announce"}
Ending   == {"unregister", "release"}
Inside   == Startup \cup Cycle \cup Ending
Known    == Inside \ {"register", "release"}
Probing  == {"starting", "peeking"}
WorkerPlaces  == {"none", "spawned", "locking"} \cup Inside
RequestPlaces == {"idle", "starting", "spawning", "peeking", "halting", "stopping",
                  "marking", "checking", "rekeying", "restating"}

At(t, where)   == pc[t] = where
Goto(t, where) == pc' = [pc EXCEPT ![t] = where]
Looping(w)     == pc[w] \in Cycle

Init ==
  /\ up = "up" /\ saved = NoFile /\ maintenance = "off"
  /\ stop = FALSE /\ lock = Nobody /\ registered = Nobody
  /\ pc = [t \in Threads |-> IF t \in Workers THEN "none" ELSE "idle"]
  /\ kept = [r \in Requests |-> NoFile]
  /\ trade \in BOOLEAN /\ firing = FALSE
  /\ mixed = FALSE /\ asked = "none" /\ decided = FALSE

----------------------------------------------------------------------------
(* Requests. Each is served by a thread of its own.                        *)

Serve(r, from, to) == up = "up" /\ At(r, from) /\ Goto(r, to)

\* start_bot: no halt, and nobody has the lock, which it takes to find out.
StartProbe(r) ==
  /\ Serve(r, "idle", "starting")
  /\ maintenance # "halt" /\ lock = Nobody
  /\ lock' = r
  /\ asked' = "start"
  /\ UNCHANGED <<up, files, stop, registered, kept, trade, firing, mixed, decided>>

StartRelease(r) ==
  /\ Serve(r, "starting", "spawning")
  /\ lock' = Nobody
  /\ UNCHANGED <<up, files, stop, registered, kept, trade, firing, history>>

StartSpawn(r) ==
  /\ up = "up" /\ At(r, "spawning")
  /\ stop' = FALSE
  /\ \E w \in Workers : /\ At(w, "none")
                        /\ pc' = [pc EXCEPT ![r] = "idle", ![w] = "spawned"]
  /\ UNCHANGED <<up, files, lock, registered, kept, trade, firing, history>>

\* get_status: the bot runs if the lock cannot be taken.
StatusProbe(r) ==
  /\ Serve(r, "idle", "peeking")
  /\ lock = Nobody
  /\ lock' = r
  /\ UNCHANGED <<up, files, stop, registered, kept, trade, firing, history>>

StatusRelease(r) ==
  /\ Serve(r, "peeking", "idle")
  /\ lock' = Nobody
  /\ UNCHANGED <<up, files, stop, registered, kept, trade, firing, history>>

\* stop_loop, of a Stop or of a maintenance halt.
StopSignal(r) ==
  /\ Serve(r, "idle", "stopping") \/ Serve(r, "halting", "stopping")
  /\ stop' = TRUE
  /\ asked' = "stop"
  /\ UNCHANGED <<up, files, lock, registered, kept, trade, firing, mixed, decided>>

StopRead(r) ==
  /\ IF saved.exists THEN Serve(r, "stopping", "marking") ELSE Serve(r, "stopping", "idle")
  /\ kept' = [kept EXCEPT ![r] = saved]
  /\ UNCHANGED <<up, files, memory, trade, history>>

StopWrite(r) ==
  /\ Serve(r, "marking", "idle")
  /\ Written([kept[r] EXCEPT !.running = FALSE, !.disabled = TRUE])
  /\ kept' = [kept EXCEPT ![r] = NoFile]
  /\ UNCHANGED <<up, maintenance, memory, trade, history>>

\* save_credentials: nobody has the lock, and the keys are checked and saved.
RekeyCheck(r) ==
  /\ Rekeying
  /\ Serve(r, "idle", "checking")
  /\ lock = Nobody
  /\ UNCHANGED <<up, files, memory, kept, trade, history>>

SaveKeys(r) ==
  /\ Serve(r, "checking", "rekeying")
  /\ mixed' = (mixed \/ \E w \in Workers : pc[w] \in {"announce"} \cup Cycle)
  /\ UNCHANGED <<up, files, memory, kept, trade, asked, decided>>

\* Keys of the same account change nothing else.
RekeyRead(r) ==
  /\ Serve(r, "rekeying", "restating") \/ Serve(r, "rekeying", "idle")
  /\ kept' = [kept EXCEPT ![r] = IF At(r, "restating")' THEN saved ELSE NoFile]
  /\ UNCHANGED <<up, files, memory, trade, history>>

RekeyWrite(r) ==
  /\ Serve(r, "restating", "idle")
  /\ Written([kept[r] EXCEPT !.exists = TRUE])
  /\ kept' = [kept EXCEPT ![r] = NoFile]
  /\ UNCHANGED <<up, maintenance, memory, trade, history>>

\* enable_maintenance writes its file before it stops the loops.
Maintain(r, state) ==
  /\ Serve(r, "idle", IF state = "halt" THEN "halting" ELSE "idle")
  /\ maintenance' = state
  /\ UNCHANGED <<up, saved, memory, kept, trade, history>>

\* A trade is closed without management: its latch goes with it.
Closed ==
  /\ trade
  /\ trade' = FALSE /\ firing' = FALSE /\ decided' = FALSE
  /\ Written(WithLatch(FALSE))
  /\ UNCHANGED <<up, maintenance, stop, lock, registered, kept, mixed, asked>>

\* A manual close, or a panic.
ManualClose(r) == Serve(r, "idle", "idle") /\ Closed

----------------------------------------------------------------------------
(* run_trading_loop: refuse, or take the lock, register, clear the event.  *)

Enter(w) ==
  /\ At(w, "spawned")
  /\ Goto(w, IF maintenance = "halt" THEN "none" ELSE "locking")
  /\ UNCHANGED <<up, files, memory, kept, trade, history>>

Acquire(w) ==
  /\ At(w, "locking") /\ lock = Nobody
  /\ lock' = w
  /\ Goto(w, "register")
  /\ UNCHANGED <<up, files, stop, registered, kept, trade, firing, history>>

\* "called while loop for user is already running"
TurnedAway(w) ==
  /\ At(w, "locking") /\ lock # Nobody
  /\ Goto(w, "none")
  /\ UNCHANGED <<up, files, memory, kept, trade, history>>

Register(w) ==
  /\ At(w, "register")
  /\ registered' = w
  /\ Goto(w, "clear")
  /\ UNCHANGED <<up, files, stop, lock, kept, trade, firing, history>>

ClearStop(w) ==
  /\ At(w, "clear")
  /\ stop' = FALSE
  /\ Goto(w, "begin")
  /\ UNCHANGED <<up, files, lock, registered, kept, trade, firing, history>>

\* No credentials, or no valid account: this start has failed, and says so.
\* Anything else that raises before the loop ends it without a word.
BeginFails(w) ==
  /\ At(w, "begin")
  /\ Goto(w, "unregister")
  /\ \/ /\ saved' = Snapshot(FALSE, FALSE)
        /\ asked' = IF asked = "stop" THEN "stop" ELSE "none"
     \/ UNCHANGED <<saved, asked>>
  /\ UNCHANGED <<up, maintenance, memory, kept, trade, mixed, decided>>

\* The clients take the credentials; the positions are rebuilt from the journal
\* and what the file says of them.
Begin(w) ==
  /\ At(w, "begin")
  /\ mixed' = FALSE
  /\ firing' = (trade /\ saved.latch)
  /\ Goto(w, "announce")
  /\ UNCHANGED <<up, files, stop, lock, registered, kept, trade, asked, decided>>

\* The loop says in the file that it runs; `asked` notes it of a Start.
Announce(file) ==
  \/ saved' = file /\ asked' = IF asked = "start" THEN "run" ELSE asked
  \/ UNCHANGED <<saved, asked>>

BeginLoop(w) ==
  /\ At(w, "announce")
  /\ Announce(Snapshot(TRUE, firing))
  /\ Goto(w, "head")
  /\ UNCHANGED <<up, maintenance, memory, kept, trade, mixed, decided>>

----------------------------------------------------------------------------
(* The loop: a cycle is a batch of ticks, which manage the open trade.     *)

MutantLoopHead(w) ==      \* the halt is left to the stop event
  /\ At(w, "head")
  /\ Goto(w, IF stop THEN "unregister" ELSE "batch")
  /\ UNCHANGED <<up, files, memory, kept, trade, history>>

LoopHead(w) ==
  /\ At(w, "head")
  /\ stop' = (stop \/ maintenance = "halt")
  /\ Goto(w, IF stop' THEN "unregister" ELSE "batch")
  /\ UNCHANGED <<up, files, lock, registered, kept, trade, firing, history>>

\* In collection-only maintenance a tick watches: no order, no exit.
BeginTick(w) ==
  /\ At(w, "batch") /\ ~stop
  /\ Goto(w, IF maintenance = "collect" THEN "watch" ELSE "tick")
  /\ UNCHANGED <<up, files, memory, kept, trade, history>>

MutantEndBatch(w) ==      \* the wait after the batch consumes the event
  /\ At(w, "batch")
  /\ stop' = FALSE
  /\ Goto(w, "head")
  /\ UNCHANGED <<up, files, lock, registered, kept, trade, firing, history>>

\* No ticker is left, a Stop was heard, or the market is closed for long.
EndBatch(w) ==
  /\ At(w, "batch")
  /\ Goto(w, "head")
  /\ UNCHANGED <<up, files, memory, kept, trade, history>>

\* The heartbeat of a tick, which goes on only while the market is open.
TickWrite(w) ==
  /\ \/ At(w, "tick") /\ (Goto(w, "manage") \/ Goto(w, "batch"))
     \/ At(w, "watch") /\ Goto(w, "batch")
  /\ Announce(Snapshot(TRUE, FALSE))
  /\ UNCHANGED <<up, maintenance, memory, kept, trade, mixed, decided>>

\* No quote, or nothing to manage and no entry.
Skip(w) ==
  /\ At(w, "manage")
  /\ Goto(w, "batch")
  /\ UNCHANGED <<up, files, memory, kept, trade, history>>

\* The file may hold the latch of a former trade, which is not this one's.
OpenTrade(w) ==
  /\ At(w, "manage") /\ ~trade
  /\ trade' = TRUE
  /\ saved' = [saved EXCEPT !.latch = FALSE]
  /\ Goto(w, "batch")
  /\ UNCHANGED <<up, maintenance, memory, kept, history>>

\* The position is shown as it is, with its latch; no exit is due or pending.
Hold(w) ==
  /\ At(w, "manage") /\ trade /\ ~firing
  /\ Written(WithLatch(FALSE))
  /\ Goto(w, "batch")
  /\ UNCHANGED <<up, maintenance, memory, kept, trade, history>>

MutantDecide(w) ==      \* a pending exit waits for its first order
  /\ At(w, "manage") /\ trade /\ ~firing
  /\ firing' = TRUE
  /\ Written(WithLatch(TRUE))
  /\ decided' = (decided \/ saved'.latch)
  /\ Goto(w, "exit")
  /\ UNCHANGED <<up, maintenance, stop, lock, registered, kept, trade, mixed, asked>>

\* An exit is due, or one that is pending is tried again.
Decide(w) ==
  /\ At(w, "manage") /\ trade
  /\ firing' = TRUE
  /\ Written(WithLatch(TRUE))
  /\ decided' = (decided \/ saved'.latch)
  /\ Goto(w, "exit")
  /\ UNCHANGED <<up, maintenance, stop, lock, registered, kept, trade, mixed, asked>>

\* Confirmed for the whole position, or for the half of a first stage.
ExitConfirmed(w) ==
  /\ At(w, "exit") /\ trade
  /\ trade' \in BOOLEAN
  /\ firing' = FALSE /\ decided' = FALSE
  /\ Written(WithLatch(FALSE))
  /\ Goto(w, "batch")
  /\ UNCHANGED <<up, maintenance, stop, lock, registered, kept, mixed, asked>>

ExitUnconfirmed(w) ==
  /\ At(w, "exit")
  /\ Goto(w, "batch")
  /\ UNCHANGED <<up, files, memory, kept, trade, history>>

\* The flatten of a daily-loss halt, or the close of the session.
Flatten(w) ==
  /\ At(w, "batch") \/ At(w, "manage")
  /\ Goto(w, "batch")
  /\ Closed

\* An exception ends the cycle, not the loop, and replaces the file; the loss
\* limit ends it without.
CycleFails(w) ==
  /\ Looping(w) /\ ~At(w, "head")
  /\ Announce(Snapshot(TRUE, FALSE))
  /\ Goto(w, "head")
  /\ UNCHANGED <<up, maintenance, memory, kept, trade, mixed, decided>>

MutantUnregister(w) ==      \* the lock is released first, and again at the end
  /\ At(w, "unregister")
  /\ registered' = IF registered = w THEN Nobody ELSE registered
  /\ lock' = Nobody
  /\ Goto(w, "release")
  /\ UNCHANGED <<up, files, stop, kept, trade, firing, history>>

Unregister(w) ==
  /\ At(w, "unregister")
  /\ registered' = IF registered = w THEN Nobody ELSE registered
  /\ Goto(w, "release")
  /\ UNCHANGED <<up, files, stop, lock, kept, trade, firing, history>>

Release(w) ==
  /\ At(w, "release")
  /\ lock' = Nobody
  /\ Goto(w, "none")
  /\ UNCHANGED <<up, files, stop, registered, kept, trade, firing, history>>

----------------------------------------------------------------------------
(* The service.                                                            *)

MutantShutdown ==      \* a shutdown stops the loops as a Stop does
  /\ up = "up" /\ \A r \in Requests : At(r, "idle")
  /\ up' = "closing"
  /\ stop' = (stop \/ registered # Nobody)
  /\ saved' = [saved EXCEPT !.running = FALSE, !.disabled = TRUE]
  /\ UNCHANGED <<maintenance, lock, registered, pc, kept, trade, firing, history>>

\* request_graceful_shutdown, once no request is served any more.
Shutdown ==
  /\ up = "up" /\ \A r \in Requests : At(r, "idle")
  /\ up' = "closing"
  /\ stop' = (stop \/ registered # Nobody)
  /\ UNCHANGED <<files, lock, registered, pc, kept, trade, firing, history>>

\* A crash, or the end of a shutdown, whether the loop has ended by then or not.
Exit ==
  /\ up # "down"
  /\ up' = "down"
  /\ stop' = FALSE /\ lock' = Nobody /\ registered' = Nobody /\ firing' = FALSE
  /\ pc' = [t \in Threads |-> IF t \in Workers THEN "none" ELSE "idle"]
  /\ kept' = [r \in Requests |-> NoFile]
  /\ UNCHANGED <<files, trade, history>>

Resumable == maintenance # "halt" /\ saved.running /\ ~saved.disabled

\* _auto_start_bot_if_needed.
Boot ==
  /\ up = "down"
  /\ up' = "up"
  /\ IF Resumable THEN \E w \in Workers : Goto(w, "spawned") ELSE UNCHANGED pc
  /\ UNCHANGED <<files, memory, kept, trade, history>>

\* Without credentials nothing is resumed, now or at the next boot.
BootWithoutKeys ==
  /\ up = "down" /\ Resumable
  /\ up' = "up"
  /\ Written([saved EXCEPT !.running = FALSE])
  /\ asked' = IF saved'.running \/ asked = "stop" THEN asked ELSE "none"
  /\ UNCHANGED <<maintenance, memory, pc, kept, trade, mixed, decided>>

----------------------------------------------------------------------------
Reply(r) == \/ StartRelease(r) \/ StartSpawn(r) \/ StatusRelease(r)
            \/ At(r, "halting") /\ StopSignal(r)
            \/ StopRead(r) \/ StopWrite(r)
            \/ SaveKeys(r) \/ RekeyRead(r) \/ RekeyWrite(r)

Request(r) == \/ StartProbe(r) \/ StatusProbe(r) \/ StopSignal(r) \/ RekeyCheck(r)
              \/ \E state \in {"off", "collect", "halt"} : Maintain(r, state)
              \/ ManualClose(r)

StartUp(w) == \/ Enter(w) \/ Acquire(w) \/ TurnedAway(w) \/ Register(w)
              \/ ClearStop(w) \/ Begin(w) \/ BeginLoop(w)

Run(w) == \/ LoopHead(w) \/ BeginTick(w) \/ EndBatch(w) \/ TickWrite(w)
          \/ Skip(w) \/ OpenTrade(w) \/ Hold(w) \/ Decide(w)
          \/ ExitConfirmed(w) \/ ExitUnconfirmed(w) \/ Flatten(w)

Fail(w) == BeginFails(w) \/ CycleFails(w)

Step(w) == StartUp(w) \/ Run(w) \/ Fail(w) \/ Unregister(w) \/ Release(w)

Service == Shutdown \/ Exit \/ Boot \/ BootWithoutKeys

Next == \/ \E r \in Requests : Request(r) \/ Reply(r)
        \/ \E w \in Workers : Step(w)
        \/ Service

Spec == Init /\ [][Next]_vars

----------------------------------------------------------------------------
(* What the life cycle promises.                                           *)

TypeOK ==
  /\ up \in {"up", "closing", "down"}
  /\ saved \in FileType /\ maintenance \in {"off", "collect", "halt"}
  /\ stop \in BOOLEAN
  /\ lock \in Threads \cup {Nobody} /\ registered \in Workers \cup {Nobody}
  /\ pc \in [Threads -> WorkerPlaces \cup RequestPlaces]
  /\ kept \in [Requests -> FileType]
  /\ trade \in BOOLEAN /\ firing \in BOOLEAN /\ mixed \in BOOLEAN
  /\ asked \in {"none", "start", "run", "stop"} /\ decided \in BOOLEAN

\* What a thread holds where it is.
Control ==
  /\ \A w \in Workers : /\ pc[w] \in WorkerPlaces
                        /\ pc[w] \in Inside => lock = w
                        /\ pc[w] \in Known => registered = w
  /\ \A r \in Requests : /\ pc[r] \in RequestPlaces
                         /\ pc[r] \in Probing => lock = r

\* The inductive invariant of the proofs.
IInv == TypeOK /\ Control

\* There is at most one loop, it holds the user's lock, and a shutdown finds it
\* registered: no loop is left to trade on while the service goes down.
LoopIsKnown == \A w \in Workers : pc[w] \in Known => lock = w /\ registered = w

\* trading/state/locks.py:61: "loops that were running should resume on next
\* boot". While the last word was a Start that a loop has recorded, the file says
\* so, whatever fails and however the service ends.
RunIsResumed == asked = "run" => saved.running /\ ~saved.disabled

\* api/routes/admin.py:189, of maintenance: "the durable safety guarantee even if
\* a single loop is asleep or unhealthy". While a halt lasts, every loop ends in
\* the end, a resumed one and one whose stop was lost included.
HaltEndsLoops ==
  <>[](maintenance = "halt") => <>[](\A w \in Workers : pc[w] = "none")

\* A stop that a running loop can see ends it, unless a Start that had found the
\* lock free before takes it back.
StopIsHeard ==
  \A w \in Workers :
    (stop /\ Looping(w)) ~> (\/ ~Looping(w)
                             \/ \E r \in Requests : pc[r] \in {"starting", "spawning"})

\* trading/position_manager/manage.py:67: "Once an exit fires, keep closing for
\* that same reason". A loop that goes on, and may trade, closes in the end.
ExitIsRetried ==
  firing ~> (~firing \/ maintenance = "collect" \/ \A w \in Workers : ~Looping(w))

----------------------------------------------------------------------------
(* What the source says besides, and the code does not do: TLC refutes each.*)

\* trading/loop/lifecycle.py:108: "auto_start_disabled = True tells the
\* service-restart auto-start logic NOT to resume the bot", and inner.py:293:
\* "clear explicit-stop flag on fresh start". Nothing else clears it.
MarkerIsKept ==
  [][saved.disabled /\ ~saved'.disabled =>
       \E w \in Workers : pc[w] \in {"begin", "announce"}]_vars

\* trading/loop/lifecycle.py:86, of stop_loop: "Signal the loop for a given user
\* to exit." After a Stop no loop runs on, unless a Start follows.
StopEndsLoop == asked = "stop" ~> asked # "stop" \/ \A w \in Workers : ~Looping(w)

\* trading/loop/lifecycle.py:62: a start is turned away "while loop for user %s is
\* already running", and not otherwise.
TurnedAwayByLoop ==
  [][\A w \in Workers : TurnedAway(w) => \E v \in Workers : pc[v] \in Inside]_vars

\* trading/position_manager/manage.py:640: "Preserve a triggered close across
\* normal mark snapshots and process restarts until Alpaca confirms the position
\* closed." A loop that cycles knows of every exit that was decided.
ExitIsSticky == decided /\ (\E w \in Workers : Looping(w)) => firing

\* api/routes/settings.py:546: "Stop the bot before changing broker credentials so
\* one session cannot span two accounts".
OneSessionOneAccount == mixed => \A w \in Workers : ~Looping(w)

----------------------------------------------------------------------------
(* Liveness. Threads run, a batch has finitely many tickers, a request that *)
(* has begun goes on, a shutdown has a deadline. For exits also: the market *)
(* opens, a quote comes, and the broker confirms some close.                *)

Fairness ==
  /\ \A w \in Workers : WF_vars(Step(w))
  /\ SF_vars(\E w \in Workers : EndBatch(w))
  /\ \A r \in Requests : WF_vars(Reply(r))
  /\ WF_vars(up = "closing" /\ Exit)

ExitFairness ==
  /\ SF_vars(\E w \in Workers : BeginTick(w))
  /\ SF_vars(\E w \in Workers : TickWrite(w) /\ At(w, "manage")')
  /\ SF_vars(\E w \in Workers : Decide(w))
  /\ SF_vars(\E w \in Workers : ExitConfirmed(w))

FairSpec == Spec /\ Fairness
ExitSpec == FairSpec /\ ExitFairness
=============================================================================
