---------------------------- MODULE ResearchWorker ----------------------------
(***************************************************************************)
(* The research worker of a user: one thread beside the trading loop that  *)
(* runs a pass over the watch list for every minute, with readers of its   *)
(* own and the settings it was handed.  The loop offers it a pass and      *)
(* never waits; a worker that is closed is not used again, but may outlive *)
(* the second that its closer waits, and the loop, the stop event and the  *)
(* account may have changed by the time it looks up.                       *)
(***************************************************************************)
EXTENDS Naturals, FiniteSets

CONSTANTS
  Workers,    \* worker threads that can exist beside each other: a bound
  Accounts,   \* account_identity(): account, mode and provider
  NoWorker, NoAccount

ASSUME WorkerAssumption == NoWorker \notin Workers /\ NoAccount \notin Accounts

VARIABLES
  loop,         \* the trading loop: "off" (its lock is free), "run", "ending"
  stopEvent,    \* the user's stop event, the worker's parent_stop
  submitted,    \* research_submitted_minute is this minute
  account,      \* the account that get_settings() names
  rekeying,     \* a request to change the account found no loop running
  registered,   \* _workers[user_id]
  worker,       \* Workers -> a ResearchWorker and its thread
  mixed         \* history: the account was changed under a running loop

researchVars == <<loop, stopEvent, submitted, account, rekeying, registered, worker, mixed>>

(* at: where _run is.  readers belong to the account that get_clients() read *)
(* when they were made, identity is the one they were made for.              *)
Worker == [at : {"dead", "head", "wait", "check", "readers", "run", "pass"},
           closed : BOOLEAN, busy : BOOLEAN,
           pending : Accounts \cup {NoAccount}, snapshot : Accounts \cup {NoAccount},
           identity : Accounts \cup {NoAccount}, readers : Accounts \cup {NoAccount}]

Fresh == [at |-> "head", closed |-> FALSE, busy |-> FALSE, pending |-> NoAccount,
          snapshot |-> NoAccount, identity |-> NoAccount, readers |-> NoAccount]

Stopped(w) == worker[w].closed \/ stopEvent

Alive(w) == worker[w].at # "dead"

ResearchInit ==
  /\ loop = "off" /\ stopEvent = FALSE /\ submitted = FALSE
  /\ account \in Accounts /\ rekeying = FALSE
  /\ registered = NoWorker
  /\ worker = [w \in Workers |-> [Fresh EXCEPT !.at = "dead"]]
  /\ mixed = FALSE

-----------------------------------------------------------------------------
(* The trading loop and the requests. *)

StartLoop ==
  /\ loop = "off"
  /\ loop' = "run" /\ stopEvent' = FALSE
  /\ UNCHANGED <<submitted, account, rekeying, registered, worker, mixed>>

StopLoop ==
  /\ stopEvent' = TRUE
  /\ UNCHANGED <<loop, submitted, account, rekeying, registered, worker, mixed>>

(* A worker that refuses leaves the minute open: the next cycle asks again. *)
Take(w) ==
  /\ worker' = [worker EXCEPT ![w].pending = account]
  /\ submitted' = TRUE

MutantReusable(w) == w # NoWorker /\ Alive(w) /\ ~worker[w].closed      \* a closed one is replaced
Reusable(w) == w # NoWorker /\ Alive(w)

SubmitResearch ==
  /\ loop = "run" /\ ~submitted
  /\ IF Reusable(registered)
     THEN /\ UNCHANGED registered
          /\ IF Stopped(registered) \/ worker[registered].busy \/ worker[registered].pending # NoAccount
             THEN UNCHANGED <<worker, submitted>>
             ELSE Take(registered)
     ELSE \E w \in Workers :
            /\ ~Alive(w)
            /\ registered' = w
            /\ worker' = [worker EXCEPT ![w] = [Fresh EXCEPT !.pending = IF stopEvent THEN NoAccount ELSE account]]
            /\ submitted' = ~stopEvent
  /\ UNCHANGED <<loop, stopEvent, account, rekeying, mixed>>

NextMinute ==
  /\ submitted
  /\ submitted' = FALSE
  /\ UNCHANGED <<loop, stopEvent, account, rekeying, registered, worker, mixed>>

(* The loop returns, because of the event or of an error. *)
EndLoop ==
  /\ loop = "run"
  /\ loop' = "ending"
  /\ UNCHANGED <<stopEvent, submitted, account, rekeying, registered, worker, mixed>>

MutantClosed(ws) == ws      \* the worker is left to the stop event of its loop
Closed(ws) == IF registered = NoWorker THEN ws ELSE [ws EXCEPT ![registered].closed = TRUE]

(* stop_research() in the finally clause of the loop, before the lock is free. *)
StopResearch ==
  /\ loop = "ending"
  /\ worker' = Closed(worker)
  /\ loop' = "off"
  /\ UNCHANGED <<stopEvent, submitted, account, rekeying, registered, mixed>>

(* stop_research() in the request that removes a strategy. *)
RemoveStrategy ==
  /\ worker' = Closed(worker)
  /\ UNCHANGED <<loop, stopEvent, submitted, account, rekeying, registered, mixed>>

(* Credentials or the mode are saved if no loop runs: looked at first, and *)
(* saved later.                                                            *)
RekeyCheck ==
  /\ loop = "off"
  /\ rekeying' = TRUE
  /\ UNCHANGED <<loop, stopEvent, submitted, account, registered, worker, mixed>>

SaveAccount ==
  /\ rekeying
  /\ rekeying' = FALSE
  /\ account' \in Accounts
  /\ mixed' = (mixed \/ loop # "off")
  /\ UNCHANGED <<loop, stopEvent, submitted, registered, worker>>

-----------------------------------------------------------------------------
(* The thread of the worker w. *)

MoveTo(w, a) == worker' = [worker EXCEPT ![w].at = a]
PassOver(w) == worker' = [worker EXCEPT ![w].at = "head", ![w].busy = FALSE, ![w].snapshot = NoAccount]

MutantLoop(w) ==      \* the thread goes on until the loop is stopped
  /\ worker[w].at = "head"
  /\ MoveTo(w, IF stopEvent THEN "dead" ELSE "wait")
Loop(w) ==
  /\ worker[w].at = "head"
  /\ MoveTo(w, IF Stopped(w) THEN "dead" ELSE "wait")

(* wake is set, or a second is over. *)
TakePending(w) ==
  /\ worker[w].at = "wait"
  /\ worker' = [worker EXCEPT ![w].snapshot = worker[w].pending, ![w].pending = NoAccount,
                              ![w].busy = worker[w].pending # NoAccount,
                              ![w].at = IF worker[w].pending = NoAccount THEN "head" ELSE "check"]

CheckAccount(w) ==
  /\ worker[w].at = "check"
  /\ IF Stopped(w) \/ account # worker[w].snapshot THEN PassOver(w) ELSE MoveTo(w, "readers")

(* Readers of another account than the last pass had are made anew, which *)
(* may fail.                                                              *)
MakeReaders(w) ==
  /\ worker[w].at = "readers"
  /\ \/ worker[w].identity = worker[w].snapshot /\ MoveTo(w, "run")
     \/ /\ worker[w].identity # worker[w].snapshot
        /\ \/ worker' = [worker EXCEPT ![w].readers = account, ![w].identity = worker[w].snapshot,
                                       ![w].at = "run"]
           \/ PassOver(w)

(* The first thing a pass does, and does again before each ticker, is to *)
(* look whether it is stopped.                                           *)
RunPass(w) ==
  /\ worker[w].at = "run"
  /\ IF Stopped(w) THEN PassOver(w) ELSE MoveTo(w, "pass")

EndPass(w) ==
  /\ worker[w].at = "pass"
  /\ PassOver(w)

WorkerStep(w) ==
  /\ Loop(w) \/ TakePending(w) \/ CheckAccount(w) \/ MakeReaders(w) \/ RunPass(w) \/ EndPass(w)
  /\ UNCHANGED <<loop, stopEvent, submitted, account, rekeying, registered, mixed>>

ResearchNext ==
  \/ StartLoop \/ StopLoop \/ SubmitResearch \/ NextMinute \/ EndLoop \/ StopResearch
  \/ RemoveStrategy \/ RekeyCheck \/ SaveAccount
  \/ \E w \in Workers : WorkerStep(w)

ResearchSpec == ResearchInit /\ [][ResearchNext]_researchVars

(* Threads run and passes end (every request has a timeout), a minute ends, *)
(* the loop goes on to its next cycle and heeds a stop.                     *)
ResearchFairness ==
  /\ \A w \in Workers : WF_researchVars(WorkerStep(w))
  /\ WF_researchVars(NextMinute)
  /\ WF_researchVars(SubmitResearch)
  /\ WF_researchVars(stopEvent /\ EndLoop)

-----------------------------------------------------------------------------
ResearchTypeOK ==
  /\ loop \in {"off", "run", "ending"}
  /\ stopEvent \in BOOLEAN /\ submitted \in BOOLEAN
  /\ account \in Accounts
  /\ rekeying \in BOOLEAN /\ mixed \in BOOLEAN
  /\ registered \in Workers \cup {NoWorker}
  /\ worker \in [Workers -> Worker]

(* One worker at a time: a worker that outlives its close is not replaced *)
(* before its thread is gone, so no two passes run beside each other.     *)
OneWorker == \A v, w \in Workers : Alive(v) /\ Alive(w) => v = w

(* A pass reads with the keys of the account it writes for, though readers *)
(* are made after the account was compared: a worker that could have been  *)
(* overtaken by a change of the account is closed, and looks again before  *)
(* it reads.                                                               *)
PassReadsItsAccount ==
  ~mixed => \A w \in Workers : worker[w].at = "pass" => worker[w].readers = worker[w].snapshot

(* While the loop runs a pass is accepted again and again, whatever worker *)
(* a stop or the removal of a strategy left behind.                        *)
ResearchResumes == []<>(loop = "run" => submitted)
=============================================================================
