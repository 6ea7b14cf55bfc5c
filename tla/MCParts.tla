------------------------------- MODULE MCParts -------------------------------
(***************************************************************************)
(* Five parts that share no state, checked side by side: focus names the  *)
(* one that moves, and the others rest in a state in which nothing of them *)
(* is due.                                                                 *)
(***************************************************************************)
EXTENDS ResearchWorker, CircuitBreaker, PositionExit, SettingsStore, EvidenceLedger, TLC

VARIABLE focus

partsVars == <<focus, researchVars, breakerVars, exitVars, settingsVars, evidenceVars>>

AtRest ==
  /\ focus # "research" => account = CHOOSE a \in Accounts : TRUE
  /\ focus # "exit" => policy = "adaptive" /\ size = CHOOSE n \in Sizes : TRUE

(* ExitInit, but for a trade that is closed where the exits do not move. *)
ClosedExit ==
  /\ policy \in Policies /\ size \in Sizes /\ age = 0
  /\ trade = [contracts |-> 0, taken |-> 0] /\ giveback = "no"
  /\ ps = Forgotten /\ saved = InFile(Forgotten)
  /\ order = NoOrder /\ unresolved = NoAttempt /\ restarts = 0

(* SettingsInit, but for losers that are paused where the settings do not move. *)
PausedSettings ==
  /\ file = UpdatesFor(Defaults, "losing", Losers, TRUE)
  /\ decided = [k \in Keys |-> PairsOf(file, k)]
  /\ holder = Nobody /\ writing = [t \in Writers |-> NotWriting]

(* One play and the exit of each kind, over a feed without a hole. *)
OnePlay ==
  /\ EvidenceInit /\ feed.hole = Cap + 1
  /\ \A p \in Plays : rule[p] # "none"
  /\ (\A p \in Plays : rule[p] \in {"timed", "trail", "loss"}) => due = [p \in Plays |-> Cap] /\ ~feed.forming

(* EvidenceInit, but for the day after, and no play, where it does not move. *)
NoPlays ==
  /\ ledger = "study" /\ rule = [p \in Plays |-> "none"] /\ due = [p \in Plays |-> Cap]
  /\ feed = [hole |-> Cap + 1, forming |-> FALSE] /\ minute = NextDay
  /\ evidence = [p \in Plays |-> NotEnrolled] /\ observer = [o \in Observers |-> [at |-> "idle"]]
  /\ shared = {} /\ silence = [p \in Plays |-> 0] /\ faults = 0

Init ==
  /\ focus \in {"research", "breaker", "exit", "settings", "evidence"}
  /\ ResearchInit /\ BreakerInit
  /\ IF focus = "exit" THEN ExitInit ELSE ClosedExit
  /\ IF focus = "settings" THEN SettingsInit ELSE PausedSettings
  /\ IF focus = "evidence" THEN OnePlay ELSE NoPlays
  /\ AtRest

Next ==
  \/ focus = "research" /\ ResearchNext /\ UNCHANGED <<focus, breakerVars, exitVars, settingsVars, evidenceVars>>
  \/ focus = "breaker" /\ BreakerNext /\ UNCHANGED <<focus, researchVars, exitVars, settingsVars, evidenceVars>>
  \/ focus = "exit" /\ ExitNext /\ UNCHANGED <<focus, researchVars, breakerVars, settingsVars, evidenceVars>>
  \/ focus = "settings" /\ SettingsNext /\ UNCHANGED <<focus, researchVars, breakerVars, exitVars, evidenceVars>>
  \/ focus = "evidence" /\ EvidenceNext /\ UNCHANGED <<focus, researchVars, breakerVars, exitVars, settingsVars>>

Spec ==
  /\ Init /\ [][Next]_partsVars
  /\ ResearchFairness /\ BreakerFairness /\ ExitFairness /\ SettingsFairness /\ EvidenceFairness

(* The types of the five parts. *)
TypeOK == ResearchTypeOK /\ BreakerTypeOK /\ ExitTypeOK /\ SettingsTypeOK /\ EvidenceTypeOK
=============================================================================
