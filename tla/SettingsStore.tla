---------------------------- MODULE SettingsStore ----------------------------
(***************************************************************************)
(* settings.json of a user and the threads that write it: the settings     *)
(* page, the controls that keep a strategy from trading, the guard that    *)
(* pauses pairs whose closed trades lost, and savers of one key.  A write  *)
(* replaces the file as a whole; the lock of the file is held over a       *)
(* read, a change and a write by those who take it.                        *)
(*                                                                         *)
(* Of the file only the keys are kept that hold back trading: sets of      *)
(* pairs (a strategy and a ticker) that one key names.  A key is absent    *)
(* until it is first written.                                              *)
(***************************************************************************)
EXTENDS Naturals

CONSTANTS
  Requests,     \* threads of requests
  Guard,        \* the thread of strategy_guard
  Pairs,        \* strategy, version and ticker
  Losers,       \* the pairs whose closed trades lost more than they gained
  ReadsFail,    \* whether the file may be unreadable
  Absent, Nobody

ASSUME SettingsAssumption ==
  /\ Losers \subseteq Pairs /\ Guard \notin Requests /\ Nobody \notin Requests \cup {Guard}
  /\ ReadsFail \in BOOLEAN
  /\ \A s \in SUBSET Pairs : s # Absent

(* retired_strategy_versions, strategy_pair_pauses, strategy_closed_trade_pauses *)
Keys == {"retired", "paused", "losing"}
Writers == Requests \cup {Guard}

VARIABLES
  file,       \* settings.json
  holder,     \* of the lock of its path
  writing,     \* Writers -> what it read and is about to change
  decided     \* history: what the decisions make of the keys, one after another,
              \* since a write that was not protected

settingsVars == <<file, holder, writing, decided>>

Defaults == [k \in Keys |-> Absent]
PairsOf(f, k) == IF f[k] = Absent THEN {} ELSE f[k]

Files == [Keys -> (SUBSET Pairs) \cup {Absent}]
NotWriting == [at |-> "rest"]

SettingsInit ==
  /\ file = Defaults /\ holder = Nobody
  /\ writing = [t \in Writers |-> NotWriting]
  /\ decided = [k \in Keys |-> {}]

(* get_settings(): a file that cannot be read gives the defaults. *)
GetSettings == IF ReadsFail THEN {file, Defaults} ELSE {file}

(* dict.update(): keys that the updates do not have stay. *)
Updated(current, updates) ==
  [k \in Keys |-> IF updates[k] = Absent THEN current[k] ELSE updates[k]]

Changed(pairs, ps, on) == IF on THEN pairs \cup ps ELSE pairs \ ps
UpdatesFor(f, k, ps, on) == [Defaults EXCEPT ![k] = Changed(PairsOf(f, k), ps, on)]

(* save_settings(): the file is read again, updated and replaced.  protected: *)
(* what the updates were made of was read well, and since then under the lock. *)
SaveSettings(updates, protected, decisions) ==
  \E current \in GetSettings :
    /\ file' = Updated(current, updates)
    /\ decided' = IF current = file /\ protected THEN decisions ELSE [k \in Keys |-> PairsOf(file', k)]

DoneWriting(t) == writing' = [writing EXCEPT ![t] = NotWriting]

-----------------------------------------------------------------------------
(* Read, change and write under the lock: the removal and the return of a  *)
(* strategy, a pair that goes back to research, an override by an admin,   *)
(* which a pause by losses refuses, and the guard.                         *)

MutantTakeLock(t) == holder = Nobody /\ UNCHANGED holder      \* only save_settings() takes the lock
TakeLock(t) == holder = Nobody /\ holder' = t

Refused(f, k, p, on) == k = "paused" /\ ~on /\ p \in PairsOf(f, "losing")

ReadUnderLock(t, f, k, ps, on) ==
  writing' = [writing EXCEPT ![t] = [at |-> "locked", key |-> k, pairs |-> ps, on |-> on,
                                   updates |-> UpdatesFor(f, k, ps, on), read |-> f = file]]

LockedRead(t) ==
  /\ t \in Requests /\ writing[t] = NotWriting
  /\ TakeLock(t)
  /\ \E f \in GetSettings, k \in {"retired", "paused"}, p \in Pairs, on \in BOOLEAN :
       ~Refused(f, k, p, on) /\ ReadUnderLock(t, f, k, {p}, on)
  /\ UNCHANGED <<file, decided>>

(* enforce(): the pairs whose trades lost and that are not paused.  A read *)
(* that fails shows no account, and ends it.                               *)
ToPause == Losers \ PairsOf(file, "losing")

GuardRead ==
  /\ writing[Guard] = NotWriting
  /\ TakeLock(Guard)
  /\ ToPause # {} /\ ReadUnderLock(Guard, file, "losing", ToPause, TRUE)
  /\ UNCHANGED <<file, decided>>

LockedWrite(t) ==
  /\ writing[t].at = "locked"
  /\ LET w == writing[t]
     IN SaveSettings(w.updates, w.read, [decided EXCEPT ![w.key] = Changed(@, w.pairs, w.on)])
  /\ holder' = Nobody
  /\ DoneWriting(t)

-----------------------------------------------------------------------------
(* Read without the lock, and write what was read. *)

(* The settings page saves all that it read, and may ask the broker in     *)
(* between; the decision on a recommendation saves the pauses it read.     *)
UnlockedRead(t) ==
  /\ t \in Requests /\ writing[t] = NotWriting
  /\ \E f \in GetSettings :
       \/ writing' = [writing EXCEPT ![t] = [at |-> "page", updates |-> f]]
       \/ \E p \in Pairs, on \in BOOLEAN :
            /\ ~Refused(f, "paused", p, on)
            /\ writing' = [writing EXCEPT ![t] = [at |-> "page", updates |-> UpdatesFor(f, "paused", {p}, on)]]
  /\ UNCHANGED <<file, holder, decided>>

UnlockedWrite(t) ==
  /\ writing[t].at = "page"
  /\ holder = Nobody
  /\ SaveSettings(writing[t].updates, FALSE, decided)
  /\ DoneWriting(t)
  /\ UNCHANGED holder

(* The loop and the account routes save keys of their own. *)
SaveOther ==
  /\ holder = Nobody
  /\ SaveSettings(Defaults, TRUE, decided)
  /\ UNCHANGED <<holder, writing>>

MutantGiveUp(t) ==      \* acquire() and release() without a finally
  /\ writing[t] # NotWriting
  /\ DoneWriting(t)
  /\ UNCHANGED <<file, holder, decided>>

(* An error or the end of the process before the write frees the lock. *)
GiveUp(t) ==
  /\ writing[t] # NotWriting
  /\ DoneWriting(t)
  /\ holder' = IF holder = t THEN Nobody ELSE holder
  /\ UNCHANGED <<file, decided>>

SettingsNext ==
  \/ GuardRead \/ SaveOther
  \/ \E t \in Writers : LockedRead(t) \/ LockedWrite(t) \/ UnlockedRead(t) \/ UnlockedWrite(t) \/ GiveUp(t)

SettingsSpec == SettingsInit /\ [][SettingsNext]_settingsVars

(* The guard runs every half minute, and no error befalls it every time; a *)
(* request ends.                                                           *)
SettingsFairness ==
  /\ SF_settingsVars(GuardRead) /\ SF_settingsVars(LockedWrite(Guard))
  /\ \A t \in Requests : WF_settingsVars(LockedWrite(t) \/ GiveUp(t))

-----------------------------------------------------------------------------
SettingsTypeOK ==
  /\ file \in Files /\ holder \in Writers \cup {Nobody}
  /\ decided \in [Keys -> SUBSET Pairs]
  /\ \A t \in Writers :
       writing[t] = NotWriting \/ writing[t].updates \in Files

(* Changes under the lock add up: whatever runs beside them, the removals   *)
(* and pauses in the file are the ones that were decided, unless a writing   *)
(* that does not read under the lock, or a read that failed, undid them.    *)
DecisionsAddUp == \A k \in Keys : PairsOf(file, k) = decided[k]

(* A pair whose trades lost is paused again, whatever undid its pause. *)
LosersPaused == \A p \in Losers : []<>(p \in PairsOf(file, "losing"))

(* "The per-path lock also keeps read/modify/write updates from losing      *)
(* fields" (config/atomic_files.py:5): what was removed stays removed until *)
(* a request returns it.                                                    *)
RemovalStays ==
  [][\A p \in PairsOf(file, "retired") \ PairsOf(file', "retired") :
       \E t \in Requests : LockedWrite(t) /\ writing[t].key = "retired" /\ p \in writing[t].pairs]_settingsVars
=============================================================================
