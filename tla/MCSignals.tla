------------------------------ MODULE MCSignals ------------------------------
(***************************************************************************)
(* What becomes of a signal: a tick that may buy, and a paper play whose   *)
(* exits are observed.  The two share no state: focus names the one that   *)
(* moves.                                                                  *)
(***************************************************************************)
EXTENDS EntryTick, EvidenceLedger, TLC

CONSTANTS t1, k1, k2

VARIABLE focus

signalVars == <<focus, entryVars, evidenceVars>>

(* Two strikes of one ticker; the other ticker is scanned only. *)
MCTickerOf == [c \in Contracts |-> t1]

(* Every play alone, with a pass that breaks off; two plays of one pass;   *)
(* two passes over one play.                                               *)
ByBars == {"bars", "premium", "recovery"}
OnePlay ==
  /\ rule[k2] = "none" /\ due[k2] = Cap
  /\ IF rule[k1] \in ByBars THEN feed.forming => feed.hole = Cap + 1
     ELSE due[k1] = Cap /\ feed = [hole |-> Cap + 1, forming |-> FALSE]
WholeFeed == feed = [hole |-> Cap + 1, forming |-> FALSE]
TwoPlays ==
  /\ {rule[k1], rule[k2]} \subseteq {"bars", "premium", "trail", "loss"}
  /\ WholeFeed /\ due = [p \in Plays |-> IF p = k1 THEN 1 ELSE Cap]
TwoPasses ==
  /\ rule[k1] \in {"bars", "premium", "loss"} /\ rule[k2] = "none"
  /\ WholeFeed /\ due = [p \in Plays |-> 1]

NoEvidence ==
  /\ ledger = "study" /\ rule = [p \in Plays |-> "none"] /\ due = [p \in Plays |-> Cap]
  /\ WholeFeed /\ minute = NextDay /\ evidence = [p \in Plays |-> NotEnrolled]
  /\ observer = [o \in Observers |-> [at |-> "idle"]]
  /\ shared = {} /\ silence = [p \in Plays |-> 0] /\ faults = 0

Init ==
  /\ focus \in {"entry", "one play", "two plays", "two passes"}
  /\ EntryInit /\ (focus # "entry" => settings = [mode |-> "trade", opportunity |-> FALSE])
  /\ IF focus = "entry" THEN NoEvidence ELSE EvidenceInit
  /\ focus = "one play" => OnePlay
  /\ focus = "two plays" => TwoPlays
  /\ focus = "two passes" => TwoPasses

Next ==
  \/ focus = "entry" /\ EntryNext /\ UNCHANGED <<focus, evidenceVars>>
  \/ /\ focus # "entry" /\ EvidenceNext
     /\ focus # "two passes" => \A o \in Observers \ {Poller} : observer'[o].at = "idle"
     /\ UNCHANGED <<focus, entryVars>>

Spec == Init /\ [][Next]_signalVars
=============================================================================
