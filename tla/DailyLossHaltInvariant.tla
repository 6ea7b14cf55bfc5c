----------------------- MODULE DailyLossHaltInvariant -----------------------
(***************************************************************************)
(* The inductive invariant behind the safety properties of DailyLossHalt.  *)
(***************************************************************************)
EXTENDS DailyLossHalt

UnderReview == {"reread", "persist", "positions"}

\* A thread decides under the review lock, and holds it no longer.
Serialized == \A t \in Threads : pc[t] \in UnderReview <=> review = t

Roles ==
  /\ \A t \in Requests : /\ pc[t] \in RequestPlaces \cup CheckPlaces
                         /\ back[t] = "request"
  /\ pc[Loop] \in LoopPlaces \cup CheckPlaces
  /\ pc[Loop] \in CheckPlaces => back[Loop] # "request"

Verdicts == \A t \in Threads : At(t, "persist") => verdict[t].reason # "none"

\* The loop is about to enter, or asks whether it may.
Entering == \/ pc[Loop] = "place"
            \/ pc[Loop] \in CheckPlaces /\ back[Loop] = "entry"

\* The loop closes the journaled trades of a flatten.
Closing == \/ pc[Loop] = "flatten"
           \/ pc[Loop] \in CheckPlaces /\ back[Loop] = "flatten"

Books ==
  /\ trade <= position
  /\ order = "working" => position < MaxHeld
  /\ Entering => order = "none" /\ position < MaxHeld
  /\ pc[Loop] = "sweep" => trade = 0 /\ ~Durable

\* Only a flatten that found no unresolved attempt goes past the journal, and
\* then the journal knows all there is.
Flattening ==
  /\ Closing /\ ~seen[Loop].pending => order = "none" /\ position = trade
  /\ pc[Loop] \in {"orders", "confirm", "confirmed"} => Flat

\* A halt in force comes with its flatten pending, so the loop that placed an
\* order in spite of it flattens before it confirms.
Confirmed ==
  Locked /\ ~halt.pending => Flat /\ pc[Loop] \notin {"place", "reread"}

Resuming == \A t \in Requests : At(t, "positions") => ~halt.pending

Control == Serialized /\ Roles /\ Verdicts
Facts   == Books /\ Resuming /\ (Durable => Flattening /\ Confirmed)

IInv == TypeOK /\ Control /\ Facts

\* From the first close of a flatten to its confirmation, nobody but the loop makes
\* the flatten pending no longer; what is confirmed is a halt.
Pursuing == Closing \/ pc[Loop] \in {"orders", "sweep", "confirm", "confirmed"}

Pursued ==
  /\ halt.pending => halt.reason # "none"
  /\ Pursuing => halt.pending
  /\ At(Loop, "confirmed") => seen[Loop].halt.reason # "none"
=============================================================================
