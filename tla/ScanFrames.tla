----------------------------- MODULE ScanFrames -----------------------------
(***************************************************************************)
(* The scan loop's tracker over a run of answered frames                   *)
(* (pages/scan/use-scan-session.ts).  Between two frames the set lock may  *)
(* change, the newest scan may be removed and the user may name the card   *)
(* in view.  Frames answered while scanning pauses, while the lock loads   *)
(* or in tokens mode do not reach the tracker.                             *)
(***************************************************************************)
EXTENDS ScanDecision

CONSTANT
  Locks         \* the sets of arts a lock may allow

ASSUME LocksAssumption == Locks \subseteq SUBSET Art

VARIABLES
  tracker,
  outcome,      \* what the last frame came to
  recent        \* history: the last frames, newest first

framesVars == <<tracker, outcome, recent>>

Seen == [key : CardKey \cup {NoKey}, place : Place \cup {NoPlace}, clear : BOOLEAN]

FramesType ==
  /\ tracker \in Tracker
  /\ outcome \in {"idle", "empty", "tracking", "outside-lock", "duplicate", "accept"}
  /\ recent \in Seq(Seen) /\ Len(recent) <= AgreeingFrames

FramesInit ==
  /\ tracker = InitialTracker
  /\ outcome = "idle"
  /\ recent = <<>>

-----------------------------------------------------------------------------
Noted(frame, allowed) ==
  IF Identified(frame, allowed)
  THEN [key |-> KeyIn(frame, allowed), place |-> frame.place, clear |-> Clear(frame, allowed)]
  ELSE [key |-> NoKey, place |-> NoPlace, clear |-> FALSE]

(* As many of the last frames as a streak may need.                         *)
Latest(x, s) == <<x>> \o (IF Len(s) < AgreeingFrames THEN s ELSE Front(s))

(* An answered frame, evaluated with the lock there is now.                 *)
TrackFrame ==
  \E frame \in Frame, allowed \in Locks :
    LET next == Evaluate(tracker, frame, allowed)
    IN  /\ tracker' = next.tracker
        /\ outcome' = next.outcome
        /\ recent' = Latest(Noted(frame, allowed), recent)

(* The newest scan was removed, or the user named the card in view.         *)
Told ==
  /\ tracker' \in {ForgetLast(tracker)} \cup {Marked(tracker, k) : k \in CardKey}
  /\ UNCHANGED <<outcome, recent>>

FramesNext == TrackFrame \/ Told

-----------------------------------------------------------------------------
Agree(n) ==
  /\ Len(recent) >= n
  /\ \A i \in 1 .. n : recent[i].place # NoPlace
  /\ \A i \in 1 .. n - 1 : /\ recent[i].key = recent[i + 1].key
                           /\ Still(recent[i].place, recent[i + 1].place)

(* "A card is logged only once it has held still across agreeing frames": a *)
(* frame finishes a streak exactly when it is clear and agrees with the     *)
(* frame before, or agrees with the two before, and the card lay still in   *)
(* all of them (evaluateFrame).                                             *)
HeldStill ==
  outcome \in {"accept", "duplicate"} <=> (Agree(2) /\ recent[1].clear) \/ Agree(3)
=============================================================================
