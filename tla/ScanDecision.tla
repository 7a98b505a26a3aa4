---------------------------- MODULE ScanDecision ----------------------------
(***************************************************************************)
(* How one recognised frame becomes a scan (pages/scan/scan-decision.ts).  *)
(* A frame is what the recogniser saw: whether a card is in view, where it *)
(* lies and which arts it resembles, best first.  The tracker remembers    *)
(* the streak of agreeing frames and the card logged last.                 *)
(*                                                                         *)
(* Scores are hundredths.  A place is a number; a card that moved by more  *)
(* than one did not lie still.                                             *)
(***************************************************************************)
EXTENDS Integers, Sequences, Filters

CONSTANTS
  Art,          \* the arts of the gallery
  KeyOf,        \* the card each art shows; both faces of a card show it
  BlankArt,     \* arts that stand for no artwork visible
  TokenArt,     \* arts of tokens
  Score, Place, \* the scores and places a frame may have
  NoKey, NoPlace

ASSUME DecisionAssumption ==
  /\ BlankArt \subseteq Art /\ TokenArt \subseteq Art
  /\ Score \subseteq 1 .. 100 /\ Place \subseteq Int
  /\ NoKey \notin {KeyOf[a] : a \in Art} /\ NoPlace \notin Place

MinScore == 60
ClearScore == 75
ClearMargin == 8
ClearFrames == 2
AgreeingFrames == 3

CardKey == {KeyOf[a] : a \in Art}

Candidate == [art : Art, score : Score]

(* Up to two candidates, best first; a frame without a card names none.     *)
Ranked ==
  {<<>>} \cup {<<c>> : c \in Candidate}
  \cup {s \in Candidate \X Candidate : s[1].art # s[2].art /\ s[1].score >= s[2].score}

Frame ==
  [inView : {TRUE}, candidates : Ranked, place : Place]
  \cup [inView : {FALSE}, candidates : {<<>>}, place : {NoPlace}]

Tracker ==
  [key : CardKey \cup {NoKey}, streak : 0 .. AgreeingFrames, place : Place \cup {NoPlace},
   last : CardKey \cup {NoKey}]

InitialTracker == [key |-> NoKey, streak |-> 0, place |-> NoPlace, last |-> NoKey]

-----------------------------------------------------------------------------
ScoreAt(ranked, i) == IF i <= Len(ranked) THEN ranked[i].score ELSE 0

Within(frame, allowed) == Among(frame.candidates, [art : allowed, score : Score])

Blank(frame) == frame.candidates # <<>> /\ frame.candidates[1].art \in BlankArt

(* The best match is from another set and clearly beats every allowed one.  *)
OutsideLock(frame, allowed) ==
  /\ frame.candidates # <<>>
  /\ frame.candidates[1].art \notin allowed
  /\ ScoreAt(frame.candidates, 1) >= MinScore
  /\ ScoreAt(frame.candidates, 1) - ScoreAt(Within(frame, allowed), 1) >= ClearMargin

Identified(frame, allowed) ==
  /\ frame.inView /\ ~Blank(frame) /\ ~OutsideLock(frame, allowed)
  /\ ScoreAt(Within(frame, allowed), 1) >= MinScore

Unidentified(frame, allowed) ==
  IF ~frame.inView THEN "empty"
  ELSE IF ~Blank(frame) /\ OutsideLock(frame, allowed) THEN "outside-lock" ELSE "tracking"

KeyIn(frame, allowed) == KeyOf[Within(frame, allowed)[1].art]

Clear(frame, allowed) ==
  LET ranked == Within(frame, allowed)
  IN  /\ ScoreAt(ranked, 1) >= ClearScore
      /\ ScoreAt(ranked, 1) - ScoreAt(ranked, 2) >= ClearMargin

Still(p, q) == p - q \in {-1, 0, 1}

(* Seeded fault: a card that is moved keeps its streak.                     *)
ContinuesMoving(tracker, key, place) == tracker.key = key

(* A card that moved since the last frame starts a new streak.              *)
Continues(tracker, key, place) ==
  tracker.key = key /\ tracker.place # NoPlace /\ Still(tracker.place, place)

Forgotten(tracker) == [tracker EXCEPT !.key = NoKey, !.streak = 0, !.place = NoPlace]

(* Seeded fault: the count of a streak is not capped.                       *)
Uncapped(streak) == streak + 1

(* Counting past the longest streak that matters (bound) decides nothing.    *)
OneMore(streak) == IF streak = AgreeingFrames THEN streak ELSE streak + 1

(* evaluateFrame: what the tracker becomes, and what the frame comes to.    *)
Evaluate(tracker, frame, allowed) ==
  IF ~Identified(frame, allowed)
  THEN [tracker |-> Forgotten(tracker), outcome |-> Unidentified(frame, allowed)]
  ELSE LET key == KeyIn(frame, allowed)
           streak == IF Continues(tracker, key, frame.place) THEN OneMore(tracker.streak)
                     ELSE 1
           next == [tracker EXCEPT !.key = key, !.streak = streak, !.place = frame.place]
           needed == IF Clear(frame, allowed) THEN ClearFrames ELSE AgreeingFrames
       IN  IF streak < needed THEN [tracker |-> next, outcome |-> "tracking"]
           ELSE IF key = tracker.last THEN [tracker |-> next, outcome |-> "duplicate"]
           ELSE [tracker |-> [next EXCEPT !.last = key], outcome |-> "accept"]

(* forgetLastLogged, markLogged: a mark without a card changes nothing.     *)
ForgetLast(tracker) == [tracker EXCEPT !.last = NoKey]

Marked(tracker, key) == IF key = NoKey THEN tracker ELSE [tracker EXCEPT !.last = key]

(* evaluateTokenFrame: the best token, for a tap to log.                    *)
TokenIn(frame) == Among(frame.candidates, [art : TokenArt, score : Score])

EvaluateToken(frame) ==
  IF ~frame.inView THEN "empty"
  ELSE IF ScoreAt(TokenIn(frame), 1) < MinScore THEN "tracking" ELSE "ready"
=============================================================================
