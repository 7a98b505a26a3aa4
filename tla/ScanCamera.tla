----------------------------- MODULE ScanCamera -----------------------------
(***************************************************************************)
(* The scanner page's camera (pages/scan/use-camera.ts).  Opening it takes *)
(* three answers of the browser: the stream, the playing video and the     *)
(* applied focus.  A stop or a newer start may come before any of them,    *)
(* and a generation number tells a late answer from a current one.         *)
(*                                                                         *)
(* A stream is named after the call of start that asked for it.  What the  *)
(* camera shows, its diagnostics and focusing on a point are left out, and *)
(* so is the difference between the errors.                                *)
(***************************************************************************)
EXTENDS Naturals, FiniteSets

CONSTANTS
  Opening,      \* calls of start that may wait at the same time (bound)
  NoOpening

ASSUME OpeningAssumption == NoOpening \notin Opening

VARIABLES
  cameraState,  \* what the page shows
  streamRef,    \* the stream the page holds
  streams,      \* the streams whose tracks run
  opening,      \* how far each call of start is
  newest        \* the call that has the current generation

cameraVars == <<cameraState, streamRef, streams, opening, newest>>

CameraType ==
  /\ cameraState \in {"idle", "starting", "live", "error"}
  /\ streamRef \in Opening \cup {NoOpening}
  /\ streams \subseteq Opening
  /\ opening \in [Opening -> {"none", "asking", "playing", "focusing"}]
  /\ newest \in Opening \cup {NoOpening}

CameraInit ==
  /\ cameraState = "idle"
  /\ streamRef = NoOpening
  /\ streams = {}
  /\ opening = [c \in Opening |-> "none"]
  /\ newest = NoOpening

-----------------------------------------------------------------------------
(* stop: a newer generation, and the tracks of the held stream end.         *)
StopCamera ==
  /\ newest' = NoOpening
  /\ streams' = streams \ {streamRef}
  /\ streamRef' = NoOpening
  /\ cameraState' = "idle"
  /\ UNCHANGED opening

Unused(c) == opening[c] = "none" /\ c \notin streams

(* start: a page that holds a stream does nothing.  An insecure page or a   *)
(* browser without cameras ends like a refused one.                         *)
StartCamera ==
  IF streamRef # NoOpening THEN UNCHANGED cameraVars
  ELSE \E c \in Opening :
         /\ Unused(c)
         /\ opening' = [opening EXCEPT ![c] = "asking"]
         /\ newest' = c
         /\ cameraState' = "starting"
         /\ UNCHANGED <<streamRef, streams>>

-----------------------------------------------------------------------------
Advance(c, from, to) ==
  opening[c] = from /\ opening' = [opening EXCEPT ![c] = to]

Current(c) == newest = c

(* getUserMedia answers: a late stream is released at once.                 *)
Granted(c) ==
  /\ IF Current(c)
     THEN /\ Advance(c, "asking", "playing")
          /\ streams' = streams \cup {c}
          /\ streamRef' = c
     ELSE /\ Advance(c, "asking", "none")
          /\ UNCHANGED <<streams, streamRef>>
  /\ UNCHANGED <<cameraState, newest>>

Played(c) ==
  /\ Advance(c, "playing", IF Current(c) THEN "focusing" ELSE "none")
  /\ UNCHANGED <<cameraState, streamRef, streams, newest>>

(* getUserMedia or play fails: a late failure is nobody's.                  *)
Failed(c) ==
  /\ \E from \in {"asking", "playing"} : Advance(c, from, "none")
  /\ IF Current(c)
     THEN /\ streams' = streams \ {streamRef}
          /\ streamRef' = NoOpening
          /\ cameraState' = "error"
     ELSE UNCHANGED <<streams, streamRef, cameraState>>
  /\ UNCHANGED newest

(* The focus is applied: the generation is not looked at again.             *)
Focused(c) ==
  /\ Advance(c, "focusing", "none")
  /\ cameraState' = "live"
  /\ UNCHANGED <<streamRef, streams, newest>>

CameraAnswers == \E c \in Opening : Granted(c) \/ Played(c) \/ Failed(c) \/ Focused(c)

CameraNext == StartCamera \/ StopCamera \/ CameraAnswers

CameraSpec == CameraInit /\ [][CameraNext]_cameraVars

-----------------------------------------------------------------------------
(* No camera is left on: a stream whose tracks run is the one the page      *)
(* holds and can stop, however the answers and the stops interleave (the    *)
(* generation checks of start).                                             *)
CameraReleased == streams \subseteq {streamRef}
=============================================================================
