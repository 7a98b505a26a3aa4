----------------------------- MODULE ScanDevice -----------------------------
(***************************************************************************)
(* The scanner page as a device (pages/scan/use-scan-session.ts,           *)
(* scan-page.tsx): camera and recogniser are started together, and a loop  *)
(* sends frames while both are up.  The page may be hidden and shown, fall *)
(* asleep and be woken, change the thread count and be closed, at any time *)
(* and with any answer outstanding.                                        *)
(*                                                                         *)
(* What becomes of an answered frame is ScanList; here a prompt or a sheet *)
(* is only the flag `busy`.  React renders, and runs the effects of a      *)
(* change, before the next event.                                          *)
(***************************************************************************)
EXTENDS ScanCamera, ScanRecognizer

CONSTANT NoLoop

ASSUME LoopAssumption == NoLoop \notin Request

VARIABLES
  page,           \* the page has not been opened, is open or was closed
  hidden,         \* document.visibilityState
  stoppedHidden,  \* the camera was stopped because the page was hidden
  asleep,         \* the camera was stopped because no card came
  busy,           \* a sheet or a prompt pauses scanning
  threads,        \* the threads setting
  activeLoop      \* the scan loop that was not cancelled

sessionVars == <<page, hidden, stoppedHidden, asleep, busy, threads, activeLoop>>
deviceVars == <<cameraVars, recVars, sessionVars>>

DeviceType ==
  /\ CameraType /\ RecType
  /\ page \in {"before", "open", "closed"}
  /\ {hidden, stoppedHidden, asleep, busy} \subseteq BOOLEAN
  /\ threads \in Threads
  /\ activeLoop \in Request \cup {NoLoop}

DeviceInit ==
  /\ CameraInit /\ RecInit
  /\ page = "before"
  /\ hidden = FALSE /\ stoppedHidden = FALSE /\ asleep = FALSE /\ busy = FALSE
  /\ threads = "more"
  /\ activeLoop = NoLoop

Visible == page = "open" /\ ~hidden
Looping == activeLoop # NoLoop /\ activeLoop \notin pending

-----------------------------------------------------------------------------
(* The taps and events of the page, and what they do to camera, recogniser  *)
(* and page.  A loop is named after the request it waits for.               *)

(* Opening the page, or trying again after the camera failed.               *)
Start ==
  /\ \/ page = "before"
     \/ Visible /\ ~asleep /\ cameraState = "error"
  /\ page' = "open"
  /\ StartRecognizer(threads)
  /\ StartCamera
  /\ UNCHANGED <<hidden, stoppedHidden, asleep, busy, threads>>

Close ==
  /\ Visible
  /\ page' = "closed"
  /\ StopCamera
  /\ StopRecognizer
  /\ UNCHANGED <<hidden, stoppedHidden, asleep, busy, threads>>

(* Seeded fault: only a camera that already shows something is stopped.     *)
OnlyLive == cameraState = "live"

(* onVisibility: the states in which a hidden page stops its camera.        *)
CameraUp == cameraState \in {"starting", "live"}

Hide ==
  /\ Visible
  /\ hidden' = TRUE
  /\ IF CameraUp THEN stoppedHidden' = TRUE /\ StopCamera
     ELSE UNCHANGED <<stoppedHidden, cameraVars>>
  /\ UNCHANGED <<page, asleep, busy, threads, recVars>>

(* Seeded fault: a page that is shown again waits for a tap.                *)
NeverRestarts == FALSE

(* onVisibility: a page that fell asleep waits for its tap.                 *)
Restarts == stoppedHidden /\ ~asleep

Show ==
  /\ page = "open" /\ hidden
  /\ hidden' = FALSE
  /\ stoppedHidden' = FALSE
  /\ IF Restarts THEN StartCamera ELSE UNCHANGED cameraVars
  /\ UNCHANGED <<page, asleep, busy, threads, recVars>>

(* The loop saw no card for a minute.                                       *)
FallAsleep ==
  /\ Looping
  /\ asleep' = TRUE
  /\ StopCamera
  /\ UNCHANGED <<page, hidden, stoppedHidden, busy, threads, recVars>>

Wake ==
  /\ Visible /\ asleep
  /\ asleep' = FALSE
  /\ StartCamera
  /\ UNCHANGED <<page, hidden, stoppedHidden, busy, threads, recVars>>

Pause ==
  /\ Visible
  /\ busy' = ~busy
  /\ UNCHANGED <<page, hidden, stoppedHidden, asleep, threads, cameraVars, recVars>>

(* A runtime keeps its threads: a changed setting restarts the recogniser.  *)
SetThreads ==
  /\ Visible
  /\ threads' \in Threads \ {threads}
  /\ IF recState # "idle" THEN Restart(threads') ELSE UNCHANGED recVars
  /\ UNCHANGED <<page, hidden, stoppedHidden, asleep, busy, cameraVars>>

(* The loop grabs a frame; without a stream there is none.                  *)
SendFrame ==
  /\ Looping /\ ~busy /\ ~hidden /\ streamRef # NoOpening
  /\ Ask(activeLoop)
  /\ UNCHANGED <<page, hidden, stoppedHidden, asleep, busy, threads, cameraVars>>

-----------------------------------------------------------------------------
(* The answers of browser, server and worker.                               *)
BrowserAnswers ==
  /\ CameraAnswers
  /\ UNCHANGED <<page, hidden, stoppedHidden, asleep, busy, threads, recVars>>

WorkerAnswers ==
  /\ BundleAnswers \/ Crash \/ \E r \in pending : Answer(r)
  /\ UNCHANGED <<page, hidden, stoppedHidden, asleep, busy, threads, cameraVars>>

Running == cameraState = "live" /\ recState = "ready"

(* The effect of `running`: a loop starts when both come up and is          *)
(* cancelled when one goes down.                                            *)
LoopFollows ==
  IF ~Running' THEN activeLoop' = NoLoop
  ELSE IF Running THEN UNCHANGED activeLoop
  ELSE activeLoop' \in Request \ pending'

DeviceNext ==
  /\ \/ Start \/ Close \/ Hide \/ Show \/ FallAsleep \/ Wake \/ Pause
     \/ SetThreads \/ SendFrame
     \/ BrowserAnswers \/ WorkerAnswers
  /\ LoopFollows

DeviceSpec == DeviceInit /\ [][DeviceNext]_deviceVars

-----------------------------------------------------------------------------
(* "The camera is off while the app or tab is in the background, not just    *)
(* unread": no stream runs while the page is hidden or closed, whatever was *)
(* still being opened when that happened.                                   *)
HiddenCameraOff == hidden \/ page = "closed" => streams = {}

(* The camera runs for the page only, and only while the page is in view.   *)
CameraInView == CameraReleased /\ HiddenCameraOff

(* A page in view comes up: unless it fell asleep, its camera is live, says *)
(* why not, or waits for an answer that will count.  Nothing but the page   *)
(* itself would start it again after it was hidden while it was opening     *)
(* (onVisibility).                                                          *)
CameraComes ==
  Visible /\ ~asleep =>
    \/ cameraState \in {"live", "error"}
    \/ cameraState = "starting" /\ newest # NoOpening /\ opening[newest] # "none"
=============================================================================
