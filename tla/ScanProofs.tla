------------------------------ MODULE ScanProofs ----------------------------
(***************************************************************************)
(* Proofs about the scanner page as a part of the web frontend: for any    *)
(* number of openings, workers and requests that may wait at a time.       *)
(***************************************************************************)
EXTENDS WebApp, FiniteSetTheorems, SequenceTheorems, TLAPS

-----------------------------------------------------------------------------
(* The camera.  A call that has the current generation and is not done yet  *)
(* is why the page shows an opening camera, and a held stream is that of    *)
(* the newest call; whatever was hidden or closed has no such call.         *)
CameraInv ==
  /\ CameraType
  /\ CameraReleased
  /\ newest # NoOpening /\ opening[newest] = "asking" => streamRef = NoOpening
  /\ newest # NoOpening /\ opening[newest] # "none" => cameraState \in {"starting", "live"}
  /\ streamRef # NoOpening => newest = streamRef /\ cameraState \in {"starting", "live"}
  /\ cameraState = "starting" => newest # NoOpening /\ opening[newest] # "none"

(* Nothing that may still be answered brings a stream.                      *)
NoCameraComing ==
  streamRef = NoOpening /\ (newest = NoOpening \/ opening[newest] = "none")

PageInv ==
  /\ page \in {"before", "open", "closed"}
  /\ {hidden, stoppedHidden, asleep} \subseteq BOOLEAN
  /\ page = "before" => ~hidden
  /\ hidden \/ page = "closed" => NoCameraComing
  /\ page = "open" /\ ~asleep /\ cameraState = "idle" => hidden /\ stoppedHidden

(* The recogniser: a worker with its bundle asks the server for none.       *)
RecInv ==
  /\ RecType
  /\ RequestsAnswerable
  /\ ReadyMeansLoaded
  /\ load # "none" => workerRef # NoWorker /\ bundleOf[workerRef] = "none"

DeviceInv ==
  /\ DeviceType
  /\ CameraInv /\ PageInv /\ RecInv
  /\ activeLoop # NoLoop => Running

LEMMA DeviceInitInv == DeviceInit => DeviceInv
  BY OpeningAssumption, WorkerAssumption
  DEF DeviceInit, CameraInit, RecInit, DeviceInv, DeviceType, CameraInv, PageInv, RecInv, CameraType, RecType,
      CameraReleased, RequestsAnswerable, ReadyMeansLoaded, NoCameraComing, Threads, Running

-----------------------------------------------------------------------------
(* Starting and stopping the camera, and its answers.                       *)
LEMMA StartCameraInv == CameraInv /\ StartCamera => CameraInv' /\ cameraState' # "idle"
  BY OpeningAssumption
  DEF CameraInv, CameraType, CameraReleased, StartCamera, Unused, cameraVars

LEMMA StopCameraInv == CameraInv /\ StopCamera => CameraInv' /\ NoCameraComing'
  BY OpeningAssumption
  DEF CameraInv, CameraType, CameraReleased, StopCamera, NoCameraComing

LEMMA CameraAnswersInv ==
  CameraInv /\ CameraAnswers =>
    /\ CameraInv'
    /\ NoCameraComing => NoCameraComing'
    /\ cameraState' = "idle" => cameraState = "idle"
<1> SUFFICES ASSUME CameraInv, NEW c \in Opening, Granted(c) \/ Played(c) \/ Failed(c) \/ Focused(c)
             PROVE  /\ CameraInv'
                    /\ NoCameraComing => NoCameraComing'
                    /\ cameraState' = "idle" => cameraState = "idle"
  BY DEF CameraAnswers
<1> USE OpeningAssumption DEF CameraInv, CameraType, CameraReleased, NoCameraComing, Advance, Current
<1>1. CASE Granted(c)
  BY <1>1 DEF Granted
<1>2. CASE Played(c)
  BY <1>2 DEF Played
<1>3. CASE Failed(c)
  BY <1>3 DEF Failed
<1>4. CASE Focused(c)
  BY <1>4 DEF Focused
<1> QED
  BY <1>1, <1>2, <1>3, <1>4

LEMMA CameraSame ==
  UNCHANGED cameraVars => (CameraInv <=> CameraInv') /\ (NoCameraComing <=> NoCameraComing')
  BY DEF cameraVars, CameraInv, CameraType, CameraReleased, NoCameraComing

-----------------------------------------------------------------------------
(* What page and camera do together.                                        *)
LEMMA PageStep ==
  CameraInv /\ PageInv /\ DeviceNext => CameraInv' /\ PageInv'
<1> SUFFICES ASSUME CameraInv, PageInv, DeviceNext PROVE CameraInv' /\ PageInv'
  OBVIOUS
<1> USE DEF PageInv
<1>1. CASE Start
  BY <1>1, StartCameraInv DEF Start, Visible
<1>2. CASE Close
  BY <1>2, StopCameraInv DEF Close, Visible
<1>3. CASE Hide
  <2>1. CASE CameraUp
    BY <1>3, <2>1, StopCameraInv DEF Hide, Visible
  <2>2. CASE ~CameraUp
    BY <1>3, <2>2, CameraSame DEF Hide, Visible, CameraUp, CameraInv, NoCameraComing, cameraVars
  <2> QED BY <2>1, <2>2
<1>4. CASE Show
  BY <1>4, StartCameraInv, CameraSame DEF Show, Restarts, cameraVars
<1>5. CASE FallAsleep
  BY <1>5, StopCameraInv DEF FallAsleep
<1>6. CASE Wake
  BY <1>6, StartCameraInv DEF Wake, Visible
<1>7. CASE Pause \/ SetThreads \/ SendFrame \/ WorkerAnswers
  BY <1>7, CameraSame DEF Pause, SetThreads, SendFrame, WorkerAnswers, cameraVars
<1>8. CASE BrowserAnswers
  BY <1>8, CameraAnswersInv DEF BrowserAnswers
<1> QED
  BY <1>1, <1>2, <1>3, <1>4, <1>5, <1>6, <1>7, <1>8 DEF DeviceNext

-----------------------------------------------------------------------------
(* The recogniser.                                                          *)
LEMMA LaunchInv ==
  ASSUME RecType, NEW on \in Threads, Launch(on)
  PROVE  /\ recState' # "ready" /\ load' = "none"
         /\ recState' \in {"checking", "failed"}
         /\ workerRef' \in Worker \cup {NoWorker} /\ onThreads' \in Threads
         /\ bundleOf' \in [Worker -> {"none", "asked", "reading"}]
  BY DEF Launch, RecType

LEMMA AnswersInv ==
  ASSUME RecInv, BundleAnswers \/ Crash \/ \E r \in pending : Answer(r)
  PROVE  RecInv'
<1> USE WorkerAssumption
    DEF RecInv, RecType, RequestsAnswerable, ReadyMeansLoaded, Shown, Rejected
<1>1. ASSUME NEW w \in Worker, BundleRefused(w) PROVE RecInv'
  BY <1>1 DEF BundleRefused
<1>2. ASSUME NEW w \in Worker, BundleNamed(w) PROVE RecInv'
  BY <1>2 DEF BundleNamed
<1>3. ASSUME NEW w \in Worker, BundleRead(w) PROVE RecInv'
  BY <1>3 DEF BundleRead
<1>4. CASE Loaded
  BY <1>4 DEF Loaded
<1>5. CASE LoadFails
  BY <1>5, LaunchInv DEF LoadFails, Retried, ShowsFailure, Threads
<1>6. CASE Crash
  BY <1>6, LaunchInv DEF Crash, Retried, ShowsFailure, Threads
<1>7. ASSUME NEW r \in pending, Answer(r) PROVE RecInv'
  BY <1>7 DEF Answer
<1> QED
  BY <1>1, <1>2, <1>3, <1>4, <1>5, <1>6, <1>7 DEF BundleAnswers

LEMMA RecSame == UNCHANGED recVars => (RecInv <=> RecInv')
  BY DEF recVars, RecInv, RecType, RequestsAnswerable, ReadyMeansLoaded

(* A frame is sent by a loop, and a loop runs while the recogniser is ready. *)
LEMMA RecStep ==
  ASSUME DeviceInv, DeviceNext
  PROVE  RecInv'
<1> USE DEF DeviceInv, DeviceType
<1>1. CASE Start
  BY <1>1, RecSame, LaunchInv
  DEF Start, StartRecognizer, RecInv, RecType, RequestsAnswerable, ReadyMeansLoaded
<1>2. CASE Close
  BY <1>2 DEF Close, StopRecognizer, Rejected, RecInv, RecType, RequestsAnswerable, ReadyMeansLoaded
<1>3. CASE SetThreads
  <2>1. CASE recState = "idle"
    BY <1>3, <2>1, RecSame DEF SetThreads
  <2>2. CASE recState # "idle"
    BY <1>3, <2>2, LaunchInv
    DEF SetThreads, Restart, Rejected, RecInv, RecType, RequestsAnswerable, ReadyMeansLoaded
  <2> QED BY <2>1, <2>2
<1>4. CASE SendFrame
  BY <1>4 DEF SendFrame, Looping, Ask, Running, RecInv, RecType, RequestsAnswerable, ReadyMeansLoaded
<1>5. CASE WorkerAnswers
  BY <1>5, AnswersInv DEF WorkerAnswers
<1>6. CASE Hide \/ Show \/ FallAsleep \/ Wake \/ Pause \/ BrowserAnswers
  BY <1>6, RecSame DEF Hide, Show, FallAsleep, Wake, Pause, BrowserAnswers
<1> QED
  BY <1>1, <1>2, <1>3, <1>4, <1>5, <1>6 DEF DeviceNext

(* A loop is there only while camera and recogniser are up.                 *)
LEMMA DeviceStep == DeviceInv /\ [DeviceNext]_deviceVars => DeviceInv'
<1> SUFFICES ASSUME DeviceInv, [DeviceNext]_deviceVars PROVE DeviceInv'
  OBVIOUS
<1>1. CASE UNCHANGED deviceVars
  BY <1>1, CameraSame, RecSame
  DEF deviceVars, sessionVars, cameraVars, recVars, DeviceInv, DeviceType, CameraType, RecType,
      PageInv, NoCameraComing, Running
<1>2. CASE DeviceNext
  <2>1. CameraInv' /\ PageInv' /\ RecInv'
    BY <1>2, PageStep, RecStep DEF DeviceInv
  <2>2. activeLoop' # NoLoop => Running'
    BY <1>2 DEF DeviceNext, LoopFollows, DeviceInv
  <2>3. activeLoop' \in Request \cup {NoLoop}
    BY <1>2 DEF DeviceNext, LoopFollows, DeviceInv, DeviceType
  <2>4. busy' \in BOOLEAN /\ threads' \in Threads
    BY <1>2 DEF DeviceNext, DeviceInv, DeviceType, Start, Close, Hide, Show, FallAsleep, Wake, Pause,
                SetThreads, SendFrame, BrowserAnswers, WorkerAnswers
  <2> QED
    BY <2>1, <2>2, <2>3, <2>4 DEF DeviceInv, DeviceType, CameraInv, RecInv, PageInv
<1> QED
  BY <1>1, <1>2

(* The other parts leave the device alone.                                  *)
LEMMA WebDevice == [WebNext]_webVars => [DeviceNext]_deviceVars
  BY DEF WebNext, webVars, scanVars, FollowDevice, FollowFrames, FollowLock, FollowList, FollowImport,
         FollowShared, FollowPull, FollowSwap, FollowTags

(* What the page, its camera and its worker know of each other, for any     *)
(* number of openings, workers and requests.                                *)
THEOREM DeviceSafe == WebSpec => []DeviceInv
<1>1. WebInit => DeviceInv
  BY DeviceInitInv DEF WebInit
<1>2. DeviceInv /\ [WebNext]_webVars => DeviceInv'
  BY DeviceStep, WebDevice
<1> QED
  BY <1>1, <1>2, PTL DEF WebSpec

(* The running camera is the one the page holds, and a page that is hidden  *)
(* or closed has none, in whatever order answers and stops come.            *)
THEOREM CameraOnlyInView == WebSpec => []CameraInView
<1>1. DeviceInv => HiddenCameraOff
  BY OpeningAssumption
  DEF DeviceInv, CameraInv, CameraType, CameraReleased, PageInv, NoCameraComing, HiddenCameraOff
<1>2. DeviceInv => CameraInView
  BY <1>1 DEF DeviceInv, CameraInv, CameraInView
<1> QED
  BY <1>2, DeviceSafe, PTL

(* A page in view has its camera, an error, or an answer to come.           *)
THEOREM ComesUp == WebSpec => []CameraComes
<1>1. DeviceInv => CameraComes
  BY DEF DeviceInv, CameraInv, CameraType, PageInv, CameraComes, Visible
<1> QED
  BY <1>1, DeviceSafe, PTL

(* A frame that waits for an answer waits for a worker that can give it.    *)
THEOREM AlwaysAnswerable == WebSpec => []RequestsAnswerable
<1>1. DeviceInv => RequestsAnswerable
  BY DEF DeviceInv, RecInv
<1> QED
  BY <1>1, DeviceSafe, PTL

-----------------------------------------------------------------------------
(* The set lock.                                                            *)
LockInv == locked \in LockChoice /\ LockCurrent

LEMMA LockStep == LockInv /\ [LockNext]_lockVars => LockInv'
<1> SUFFICES ASSUME LockInv, [LockNext]_lockVars PROVE LockInv'
  OBVIOUS
<1> USE LockAssumption DEF LockInv, LockCurrent, Allows, LockLoading
<1>1. CASE LockAnswered
  BY <1>1 DEF LockAnswered
<1>2. ASSUME NEW l \in LockChoice, SetLock(l) PROVE LockInv'
  BY <1>2 DEF SetLock
<1>3. ASSUME NEW l \in LockChoice, LateLockAnswered(l) PROVE LockInv'
  BY <1>3 DEF LateLockAnswered, DropLate
<1>4. CASE UNCHANGED lockVars
  BY <1>4 DEF lockVars
<1> QED
  BY <1>1, <1>2, <1>3, <1>4 DEF LockNext

(* What may be logged is in the sets locked now, for any sets and answers   *)
(* in any order.                                                            *)
THEOREM OnlyLockedSets == WebSpec => []LockCurrent
<1>1. WebInit => LockInv
  <2>1. LockInit => LockInv
    BY LockAssumption DEF LockInit, LockInv, LockCurrent, Allows
  <2> QED
    BY <2>1 DEF WebInit
<1>2. [WebNext]_webVars => [LockNext]_lockVars
  BY DEF WebNext, webVars, scanVars, FollowDevice, FollowFrames, FollowLock, FollowList,
         FollowImport, FollowShared, FollowPull, FollowSwap, FollowTags
<1>3. LockInv => LockCurrent
  BY DEF LockInv
<1> QED
  BY <1>1, <1>2, <1>3, LockStep, PTL DEF WebSpec

LEMMA LockTypeStep == LockType /\ [LockNext]_lockVars => LockType'
<1> SUFFICES ASSUME LockType, [LockNext]_lockVars PROVE LockType'
  OBVIOUS
<1>1. \A l \in LockChoice :
        /\ Allows(ArtsIn[l]) \in [status : {"ready", "loading"}, arts : SUBSET ArtsIn[NoLock]]
        /\ Allows(ShownIn[l]) \in [status : {"ready", "loading"}, arts : SUBSET ArtsIn[NoLock]]
  BY LockAssumption DEF Allows
<1>2. LockLoading \in [status : {"ready", "loading"}, arts : SUBSET ArtsIn[NoLock]]
  BY DEF LockLoading
<1>3. CASE LockAnswered
  BY <1>1, <1>3 DEF LockAnswered, LockType
<1>4. ASSUME NEW l \in LockChoice, SetLock(l) PROVE LockType'
  BY <1>1, <1>2, <1>4, LockAssumption DEF SetLock, LockType
<1>5. ASSUME NEW l \in LockChoice, LateLockAnswered(l) PROVE LockType'
  BY <1>5 DEF LateLockAnswered, DropLate, LockType
<1>6. CASE UNCHANGED lockVars
  BY <1>6 DEF lockVars, LockType
<1> QED
  BY <1>3, <1>4, <1>5, <1>6 DEF LockNext

LEMMA LockTyped == WebSpec => []LockType
<1>1. WebInit => LockType
  <2>1. NoLock \in LockChoice
    BY LockAssumption
  <2>2. Allows(ArtsIn[NoLock]) \in [status : {"ready", "loading"}, arts : SUBSET ArtsIn[NoLock]]
    BY DEF Allows
  <2>3. LockInit => LockType
    BY <2>1, <2>2 DEF LockInit, LockType
  <2> QED
    BY <2>3 DEF WebInit
<1>2. [WebNext]_webVars => [LockNext]_lockVars
  BY DEF WebNext, webVars, scanVars, FollowDevice, FollowFrames, FollowLock, FollowList,
         FollowImport, FollowShared, FollowPull, FollowSwap, FollowTags
<1> QED
  BY <1>1, <1>2, LockTypeStep, PTL DEF WebSpec

-----------------------------------------------------------------------------
(* The tracker.  Its streak counts the agreeing frames at the head of the   *)
(* recent ones, up to three.                                                *)
Noting(K) == [key : K, place : Place \cup {NoPlace}, clear : BOOLEAN]

Tracking(K) ==
  [key : K, streak : 0 .. AgreeingFrames, place : Place \cup {NoPlace}, last : K]

StreakInv ==
  /\ \E K : tracker \in Tracking(K) /\ recent \in Seq(Noting(K))
  /\ Len(recent) <= AgreeingFrames
  /\ tracker.place # NoPlace =>
       /\ Len(recent) >= 1
       /\ recent[1].place = tracker.place /\ recent[1].key = tracker.key
  /\ Len(recent) >= 1 /\ tracker.place = NoPlace => recent[1].place = NoPlace
  /\ tracker.streak >= 1 <=> Agree(1)
  /\ tracker.streak >= 2 <=> Agree(2)
  /\ tracker.streak >= 3 <=> Agree(3)
  /\ HeldStill

LEMMA LatestSeq ==
  ASSUME NEW S, NEW s \in Seq(S), Len(s) <= AgreeingFrames, NEW x \in S
  PROVE  /\ Latest(x, s) \in Seq(S) /\ Len(Latest(x, s)) <= AgreeingFrames
         /\ Len(Latest(x, s)) >= 1 /\ Latest(x, s)[1] = x
         /\ Len(Latest(x, s)) >= 2 <=> Len(s) >= 1
         /\ Len(Latest(x, s)) >= 3 <=> Len(s) >= 2
         /\ Len(Latest(x, s)) >= 2 => Latest(x, s)[2] = s[1]
         /\ Len(Latest(x, s)) >= 3 => Latest(x, s)[3] = s[2]
<1> DEFINE t == Latest(x, s)
<1> USE DEF AgreeingFrames
<1> DEFINE u == IF Len(s) < AgreeingFrames THEN s ELSE Front(s)
<1>1. /\ u \in Seq(S) /\ Len(u) <= 2
      /\ Len(u) >= 1 <=> Len(s) >= 1
      /\ Len(u) >= 2 <=> Len(s) >= 2
      /\ Len(u) >= 1 => u[1] = s[1]
      /\ Len(u) >= 2 => u[2] = s[2]
  BY DEF Front
<1> HIDE DEF u
<1>2. <<x>> \in Seq(S) /\ Len(<<x>>) = 1 /\ <<x>>[1] = x
  OBVIOUS
<1>3. /\ <<x>> \o u \in Seq(S) /\ Len(<<x>> \o u) = 1 + Len(u)
      /\ \A i \in 1 .. 1 + Len(u) :
           (<<x>> \o u)[i] = IF i <= 1 THEN <<x>>[i] ELSE u[i - 1]
  BY <1>1, <1>2, ConcatProperties
<1>4. t = <<x>> \o u
  BY DEF u, Latest
<1> HIDE DEF t
<1>5. Len(u) \in Nat /\ Len(s) \in Nat
  BY <1>1
<1>6. t \in Seq(S) /\ Len(t) = 1 + Len(u)
  BY <1>3, <1>4
<1>7. t[1] = x
  BY <1>2, <1>3, <1>4, <1>5
<1>8. Len(u) >= 1 => t[2] = u[1]
  BY <1>2, <1>3, <1>4, <1>5
<1>9. Len(u) >= 2 => t[3] = u[2]
  BY <1>2, <1>3, <1>4, <1>5
<1> QED
  BY <1>1, <1>5, <1>6, <1>7, <1>8, <1>9 DEF t

LEMMA TrackStep == StreakInv /\ TrackFrame => StreakInv'
<1> SUFFICES ASSUME StreakInv, NEW frame \in Frame, NEW allowed \in Locks,
                    tracker' = Evaluate(tracker, frame, allowed).tracker,
                    outcome' = Evaluate(tracker, frame, allowed).outcome,
                    recent' = Latest(Noted(frame, allowed), recent)
             PROVE  StreakInv'
  BY DEF TrackFrame
<1> PICK K : tracker \in Tracking(K) /\ recent \in Seq(Noting(K))
  BY DEF StreakInv
<1> DEFINE key == IF Identified(frame, allowed) THEN KeyIn(frame, allowed) ELSE NoKey
           keys == K \cup {key}
           noted == Noted(frame, allowed)
<1>1. /\ noted \in Noting(keys)
      /\ Identified(frame, allowed) => /\ noted.place = frame.place /\ noted.key = key
                                       /\ noted.clear = Clear(frame, allowed)
                                       /\ frame.place \in Place /\ frame.place # NoPlace
      /\ ~Identified(frame, allowed) => noted.place = NoPlace
  BY DecisionAssumption DEF Noted, Noting, Frame, Identified, Clear
<1>2. recent \in Seq(Noting(keys)) /\ tracker \in Tracking(keys)
  BY SeqMonotonic DEF Noting, Tracking
<1>3. recent' = Latest(noted, recent)
  OBVIOUS
<1> HIDE DEF keys, noted, key
<1>4. /\ recent' \in Seq(Noting(keys)) /\ Len(recent') <= AgreeingFrames /\ Len(recent') >= 1
      /\ recent'[1] = noted
      /\ Len(recent') >= 2 <=> Len(recent) >= 1
      /\ Len(recent') >= 3 <=> Len(recent) >= 2
      /\ Len(recent') >= 2 => recent'[2] = recent[1]
      /\ Len(recent') >= 3 => recent'[3] = recent[2]
  <2>1. Len(recent) <= AgreeingFrames
    BY DEF StreakInv
  <2>2. noted \in Noting(keys) /\ recent \in Seq(Noting(keys))
    BY <1>1, <1>2
  <2> DEFINE t == Latest(noted, recent)
  <2>3. /\ t \in Seq(Noting(keys)) /\ Len(t) <= AgreeingFrames
        /\ Len(t) >= 1 /\ t[1] = noted
        /\ Len(t) >= 2 <=> Len(recent) >= 1
        /\ Len(t) >= 3 <=> Len(recent) >= 2
        /\ Len(t) >= 2 => t[2] = recent[1]
        /\ Len(t) >= 3 => t[3] = recent[2]
    BY <2>1, <2>2, LatestSeq
  <2> QED
    BY <1>3, <2>3
<1>5. /\ Len(recent) \in Nat /\ Len(recent') \in Nat
      /\ \A i \in 1 .. Len(recent) : recent[i] \in Noting(keys)
  BY <1>2, <1>4
(* What it means for the frames before and after the step to agree.         *)
<1>6. /\ Agree(1) <=> Len(recent) >= 1 /\ recent[1].place # NoPlace
      /\ Agree(2) <=> /\ Len(recent) >= 2 /\ recent[1].place # NoPlace /\ recent[2].place # NoPlace
                      /\ recent[1].key = recent[2].key /\ Still(recent[1].place, recent[2].place)
  BY DEF Agree
<1>7. /\ Agree(1)' <=> noted.place # NoPlace
      /\ Agree(2)' <=> /\ noted.place # NoPlace /\ Agree(1)
                       /\ noted.key = recent[1].key /\ Still(noted.place, recent[1].place)
      /\ Agree(3)' <=> Agree(2)' /\ Agree(2)
  BY <1>4, <1>5, <1>6 DEF Agree
<1>8. CASE ~Identified(frame, allowed)
  <2>1. /\ tracker' = [tracker EXCEPT !.key = NoKey, !.streak = 0, !.place = NoPlace]
        /\ outcome' = Unidentified(frame, allowed)
    BY <1>8 DEF Evaluate, Forgotten
  <2>2. /\ tracker' \in Tracking(keys \cup {NoKey}) /\ tracker'.streak = 0
        /\ tracker'.place = NoPlace
    <3>1. tracker' = [key |-> NoKey, streak |-> 0, place |-> NoPlace, last |-> tracker.last]
      BY <1>2, <2>1 DEF Tracking
    <3>2. tracker.last \in keys /\ 0 \in 0 .. AgreeingFrames
      BY <1>2 DEF Tracking, AgreeingFrames
    <3> QED
      BY <3>1, <3>2 DEF Tracking
  <2>3. outcome' \in {"empty", "outside-lock", "tracking"}
    BY <2>1 DEF Unidentified
  <2>4. recent' \in Seq(Noting(keys \cup {NoKey}))
    BY <1>4, SeqMonotonic DEF Noting
  <2>5. noted.place = NoPlace
    BY <1>1, <1>8
  <2> QED
    BY <1>4, <1>7, <2>2, <2>3, <2>4, <2>5 DEF StreakInv, HeldStill
<1>9. CASE Identified(frame, allowed)
  <2> DEFINE streak == IF Continues(tracker, key, frame.place) THEN OneMore(tracker.streak) ELSE 1
             needed == IF Clear(frame, allowed) THEN ClearFrames ELSE AgreeingFrames
  <2>1. streak \in 1 .. 3
    BY <1>2 DEF Tracking, OneMore, AgreeingFrames
  <2> DEFINE next == [tracker EXCEPT !.key = key, !.streak = streak, !.place = frame.place]
  <2> HIDE DEF streak, needed
  <2>2. next \in Tracking(keys) /\ next.streak = streak /\ next.place = frame.place /\ next.key = key
    <3>1. key \in keys /\ streak \in 0 .. AgreeingFrames /\ frame.place \in Place \cup {NoPlace}
      BY <1>1, <1>9, <2>1 DEF keys, AgreeingFrames
    <3>2. tracker \in Tracking(keys)
      BY <1>2
    <3> QED
      BY <3>1, <3>2 DEF Tracking, AgreeingFrames
  <2>3. Evaluate(tracker, frame, allowed) =
          IF streak < needed THEN [tracker |-> next, outcome |-> "tracking"]
          ELSE IF key = tracker.last THEN [tracker |-> next, outcome |-> "duplicate"]
          ELSE [tracker |-> [next EXCEPT !.last = key], outcome |-> "accept"]
    BY <1>9 DEF Evaluate, streak, needed, key
  <2>4. /\ tracker' \in {next, [next EXCEPT !.last = key]}
        /\ outcome' \in {"accept", "duplicate"} <=> ~(streak < needed)
    BY <2>3
  <2>5. key \in keys
    BY DEF keys
  <2>6. tracker' \in Tracking(keys) /\ tracker'.streak = streak /\ tracker'.place = frame.place
        /\ tracker'.key = noted.key
    BY <1>1, <1>9, <2>2, <2>4, <2>5 DEF Tracking
  <2>7. Continues(tracker, noted.key, frame.place) <=>
          Agree(1) /\ noted.key = recent[1].key /\ Still(noted.place, recent[1].place)
    <3>1. /\ Agree(1) <=> tracker.place # NoPlace
          /\ Agree(1) => recent[1].key = tracker.key /\ recent[1].place = tracker.place
                         /\ tracker.place \in Int /\ frame.place \in Int
      BY <1>1, <1>2, <1>6, <1>9, DecisionAssumption DEF StreakInv, Tracking
    <3> QED
      BY <1>1, <1>9, <3>1 DEF Continues, Still
  <2>8. /\ streak >= 2 <=> Agree(2)'
        /\ streak >= 3 <=> Agree(3)'
    BY <1>1, <1>2, <1>7, <1>9, <2>1, <2>7 DEF StreakInv, OneMore, Tracking, AgreeingFrames, streak
  <2> QED
    BY <1>1, <1>4, <1>7, <1>9, <2>1, <2>4, <2>6, <2>8
    DEF needed, StreakInv, HeldStill, AgreeingFrames, ClearFrames
<1> QED
  BY <1>8, <1>9

LEMMA StreakStep == StreakInv /\ [FramesNext]_framesVars => StreakInv'
<1> SUFFICES ASSUME StreakInv, [FramesNext]_framesVars PROVE StreakInv'
  OBVIOUS
<1>1. CASE TrackFrame
  BY <1>1, TrackStep
<1>2. CASE Told
  <2> PICK K : tracker \in Tracking(K) /\ recent \in Seq(Noting(K))
    BY DEF StreakInv
  <2> DEFINE keys == K \cup CardKey \cup {NoKey}
  <2>1. PICK k \in keys : tracker' = [tracker EXCEPT !.last = k] \/ tracker' = tracker
    BY <1>2 DEF Told, ForgetLast, Marked
  <2>2. /\ tracker' \in Tracking(keys) /\ tracker'.streak = tracker.streak
        /\ tracker'.place = tracker.place /\ tracker'.key = tracker.key
    BY <2>1 DEF Tracking
  <2>3. recent \in Seq(Noting(keys)) /\ UNCHANGED <<outcome, recent>>
    BY <1>2, SeqMonotonic DEF Told, Noting
  <2> QED
    BY <2>2, <2>3 DEF StreakInv, HeldStill, Agree
<1>3. CASE UNCHANGED framesVars
  BY <1>3 DEF framesVars, StreakInv, HeldStill, Agree, Noting, Tracking
<1> QED
  BY <1>1, <1>2, <1>3 DEF FramesNext

(* A card is logged exactly when it has held still long enough, for any     *)
(* arts, scores, places and locks.                                          *)
THEOREM LoggedWhenStill == WebSpec => []HeldStill
<1>1. FramesInit => StreakInv
  <2> SUFFICES ASSUME FramesInit PROVE StreakInv
    OBVIOUS
  <2>1. tracker \in Tracking({NoKey}) /\ recent \in Seq(Noting({NoKey})) /\ Len(recent) = 0
    BY DEF FramesInit, InitialTracker, Tracking, AgreeingFrames
  <2>2. tracker.streak = 0 /\ tracker.place = NoPlace /\ outcome = "idle"
    BY DEF FramesInit, InitialTracker
  <2> QED
    BY <2>1, <2>2 DEF StreakInv, HeldStill, Agree, AgreeingFrames
<1>2. [WebNext]_webVars => [FramesNext]_framesVars
  BY DEF WebNext, webVars, scanVars, FollowDevice, FollowFrames, FollowLock, FollowList,
         FollowImport, FollowShared, FollowPull, FollowSwap, FollowTags
<1>3. StreakInv => HeldStill
  BY DEF StreakInv
<1>4. WebInit => FramesInit
  BY DEF WebInit
<1> QED
  BY <1>1, <1>2, <1>3, <1>4, StreakStep, PTL DEF WebSpec

-----------------------------------------------------------------------------
(* The list.  Every scan is listed once and its fate says so; one that is   *)
(* looked up is still as it was logged unless the user overtook it.         *)
EntriesInv ==
  /\ entries \in Seq(Entry)
  /\ fate \in [EntryId -> {"unused", "listed", "removed"}]
  /\ \A m, n \in DOMAIN entries : entries[m].id = entries[n].id => m = n
  /\ \A n \in DOMAIN entries : fate[entries[n].id] = "listed"
  /\ \A i \in EntryId : fate[i] = "listed" => \E n \in DOMAIN entries : entries[n].id = i

LabelsInv ==
  /\ lookups \in [EntryId -> ScanCard \cup {NoCard}]
  /\ labels \in [EntryId -> Label \cup {NotUploaded, Skipped}]
  /\ \A n \in DOMAIN entries :
       entries[n].id \notin overtaken =>
         /\ labels[entries[n].id] \in {NotUploaded, LabelOf(entries[n])}
         /\ lookups[entries[n].id] # NoCard =>
              entries[n].card = lookups[entries[n].id] /\ entries[n].finish = "nonfoil"
  /\ \A i \in EntryId \ overtaken :
       fate[i] = "removed" => labels[i] \in {NotUploaded, Skipped} /\ lookups[i] = NoCard

ListInv == EntriesInv /\ LabelsInv /\ RemembersLastScan

LEMMA EntryTyped ==
  ASSUME EntriesInv, NEW n \in DOMAIN entries
  PROVE  entries[n] \in Entry /\ entries[n].id \in EntryId
<1>1. entries \in [DOMAIN entries -> Entry]
  BY DEF EntriesInv
<1> QED
  BY <1>1 DEF Entry

LEMMA EntryAt ==
  ASSUME EntriesInv, NEW n \in DOMAIN entries
  PROVE  EntryOf(entries[n].id) = entries[n]
  BY DEF EntriesInv, EntryOf, Listed

(* The entry at n is changed.                                               *)
LEMMA UpdatedSeq ==
  ASSUME EntriesInv, NEW e \in Entry, NEW n \in DOMAIN entries, entries[n].id = e.id
  PROVE  Updated(e.id, e) = [entries EXCEPT ![n] = e]
<1>1. entries \in [DOMAIN entries -> Entry]
  BY DEF EntriesInv
<1> QED
  BY <1>1 DEF EntriesInv, Updated

LEMMA ExceptEntries ==
  ASSUME EntriesInv, NEW e \in Entry, NEW n \in DOMAIN entries, entries[n].id = e.id,
         entries' = Updated(e.id, e), UNCHANGED fate
  PROVE  /\ EntriesInv'
         /\ DOMAIN entries' = DOMAIN entries /\ Len(entries') = Len(entries)
         /\ \A m \in DOMAIN entries : entries'[m] = IF m = n THEN e ELSE entries[m]
<1>1. entries' = [entries EXCEPT ![n] = e]
  BY UpdatedSeq
<1>2. entries' \in Seq(Entry) /\ Len(entries') = Len(entries)
      /\ \A m \in DOMAIN entries : entries'[m] = IF m = n THEN e ELSE entries[m]
  BY <1>1, ExceptSeq DEF EntriesInv
<1>3. DOMAIN entries' = DOMAIN entries
  BY <1>2 DEF EntriesInv
<1>4. \A m \in DOMAIN entries : entries'[m].id = entries[m].id
  BY <1>2
<1>5. \A i \in EntryId : fate'[i] = "listed" => \E m \in DOMAIN entries' : entries'[m].id = i
  BY <1>3, <1>4 DEF EntriesInv
<1> QED
  BY <1>2, <1>3, <1>4, <1>5 DEF EntriesInv

(* A new entry comes first.                                                 *)
LEMMA LogEntries ==
  ASSUME EntriesInv, NEW e \in Entry, NextEntry(e.id), entries' = <<e>> \o entries,
         fate' = [fate EXCEPT ![e.id] = "listed"]
  PROVE  /\ EntriesInv' /\ Len(entries') = Len(entries) + 1 /\ entries'[1] = e
         /\ \A m \in DOMAIN entries' \ {1} : m - 1 \in DOMAIN entries /\ entries'[m] = entries[m - 1]
<1>1. /\ entries' \in Seq(Entry) /\ Len(entries') = Len(entries) + 1 /\ entries'[1] = e
      /\ \A m \in 2 .. Len(entries) + 1 : entries'[m] = entries[m - 1]
  BY ConcatProperties DEF EntriesInv
<1>2. /\ \A m \in DOMAIN entries' \ {1} : m - 1 \in DOMAIN entries /\ entries'[m] = entries[m - 1]
      /\ \A m \in DOMAIN entries : m + 1 \in DOMAIN entries' /\ entries'[m + 1] = entries[m]
      /\ 1 \in DOMAIN entries'
  BY <1>1 DEF EntriesInv
<1>3. \A m \in DOMAIN entries : entries[m].id # e.id
  BY DEF EntriesInv, NextEntry, FreeEntry
<1>4. \A m, n \in DOMAIN entries' : entries'[m].id = entries'[n].id => m = n
  BY <1>1, <1>2, <1>3 DEF EntriesInv
<1>5. \A m \in DOMAIN entries' : fate'[entries'[m].id] = "listed"
  BY <1>1, <1>2 DEF EntriesInv, Entry
<1>6. \A i \in EntryId : fate'[i] = "listed" => \E n \in DOMAIN entries' : entries'[n].id = i
  <2> SUFFICES ASSUME NEW i \in EntryId, fate'[i] = "listed"
               PROVE  \E n \in DOMAIN entries' : entries'[n].id = i
    OBVIOUS
  <2>1. CASE i = e.id
    BY <1>1, <1>2, <2>1
  <2>2. CASE i # e.id
    <3>1. PICK n \in DOMAIN entries : entries[n].id = i
      BY <2>2 DEF EntriesInv
    <3>2. n + 1 \in DOMAIN entries' /\ entries'[n + 1].id = i
      BY <1>2, <3>1
    <3> QED
      BY <3>2
  <2> QED
    BY <2>1, <2>2
<1> QED
  BY <1>1, <1>2, <1>4, <1>5, <1>6 DEF EntriesInv, Entry

(* An entry is taken out.                                                   *)
LEMMA RemoveEntries ==
  ASSUME EntriesInv, NEW n \in DOMAIN entries, entries' = RemoveAt(entries, n),
         fate' = [fate EXCEPT ![entries[n].id] = "removed"]
  PROVE  /\ EntriesInv' /\ Len(entries') < Len(entries)
         /\ \A m \in DOMAIN entries' :
              \E k \in DOMAIN entries : entries'[m] = entries[k] /\ entries[k].id # entries[n].id
<1> DEFINE a == SubSeq(entries, 1, n - 1)
           b == SubSeq(entries, n + 1, Len(entries))
<1>1. /\ a \in Seq(Entry) /\ Len(a) = n - 1 /\ \A m \in 1 .. n - 1 : a[m] = entries[m]
      /\ b \in Seq(Entry) /\ Len(b) = Len(entries) - n
      /\ \A m \in 1 .. Len(entries) - n : b[m] = entries[n + m]
  BY SubSeqProperties DEF EntriesInv
<1>2. entries' = a \o b
  BY DEF RemoveAt
<1> HIDE DEF a, b
<1>3. /\ entries' \in Seq(Entry) /\ Len(entries') = Len(entries) - 1
      /\ \A m \in 1 .. Len(entries) - 1 : entries'[m] = IF m < n THEN entries[m] ELSE entries[m + 1]
  BY <1>1, <1>2, ConcatProperties DEF EntriesInv
<1> DEFINE from(m) == IF m < n THEN m ELSE m + 1
<1>4. \A m \in DOMAIN entries' :
        from(m) \in DOMAIN entries /\ from(m) # n /\ entries'[m] = entries[from(m)]
  BY <1>3 DEF EntriesInv
<1>5. \A m \in DOMAIN entries : m # n =>
        \E k \in DOMAIN entries' : entries'[k] = entries[m]
  <2> SUFFICES ASSUME NEW m \in DOMAIN entries, m # n
               PROVE  \E k \in DOMAIN entries' : entries'[k] = entries[m]
    OBVIOUS
  <2> DEFINE k == IF m < n THEN m ELSE m - 1
  <2>1. k \in DOMAIN entries' /\ entries'[k] = entries[m]
    BY <1>3 DEF EntriesInv
  <2> QED
    BY <2>1
<1>6. \A m \in DOMAIN entries' :
        \E k \in DOMAIN entries : entries'[m] = entries[k] /\ entries[k].id # entries[n].id
  BY <1>4 DEF EntriesInv
<1>7. \A m, k \in DOMAIN entries' : entries'[m].id = entries'[k].id => m = k
  <2> SUFFICES ASSUME NEW m \in DOMAIN entries', NEW k \in DOMAIN entries',
                      entries'[m].id = entries'[k].id
               PROVE  m = k
    OBVIOUS
  <2>1. from(m) = from(k)
    BY <1>4 DEF EntriesInv
  <2>2. m \in Int /\ k \in Int /\ n \in Int
    BY <1>3 DEF EntriesInv
  <2> QED
    BY <2>1, <2>2
<1>8. \A m \in DOMAIN entries' : fate'[entries'[m].id] = "listed"
  BY <1>6 DEF EntriesInv, Entry
<1>9. \A i \in EntryId : fate'[i] = "listed" => \E m \in DOMAIN entries' : entries'[m].id = i
  BY <1>5 DEF EntriesInv
<1>10. fate' \in [EntryId -> {"unused", "listed", "removed"}]
  BY DEF EntriesInv, Entry
<1>11. entries' \in Seq(Entry) /\ Len(entries') < Len(entries)
  BY <1>3 DEF EntriesInv
<1> HIDE DEF from
<1>12. EntriesInv'
  BY <1>7, <1>8, <1>9, <1>10, <1>11 DEF EntriesInv
<1> QED
  BY <1>6, <1>11, <1>12

-----------------------------------------------------------------------------
(* The steps that log a scan.                                               *)
LEMMA LogStep ==
  ASSUME ListInv, NEW e \in Entry, NEW seen, LogEntry(e, seen),
         \/ lookups' = [lookups EXCEPT ![e.id] = e.card] /\ e.finish = "nonfoil"
         \/ UNCHANGED lookups,
         seen # ByHand => last' = seen
  PROVE  ListInv'
<1>1. /\ EntriesInv' /\ entries'[1] = e
      /\ \A m \in DOMAIN entries' \ {1} : m - 1 \in DOMAIN entries /\ entries'[m] = entries[m - 1]
  BY LogEntries DEF LogEntry, ListInv
<1>2. \A n \in DOMAIN entries : entries[n].id # e.id
  BY DEF ListInv, EntriesInv, LogEntry, NextEntry, FreeEntry
<1>3. /\ lookups[e.id] = NoCard
      /\ e.id \in EntryId /\ e.card \in ScanCard /\ LabelOf(e) \in Label
      /\ NoCard \notin ScanCard
  BY ScanListAssumption DEF LogEntry, NextEntry, FreeEntry, Entry, LabelOf, Label
<1>4. /\ labels' \in {[labels EXCEPT ![e.id] = LabelOf(e)], [labels EXCEPT ![e.id] = NotUploaded]}
      /\ overtaken' = overtaken \ {e.id} /\ fate' = [fate EXCEPT ![e.id] = "listed"]
      /\ newestSeen' = seen
  BY DEF LogEntry
<1>5. LabelsInv'
  <2>1. /\ lookups' \in [EntryId -> ScanCard \cup {NoCard}]
        /\ labels' \in [EntryId -> Label \cup {NotUploaded, Skipped}]
    BY <1>3, <1>4 DEF ListInv, LabelsInv
  <2>2. \A n \in DOMAIN entries' :
          entries'[n].id \notin overtaken' =>
            /\ labels'[entries'[n].id] \in {NotUploaded, LabelOf(entries'[n])}
            /\ lookups'[entries'[n].id] # NoCard =>
                 entries'[n].card = lookups'[entries'[n].id] /\ entries'[n].finish = "nonfoil"
    <3> SUFFICES ASSUME NEW n \in DOMAIN entries', entries'[n].id \notin overtaken'
                 PROVE  /\ labels'[entries'[n].id] \in {NotUploaded, LabelOf(entries'[n])}
                        /\ lookups'[entries'[n].id] # NoCard =>
                             entries'[n].card = lookups'[entries'[n].id] /\ entries'[n].finish = "nonfoil"
      OBVIOUS
    <3>1. CASE n = 1
      BY <1>1, <1>3, <1>4, <3>1 DEF ListInv, LabelsInv
    <3>2. CASE n # 1
      <4>1. n - 1 \in DOMAIN entries /\ entries'[n] = entries[n - 1] /\ entries[n - 1].id # e.id
        BY <1>1, <1>2, <3>2
      <4>2. entries[n - 1].id \in EntryId
        BY <4>1, EntryTyped DEF ListInv
      <4>3. /\ labels'[entries[n - 1].id] = labels[entries[n - 1].id]
            /\ lookups'[entries[n - 1].id] = lookups[entries[n - 1].id]
            /\ entries[n - 1].id \notin overtaken
        BY <1>4, <4>1, <4>2 DEF ListInv, LabelsInv
      <4> QED
        BY <4>1, <4>3 DEF ListInv, LabelsInv
    <3> QED
      BY <3>1, <3>2
  <2>3. \A i \in EntryId \ overtaken' :
          fate'[i] = "removed" => labels'[i] \in {NotUploaded, Skipped} /\ lookups'[i] = NoCard
    BY <1>3, <1>4 DEF ListInv, LabelsInv, EntriesInv
  <2> QED
    BY <2>1, <2>2, <2>3 DEF LabelsInv
<1>6. RemembersLastScan'
  BY <1>4 DEF RemembersLastScan
<1> QED
  BY <1>1, <1>5, <1>6 DEF ListInv

(* The steps that change one entry.                                         *)
LEMMA ChangeStep ==
  ASSUME ListInv, NEW e \in Entry, fate[e.id] = "listed",
         entries' = Updated(e.id, e), UNCHANGED <<fate, last, newestSeen>>,
         lookups' \in {lookups, [lookups EXCEPT ![e.id] = NoCard]},
         labels' \in [EntryId -> Label \cup {NotUploaded, Skipped}],
         \A i \in EntryId \ {e.id} : labels'[i] = labels[i],
         overtaken \ {e.id} \subseteq overtaken',
         e.id \notin overtaken' =>
           /\ labels'[e.id] \in {NotUploaded, LabelOf(e)}
           /\ lookups'[e.id] # NoCard => e.card = lookups'[e.id] /\ e.finish = "nonfoil"
  PROVE  ListInv' /\ Len(entries') = Len(entries)
<1>1. PICK n \in DOMAIN entries : entries[n].id = e.id
  BY DEF ListInv, EntriesInv, Entry
<1>2. /\ EntriesInv' /\ DOMAIN entries' = DOMAIN entries /\ Len(entries') = Len(entries)
      /\ \A m \in DOMAIN entries : entries'[m] = IF m = n THEN e ELSE entries[m]
  BY <1>1, ExceptEntries DEF ListInv
<1>3. \A m \in DOMAIN entries : m # n => entries[m].id \in EntryId \ {e.id}
  BY <1>1, EntryTyped DEF ListInv, EntriesInv
<1>4. e.id \in EntryId
  BY DEF Entry
<1>5. /\ lookups' \in [EntryId -> ScanCard \cup {NoCard}]
      /\ \A i \in EntryId \ {e.id} : lookups'[i] = lookups[i]
  BY <1>4 DEF ListInv, LabelsInv
<1>6. \A m \in DOMAIN entries' :
        entries'[m].id \notin overtaken' =>
          /\ labels'[entries'[m].id] \in {NotUploaded, LabelOf(entries'[m])}
          /\ lookups'[entries'[m].id] # NoCard =>
               entries'[m].card = lookups'[entries'[m].id] /\ entries'[m].finish = "nonfoil"
  <2> SUFFICES ASSUME NEW m \in DOMAIN entries, entries'[m].id \notin overtaken'
               PROVE  /\ labels'[entries'[m].id] \in {NotUploaded, LabelOf(entries'[m])}
                      /\ lookups'[entries'[m].id] # NoCard =>
                           entries'[m].card = lookups'[entries'[m].id]
                           /\ entries'[m].finish = "nonfoil"
    BY <1>2
  <2>1. CASE m = n
    BY <1>2, <2>1
  <2>2. CASE m # n
    <3>1. entries'[m] = entries[m] /\ entries[m].id \notin overtaken
      BY <1>2, <1>3, <2>2
    <3>2. /\ labels'[entries[m].id] = labels[entries[m].id]
          /\ lookups'[entries[m].id] = lookups[entries[m].id]
      BY <1>3, <1>5, <2>2
    <3> QED
      BY <3>1, <3>2 DEF ListInv, LabelsInv
  <2> QED
    BY <2>1, <2>2
<1>7. \A i \in EntryId \ overtaken' :
        fate'[i] = "removed" => labels'[i] \in {NotUploaded, Skipped} /\ lookups'[i] = NoCard
  BY <1>5 DEF ListInv, LabelsInv
<1>8. LabelsInv'
  BY <1>5, <1>6, <1>7 DEF LabelsInv
<1> QED
  BY <1>2, <1>8 DEF ListInv, RemembersLastScan

LEMMA ListedEntry ==
  ASSUME ListInv, NEW i \in EntryId, fate[i] = "listed"
  PROVE  /\ EntryOf(i) \in Entry /\ EntryOf(i).id = i
         /\ i \notin overtaken =>
              /\ labels[i] \in {NotUploaded, LabelOf(EntryOf(i))}
              /\ lookups[i] # NoCard =>
                   EntryOf(i).card = lookups[i] /\ EntryOf(i).finish = "nonfoil"
<1>1. PICK n \in DOMAIN entries : entries[n].id = i
  BY DEF ListInv, EntriesInv
<1>2. EntryOf(i) = entries[n]
  BY <1>1, EntryAt DEF ListInv
<1> QED
  BY <1>1, <1>2, EntryTyped DEF ListInv, LabelsInv

LEMMA RelabelledTyped ==
  ASSUME ListInv, NEW i \in EntryId, NEW label \in Label \cup {Skipped}
  PROVE  /\ Relabelled(i, label) \in [EntryId -> Label \cup {NotUploaded, Skipped}]
         /\ \A j \in EntryId \ {i} : Relabelled(i, label)[j] = labels[j]
         /\ Relabelled(i, label)[i] \in {NotUploaded, label}
  BY DEF ListInv, LabelsInv, Relabelled

(* The user changes an entry, and its frame is relabelled.                  *)
LEMMA ChangedStep ==
  ASSUME ListInv, NEW e \in Entry, ChangeEntry(e), labels' = Relabelled(e.id, LabelOf(e))
  PROVE  ListInv' /\ Len(entries') = Len(entries)
<1>1. e.id \in EntryId /\ LabelOf(e) \in Label
  BY DEF Entry, LabelOf, Label
<1>2. /\ labels' \in [EntryId -> Label \cup {NotUploaded, Skipped}]
      /\ \A j \in EntryId \ {e.id} : labels'[j] = labels[j]
      /\ labels'[e.id] \in {NotUploaded, LabelOf(e)}
  BY <1>1, RelabelledTyped
<1>3. e.id \notin overtaken' => lookups'[e.id] = NoCard
  BY <1>1 DEF ChangeEntry, Overtakes
<1>4. overtaken \ {e.id} \subseteq overtaken'
  BY DEF ChangeEntry, Overtakes
<1> QED
  BY <1>2, <1>3, <1>4, ChangeStep DEF ChangeEntry

(* A step logs nothing the loop saw while scanning is paused.               *)
LogsQuietly == Len(entries') > Len(entries) /\ newestSeen' # ByHand => ~Paused

LEMMA QuietChange ==
  ASSUME ListInv, Len(entries') = Len(entries)
  PROVE  LogsQuietly
  BY DEF ListInv, EntriesInv, LogsQuietly

(* A scan that is logged, by the loop or by hand.                           *)
LEMMA LogScanStep ==
  ASSUME ListInv, NEW i \in EntryId, NEW card \in ScanCard, NEW seen, LogScan(i, card, seen),
         seen # ByHand => last' = seen
  PROVE  ListInv' /\ newestSeen' = seen
<1> DEFINE e == [id |-> i, card |-> card, finish |-> "nonfoil", back |-> "unknown"]
<1>1. e \in Entry /\ e.id = i /\ e.card = card /\ e.finish = "nonfoil"
  BY DEF Entry, Finish
<1>2. LogEntry(e, seen) /\ lookups' = [lookups EXCEPT ![i] = card]
  BY DEF LogScan
<1> HIDE DEF e
<1>3. newestSeen' = seen
  BY <1>2 DEF LogEntry
<1> QED
  BY <1>1, <1>2, <1>3, LogStep

LEMMA ListStep == ListInv /\ [ListNext]_listVars => ListInv' /\ LogsQuietly
<1> SUFFICES ASSUME ListInv, [ListNext]_listVars PROVE ListInv' /\ LogsQuietly
  OBVIOUS
<1>1. ASSUME UNCHANGED <<entries, lookups, labels, last, newestSeen, fate, overtaken>>
      PROVE  ListInv' /\ LogsQuietly
  <2>1. Len(entries') = Len(entries)
    BY <1>1
  <2>2. ListInv'
    BY <1>1 DEF ListInv, EntriesInv, LabelsInv, RemembersLastScan, LabelOf
  <2> QED
    BY <2>1, <2>2, QuietChange
<1>2. CASE FrameAnswered
  <2>1. CASE UNCHANGED <<entries, lookups, labels, last, outlineCheck, newestSeen, fate, overtaken>>
    BY <1>1, <2>1
  <2>2. ASSUME Counts, NEW i \in EntryId, NEW card \in ScanCard,
               LogScan(i, card, card), last' = card
        PROVE  ListInv' /\ LogsQuietly
    BY <2>2, LogScanStep DEF LogsQuietly, Counts
  <2> QED
    BY <1>2, <2>1, <2>2 DEF FrameAnswered
<1>3. CASE TapToken
  <2>1. PICK i \in EntryId, card \in ScanToken : LogScan(i, card, ByHand)
    BY <1>3 DEF TapToken
  <2>2. card \in ScanCard
    BY ScanListAssumption
  <2> QED
    BY <2>1, <2>2, LogScanStep DEF LogsQuietly
<1>4. CASE ClearList
  <2>1. entries' = <<>> /\ last' = NoCard /\ newestSeen' = NoCard /\ UNCHANGED <<lookups, overtaken>>
    BY <1>4 DEF ClearList
  <2>2. /\ fate' \in [EntryId -> {"unused", "listed", "removed"}]
        /\ labels' \in [EntryId -> Label \cup {NotUploaded, Skipped}]
        /\ \A i \in EntryId : fate'[i] # "listed"
        /\ \A i \in EntryId : fate'[i] = "removed" => fate[i] = "removed" /\ labels'[i] = labels[i]
    BY <1>4 DEF ClearList, ListInv, EntriesInv, LabelsInv
  <2>3. EntriesInv' /\ Len(entries') = 0
    BY <2>1, <2>2 DEF EntriesInv
  <2>4. LabelsInv'
    BY <2>1, <2>2 DEF LabelsInv, ListInv
  <2>5. LogsQuietly
    BY <2>3 DEF LogsQuietly, ListInv, EntriesInv
  <2> QED
    BY <2>1, <2>3, <2>4, <2>5 DEF ListInv, RemembersLastScan
<1>5. CASE AnswerOutline
  <2>1. CASE labels' = labels
    BY <1>1, <1>5, <2>1 DEF AnswerOutline
  <2>2. CASE labels' # labels
    <3> DEFINE i == outlineCheck
    <3>1. /\ fate[i] = "listed" /\ labels' = Relabelled(i, LabelOf(EntryOf(i)))
          /\ UNCHANGED <<entries, lookups, last, newestSeen, fate, overtaken>>
      BY <1>5, <2>2 DEF AnswerOutline
    <3>2. i \in EntryId
      BY <1>5, <2>2 DEF AnswerOutline, Relabelled, ListInv, LabelsInv, EntriesInv
    <3> HIDE DEF i
    <3>3. /\ EntryOf(i) \in Entry /\ LabelOf(EntryOf(i)) \in Label
          /\ i \notin overtaken => labels[i] \in {NotUploaded, LabelOf(EntryOf(i))}
      BY <3>1, <3>2, ListedEntry DEF Entry, LabelOf, Label
    <3>4. /\ labels' \in [EntryId -> Label \cup {NotUploaded, Skipped}]
          /\ \A j \in EntryId \ {i} : labels'[j] = labels[j]
          /\ i \notin overtaken => labels'[i] = labels[i]
      BY <3>1, <3>2, <3>3, RelabelledTyped DEF Relabelled, ListInv, LabelsInv
    <3>5. \A j \in EntryId \ overtaken : labels'[j] = labels[j]
      BY <3>4
    <3>6. \A m \in DOMAIN entries : entries[m].id \in EntryId
      BY EntryTyped DEF ListInv
    <3>7. LabelsInv'
      BY <3>1, <3>4, <3>5, <3>6 DEF ListInv, LabelsInv, LabelOf
    <3> QED
      BY <3>1, <3>7, QuietChange DEF ListInv, EntriesInv, RemembersLastScan
  <2> QED
    BY <2>1, <2>2
<1>6. CASE AnswerBackFace
  <2>1. CASE entries' = entries
    BY <1>1, <1>6, <2>1 DEF AnswerBackFace
  <2>2. CASE entries' # entries
    <3> DEFINE i == backFacePick
               e == [EntryOf(i) EXCEPT !.back = "settled"]
    <3>1. /\ fate[i] = "listed" /\ entries' = Updated(i, e)
          /\ UNCHANGED <<lookups, labels, last, newestSeen, fate, overtaken>>
      BY <1>6, <2>2 DEF AnswerBackFace
    <3>2. i \in EntryId
      <4>1. CASE \E n \in DOMAIN entries : entries[n].id = i
        BY <4>1, EntryTyped DEF ListInv
      <4>2. CASE ~ \E n \in DOMAIN entries : entries[n].id = i
        <5>1. Updated(i, e) = [n \in DOMAIN entries |-> entries[n]]
          BY <4>2 DEF Updated
        <5>2. entries = [n \in DOMAIN entries |-> entries[n]]
          BY DEF ListInv, EntriesInv
        <5> QED
          BY <2>2, <3>1, <5>1, <5>2
      <4> QED
        BY <4>1, <4>2
    <3>3. /\ EntryOf(i) \in Entry /\ EntryOf(i).id = i
          /\ i \notin overtaken =>
               /\ labels[i] \in {NotUploaded, LabelOf(EntryOf(i))}
               /\ lookups[i] # NoCard =>
                    EntryOf(i).card = lookups[i] /\ EntryOf(i).finish = "nonfoil"
      BY <3>1, <3>2, ListedEntry
    <3>4. /\ e \in Entry /\ e.id = i /\ e.card = EntryOf(i).card /\ e.finish = EntryOf(i).finish
          /\ LabelOf(e) = LabelOf(EntryOf(i))
      BY <3>3 DEF Entry, LabelOf
    <3> HIDE DEF e, i
    <3> QED
      BY <3>1, <3>2, <3>3, <3>4, ChangeStep, QuietChange DEF ListInv, LabelsInv
  <2> QED
    BY <2>1, <2>2
<1>7. ASSUME NEW i \in EntryId, LookupFails(i) PROVE ListInv' /\ LogsQuietly
  <2>1. lookups' = [lookups EXCEPT ![i] = NoCard]
        /\ UNCHANGED <<entries, labels, last, newestSeen, fate, overtaken>>
    BY <1>7 DEF LookupFails
  <2>2. lookups' \in [EntryId -> ScanCard \cup {NoCard}]
        /\ \A j \in EntryId : lookups'[j] \in {NoCard, lookups[j]}
    BY <2>1 DEF ListInv, LabelsInv
  <2>3. \A n \in DOMAIN entries : entries[n].id \in EntryId
    BY EntryTyped DEF ListInv
  <2>4. LabelsInv'
    BY <2>1, <2>2, <2>3 DEF ListInv, LabelsInv, LabelOf
  <2> QED
    BY <2>1, <2>4, QuietChange DEF ListInv, EntriesInv, RemembersLastScan
<1>8. ASSUME NEW i \in EntryId, RemoveEntry(i) PROVE ListInv' /\ LogsQuietly
  <2>1. PICK n \in DOMAIN entries : entries[n].id = i /\ entries' = RemoveAt(entries, n)
    BY <1>8 DEF RemoveEntry
  <2>2. /\ EntriesInv' /\ Len(entries') < Len(entries)
        /\ \A m \in DOMAIN entries' :
             \E k \in DOMAIN entries : entries'[m] = entries[k] /\ entries[k].id # i
    <3>1. EntriesInv /\ fate' = [fate EXCEPT ![entries[n].id] = "removed"]
      BY <1>8, <2>1 DEF RemoveEntry, ListInv
    <3>2. entries' = RemoveAt(entries, n)
      BY <2>1
    <3>3. /\ EntriesInv' /\ Len(entries') < Len(entries)
          /\ \A m \in DOMAIN entries' :
               \E k \in DOMAIN entries : entries'[m] = entries[k] /\ entries[k].id # entries[n].id
      BY <3>1, <3>2, RemoveEntries
    <3> QED
      BY <2>1, <3>3
  <2>3. /\ fate' = [fate EXCEPT ![i] = "removed"] /\ labels' = Relabelled(i, Skipped)
        /\ Overtakes(i) /\ UNCHANGED lookups
        /\ newestSeen' = IF entries[1].id = i THEN NoCard ELSE newestSeen
        /\ last' = IF entries[1].id = i THEN NoCard ELSE last
    BY <1>8 DEF RemoveEntry, LastAfter
  <2>4. /\ labels' \in [EntryId -> Label \cup {NotUploaded, Skipped}]
        /\ \A j \in EntryId \ {i} : labels'[j] = labels[j]
        /\ labels'[i] \in {NotUploaded, Skipped}
    BY <2>3, RelabelledTyped
  <2>5. /\ overtaken \ {i} \subseteq overtaken'
        /\ i \notin overtaken' => lookups[i] = NoCard
    BY <2>3 DEF Overtakes
  <2>6. \A k \in DOMAIN entries : entries[k].id \in EntryId
    BY EntryTyped DEF ListInv
  <2>7. \A j \in EntryId \ overtaken' :
          fate'[j] = "removed" => labels'[j] \in {NotUploaded, Skipped} /\ lookups'[j] = NoCard
    <3> SUFFICES ASSUME NEW j \in EntryId, j \notin overtaken', fate'[j] = "removed"
                 PROVE  labels'[j] \in {NotUploaded, Skipped} /\ lookups'[j] = NoCard
      OBVIOUS
    <3>1. j # i => j \notin overtaken
      BY <2>5
    <3>2. CASE j = i
      BY <2>3, <2>4, <2>5, <3>2
    <3>3. CASE j # i
      <4>1. fate[j] = "removed" /\ labels'[j] = labels[j]
        BY <2>3, <2>4, <3>3 DEF ListInv, EntriesInv
      <4> QED
        BY <2>3, <3>1, <3>3, <4>1 DEF ListInv, LabelsInv
    <3> QED
      BY <3>2, <3>3
  <2>8. \A m \in DOMAIN entries' :
          entries'[m].id \notin overtaken' =>
            /\ labels'[entries'[m].id] \in {NotUploaded, LabelOf(entries'[m])}
            /\ lookups'[entries'[m].id] # NoCard =>
                 entries'[m].card = lookups'[entries'[m].id] /\ entries'[m].finish = "nonfoil"
    <3> SUFFICES ASSUME NEW m \in DOMAIN entries', entries'[m].id \notin overtaken'
                 PROVE  /\ labels'[entries'[m].id] \in {NotUploaded, LabelOf(entries'[m])}
                        /\ lookups'[entries'[m].id] # NoCard =>
                             entries'[m].card = lookups'[entries'[m].id]
                             /\ entries'[m].finish = "nonfoil"
      OBVIOUS
    <3>1. PICK k \in DOMAIN entries : entries'[m] = entries[k] /\ entries[k].id # i
      BY <2>2
    <3>2. entries[k].id \in EntryId \ {i}
      BY <2>6, <3>1
    <3>3. labels'[entries[k].id] = labels[entries[k].id]
      BY <2>4, <3>2
    <3>4. entries[k].id \notin overtaken
      BY <2>5, <3>1
    <3> QED
      BY <2>3, <3>1, <3>3, <3>4 DEF ListInv, LabelsInv
  <2>9. LabelsInv'
    BY <2>3, <2>4, <2>7, <2>8 DEF ListInv, LabelsInv
  <2>10. RemembersLastScan'
    BY <2>3 DEF ListInv, RemembersLastScan
  <2>11. LogsQuietly
    BY <2>2 DEF ListInv, EntriesInv, LogsQuietly
  <2> QED
    BY <2>2, <2>9, <2>10, <2>11 DEF ListInv
<1>9. ASSUME NEW i \in EntryId, NEW finish \in Finish, LookupAnswered(i, finish)
      PROVE  ListInv' /\ LogsQuietly
  <2> DEFINE back == IF lookups[i] \in ScanToken /\ Inherits(i) THEN "settled" ELSE "unknown"
             e == [EntryOf(i) EXCEPT !.card = lookups[i], !.finish = finish, !.back = back]
  <2>1. /\ lookups' = [lookups EXCEPT ![i] = NoCard] /\ lookups[i] # NoCard
        /\ labels' = Resent(i, finish)
        /\ UNCHANGED <<last, newestSeen, fate, overtaken>>
        /\ fate[i] = "listed" => entries' = Updated(i, e)
        /\ fate[i] # "listed" => entries' = entries
    BY <1>9 DEF LookupAnswered
  <2>2. lookups[i] \in ScanCard /\ [card |-> lookups[i], finish |-> finish] \in Label
    BY <2>1 DEF ListInv, LabelsInv, Label
  <2>3. /\ labels' \in [EntryId -> Label \cup {NotUploaded, Skipped}]
        /\ \A j \in EntryId \ {i} : labels'[j] = labels[j]
        /\ finish = "nonfoil" => labels'[i] = labels[i]
        /\ finish # "nonfoil" => labels'[i] \in {NotUploaded, [card |-> lookups[i], finish |-> finish]}
    BY <2>1, <2>2, RelabelledTyped DEF Resent, ListInv, LabelsInv
  <2>4. CASE fate[i] = "listed"
    <3>1. /\ EntryOf(i) \in Entry /\ EntryOf(i).id = i
          /\ i \notin overtaken =>
               /\ labels[i] \in {NotUploaded, LabelOf(EntryOf(i))}
               /\ lookups[i] # NoCard =>
                    EntryOf(i).card = lookups[i] /\ EntryOf(i).finish = "nonfoil"
      BY <2>4, ListedEntry
    <3>2. back \in {"unknown", "settled"}
      OBVIOUS
    <3> HIDE DEF back
    <3>3. /\ e \in Entry /\ e.id = i /\ LabelOf(e) = [card |-> lookups[i], finish |-> finish]
      BY <2>2, <3>1, <3>2 DEF Entry, LabelOf
    <3> HIDE DEF e
    <3>4. i \notin overtaken' => labels'[i] \in {NotUploaded, LabelOf(e)} /\ lookups'[i] = NoCard
      BY <2>1, <2>3, <3>1, <3>3 DEF LabelOf, ListInv, LabelsInv
    <3> QED
      BY <2>1, <2>3, <2>4, <3>3, <3>4, ChangeStep, QuietChange
  <2>5. CASE fate[i] # "listed"
    <3>1. \A n \in DOMAIN entries : entries[n].id \in EntryId \ {i}
      BY <2>5, EntryTyped DEF ListInv, EntriesInv
    <3>2. lookups' \in [EntryId -> ScanCard \cup {NoCard}]
          /\ \A j \in EntryId \ {i} : lookups'[j] = lookups[j]
      BY <2>1 DEF ListInv, LabelsInv
    <3>3. fate[i] = "removed" => i \in overtaken
      BY <2>1 DEF ListInv, LabelsInv
    <3> HIDE DEF e
    <3>4. LabelsInv'
      BY <2>1, <2>3, <2>5, <3>1, <3>2, <3>3 DEF ListInv, LabelsInv, LabelOf
    <3> QED
      BY <2>1, <2>5, <3>4, QuietChange DEF ListInv, EntriesInv, RemembersLastScan
  <2> QED
    BY <2>4, <2>5
<1>10. ASSUME NEW i \in EntryId, NEW card \in ScanCard, NEW finish \in Finish,
              NEW back \in {EntryOf(i).back, "unknown"}, fate[i] = "listed",
              ChangeEntry([EntryOf(i) EXCEPT !.card = card, !.finish = finish, !.back = back]),
              labels' = Relabelled(i, [card |-> card, finish |-> finish])
       PROVE  ListInv' /\ LogsQuietly
  <2> DEFINE e == [EntryOf(i) EXCEPT !.card = card, !.finish = finish, !.back = back]
  <2>1. EntryOf(i) \in Entry /\ EntryOf(i).id = i
    BY <1>10, ListedEntry
  <2>2. e \in Entry /\ e.id = i /\ LabelOf(e) = [card |-> card, finish |-> finish]
    BY <1>10, <2>1 DEF Entry, LabelOf
  <2>3. ChangeEntry(e) /\ labels' = Relabelled(i, [card |-> card, finish |-> finish])
    BY <1>10
  <2> HIDE DEF e
  <2> QED
    BY <2>2, <2>3, ChangedStep, QuietChange
<1>11. ASSUME NEW i \in EntryId, NEW finish \in Finish, SetFinish(i, finish)
       PROVE  ListInv' /\ LogsQuietly
  <2>1. EntryOf(i) \in Entry
    BY <1>11, ListedEntry DEF SetFinish
  <2>2. [EntryOf(i) EXCEPT !.finish = finish] =
          [EntryOf(i) EXCEPT !.card = EntryOf(i).card, !.finish = finish, !.back = EntryOf(i).back]
        /\ EntryOf(i).card \in ScanCard
    BY <2>1 DEF Entry
  <2>3. ChangeEntry([EntryOf(i) EXCEPT !.card = EntryOf(i).card, !.finish = finish, !.back = EntryOf(i).back])
    BY <1>11, <2>2 DEF SetFinish
  <2> QED
    BY <1>10, <1>11, <2>2, <2>3 DEF SetFinish
<1>12. ASSUME NEW i \in EntryId, NEW finish \in Finish, SetPrinting(i, finish)
       PROVE  ListInv' /\ LogsQuietly
  <2>1. EntryOf(i) \in Entry
    BY <1>12, ListedEntry DEF SetPrinting
  <2>2. [EntryOf(i) EXCEPT !.finish = finish, !.back = "unknown"] =
          [EntryOf(i) EXCEPT !.card = EntryOf(i).card, !.finish = finish, !.back = "unknown"]
        /\ EntryOf(i).card \in ScanCard
    BY <2>1 DEF Entry
  <2>3. ChangeEntry([EntryOf(i) EXCEPT !.card = EntryOf(i).card, !.finish = finish, !.back = "unknown"])
    BY <1>12, <2>2 DEF SetPrinting
  <2> QED
    BY <1>10, <1>12, <2>2, <2>3 DEF SetPrinting
<1>13. ASSUME NEW i \in EntryId, NEW card \in ScanCard, NEW finish \in Finish,
              ReplaceCard(i, card, finish)
       PROVE  ListInv' /\ LogsQuietly
  BY <1>10, <1>13 DEF ReplaceCard
<1>14. ASSUME NEW i \in EntryId, NEW card \in ScanCard, NEW finish \in Finish,
              LogManual(i, card, finish)
       PROVE  ListInv' /\ LogsQuietly
  <2> DEFINE e == [id |-> i, card |-> card, finish |-> finish, back |-> "unknown"]
  <2>1. e \in Entry
    BY DEF Entry
  <2>2. LogEntry(e, ByHand) /\ UNCHANGED lookups
    BY <1>14 DEF LogManual
  <2> HIDE DEF e
  <2>3. newestSeen' = ByHand
    BY <2>2 DEF LogEntry
  <2> QED
    BY <2>1, <2>2, <2>3, LogStep DEF LogsQuietly
<1>15. CASE SendScanFrame \/ ToggleSheet \/ SetTokenMode \/ \E i \in EntryId : PickBackFace(i)
  BY <1>1, <1>15 DEF SendScanFrame, ToggleSheet, SetTokenMode, PickBackFace
<1>16. CASE UNCHANGED listVars
  BY <1>1, <1>16 DEF listVars
<1> QED
  BY <1>2, <1>3, <1>4, <1>5, <1>6, <1>7, <1>8, <1>9, <1>11, <1>12, <1>13, <1>14, <1>15, <1>16
  DEF ListNext

LEMMA ListInvariant == WebSpec => []ListInv
<1>1. ListInit => ListInv
  <2> SUFFICES ASSUME ListInit PROVE ListInv
    OBVIOUS
  <2>1. EntriesInv
    BY DEF ListInit, EntriesInv
  <2>2. LabelsInv
    BY DEF ListInit, LabelsInv
  <2> QED
    BY <2>1, <2>2 DEF ListInit, ListInv, RemembersLastScan
<1>2. [WebNext]_webVars => [ListNext]_listVars
  BY DEF WebNext, webVars, scanVars, FollowDevice, FollowFrames, FollowLock, FollowList,
         FollowImport, FollowShared, FollowPull, FollowSwap, FollowTags
<1>3. WebInit => ListInit
  BY DEF WebInit
<1> QED
  BY <1>1, <1>2, <1>3, ListStep, PTL DEF WebSpec

(* The tracker remembers the newest scan, and the last label of a frame is  *)
(* that of its scan, for any cards and any number of entries.               *)
THEOREM ListTrusted == WebSpec => []ScansAgree
<1>1. ListInv => LabelsFollowList
  <2> SUFFICES ASSUME ListInv, NEW i \in EntryId \ overtaken, labels[i] # NotUploaded
               PROVE  /\ fate[i] = "listed" => labels[i] = LabelOf(EntryOf(i))
                      /\ fate[i] = "removed" => labels[i] = Skipped
    BY DEF LabelsFollowList
  <2> QED
    BY ListedEntry DEF ListInv, LabelsInv
<1>2. ListInv => ScansAgree
  BY <1>1 DEF ListInv, ScansAgree
<1> QED
  BY <1>2, ListInvariant, PTL

(* While scanning is paused the loop logs nothing, for any cards and any    *)
(* number of entries.                                                       *)
THEOREM PausedQuietly == WebSpec => PausedLogsNothing
<1>1. [WebNext]_webVars => [ListNext]_listVars
  BY DEF WebNext, webVars, scanVars, FollowDevice, FollowFrames, FollowLock, FollowList,
         FollowImport, FollowShared, FollowPull, FollowSwap, FollowTags
<1>2. ListInv /\ [ListNext]_listVars
        => [Len(entries') > Len(entries) /\ newestSeen' # ByHand => ~Paused]_listVars
  BY ListStep DEF LogsQuietly
<1> QED
  BY <1>1, <1>2, ListInvariant, PTL DEF WebSpec, PausedLogsNothing
-----------------------------------------------------------------------------
(* The list never outgrows the scans there may be: no two entries are of    *)
(* one scan.                                                                *)
LEMMA EntriesFit == EntriesInv => Len(entries) <= Cardinality(EntryId)
<1> SUFFICES ASSUME EntriesInv PROVE Len(entries) <= Cardinality(EntryId)
  OBVIOUS
<1> DEFINE ids == [n \in 1 .. Len(entries) |-> entries[n].id]
<1>1. Len(entries) \in Nat /\ DOMAIN entries = 1 .. Len(entries)
  BY DEF EntriesInv
<1>2. ids \in [1 .. Len(entries) -> EntryId]
  BY <1>1, EntryTyped
<1>3. \A m, n \in 1 .. Len(entries) : ids[m] = ids[n] => m = n
  BY <1>1 DEF EntriesInv
<1>4. ids \in Injection(1 .. Len(entries), EntryId)
  BY <1>2, <1>3 DEF Injection, IsInjective
<1>5. Cardinality(1 .. Len(entries)) <= Cardinality(EntryId)
  BY <1>4, FS_Injection, ScanListAssumption
<1>6. Cardinality(1 .. Len(entries)) = Len(entries)
  <2>1. 1 \in Int /\ Len(entries) \in Int
    BY <1>1
  <2>2. Cardinality(1 .. Len(entries)) = IF 1 > Len(entries) THEN 0 ELSE Len(entries) - 1 + 1
    BY <2>1, FS_Interval
  <2> QED
    BY <1>1, <2>2
<1> QED
  BY <1>5, <1>6

(* What the page keeps besides the list.                                    *)
PageRest ==
  /\ last \in ScanCard \cup {NoCard}
  /\ {inFlight, tokens, sheet} \subseteq BOOLEAN
  /\ outlineCheck \in EntryId \cup {NoEntry} /\ backFacePick \in EntryId \cup {NoEntry}
  /\ newestSeen \in ScanCard \cup {NoCard, ByHand}
  /\ overtaken \subseteq EntryId

LEMMA PageRestStep == ListInv /\ PageRest /\ [ListNext]_listVars => PageRest'
<1> SUFFICES ASSUME ListInv, PageRest, [ListNext]_listVars PROVE PageRest'
  OBVIOUS
<1>1. ASSUME NEW e \in Entry, NEW seen \in ScanCard \cup {ByHand}, LogEntry(e, seen)
      PROVE  /\ outlineCheck' \in EntryId \cup {NoEntry}
             /\ newestSeen' \in ScanCard \cup {NoCard, ByHand}
             /\ overtaken' \subseteq EntryId
  <2>1. e.id \in EntryId
    BY DEF Entry
  <2> QED
    BY <1>1, <2>1 DEF LogEntry, PageRest
<1>2. ASSUME NEW i \in EntryId, NEW card \in ScanCard, NEW seen \in ScanCard \cup {ByHand},
             LogScan(i, card, seen)
      PROVE  /\ outlineCheck' \in EntryId \cup {NoEntry}
             /\ newestSeen' \in ScanCard \cup {NoCard, ByHand}
             /\ overtaken' \subseteq EntryId
  <2>1. [id |-> i, card |-> card, finish |-> "nonfoil", back |-> "unknown"] \in Entry
    BY DEF Entry, Finish
  <2> QED
    BY <1>1, <1>2, <2>1 DEF LogScan
<1>3. CASE FrameAnswered
  <2>1. CASE UNCHANGED <<entries, lookups, labels, last, outlineCheck, newestSeen, fate, overtaken>>
    BY <1>3, <2>1 DEF FrameAnswered, PageRest
  <2>2. ASSUME NEW i \in EntryId, NEW card \in ScanCard, LogScan(i, card, card), last' = card
        PROVE  PageRest'
    BY <1>2, <1>3, <2>2 DEF FrameAnswered, PageRest
  <2> QED
    BY <1>3, <2>1, <2>2 DEF FrameAnswered
<1>4. CASE TapToken
  <2>1. PICK i \in EntryId, card \in ScanCard : LogScan(i, card, ByHand)
    BY <1>4, ScanListAssumption DEF TapToken
  <2> QED
    BY <1>2, <1>4, <2>1 DEF TapToken, PageRest
<1>5. ASSUME NEW i \in EntryId, NEW card \in ScanCard, NEW finish \in Finish,
             LogManual(i, card, finish)
      PROVE  PageRest'
  <2>1. [id |-> i, card |-> card, finish |-> finish, back |-> "unknown"] \in Entry
    BY DEF Entry
  <2> QED
    BY <1>1, <1>5, <2>1 DEF LogManual, PageRest
<1>6. ASSUME NEW e, e.id \in EntryId, ChangeEntry(e) PROVE PageRest'
  BY <1>6 DEF ChangeEntry, Overtakes, PageRest
<1>7. ASSUME NEW i \in EntryId, NEW finish \in Finish,
             \/ SetFinish(i, finish) \/ SetPrinting(i, finish)
             \/ \E card \in ScanCard : ReplaceCard(i, card, finish)
      PROVE  PageRest'
  <2>1. EntryOf(i) \in Entry /\ EntryOf(i).id = i
    BY <1>7, ListedEntry DEF SetFinish, SetPrinting, ReplaceCard
  <2>2. CASE SetFinish(i, finish)
    <3> DEFINE e == [EntryOf(i) EXCEPT !.finish = finish]
    <3>1. e.id \in EntryId
      BY <2>1 DEF Entry
    <3>2. ChangeEntry(e)
      BY <2>2 DEF SetFinish
    <3> QED
      BY <1>6, <3>1, <3>2
  <2>3. CASE SetPrinting(i, finish)
    <3> DEFINE e == [EntryOf(i) EXCEPT !.finish = finish, !.back = "unknown"]
    <3>1. e.id \in EntryId
      BY <2>1 DEF Entry
    <3>2. ChangeEntry(e)
      BY <2>3 DEF SetPrinting
    <3> QED
      BY <1>6, <3>1, <3>2
  <2>4. ASSUME NEW card \in ScanCard, ReplaceCard(i, card, finish) PROVE PageRest'
    <3> DEFINE e == [EntryOf(i) EXCEPT !.card = card, !.finish = finish, !.back = "unknown"]
    <3>1. e.id \in EntryId
      BY <2>1 DEF Entry
    <3>2. ChangeEntry(e)
      BY <2>4 DEF ReplaceCard
    <3> QED
      BY <1>6, <3>1, <3>2
  <2> QED
    BY <1>7, <2>2, <2>3, <2>4
<1>8. ASSUME NEW i \in EntryId, RemoveEntry(i) PROVE PageRest'
  BY <1>8 DEF RemoveEntry, LastAfter, Overtakes, PageRest
<1>9. ASSUME NEW i \in EntryId,
             LookupFails(i) \/ PickBackFace(i) \/ \E finish \in Finish : LookupAnswered(i, finish)
      PROVE  PageRest'
  BY <1>9 DEF LookupFails, PickBackFace, LookupAnswered, PageRest
<1>10. CASE SendScanFrame \/ ToggleSheet \/ SetTokenMode
  BY <1>10 DEF SendScanFrame, ToggleSheet, SetTokenMode, PageRest
<1>11. CASE ClearList \/ AnswerOutline \/ AnswerBackFace
  BY <1>11 DEF ClearList, AnswerOutline, AnswerBackFace, PageRest
<1>12. CASE UNCHANGED listVars
  BY <1>12 DEF listVars, PageRest
<1> QED
  BY <1>3, <1>4, <1>5, <1>7, <1>8, <1>9, <1>10, <1>11, <1>12 DEF ListNext

LEMMA ListTyped == WebSpec => []ListType
<1>1. WebInit => PageRest
  <2>1. ListInit => PageRest
    BY DEF ListInit, PageRest
  <2> QED
    BY <2>1 DEF WebInit
<1>2. [WebNext]_webVars => [ListNext]_listVars
  BY DEF WebNext, webVars, scanVars, FollowDevice, FollowFrames, FollowLock, FollowList,
         FollowImport, FollowShared, FollowPull, FollowSwap, FollowTags
<1>3. ListInv /\ PageRest => ListType
  BY EntriesFit DEF ListInv, EntriesInv, LabelsInv, PageRest, ListType
<1> QED
  BY <1>1, <1>2, <1>3, PageRestStep, ListInvariant, PTL DEF WebSpec
=============================================================================
