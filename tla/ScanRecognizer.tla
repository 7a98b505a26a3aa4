--------------------------- MODULE ScanRecognizer ---------------------------
(***************************************************************************)
(* The recognition worker of the scanner page                              *)
(* (pages/scan/recognition/use-recognizer.ts, recognizer.worker.ts).  A    *)
(* launch asks the server which bundle is current and then has the worker  *)
(* load it; a runtime that fails with several threads is launched again    *)
(* with one; a stop ends the worker and every request that waits for it.   *)
(*                                                                         *)
(* A terminated worker delivers nothing more, but the page's own request   *)
(* for the bundle outlives it.  Download progress, file contents and the   *)
(* worker's cache are left out.                                            *)
(***************************************************************************)
EXTENDS Naturals, FiniteSets

CONSTANTS
  Worker,       \* workers whose bundle request may wait at the same time (bound)
  NoWorker,
  Request       \* identify requests that may wait at the same time

ASSUME WorkerAssumption == NoWorker \notin Worker

Threads == {"one", "more"}

VARIABLES
  recState,     \* what the page shows
  workerRef,    \* the worker the page holds
  onThreads,    \* the threads that worker was launched with
  load,         \* how far that worker is with the bundle
  bundleOf,     \* the request for the bundle each launch made
  pending       \* the identify requests nobody has answered

recVars == <<recState, workerRef, onThreads, load, bundleOf, pending>>

RecType ==
  /\ recState \in {"idle", "checking", "unavailable", "loading", "ready", "failed"}
  /\ workerRef \in Worker \cup {NoWorker}
  /\ onThreads \in Threads
  /\ load \in {"none", "loading", "loaded", "failed"}
  /\ bundleOf \in [Worker -> {"none", "asked", "reading"}]
  /\ pending \subseteq Request

RecInit ==
  /\ recState = "idle"
  /\ workerRef = NoWorker
  /\ onThreads = "more"
  /\ load = "none"
  /\ bundleOf = [w \in Worker |-> "none"]
  /\ pending = {}

-----------------------------------------------------------------------------
(* launch: a new worker, or a browser that cannot make one.                 *)
Launch(threads) ==
  \/ \E w \in Worker :
       /\ bundleOf[w] = "none" /\ w # workerRef
       /\ bundleOf' = [bundleOf EXCEPT ![w] = "asked"]
       /\ workerRef' = w
       /\ recState' = "checking"
       /\ onThreads' = threads
       /\ load' = "none"
  \/ /\ recState' = "failed"
     /\ workerRef' = NoWorker
     /\ load' = "none"
     /\ UNCHANGED <<bundleOf, onThreads>>

StartRecognizer(threads) ==
  IF workerRef # NoWorker THEN UNCHANGED recVars
  ELSE Launch(threads) /\ UNCHANGED pending

(* Seeded fault: the requests a stopped worker owes are left waiting.       *)
KeptWaiting == pending

(* stop, onerror: every request is rejected.                                *)
Rejected == {}

StopRecognizer ==
  /\ workerRef' = NoWorker
  /\ load' = "none"
  /\ pending' = Rejected
  /\ recState' = "idle"
  /\ UNCHANGED <<bundleOf, onThreads>>

(* The thread count changed: stop, then start.                              *)
Restart(threads) == Launch(threads) /\ pending' = Rejected

-----------------------------------------------------------------------------
Ask(r) ==
  /\ workerRef # NoWorker /\ r \notin pending
  /\ pending' = pending \cup {r}
  /\ UNCHANGED <<recState, workerRef, onThreads, load, bundleOf>>

(* "identified" and "failed" settle the request they name.                  *)
Answer(r) ==
  /\ workerRef # NoWorker /\ r \in pending
  /\ pending' = pending \ {r}
  /\ UNCHANGED <<recState, workerRef, onThreads, load, bundleOf>>

Shown(state) ==
  /\ recState' = state
  /\ UNCHANGED <<workerRef, onThreads, load, pending>>

(* The server names no bundle, answers with an error, or not at all; an      *)
(* answer for a worker the page let go is dropped.                           *)
BundleRefused(w) ==
  /\ bundleOf[w] \in {"asked", "reading"}
  /\ bundleOf' = [bundleOf EXCEPT ![w] = "none"]
  /\ IF workerRef # w THEN UNCHANGED <<recState, workerRef, onThreads, load, pending>>
     ELSE \/ Shown("failed")
          \/ bundleOf[w] = "asked" /\ Shown("unavailable")

BundleNamed(w) ==
  /\ bundleOf[w] = "asked"
  /\ bundleOf' = [bundleOf EXCEPT ![w] = IF workerRef = w THEN "reading" ELSE "none"]
  /\ UNCHANGED <<recState, workerRef, onThreads, load, pending>>

(* The answer is read: the worker is not compared again, so the page shows  *)
(* "loading" even for a worker it let go, which the request cannot reach.   *)
BundleRead(w) ==
  /\ bundleOf[w] = "reading"
  /\ bundleOf' = [bundleOf EXCEPT ![w] = "none"]
  /\ recState' = "loading"
  /\ load' = IF workerRef = w THEN "loading" ELSE load
  /\ UNCHANGED <<workerRef, onThreads, pending>>

Loaded ==
  /\ load = "loading"
  /\ load' = "loaded"
  /\ recState' = "ready"
  /\ UNCHANGED <<workerRef, onThreads, bundleOf, pending>>

(* retryOnOneThread, or the failure is shown.                               *)
Retried == onThreads = "more" /\ Launch("one")

ShowsFailure(l) ==
  /\ onThreads = "one"
  /\ recState' = "failed"
  /\ load' = l
  /\ UNCHANGED <<workerRef, onThreads, bundleOf>>

LoadFails ==
  /\ load = "loading"
  /\ Retried \/ ShowsFailure("failed")
  /\ UNCHANGED pending

(* onerror: an uncaught error does not end a worker.                        *)
Crash ==
  /\ workerRef # NoWorker
  /\ pending' = Rejected
  /\ Retried \/ ShowsFailure(load)

BundleAnswers ==
  \/ \E w \in Worker : BundleRefused(w) \/ BundleNamed(w) \/ BundleRead(w)
  \/ Loaded \/ LoadFails

-----------------------------------------------------------------------------
(* Whoever waits for the worker is answered: a request waits only for the   *)
(* worker the page holds, and that worker has its bundle.  A request left   *)
(* waiting for a worker that was stopped, crashed or replaced would hang    *)
(* the scan loop for good (stop, onerror and retryOnOneThread).             *)
RequestsAnswerable == pending # {} => workerRef # NoWorker /\ load = "loaded"

(* The page never says it is ready without a worker that has its bundle.    *)
ReadyMeansLoaded == recState = "ready" => workerRef # NoWorker /\ load = "loaded"
=============================================================================
