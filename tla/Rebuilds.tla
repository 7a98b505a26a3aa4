------------------------------ MODULE Rebuilds ------------------------------
(***************************************************************************)
(* Rebuilds of acquisition prices (manavault-collection,                   *)
(* collection/acquisition_prices.rs): a table that shows how each rebuild  *)
(* went, beside the job that carries it out.  The job names the rebuild in *)
(* its arguments, but jobs are unique by worker whatever they name.        *)
(*                                                                         *)
(* Each statement is a step of its own: a run marks its rebuild, finishes  *)
(* it and returns, and only then is the job's outcome recorded.  The       *)
(* prices themselves are left out, and so are the other workers of the     *)
(* pricing queue, which only delay a claim.                                *)
(***************************************************************************)
EXTENDS Naturals, FiniteSets

CONSTANTS
  RebuildId,    \* acquisition_price_rebuilds.id
  JobId, NoWork, MaxFaults

ASSUME IdsAssumption ==
  IsFiniteSet(JobId) /\ NoWork \notin RebuildId /\ MaxFaults \in Nat

VARIABLES
  rebuilds,     \* status of each rebuild; "absent" before it is asked for
  step,         \* how far the job's run is: "start", "marked", "finished"
  lapsed,       \* history: rebuilds a run of which timed out or met an error
  rows, line, runs, server, faults

Pricing == INSTANCE Jobs WITH
  Work <- RebuildId,
  Queue <- {"pricing"},
  QueueOf <- [r \in RebuildId |-> "pricing"],
  Slots <- [q \in {"pricing"} |-> 1],
  MaxAttempts <- [r \in RebuildId |-> 1],
  Key <- [r \in RebuildId |-> "acquisition_price_rebuild"],
  NoKey <- "none"

jobVars == <<rows, line, runs, server, faults>>
vars == <<rebuilds, step, lapsed, jobVars>>

TypeOK ==
  /\ rebuilds \in [RebuildId -> {"absent", "queued", "running", "succeeded", "failed"}]
  /\ step \in [JobId -> {"start", "marked", "finished"}]
  /\ lapsed \subseteq RebuildId
  /\ Pricing!TypeOK

Init ==
  /\ rebuilds = [r \in RebuildId |-> "absent"]
  /\ step = [j \in JobId |-> "start"]
  /\ lapsed = {}
  /\ Pricing!Init

IsPending(r) == rebuilds[r] \in {"queued", "running"}

-----------------------------------------------------------------------------
(* enqueue: without a pending rebuild, a new one and its job; with one,     *)
(* only its row is returned.  The job may turn out to be a duplicate.       *)
Request(r) ==
  /\ \A p \in RebuildId : ~IsPending(p)
  /\ rebuilds[r] = "absent"
  /\ rebuilds' = [rebuilds EXCEPT ![r] = "queued"]
  /\ Pricing!Enqueue(r) \/ Pricing!Duplicate(r)
  /\ UNCHANGED <<step, lapsed>>

(* mark_running and finish: by id, whatever the row's status.               *)
Write(run, from, to, status) ==
  /\ step[run.job] = from
  /\ step' = [step EXCEPT ![run.job] = to]
  /\ rebuilds' = [rebuilds EXCEPT ![run.work] = status]
  /\ UNCHANGED <<lapsed, jobVars>>

MarkRunning(run) == Write(run, "start", "marked", "running")

(* The price history may be fetched or not.                                 *)
Finish(run) == \E status \in {"succeeded", "failed"} : Write(run, "marked", "finished", status)

(* Seeded faults: what the row says is not looked at; a rebuild that was    *)
(* begun is left alone.                                                     *)
ReturnedDone(run) ==
  step[run.job] = "finished" /\ Pricing!Done(run)
ReturnedEarly(run) ==
  \/ step[run.job] = "start" /\ rebuilds[run.work] # "queued" /\ Pricing!Done(run)
  \/ step[run.job] = "finished" /\ Pricing!Done(run)

(* perform's outcome.                                                       *)
Returned(run) ==
  \/ /\ step[run.job] = "finished"
     /\ rebuilds[run.work] = "failed"
     /\ Pricing!Cancel(run)
  \/ /\ step[run.job] = "finished"
     /\ rebuilds[run.work] # "failed"
     /\ Pricing!Done(run)

(* A timeout or a database error at any point.                              *)
Lapse(run) == Pricing!Retry(run) /\ lapsed' = lapsed \cup {run.work}

(* A job without a run starts over when it is claimed again.                *)
Progress == [j \in JobId |-> IF \E run \in runs' : run.job = j THEN step[j] ELSE "start"]

Perform(run) ==
  \/ MarkRunning(run)
  \/ Finish(run)
  \/ Returned(run) /\ step' = Progress /\ UNCHANGED <<rebuilds, lapsed>>
  \/ Lapse(run) /\ step' = Progress /\ UNCHANGED rebuilds

Next ==
  \/ \E r \in RebuildId : Request(r)
  \/ \E run \in runs : Perform(run)
  \/ Pricing!Runner /\ step' = Progress /\ UNCHANGED <<rebuilds, lapsed>>

(* Runs go on until they end, as in Jobs.                                   *)
Fairness ==
  /\ Pricing!RunnerFairness
  /\ \A j \in JobId : WF_vars(\E run \in Pricing!RunsOf(j) : Perform(run))

Spec == Init /\ [][Next]_vars
FairSpec == Spec /\ Fairness

-----------------------------------------------------------------------------
JobFor(r) == {j \in JobId : rows[j].work = r}

(* A job's outcome and its rebuild's status tell the same story, also when  *)
(* a stop between the two made the job run again (perform,                  *)
(* acquisition_prices.rs:353).                                              *)
OutcomesAgree ==
  \A r \in RebuildId : \A j \in JobFor(r) :
    /\ rows[j].state = "succeeded" => rebuilds[r] = "succeeded"
    /\ rows[j].state = "cancelled" => rebuilds[r] = "failed"

(* A rebuild that has a job settles, though the job has a single attempt:   *)
(* stops and lost outcomes only make it run again.  A run that lapses       *)
(* leaves it pending for ever (acquisition_prices.rs:360).                  *)
StartedSettles ==
  \A r \in RebuildId :
    (IsPending(r) /\ \E j \in JobFor(r) : Pricing!Live(j)) ~> ~IsPending(r) \/ r \in lapsed

(* "Queues a rebuild and returns its row, or the row of the rebuild already *)
(* queued or running" (acquisition_prices.rs:121): a rebuild shown as       *)
(* queued or running, none of whose runs lapsed, is one that a job will     *)
(* carry out.                                                               *)
PendingHasJob ==
  \A r \in RebuildId : IsPending(r) => r \in lapsed \/ \E j \in JobFor(r) : Pricing!Live(j)
=============================================================================
