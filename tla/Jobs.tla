-------------------------------- MODULE Jobs --------------------------------
(***************************************************************************)
(* Background jobs (manavault-core, jobs/mod.rs): rows of the jobs table   *)
(* that queue runners claim and run, and that retries, the minutely        *)
(* maintenance and a restart put back.  Each statement or transaction on   *)
(* the table is one action.                                                *)
(*                                                                         *)
(* Time is left out: a queued row is due once it is in its queue's line,   *)
(* and `Maintain` may find any running row without a run over an hour old  *)
(* and any finished row over a day old.  A row with a run is never that    *)
(* old: a run ends with its worker's timeout, which is below STUCK_AFTER.  *)
(***************************************************************************)
EXTENDS Naturals, FiniteSets, Sequences

CONSTANTS
  JobId,        \* jobs.id
  Work,         \* what can be asked for: a worker and its arguments
  NoWork,       \* of an id without a row
  Queue,        \* QUEUES
  QueueOf,      \* the queue of the work's worker
  Slots,        \* how many jobs of a queue run at once
  MaxAttempts,  \* max_attempts of the work's worker
  Key,          \* work with the same key is unique; NoKey: never
  NoKey,
  MaxFaults     \* bound: stops, and runs that leave no outcome

ASSUME WorkAssumption ==
  /\ IsFiniteSet(JobId)
  /\ NoWork \notin Work
  /\ QueueOf \in [Work -> Queue]
  /\ MaxAttempts \in [Work -> Nat \ {0}]
  /\ DOMAIN Key = Work

ASSUME SlotsAssumption == Slots \in [Queue -> Nat \ {0}]

ASSUME FaultsAssumption == MaxFaults \in Nat

VARIABLES
  rows,         \* the jobs table
  line,         \* per queue, its due rows, oldest run_at first
  runs,         \* jobs being executed, each as it was claimed
  server,       \* "down", "booting" until start has requeued, "up"
  faults        \* counts towards MaxFaults

vars == <<rows, line, runs, server, faults>>

Absent == [state |-> "absent", work |-> NoWork, attempt |-> 0]
Finished == {"succeeded", "failed", "cancelled"}
Live(j) == rows[j].state \in {"queued", "running"}

Run == [job : JobId, work : Work, attempt : Nat]
RunsOf(j) == {run \in runs : run.job = j}
RunsIn(q) == {run \in runs : QueueOf[run.work] = q}

TypeOK ==
  /\ rows \in [JobId -> [state : {"absent", "queued", "running"} \cup Finished,
                         work : Work \cup {NoWork}, attempt : Nat]]
  /\ line \in [Queue -> Seq(JobId)]
  /\ runs \subseteq Run
  /\ server \in {"down", "booting", "up"}
  /\ faults \in 0 .. MaxFaults

Init ==
  /\ rows = [j \in JobId |-> Absent]
  /\ line = [q \in Queue |-> <<>>]
  /\ runs = {}
  /\ server = "booting"
  /\ faults = 0

Fault == faults < MaxFaults /\ faults' = faults + 1

-----------------------------------------------------------------------------
(* Seeded fault: rows are claimed newest first.                             *)
EnteredFirst(q, j) == [line EXCEPT ![q] = <<j>> \o @]

(* Rows are claimed ORDER BY run_at: one that becomes due is behind those   *)
(* that are due already.                                                    *)
Entered(q, j) == [line EXCEPT ![q] = Append(@, j)]

(* Seeded fault: a running job is not a duplicate.                          *)
PendingQueued(w) ==
  {j \in JobId : rows[j].state = "queued" /\ Key[w] # NoKey /\ Key[rows[j].work] = Key[w]}

(* insert_job: the rows new work would duplicate.                           *)
Pending(w) ==
  {j \in JobId : Live(j) /\ Key[w] # NoKey /\ Key[rows[j].work] = Key[w]}

(* enqueue, enqueue_in: work asked for by a request, a worker or the        *)
(* crontab gets a row that is due now.  Ids of pruned rows stand for new    *)
(* ones.                                                                    *)
Enqueue(w) ==
  /\ server # "down"
  /\ Pending(w) = {}
  /\ \E j \in JobId :
       /\ rows[j] = Absent
       /\ RunsOf(j) = {}
       /\ rows' = [rows EXCEPT ![j] = [state |-> "queued", work |-> w, attempt |-> 0]]
       /\ line' = Entered(QueueOf[w], j)
  /\ UNCHANGED <<runs, server, faults>>

(* A duplicate is answered with the pending row.                            *)
Duplicate(w) ==
  /\ server # "down"
  /\ Pending(w) # {}
  /\ UNCHANGED vars

Waiting(j) ==
  /\ rows[j].state = "queued"
  /\ \A q \in Queue : \A i \in 1 .. Len(line[q]) : line[q][i] # j

(* run_at of a row that was put back passes.  (A requeued row is due at     *)
(* once; rows requeued together come in id order, which is left open.)      *)
BecomeDue(j) ==
  /\ Waiting(j)
  /\ line' = Entered(QueueOf[rows[j].work], j)
  /\ UNCHANGED <<rows, runs, server, faults>>

-----------------------------------------------------------------------------
(* Seeded fault: every claim may fill all slots of the queue.               *)
FreeAlways(q) == Slots[q]

(* available_permits                                                        *)
Free(q) == Slots[q] - Cardinality(RunsIn(q))

(* claim, spawn_queue: the first n due rows of the queue start to run; n    *)
(* slots were free when the runner looked.                                  *)
Claim(q) ==
  /\ server = "up"
  /\ \E n \in 1 .. Len(line[q]) :
       /\ n <= Free(q)
       /\ LET claimed == {line[q][i] : i \in 1 .. n}
          IN  /\ rows' = [j \in JobId |->
                   IF j \in claimed
                   THEN [rows[j] EXCEPT !.state = "running", !.attempt = @ + 1]
                   ELSE rows[j]]
              /\ runs' = runs \cup
                   {[job |-> j, work |-> rows[j].work, attempt |-> rows[j].attempt + 1] :
                      j \in claimed}
              /\ line' = [line EXCEPT ![q] = SubSeq(@, n + 1, Len(@))]
  /\ UNCHANGED <<server, faults>>

(* record: by job id, whatever the row's state.                             *)
Record(run, state) ==
  /\ run \in runs
  /\ rows' = [rows EXCEPT ![run.job].state = state]
  /\ runs' = runs \ {run}
  /\ UNCHANGED <<line, server, faults>>

(* Seeded fault: one attempt too many.                                      *)
ExhaustedLate(run) == run.attempt > MaxAttempts[run.work]

Exhausted(run) == run.attempt >= MaxAttempts[run.work]

(* What perform returned: Done, Cancel, or Retry, as a timeout does.        *)
Done(run) == Record(run, "succeeded")
Cancel(run) == Record(run, "cancelled")
Retry(run) == Record(run, IF Exhausted(run) THEN "failed" ELSE "queued")

(* The worker panics, or the outcome cannot be recorded: the slot is free   *)
(* again and the row stays running.                                         *)
LeaveUnrecorded(run) ==
  /\ run \in runs
  /\ Fault
  /\ runs' = runs \ {run}
  /\ UNCHANGED <<rows, line, server>>

-----------------------------------------------------------------------------
(* Seeded fault: rows that are being run count as stuck.                    *)
StuckOrRunning == {j \in JobId : rows[j].state = "running"}

(* Seeded fault: every row that is not queued and not being run is stuck.   *)
StuckOrFinished ==
  {j \in JobId : rows[j].state \in {"running"} \cup Finished /\ RunsOf(j) = {}}

(* Rows found running for over STUCK_AFTER.                                 *)
Stuck == {j \in JobId : rows[j].state = "running" /\ RunsOf(j) = {}}

Requeued(js) ==
  [j \in JobId |-> IF j \in js THEN [rows[j] EXCEPT !.state = "queued"] ELSE rows[j]]

(* maintain: two statements whose rows are disjoint.                        *)
Maintain(stuck, old) ==
  /\ server = "up"
  /\ stuck \subseteq Stuck
  /\ old \subseteq {j \in JobId : rows[j].state \in Finished}
  /\ stuck \cup old # {}
  /\ rows' = [j \in JobId |-> IF j \in old THEN Absent ELSE Requeued(stuck)[j]]
  /\ UNCHANGED <<line, runs, server, faults>>

(* The process ends, wherever its jobs are.                                 *)
Stop ==
  /\ server # "down"
  /\ Fault
  /\ server' = "down"
  /\ runs' = {}
  /\ UNCHANGED <<rows, line>>

Boot ==
  /\ server = "down"
  /\ server' = "booting"
  /\ UNCHANGED <<rows, line, runs, faults>>

(* start: requeue_running, then the queues.  A failure is only logged.      *)
StartQueues ==
  /\ server = "booting"
  /\ server' = "up"
  /\ rows' = Requeued({j \in JobId : rows[j].state = "running"})
  /\ UNCHANGED <<line, runs, faults>>

StartQueuesOnly ==
  /\ server = "booting"
  /\ Fault
  /\ server' = "up"
  /\ UNCHANGED <<rows, line, runs>>

-----------------------------------------------------------------------------
Outcome(run) == Done(run) \/ Cancel(run) \/ Retry(run)

(* Everything but requests and the outcomes of runs.                        *)
Runner ==
  \/ \E j \in JobId : BecomeDue(j)
  \/ \E q \in Queue : Claim(q)
  \/ \E run \in runs : LeaveUnrecorded(run)
  \/ \E stuck, old \in SUBSET JobId : Maintain(stuck, old)
  \/ Stop
  \/ Boot
  \/ StartQueues
  \/ StartQueuesOnly

Next ==
  \/ \E w \in Work : Enqueue(w)
  \/ \E run \in runs : Done(run)
  \/ \E run \in runs : Cancel(run)
  \/ \E run \in runs : Retry(run)
  \/ Runner

(* Time passes, the runners poll every second, maintenance runs every       *)
(* minute, and the service manager starts the process again.                *)
RunnerFairness ==
  /\ \A j \in JobId : WF_vars(BecomeDue(j))
  /\ \A q \in Queue : WF_vars(Claim(q))
  /\ \A j \in JobId : WF_vars(\E stuck \in SUBSET JobId : j \in stuck /\ Maintain(stuck, {}))
  /\ WF_vars(Boot)
  /\ WF_vars(StartQueues)

(* A run ends, with its worker's timeout at the latest.                     *)
RunsEnd == \A j \in JobId : WF_vars(\E run \in RunsOf(j) : Outcome(run))

Spec == Init /\ [][Next]_vars
FairSpec == Spec /\ RunnerFairness /\ RunsEnd

-----------------------------------------------------------------------------
(* Work of one key has one pending row at most (Unique, mod.rs:30), however *)
(* often it is asked for, retried, put back or run again after a restart.   *)
UniquePending ==
  \A j, k \in JobId :
    Live(j) /\ Live(k) /\ Key[rows[j].work] = Key[rows[k].work] /\ Key[rows[j].work] # NoKey
      => j = k

(* A queue never runs more jobs at once than it may (QUEUES, mod.rs:124).   *)
SlotsRespected == \A q \in Queue : Cardinality(RunsIn(q)) <= Slots[q]

(* No job is run twice at once, and an outcome is recorded for the attempt  *)
(* that produced it (record is by id, mod.rs:477).                          *)
OneRunPerJob ==
  \A run \in runs :
    /\ rows[run.job] = [state |-> "running", work |-> run.work, attempt |-> run.attempt]
    /\ RunsOf(run.job) = {run}

(* A finished job is never run again.                                       *)
FinishedStays ==
  [][\A j \in JobId :
       rows[j].state \in Finished => rows'[j] = rows[j] \/ rows'[j] = Absent]_vars

(* Every queued job ends, once the process is no longer stopped: no claim   *)
(* order, retry, lost outcome or restart leaves it behind.                  *)
EveryJobEnds == \A j \in JobId : Live(j) ~> ~Live(j)

(* A job is attempted more often than its worker allows only after a stop   *)
(* or a run that left no outcome, once for each (claim, mod.rs:408, counts  *)
(* attempts but does not look at the limit).                                *)
AttemptsAccounted ==
  \A j \in JobId : Live(j) => rows[j].attempt <= MaxAttempts[rows[j].work] + faults
=============================================================================
