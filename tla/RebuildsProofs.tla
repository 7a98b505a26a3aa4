--------------------------- MODULE RebuildsProofs ---------------------------
(***************************************************************************)
(* Safety of the acquisition price rebuilds for any number of rebuilds,    *)
(* jobs and faults.  What the jobs guarantee is taken from JobsProofs,     *)
(* with the pricing queue for its constants.                               *)
(***************************************************************************)
EXTENDS Rebuilds, TLAPS

JobFacts == INSTANCE JobsProofs WITH
  Work <- RebuildId,
  Queue <- {"pricing"},
  QueueOf <- [r \in RebuildId |-> "pricing"],
  Slots <- [q \in {"pricing"} |-> 1],
  MaxAttempts <- [r \in RebuildId |-> 1],
  Key <- [r \in RebuildId |-> "acquisition_price_rebuild"],
  NoKey <- "none"

Types ==
  /\ rebuilds \in [RebuildId -> {"absent", "queued", "running", "succeeded", "failed"}]
  /\ step \in [JobId -> {"start", "marked", "finished"}]

(* A rebuild has one job at most, which it gets when it is asked for.       *)
OneJob ==
  \A j, k \in JobId : rows[j].work = rows[k].work /\ rows[j].work \in RebuildId => j = k

RequestedWithJob ==
  \A j \in JobId : rows[j].work \in RebuildId => rebuilds[rows[j].work] # "absent"

IdleAtStart == \A j \in JobId : JobFacts!RunsOf(j) = {} => step[j] = "start"

(* What a run has stored is still there when it returns.                    *)
FinishedStored ==
  \A run \in runs : step[run.job] = "finished" => rebuilds[run.work] \in {"succeeded", "failed"}

Inv ==
  /\ JobFacts!Inv
  /\ Types
  /\ OneJob
  /\ RequestedWithJob
  /\ IdleAtStart
  /\ FinishedStored
  /\ OutcomesAgree

-----------------------------------------------------------------------------
(* What Jobs assumes holds of the pricing queue.                            *)
LEMMA PricingAssumptions ==
  /\ JobFacts!WorkAssumption
  /\ JobFacts!SlotsAssumption
  /\ JobFacts!FaultsAssumption
BY IdsAssumption
   DEF JobFacts!WorkAssumption, JobFacts!SlotsAssumption, JobFacts!FaultsAssumption,
       IsFiniteSet, JobFacts!IsFiniteSet

(* The jobs as Rebuilds uses them are the jobs JobsProofs is about.         *)
LEMMA SameInit == Pricing!Init => JobFacts!Init
  BY DEF Pricing!Init, JobFacts!Init, Pricing!Absent, JobFacts!Absent

LEMMA SameEnqueue == ASSUME NEW r, Pricing!Enqueue(r) PROVE JobFacts!Enqueue(r)
  BY DEF Pricing!Enqueue, JobFacts!Enqueue, Pricing!Pending, JobFacts!Pending,
         Pricing!Live, JobFacts!Live, Pricing!Absent, JobFacts!Absent,
         Pricing!RunsOf, JobFacts!RunsOf, Pricing!Entered, JobFacts!Entered

LEMMA SameOutcome ==
  ASSUME NEW run, Pricing!Done(run) \/ Pricing!Cancel(run) \/ Pricing!Retry(run)
  PROVE  JobFacts!Done(run) \/ JobFacts!Cancel(run) \/ JobFacts!Retry(run)
  BY DEF Pricing!Done, JobFacts!Done, Pricing!Cancel, JobFacts!Cancel, Pricing!Retry, JobFacts!Retry,
         Pricing!Record, JobFacts!Record, Pricing!Exhausted, JobFacts!Exhausted

LEMMA SameRunner == Pricing!Runner => JobFacts!Runner
  BY DEF Pricing!Runner, JobFacts!Runner, Pricing!BecomeDue, JobFacts!BecomeDue,
         Pricing!Waiting, JobFacts!Waiting, Pricing!Entered, JobFacts!Entered,
         Pricing!Claim, JobFacts!Claim, Pricing!Free, JobFacts!Free,
         Pricing!RunsIn, JobFacts!RunsIn, Pricing!LeaveUnrecorded, JobFacts!LeaveUnrecorded,
         Pricing!Fault, JobFacts!Fault, Pricing!Maintain, JobFacts!Maintain,
         Pricing!Stuck, JobFacts!Stuck, Pricing!RunsOf, JobFacts!RunsOf,
         Pricing!Finished, JobFacts!Finished, Pricing!Absent, JobFacts!Absent,
         Pricing!Requeued, JobFacts!Requeued, Pricing!Stop, JobFacts!Stop,
         Pricing!Boot, JobFacts!Boot, Pricing!StartQueues, JobFacts!StartQueues,
         Pricing!StartQueuesOnly, JobFacts!StartQueuesOnly,
         Cardinality, Pricing!Cardinality, JobFacts!Cardinality,
         IsFiniteSet, Pricing!IsFiniteSet, JobFacts!IsFiniteSet

-----------------------------------------------------------------------------
LEMMA InitInv == Init => Inv
<1> SUFFICES ASSUME Init PROVE Inv
  OBVIOUS
<1>1. JobFacts!Inv
  BY SameInit, PricingAssumptions, JobFacts!InitInv DEF Init
<1>2. /\ rebuilds = [r \in RebuildId |-> "absent"]
      /\ step = [j \in JobId |-> "start"]
      /\ runs = {}
      /\ \A j \in JobId : rows[j].work \notin RebuildId
  BY IdsAssumption DEF Init, Pricing!Init, Pricing!Absent
<1> QED BY <1>1, <1>2
     DEF Inv, Types, OneJob, RequestedWithJob, IdleAtStart, FinishedStored, OutcomesAgree, JobFor

(* What the jobs' invariant says of a run and its row.                      *)
LEMMA RunFacts ==
  ASSUME Inv
  PROVE  /\ \A run \in runs :
              /\ run.job \in JobId /\ run.work \in RebuildId
              /\ rows[run.job].work = run.work /\ rows[run.job].state = "running"
         /\ \A run, other \in runs : run.work = other.work => run = other
         /\ \A run, other \in runs : run.job = other.job => run = other
<1>1. /\ \A run \in runs :
           /\ run.job \in JobId /\ run.work \in RebuildId
           /\ rows[run.job].work = run.work /\ rows[run.job].state = "running"
      /\ \A run, other \in runs : run.job = other.job => run = other
  BY PricingAssumptions, JobFacts!RunFacts DEF Inv
<1>2. \A run, other \in runs : run.work = other.work => run = other
  BY <1>1 DEF Inv, OneJob
<1> QED BY <1>1, <1>2

(* A rebuild that is asked for may get a job, and had none.                 *)
LEMMA RequestInv == ASSUME Inv, NEW r \in RebuildId, Request(r) PROVE Inv'
<1>1. /\ rebuilds[r] = "absent"
      /\ rebuilds' = [rebuilds EXCEPT ![r] = "queued"]
      /\ Pricing!Enqueue(r) \/ Pricing!Duplicate(r)
      /\ UNCHANGED <<step, lapsed>>
  BY DEF Request
<1>2. JobFacts!Inv'
  <2>1. CASE Pricing!Enqueue(r)
    BY <2>1, SameEnqueue, PricingAssumptions, JobFacts!EnqueueInv DEF Inv
  <2>2. CASE Pricing!Duplicate(r)
    BY <2>2, PricingAssumptions, JobFacts!NextInv DEF Inv, Pricing!Duplicate, Pricing!vars, JobFacts!vars
  <2> QED BY <1>1, <2>1, <2>2
<1>3. UNCHANGED runs /\ DOMAIN rows = JobId
  BY <1>1 DEF Pricing!Enqueue, Pricing!Duplicate, Pricing!vars, Inv, JobFacts!Inv, JobFacts!TypeOK
<1>4. \A k \in JobId : rows[k].work # r
  BY <1>1 DEF Inv, RequestedWithJob
<1>5. \/ UNCHANGED rows
      \/ \E j \in JobId : rows' = [rows EXCEPT ![j] = [state |-> "queued", work |-> r, attempt |-> 0]]
  BY <1>1 DEF Pricing!Enqueue, Pricing!Duplicate, Pricing!vars
<1>6. /\ \A k \in JobId :
           \/ rows'[k] = rows[k]
           \/ rows'[k].work = r /\ rows'[k].state = "queued"
      /\ \A k, l \in JobId : rows'[k].work = r /\ rows'[l].work = r => k = l
  <2>1. CASE UNCHANGED rows
    BY <1>4, <2>1
  <2>2. CASE \E j \in JobId : rows' = [rows EXCEPT ![j] = [state |-> "queued", work |-> r, attempt |-> 0]]
    BY <1>3, <1>4, <2>2
  <2> QED BY <1>5, <2>1, <2>2
<1>7. Types' /\ rebuilds'[r] = "queued" /\ \A p \in RebuildId : p # r => rebuilds'[p] = rebuilds[p]
  BY <1>1 DEF Inv, Types
<1>8. OneJob'
  BY <1>4, <1>6 DEF Inv, OneJob
<1>9. RequestedWithJob'
  BY <1>6, <1>7 DEF Inv, RequestedWithJob
<1>10. IdleAtStart'
  BY <1>1, <1>3 DEF Inv, IdleAtStart, JobFacts!RunsOf
<1>11. FinishedStored'
  BY <1>1, <1>3, <1>4, <1>7, RunFacts DEF Inv, FinishedStored
<1>12. OutcomesAgree'
  <2> SUFFICES ASSUME NEW p \in RebuildId, NEW k \in JobId, rows'[k].work = p
               PROVE  /\ rows'[k].state = "succeeded" => rebuilds'[p] = "succeeded"
                      /\ rows'[k].state = "cancelled" => rebuilds'[p] = "failed"
    BY DEF OutcomesAgree, JobFor
  <2>1. CASE rows'[k] = rows[k]
    BY <1>4, <1>7, <2>1 DEF Inv, OutcomesAgree, JobFor
  <2>2. CASE rows'[k].state = "queued"
    BY <2>2
  <2> QED BY <1>6, <2>1, <2>2
<1> QED BY <1>2, <1>7, <1>8, <1>9, <1>10, <1>11, <1>12 DEF Inv

(* A run writes its rebuild, whose only job it runs.                        *)
LEMMA WriteInv ==
  ASSUME Inv, NEW run \in runs, NEW from,
         NEW to \in {"marked", "finished"},
         NEW status \in {"running", "succeeded", "failed"},
         to = "finished" => status # "running",
         Write(run, from, to, status)
  PROVE  Inv'
<1>1. /\ step' = [step EXCEPT ![run.job] = to]
      /\ rebuilds' = [rebuilds EXCEPT ![run.work] = status]
      /\ UNCHANGED <<rows, line, runs, server, faults>>
  BY DEF Write, jobVars
<1>2. run.job \in JobId /\ run.work \in RebuildId /\ rows[run.job].work = run.work
      /\ rows[run.job].state = "running"
  BY RunFacts
<1>3. JobFacts!Inv'
  BY <1>1, PricingAssumptions, JobFacts!NextInv DEF Inv, JobFacts!vars
<1>4. /\ \A r \in RebuildId : rebuilds'[r] = IF r = run.work THEN status ELSE rebuilds[r]
      /\ \A j \in JobId : step'[j] = IF j = run.job THEN to ELSE step[j]
  BY <1>1 DEF Inv, Types
<1>5. Types'
  BY <1>1 DEF Inv, Types
<1>6. OneJob' /\ RequestedWithJob'
  BY <1>1, <1>4 DEF Inv, OneJob, RequestedWithJob
<1>7. IdleAtStart'
  <2>1. run \in JobFacts!RunsOf(run.job)
    BY DEF JobFacts!RunsOf
  <2>2. \A j \in JobId : JobFacts!RunsOf(j)' = JobFacts!RunsOf(j)
    BY <1>1 DEF JobFacts!RunsOf
  <2> QED BY <1>4, <2>1, <2>2 DEF Inv, IdleAtStart
<1>8. FinishedStored'
  <2> SUFFICES ASSUME NEW other \in runs, step'[other.job] = "finished"
               PROVE  rebuilds'[other.work] \in {"succeeded", "failed"}
    BY <1>1 DEF FinishedStored
  <2>1. CASE other = run
    BY <1>2, <1>4, <2>1
  <2>2. CASE other # run
    <3>1. /\ other.job \in JobId /\ other.job # run.job
          /\ other.work \in RebuildId /\ other.work # run.work
      BY <2>2, RunFacts
    <3> QED BY <1>4, <3>1 DEF Inv, FinishedStored
  <2> QED BY <2>1, <2>2
<1>9. OutcomesAgree'
  BY <1>1, <1>2, <1>4 DEF Inv, OutcomesAgree, OneJob, JobFor
<1> QED BY <1>3, <1>5, <1>6, <1>7, <1>8, <1>9 DEF Inv

(* Steps of the jobs that leave the rebuilds alone.                         *)
LEMMA JobStepInv ==
  ASSUME Inv, JobFacts!Inv', OutcomesAgree', step' = Progress, UNCHANGED rebuilds,
         \A j \in JobId : rows'[j] = JobFacts!Absent \/ rows'[j].work = rows[j].work,
         \A run \in runs' : run \in runs \/ JobFacts!RunsOf(run.job) = {}
  PROVE  Inv'
<1>1. \A j \in JobId : rows'[j].work \in RebuildId => rows'[j].work = rows[j].work
  BY IdsAssumption DEF JobFacts!Absent
<1>2. OneJob' /\ RequestedWithJob'
  BY <1>1 DEF Inv, OneJob, RequestedWithJob
<1>3. \A j \in JobId : step'[j] = IF \E run \in runs' : run.job = j THEN step[j] ELSE "start"
  BY DEF Progress
<1>4. Types'
  BY <1>3 DEF Inv, Types, Progress
<1>5. IdleAtStart'
  BY <1>3 DEF IdleAtStart, JobFacts!RunsOf
<1>6. FinishedStored'
  <2> SUFFICES ASSUME NEW run \in runs', step'[run.job] = "finished"
               PROVE  rebuilds[run.work] \in {"succeeded", "failed"}
    BY DEF FinishedStored
  <2>1. run.job \in JobId
    BY DEF JobFacts!Inv, JobFacts!TypeOK, JobFacts!Run
  <2>2. step[run.job] = "finished"
    BY <1>3, <2>1
  <2>3. run \in runs
    BY <2>1, <2>2 DEF Inv, IdleAtStart
  <2> QED BY <2>2, <2>3 DEF Inv, FinishedStored
<1> QED BY <1>2, <1>4, <1>5, <1>6 DEF Inv

LEMMA RunnerInv == ASSUME Inv, Pricing!Runner, step' = Progress, UNCHANGED rebuilds PROVE Inv'
<1>1. JobFacts!Runner /\ JobFacts!Inv
  BY SameRunner DEF Inv
<1>2. JobFacts!Inv'
  BY <1>1, PricingAssumptions, JobFacts!NextInv DEF JobFacts!Next
<1>3. /\ \A j \in JobId :
           \/ rows'[j] = JobFacts!Absent
           \/ /\ rows'[j].work = rows[j].work
              /\ rows'[j].state \in JobFacts!Finished => rows'[j] = rows[j]
      /\ \A run \in runs' : run \in runs \/ JobFacts!RunsOf(run.job) = {}
  BY <1>1, PricingAssumptions, JobFacts!RunnerFacts
<1>4. OutcomesAgree'
  <2> SUFFICES ASSUME NEW r \in RebuildId, NEW j \in JobId, rows'[j].work = r,
                      rows'[j].state \in {"succeeded", "cancelled"}
               PROVE  /\ rows'[j].state = "succeeded" => rebuilds[r] = "succeeded"
                      /\ rows'[j].state = "cancelled" => rebuilds[r] = "failed"
    BY DEF OutcomesAgree, JobFor
  <2>1. rows'[j] = rows[j]
    BY <1>3, IdsAssumption DEF JobFacts!Absent, JobFacts!Finished
  <2> QED BY <2>1 DEF Inv, OutcomesAgree, JobFor
<1> QED BY <1>2, <1>3, <1>4, JobStepInv

LEMMA ReturnedInv ==
  ASSUME Inv, NEW run \in runs, Returned(run) \/ Lapse(run), step' = Progress, UNCHANGED rebuilds
  PROVE  Inv'
<1>1. JobFacts!Done(run) \/ JobFacts!Cancel(run) \/ JobFacts!Retry(run)
  BY SameOutcome DEF Returned, Lapse
<1>2. JobFacts!Inv'
  BY <1>1, PricingAssumptions, JobFacts!OutcomeInv DEF Inv, JobFacts!Outcome
<1>3. run.job \in JobId /\ run.work \in RebuildId /\ rows[run.job].work = run.work
      /\ DOMAIN rows = JobId
  BY RunFacts DEF Inv, JobFacts!Inv, JobFacts!TypeOK
<1>4. PICK state \in {"queued", "succeeded", "cancelled", "failed"} :
        /\ rows' = [rows EXCEPT ![run.job].state = state]
        /\ runs' = runs \ {run}
        /\ state = "succeeded" => step[run.job] = "finished" /\ rebuilds[run.work] # "failed"
        /\ state = "cancelled" => rebuilds[run.work] = "failed"
  BY DEF Returned, Lapse, Pricing!Done, Pricing!Cancel, Pricing!Retry, Pricing!Record
<1>5. \A j \in JobId : /\ rows'[j].work = rows[j].work
                       /\ rows'[j].state = IF j = run.job THEN state ELSE rows[j].state
  BY <1>3, <1>4 DEF Inv, JobFacts!Inv, JobFacts!TypeOK
<1>6. state = "succeeded" => rebuilds[run.work] = "succeeded"
  BY <1>4 DEF Inv, FinishedStored
<1>7. OutcomesAgree'
  <2> SUFFICES ASSUME NEW r \in RebuildId, NEW j \in JobId, rows'[j].work = r
               PROVE  /\ rows'[j].state = "succeeded" => rebuilds[r] = "succeeded"
                      /\ rows'[j].state = "cancelled" => rebuilds[r] = "failed"
    BY DEF OutcomesAgree, JobFor
  <2>1. CASE j = run.job
    BY <1>3, <1>4, <1>5, <1>6, <2>1
  <2>2. CASE j # run.job
    BY <1>5, <2>2 DEF Inv, OutcomesAgree, JobFor
  <2> QED BY <2>1, <2>2
<1> QED BY <1>2, <1>4, <1>5, <1>7, JobStepInv

LEMMA NextInv == Inv /\ [Next]_vars => Inv'
<1> SUFFICES ASSUME Inv, [Next]_vars PROVE Inv'
  OBVIOUS
<1>1. CASE \E r \in RebuildId : Request(r)
  BY <1>1, RequestInv
<1>2. CASE \E run \in runs : MarkRunning(run) \/ Finish(run)
  BY <1>2, WriteInv DEF MarkRunning, Finish
<1>3. CASE \E run \in runs : (Returned(run) \/ Lapse(run)) /\ step' = Progress /\ UNCHANGED rebuilds
  BY <1>3, ReturnedInv
<1>4. CASE Pricing!Runner /\ step' = Progress /\ UNCHANGED rebuilds
  BY <1>4, RunnerInv
<1>5. CASE UNCHANGED vars
  <2>1. UNCHANGED <<rebuilds, step, rows, line, runs, server, faults>>
    BY <1>5 DEF vars, jobVars
  <2>2. JobFacts!Inv'
    BY <2>1, PricingAssumptions, JobFacts!NextInv DEF Inv, JobFacts!vars
  <2> QED BY <2>1, <2>2 DEF Inv, Types, OneJob, RequestedWithJob, IdleAtStart, FinishedStored,
                            OutcomesAgree, JobFor, JobFacts!RunsOf
<1> QED BY <1>1, <1>2, <1>3, <1>4, <1>5 DEF Next, Perform

-----------------------------------------------------------------------------
(* The strengthened invariant holds in every reachable state.               *)
THEOREM Invariance == Spec => []Inv
  BY InitInv, NextInv, PTL DEF Spec

(* A job's outcome and its rebuild's status tell the same story.            *)
THEOREM OneStory == Spec => []OutcomesAgree
<1>1. Inv => OutcomesAgree
  BY DEF Inv
<1> QED BY <1>1, Invariance, PTL
=============================================================================
