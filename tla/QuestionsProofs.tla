-------------------------- MODULE QuestionsProofs ---------------------------
(***************************************************************************)
(* Safety of the deck questions for any number of questions, jobs and      *)
(* faults, with timeouts and database errors.  What the jobs guarantee is  *)
(* taken from JobsProofs, with the ai queue for its constants.             *)
(***************************************************************************)
EXTENDS Questions, TLAPS

AiProofs == INSTANCE JobsProofs WITH
  Work <- QuestionId,
  Queue <- {"ai"},
  QueueOf <- [q \in QuestionId |-> "ai"],
  Slots <- [q \in {"ai"} |-> 2],
  MaxAttempts <- [q \in QuestionId |-> MaxAttempts],
  Key <- [q \in QuestionId |-> "none"],
  NoKey <- "none"

Types ==
  /\ questions \in [QuestionId -> {"unasked", "pending", "completed", "failed", "deleted"}]
  /\ step \in [JobId -> {"start", "asking", "answered", "given up"}]

(* A question has one job, which it gets when it is asked.                  *)
OneJob ==
  \A j, k \in JobId : rows[j].work = rows[k].work /\ rows[j].work \in QuestionId => j = k

AskedWithJob ==
  \A j \in JobId : rows[j].work \in QuestionId => questions[rows[j].work] # "unasked"

IdleAtStart == \A j \in JobId : AiProofs!RunsOf(j) = {} => step[j] = "start"

(* Only the run that asks can settle the question, until it does.           *)
AskingIsPending ==
  \A run \in runs : step[run.job] = "asking" => questions[run.work] \in {"pending", "deleted"}

Inv ==
  /\ AiProofs!Inv
  /\ Types
  /\ OneJob
  /\ AskedWithJob
  /\ IdleAtStart
  /\ AskingIsPending
  /\ FailedAfterAllAttempts

-----------------------------------------------------------------------------
(* What Jobs assumes holds of the ai queue.                                 *)
LEMMA AiAssumptions ==
  /\ AiProofs!WorkAssumption
  /\ AiProofs!SlotsAssumption
  /\ AiProofs!FaultsAssumption
BY IdsAssumption
   DEF AiProofs!WorkAssumption, AiProofs!SlotsAssumption, AiProofs!FaultsAssumption, MaxAttempts,
       IsFiniteSet, AiProofs!IsFiniteSet

(* The jobs as Questions uses them are the jobs JobsProofs is about.        *)
LEMMA SameInit == Ai!Init => AiProofs!Init
  BY DEF Ai!Init, AiProofs!Init, Ai!Absent, AiProofs!Absent

LEMMA SameEnqueue == ASSUME NEW q, Ai!Enqueue(q) PROVE AiProofs!Enqueue(q)
  BY DEF Ai!Enqueue, AiProofs!Enqueue, Ai!Pending, AiProofs!Pending, Ai!Live, AiProofs!Live,
         Ai!Absent, AiProofs!Absent, Ai!RunsOf, AiProofs!RunsOf, Ai!Entered, AiProofs!Entered

LEMMA SameOutcome ==
  ASSUME NEW run, Ai!Done(run) \/ Ai!Retry(run)
  PROVE  AiProofs!Done(run) \/ AiProofs!Retry(run)
  BY DEF Ai!Done, AiProofs!Done, Ai!Retry, AiProofs!Retry, Ai!Record, AiProofs!Record,
         Ai!Exhausted, AiProofs!Exhausted

LEMMA SameRunner == Ai!Runner => AiProofs!Runner
  BY DEF Ai!Runner, AiProofs!Runner, Ai!BecomeDue, AiProofs!BecomeDue, Ai!Waiting, AiProofs!Waiting,
         Ai!Entered, AiProofs!Entered, Ai!Claim, AiProofs!Claim, Ai!Free, AiProofs!Free,
         Ai!RunsIn, AiProofs!RunsIn, Ai!LeaveUnrecorded, AiProofs!LeaveUnrecorded,
         Ai!Fault, AiProofs!Fault, Ai!Maintain, AiProofs!Maintain, Ai!Stuck, AiProofs!Stuck,
         Ai!RunsOf, AiProofs!RunsOf, Ai!Finished, AiProofs!Finished, Ai!Absent, AiProofs!Absent,
         Ai!Requeued, AiProofs!Requeued, Ai!Stop, AiProofs!Stop, Ai!Boot, AiProofs!Boot,
         Ai!StartQueues, AiProofs!StartQueues, Ai!StartQueuesOnly, AiProofs!StartQueuesOnly,
         Cardinality, Ai!Cardinality, AiProofs!Cardinality, IsFiniteSet, Ai!IsFiniteSet, AiProofs!IsFiniteSet

-----------------------------------------------------------------------------
LEMMA InitInv == Init => Inv
<1> SUFFICES ASSUME Init PROVE Inv
  OBVIOUS
<1>1. AiProofs!Inv
  BY SameInit, AiAssumptions, AiProofs!InitInv DEF Init
<1>2. /\ questions = [q \in QuestionId |-> "unasked"]
      /\ step = [j \in JobId |-> "start"]
      /\ runs = {}
      /\ \A j \in JobId : rows[j].work \notin QuestionId
  BY IdsAssumption DEF Init, Ai!Init, Ai!Absent
<1> QED BY <1>1, <1>2
     DEF Inv, Types, OneJob, AskedWithJob, IdleAtStart, AskingIsPending, FailedAfterAllAttempts

(* What the jobs' invariant says of a run and its row.                      *)
LEMMA RunFacts ==
  ASSUME Inv
  PROVE  /\ \A run \in runs :
              /\ run.job \in JobId /\ run.work \in QuestionId /\ run.attempt \in Nat
              /\ rows[run.job].work = run.work /\ rows[run.job].attempt = run.attempt
         /\ \A run, other \in runs : run.work = other.work => run = other
         /\ \A run, other \in runs : run.job = other.job => run = other
<1>1. /\ \A run \in runs :
           /\ run.job \in JobId /\ run.work \in QuestionId /\ run.attempt \in Nat
           /\ rows[run.job].work = run.work /\ rows[run.job].attempt = run.attempt
      /\ \A run, other \in runs : run.job = other.job => run = other
  BY AiAssumptions, AiProofs!RunFacts DEF Inv
<1>2. \A run, other \in runs : run.work = other.work => run = other
  BY <1>1 DEF Inv, OneJob
<1> QED BY <1>1, <1>2

(* A question gets its job when it has none.                                *)
LEMMA AskInv == ASSUME Inv, NEW q \in QuestionId, Ask(q) PROVE Inv'
<1>1. /\ questions[q] = "unasked"
      /\ questions' = [questions EXCEPT ![q] = "pending"]
      /\ Ai!Enqueue(q)
      /\ UNCHANGED <<step, lapsed>>
  BY DEF Ask
<1>2. AiProofs!Inv'
  BY <1>1, SameEnqueue, AiAssumptions, AiProofs!EnqueueInv DEF Inv
<1>3. PICK j \in JobId :
        /\ rows[j] = Ai!Absent
        /\ rows' = [rows EXCEPT ![j] = [state |-> "queued", work |-> q, attempt |-> 0]]
  BY <1>1 DEF Ai!Enqueue
<1>4. UNCHANGED runs /\ DOMAIN rows = JobId
  BY <1>1 DEF Ai!Enqueue, Inv, AiProofs!Inv, AiProofs!TypeOK
<1>5. rows'[j].work = q /\ \A k \in JobId : k # j => rows'[k] = rows[k]
  BY <1>3, <1>4
<1>6. \A k \in JobId : rows[k].work # q
  BY <1>1 DEF Inv, AskedWithJob
<1>7. Types' /\ \A p \in QuestionId : p # q => questions'[p] = questions[p]
  BY <1>1 DEF Inv, Types
<1>8. questions'[q] = "pending"
  BY <1>1 DEF Inv, Types
<1>9. OneJob'
  BY <1>5, <1>6 DEF Inv, OneJob
<1>10. AskedWithJob'
  BY <1>5, <1>7, <1>8 DEF Inv, AskedWithJob
<1>11. IdleAtStart'
  BY <1>1, <1>4 DEF Inv, IdleAtStart, AiProofs!RunsOf
<1>12. AskingIsPending'
  BY <1>1, <1>4, <1>7, <1>8, RunFacts DEF Inv, AskingIsPending
<1>13. FailedAfterAllAttempts'
  BY <1>5, <1>7, <1>8 DEF Inv, FailedAfterAllAttempts, JobFor
<1> QED BY <1>2, <1>7, <1>9, <1>10, <1>11, <1>12, <1>13 DEF Inv

(* Steps of requests and runs that leave the jobs alone: it is enough that  *)
(* questions which may be asked about stay so.                              *)
LEMMA QuestionStepInv ==
  ASSUME Inv, UNCHANGED jobVars, Types', IdleAtStart', AskingIsPending',
         \A q \in QuestionId : questions'[q] # questions[q] =>
           /\ questions'[q] # "unasked"
           /\ questions'[q] = "failed" => \A j \in JobFor(q) : rows[j].attempt >= MaxAttempts
  PROVE  Inv'
<1>1. UNCHANGED <<rows, line, runs, server, faults>>
  BY DEF jobVars
<1>2. AiProofs!Inv'
  BY <1>1, AiAssumptions, AiProofs!NextInv DEF Inv, AiProofs!vars
<1>3. OneJob' /\ AskedWithJob'
  BY <1>1 DEF Inv, OneJob, AskedWithJob
<1>4. FailedAfterAllAttempts'
  BY <1>1 DEF Inv, FailedAfterAllAttempts, JobFor
<1> QED BY <1>2, <1>3, <1>4 DEF Inv

LEMMA DeleteInv == ASSUME Inv, NEW q \in QuestionId, Delete(q) PROVE Inv'
<1>1. questions' = [questions EXCEPT ![q] = "deleted"] /\ UNCHANGED <<step, lapsed, jobVars>>
  BY DEF Delete
<1>2. Types' /\ \A p \in QuestionId : questions'[p] = IF p = q THEN "deleted" ELSE questions[p]
  BY <1>1 DEF Inv, Types
<1>3. IdleAtStart'
  BY <1>1 DEF jobVars, Inv, IdleAtStart, AiProofs!RunsOf
<1>4. AskingIsPending'
  BY <1>1, <1>2, RunFacts DEF jobVars, Inv, AskingIsPending
<1> QED BY <1>1, <1>2, <1>3, <1>4, QuestionStepInv

(* A run moves on.                                                          *)
LEMMA AtFacts ==
  ASSUME Inv, NEW run \in runs, NEW from, NEW to \in {"asking", "answered", "given up"},
         At(run, from, to)
  PROVE  /\ step' \in [JobId -> {"start", "asking", "answered", "given up"}]
         /\ IdleAtStart'
         /\ step[run.job] = from /\ step'[run.job] = to
         /\ \A other \in runs : other # run => step'[other.job] = step[other.job]
         /\ UNCHANGED jobVars
<1>1. /\ step[run.job] = from
      /\ step' = [step EXCEPT ![run.job] = to]
      /\ UNCHANGED jobVars
  BY DEF At
<1>2. step \in [JobId -> {"start", "asking", "answered", "given up"}] /\ run.job \in JobId
  BY RunFacts DEF Inv, Types
<1>3. \A j \in JobId : step'[j] = IF j = run.job THEN to ELSE step[j]
  BY <1>1, <1>2
<1>4. \A other \in runs : other.job \in JobId /\ (other # run => other.job # run.job)
  BY RunFacts
<1>5. run \in AiProofs!RunsOf(run.job)
  BY DEF AiProofs!RunsOf
<1>6. \A j \in JobId : AiProofs!RunsOf(j)' = AiProofs!RunsOf(j)
  BY <1>1 DEF jobVars, AiProofs!RunsOf
<1>7. IdleAtStart'
  BY <1>3, <1>5, <1>6 DEF Inv, IdleAtStart
<1>8. step' \in [JobId -> {"start", "asking", "answered", "given up"}]
  BY <1>1, <1>2
<1> QED BY <1>1, <1>2, <1>3, <1>4, <1>7, <1>8

LEMMA BeginInv == ASSUME Inv, NEW run \in runs, Begin(run) PROVE Inv'
<1>1. At(run, "start", "asking") /\ questions[run.work] = "pending" /\ UNCHANGED questions
  BY DEF Begin, ToAnswer
<1>2. Types'
  BY <1>1, AtFacts DEF Inv, Types
<1>3. AskingIsPending'
  BY <1>1, AtFacts DEF jobVars, Inv, AskingIsPending
<1> QED BY <1>1, <1>2, <1>3, AtFacts, QuestionStepInv

LEMMA AnswerInv == ASSUME Inv, NEW run \in runs, Answer(run) PROVE Inv'
<1>1. /\ At(run, "asking", "answered")
      /\ questions' = [questions EXCEPT ![run.work] = IF HasRow(run.work) THEN "completed" ELSE @]
  BY DEF Answer, Stored
<1>2. run.work \in QuestionId
  BY RunFacts
<1>3. \A q \in QuestionId :
        questions'[q] = IF q = run.work /\ HasRow(q) THEN "completed" ELSE questions[q]
  BY <1>1 DEF Inv, Types
<1>4. Types'
  BY <1>1, AtFacts DEF Inv, Types
<1>5. AskingIsPending'
  <2>1. ASSUME NEW other \in runs, step'[other.job] = "asking"
        PROVE  questions'[other.work] \in {"pending", "deleted"}
    <3>1. other # run
      BY <1>1, <2>1, AtFacts
    <3>2. other.work # run.work /\ other.work \in QuestionId /\ step[other.job] = "asking"
      BY <1>1, <2>1, <3>1, AtFacts, RunFacts
    <3> QED BY <1>3, <3>2 DEF Inv, AskingIsPending
  <2>2. UNCHANGED runs
    BY <1>1, AtFacts DEF jobVars
  <2> QED BY <2>1, <2>2 DEF AskingIsPending
<1>6. IdleAtStart' /\ UNCHANGED jobVars
  BY <1>1, AtFacts
<1>7. \A q \in QuestionId : questions'[q] # questions[q] => questions'[q] = "completed"
  BY <1>3
<1> QED BY <1>4, <1>5, <1>6, <1>7, QuestionStepInv

LEMMA GiveUpInv == ASSUME Inv, NEW run \in runs, GiveUp(run) PROVE Inv'
<1>1. PICK from \in {"start", "asking"} : At(run, from, "given up")
  BY DEF GiveUp
<1>2. /\ questions' = [questions EXCEPT ![run.work] = IF @ = "pending" THEN "failed" ELSE @]
      /\ run.attempt >= MaxAttempts
  BY DEF GiveUp, LastAttempt
<1>3. run.job \in JobId /\ run.work \in QuestionId /\ rows[run.job].work = run.work
      /\ rows[run.job].attempt = run.attempt
  BY RunFacts
<1>4. \A q \in QuestionId :
        questions'[q] = IF q = run.work /\ questions[q] = "pending" THEN "failed" ELSE questions[q]
  BY <1>2 DEF Inv, Types
<1>5. Types'
  BY <1>1, <1>2, AtFacts DEF Inv, Types
<1>6. AskingIsPending'
  <2>1. ASSUME NEW other \in runs, step'[other.job] = "asking"
        PROVE  questions'[other.work] \in {"pending", "deleted"}
    <3>1. other # run
      BY <1>1, <2>1, AtFacts
    <3>2. other.work # run.work /\ other.work \in QuestionId /\ step[other.job] = "asking"
      BY <1>1, <2>1, <3>1, AtFacts, RunFacts
    <3> QED BY <1>4, <3>2 DEF Inv, AskingIsPending
  <2>2. UNCHANGED runs
    BY <1>1, AtFacts DEF jobVars
  <2> QED BY <2>1, <2>2 DEF AskingIsPending
<1>7. \A j \in JobFor(run.work) : rows[j].attempt >= MaxAttempts
  BY <1>2, <1>3 DEF Inv, OneJob, JobFor
<1> QED BY <1>1, <1>4, <1>5, <1>6, <1>7, AtFacts, QuestionStepInv

-----------------------------------------------------------------------------
(* Steps of the jobs that leave the questions alone.                        *)
LEMMA JobStepInv ==
  ASSUME Inv, AiProofs!Inv', step' = Progress, UNCHANGED questions,
         \A j \in JobId :
           \/ rows'[j] = AiProofs!Absent
           \/ rows'[j].work = rows[j].work /\ rows[j].attempt <= rows'[j].attempt,
         \A run \in runs' : run \in runs \/ AiProofs!RunsOf(run.job) = {}
  PROVE  Inv'
<1>1. \A j \in JobId : rows'[j].work \in QuestionId =>
        rows'[j].work = rows[j].work /\ rows[j].attempt <= rows'[j].attempt
  BY IdsAssumption DEF AiProofs!Absent
<1>2. OneJob' /\ AskedWithJob'
  BY <1>1 DEF Inv, OneJob, AskedWithJob
<1>3. \A j \in JobId : step'[j] = IF \E run \in runs' : run.job = j THEN step[j] ELSE "start"
  BY DEF Progress
<1>4. Types'
  BY <1>3 DEF Inv, Types, Progress
<1>5. IdleAtStart'
  BY <1>3 DEF IdleAtStart, AiProofs!RunsOf
<1>6. AskingIsPending'
  <2> SUFFICES ASSUME NEW run \in runs', step'[run.job] = "asking"
               PROVE  questions[run.work] \in {"pending", "deleted"}
    BY DEF AskingIsPending
  <2>1. run.job \in JobId
    BY DEF AiProofs!Inv, AiProofs!TypeOK, AiProofs!Run
  <2>2. step[run.job] = "asking"
    BY <1>3, <2>1
  <2>3. run \in runs
    BY <2>1, <2>2 DEF Inv, IdleAtStart
  <2> QED BY <2>2, <2>3 DEF Inv, AskingIsPending
<1>7. FailedAfterAllAttempts'
  <2> SUFFICES ASSUME NEW q \in QuestionId, questions[q] = "failed",
                      NEW j \in JobId, rows'[j].work = q
               PROVE  rows'[j].attempt >= MaxAttempts
    BY DEF FailedAfterAllAttempts, JobFor
  <2>1. rows[j].work = q /\ rows[j].attempt <= rows'[j].attempt
    BY <1>1
  <2>2. rows[j].attempt >= MaxAttempts
    BY <2>1 DEF Inv, FailedAfterAllAttempts, JobFor
  <2>3. rows[j].attempt \in Nat /\ rows'[j].attempt \in Nat
    BY DEF Inv, AiProofs!Inv, AiProofs!TypeOK
  <2> QED BY <2>1, <2>2, <2>3 DEF MaxAttempts
<1> QED BY <1>2, <1>4, <1>5, <1>6, <1>7 DEF Inv

LEMMA RunnerInv == ASSUME Inv, Ai!Runner, step' = Progress, UNCHANGED questions PROVE Inv'
<1>1. AiProofs!Runner /\ AiProofs!Inv
  BY SameRunner DEF Inv
<1>2. AiProofs!Inv'
  BY <1>1, AiAssumptions, AiProofs!NextInv DEF AiProofs!Next
<1>3. /\ \A j \in JobId :
           \/ rows'[j] = AiProofs!Absent
           \/ rows'[j].work = rows[j].work /\ rows[j].attempt <= rows'[j].attempt
      /\ \A run \in runs' : run \in runs \/ AiProofs!RunsOf(run.job) = {}
  BY <1>1, AiAssumptions, AiProofs!RunnerFacts
<1> QED BY <1>2, <1>3, JobStepInv

LEMMA ReturnedInv ==
  ASSUME Inv, NEW run \in runs, Returned(run) \/ Lapse(run), step' = Progress, UNCHANGED questions
  PROVE  Inv'
<1>1. AiProofs!Done(run) \/ AiProofs!Retry(run)
  BY SameOutcome DEF Returned, Lapse
<1>2. AiProofs!Inv'
  BY <1>1, AiAssumptions, AiProofs!OutcomeInv DEF Inv, AiProofs!Outcome
<1>3. PICK state \in {"queued", "succeeded", "failed"} :
        rows' = [rows EXCEPT ![run.job].state = state] /\ runs' = runs \ {run}
  BY <1>1 DEF AiProofs!Done, AiProofs!Retry, AiProofs!Record
<1>4. ASSUME NEW j \in JobId
      PROVE  rows'[j].work = rows[j].work /\ rows[j].attempt <= rows'[j].attempt
  BY <1>3 DEF Inv, AiProofs!Inv, AiProofs!TypeOK
<1> QED BY <1>2, <1>3, <1>4, JobStepInv

LEMMA NextInv == Inv /\ [Next]_vars => Inv'
<1> SUFFICES ASSUME Inv, [Next]_vars PROVE Inv'
  OBVIOUS
<1>1. CASE \E q \in QuestionId : Ask(q) \/ Delete(q)
  BY <1>1, AskInv, DeleteInv
<1>2. CASE \E run \in runs : Perform(run)
  BY <1>2, BeginInv, AnswerInv, GiveUpInv, ReturnedInv DEF Perform
<1>3. CASE Ai!Runner /\ step' = Progress /\ UNCHANGED questions
  BY <1>3, RunnerInv
<1>4. CASE UNCHANGED vars
  <2>1. UNCHANGED <<questions, step, lapsed, jobVars>>
    BY <1>4 DEF vars
  <2>2. UNCHANGED runs
    BY <2>1 DEF jobVars
  <2>3. Types' /\ IdleAtStart' /\ AskingIsPending'
    BY <2>1, <2>2 DEF Inv, Types, IdleAtStart, AskingIsPending, AiProofs!RunsOf
  <2> QED BY <2>1, <2>3, QuestionStepInv
<1> QED BY <1>1, <1>2, <1>3, <1>4 DEF Next

-----------------------------------------------------------------------------
(* The strengthened invariant holds in every reachable state.               *)
THEOREM Invariance == Spec => []Inv
  BY InitInv, NextInv, PTL DEF Spec

(* A question fails only when its job has used up its attempts.             *)
THEOREM FailedLast == Spec => []FailedAfterAllAttempts
<1>1. Inv => FailedAfterAllAttempts
  BY DEF Inv
<1> QED BY <1>1, Invariance, PTL

(* An answer or a failure stays until the question is deleted.              *)
THEOREM AnswerStays == Spec => SettledStays
<1> DEFINE Stays(q) == questions[q] \in {"completed", "failed"} =>
                         questions'[q] \in {questions[q], "deleted"}
<1>1. Inv /\ [Next]_vars => [\A q \in QuestionId : Stays(q)]_vars
  <2> SUFFICES ASSUME Inv, Next, NEW q \in QuestionId, questions[q] \in {"completed", "failed"}
               PROVE  questions'[q] \in {questions[q], "deleted"}
    OBVIOUS
  <2>1. questions \in [QuestionId -> {"unasked", "pending", "completed", "failed", "deleted"}]
    BY DEF Inv, Types
  <2>2. CASE \E p \in QuestionId : Ask(p) \/ Delete(p)
    BY <2>1, <2>2 DEF Ask, Delete
  <2>3. CASE \E run \in runs : Answer(run)
    <3>1. PICK run \in runs : Answer(run)
      BY <2>3
    <3>2. questions[run.work] \in {"pending", "deleted"}
      BY <3>1 DEF Answer, At, Inv, AskingIsPending
    <3>3. run.work # q
      BY <3>2
    <3> QED BY <2>1, <3>1, <3>3 DEF Answer, Stored
  <2>4. CASE \E run \in runs : GiveUp(run)
    BY <2>1, <2>4 DEF GiveUp
  <2>5. CASE UNCHANGED questions
    BY <2>5
  <2> QED BY <2>2, <2>3, <2>4, <2>5 DEF Next, Perform, Begin
<1> QED BY <1>1, Invariance, PTL DEF Spec, SettledStays

-----------------------------------------------------------------------------
(* A run that does not lapse leaves a pending question to another attempt.  *)
SettledAfter ==
  \A run \in runs : step[run.job] \in {"answered", "given up"} => questions[run.work] # "pending"

NoneForgotten == LastAttemptSettles /\ SettledAfter

LEMMA NoneForgottenInit == Init => NoneForgotten
  BY DEF Init, Ai!Init, NoneForgotten, LastAttemptSettles, SettledAfter

(* Jobs that stay live and runs that are as far as they were.               *)
LEMMA NoneForgottenJobs ==
  ASSUME Inv, NoneForgotten, step' = Progress, UNCHANGED questions, lapsed \subseteq lapsed',
         \A j \in JobId : Ai!Live(j) =>
           \/ Ai!Live(j)' /\ rows'[j].work = rows[j].work
           \/ questions[rows[j].work] # "pending"
           \/ rows[j].work \in lapsed',
         \A run \in runs' : run \in runs \/ AiProofs!RunsOf(run.job) = {},
         \A run \in runs' : run.job \in JobId
  PROVE  NoneForgotten'
<1>1. LastAttemptSettles'
  <2> SUFFICES ASSUME NEW q \in QuestionId, questions[q] = "pending", q \notin lapsed'
               PROVE  \E j \in JobFor(q)' : Ai!Live(j)'
    BY DEF LastAttemptSettles
  <2>1. PICK j \in JobId : rows[j].work = q /\ Ai!Live(j)
    BY DEF NoneForgotten, LastAttemptSettles, JobFor
  <2> QED BY <2>1 DEF JobFor
<1>2. \A j \in JobId : step'[j] = "start" \/ step'[j] = step[j]
  BY DEF Progress
<1>3. SettledAfter'
  BY <1>2 DEF SettledAfter, NoneForgotten, Inv, IdleAtStart
<1> QED BY <1>1, <1>3 DEF NoneForgotten

LEMMA NoneForgottenNext ==
  ASSUME Inv, Inv', NoneForgotten, [Next]_vars
  PROVE  NoneForgotten'
<1>0. Types /\ AiProofs!TypeOK /\ \A run \in runs' : run.job \in JobId
  BY RunFacts, AiAssumptions DEF Inv, AiProofs!Inv, AiProofs!TypeOK, AiProofs!Run
<1>1. CASE \E q \in QuestionId : Ask(q)
  <2>1. PICK q \in QuestionId : Ask(q)
    BY <1>1
  <2>2. PICK j \in JobId :
          /\ rows[j] = Ai!Absent
          /\ rows' = [rows EXCEPT ![j] = [state |-> "queued", work |-> q, attempt |-> 0]]
    BY <2>1 DEF Ask, Ai!Enqueue
  <2>3. /\ questions[q] = "unasked"
        /\ \A p \in QuestionId : p # q => questions'[p] = questions[p]
        /\ UNCHANGED <<step, lapsed, runs>>
    BY <1>0, <2>1 DEF Ask, Ai!Enqueue, Types
  <2>4. rows'[j].state = "queued" /\ rows'[j].work = q
        /\ \A k \in JobId : k # j => rows'[k] = rows[k]
    BY <1>0, <2>2 DEF AiProofs!TypeOK
  <2>5. ~Ai!Live(j)
    BY <2>2 DEF Ai!Live, Ai!Absent
  <2>6. LastAttemptSettles'
    BY <2>3, <2>4, <2>5 DEF NoneForgotten, LastAttemptSettles, JobFor, Ai!Live
  <2>7. \A run \in runs : run.work \in QuestionId /\ run.work # q
    BY <2>3, RunFacts DEF Inv, AskedWithJob
  <2>8. SettledAfter'
    BY <2>3, <2>7 DEF NoneForgotten, SettledAfter
  <2> QED BY <2>6, <2>8 DEF NoneForgotten
<1>2. ASSUME UNCHANGED <<rows, lapsed>>,
             \A q \in QuestionId : questions'[q] = "pending" => questions[q] = "pending"
      PROVE  LastAttemptSettles'
  BY <1>2 DEF NoneForgotten, LastAttemptSettles, JobFor, Ai!Live
<1>3. CASE \E q \in QuestionId : Delete(q)
  <2>1. /\ \A q \in QuestionId : questions'[q] = "pending" => questions[q] = "pending"
        /\ UNCHANGED <<rows, step, lapsed, runs>>
    BY <1>0, <1>3 DEF Delete, jobVars, Types
  <2>2. SettledAfter'
    BY <2>1, RunFacts DEF NoneForgotten, SettledAfter
  <2> QED BY <1>2, <2>1, <2>2 DEF NoneForgotten
<1>4. CASE \E run \in runs : Begin(run) \/ Answer(run) \/ GiveUp(run)
  <2>1. PICK run \in runs : Begin(run) \/ Answer(run) \/ GiveUp(run)
    BY <1>4
  <2>2. run.job \in JobId /\ run.work \in QuestionId
    BY RunFacts
  <2>3. PICK to \in {"asking", "answered", "given up"} :
          /\ step' = [step EXCEPT ![run.job] = to]
          /\ UNCHANGED <<lapsed, jobVars>>
          /\ to # "asking" => questions'[run.work] # "pending"
          /\ \A q \in QuestionId : questions'[q] = "pending" => questions[q] = "pending"
    BY <1>0, <2>1, <2>2 DEF Begin, Answer, GiveUp, At, Stored, HasRow, Types
  <2>4. UNCHANGED <<rows, lapsed, runs>>
    BY <2>3 DEF jobVars
  <2>5. SettledAfter'
    <3> SUFFICES ASSUME NEW other \in runs, step'[other.job] \in {"answered", "given up"}
                 PROVE  questions'[other.work] # "pending"
      BY <2>4 DEF SettledAfter
    <3>1. CASE other = run
      BY <1>0, <2>2, <2>3, <3>1 DEF Types
    <3>2. CASE other # run
      <4>1. other.job \in JobId /\ other.job # run.job /\ other.work \in QuestionId
        BY <3>2, RunFacts
      <4>2. step[other.job] \in {"answered", "given up"}
        BY <1>0, <2>3, <4>1 DEF Types
      <4> QED BY <2>3, <4>1, <4>2 DEF NoneForgotten, SettledAfter
    <3> QED BY <3>1, <3>2
  <2> QED BY <1>2, <2>3, <2>4, <2>5 DEF NoneForgotten
<1>5. CASE \E run \in runs : /\ (Returned(run) /\ UNCHANGED lapsed) \/ Lapse(run)
                            /\ step' = Progress /\ UNCHANGED questions
  <2>1. PICK run \in runs : /\ (Returned(run) /\ UNCHANGED lapsed) \/ Lapse(run)
                            /\ step' = Progress /\ UNCHANGED questions
    BY <1>5
  <2>2. run.job \in JobId /\ rows[run.job].work = run.work
    BY RunFacts
  <2>3. /\ runs' = runs \ {run}
        /\ \E state \in {"queued", "succeeded", "failed"} :
             rows' = [rows EXCEPT ![run.job].state = state]
        /\ \/ rows'[run.job].state = "queued"
           \/ questions[run.work] # "pending"
           \/ run.work \in lapsed'
        /\ lapsed \subseteq lapsed'
    <3>0. lapsed \subseteq lapsed'
      BY <2>1 DEF Lapse
    <3>1. CASE Ai!Retry(run) /\ ~LastAttempt(run)
      BY <1>0, <2>2, <3>0, <3>1, RunFacts
         DEF Ai!Retry, Ai!Record, Ai!Exhausted, LastAttempt, AiProofs!TypeOK
    <3>2. CASE questions[run.work] # "pending" /\ (Ai!Done(run) \/ Ai!Retry(run))
      BY <3>0, <3>2 DEF Ai!Retry, Ai!Done, Ai!Record
    <3>3. CASE Lapse(run) /\ LastAttempt(run)
      BY <3>0, <3>3 DEF Lapse, Ai!Retry, Ai!Record
    <3> QED BY <2>1, <3>1, <3>2, <3>3
         DEF Returned, Lapse, ToAnswer, NoneForgotten, SettledAfter
  <2>4. ASSUME NEW j \in JobId, Ai!Live(j)
        PROVE  \/ Ai!Live(j)' /\ rows'[j].work = rows[j].work
               \/ questions[rows[j].work] # "pending"
               \/ rows[j].work \in lapsed'
    BY <1>0, <2>2, <2>3, <2>4 DEF Ai!Live, AiProofs!TypeOK
  <2> QED BY <1>0, <2>1, <2>3, <2>4, NoneForgottenJobs
<1>6. CASE Ai!Runner /\ step' = Progress /\ UNCHANGED <<questions, lapsed>>
  <2>1. /\ \A j \in JobId : AiProofs!Live(j) => AiProofs!Live(j)' /\ rows'[j].work = rows[j].work
        /\ \A run \in runs' : run \in runs \/ AiProofs!RunsOf(run.job) = {}
    BY <1>6, SameRunner, AiAssumptions, AiProofs!RunnerFacts DEF Inv
  <2>2. \A j \in JobId : Ai!Live(j) => Ai!Live(j)' /\ rows'[j].work = rows[j].work
    BY <2>1 DEF Ai!Live, AiProofs!Live
  <2> QED BY <1>0, <1>6, <2>1, <2>2, NoneForgottenJobs
<1>7. CASE UNCHANGED vars
  <2>1. UNCHANGED <<questions, step, lapsed, rows, runs>>
    BY <1>7 DEF vars, jobVars
  <2>2. SettledAfter'
    BY <2>1 DEF NoneForgotten, SettledAfter
  <2> QED BY <1>2, <2>1, <2>2 DEF NoneForgotten
<1> QED BY <1>1, <1>3, <1>4, <1>5, <1>6, <1>7 DEF Next, Perform

(* Unless its last attempt lapsed, a pending question has a job that will   *)
(* be attempted again.                                                      *)
THEOREM NeverForgotten == Spec => []LastAttemptSettles
<1>1. Inv /\ Inv' /\ NoneForgotten /\ [Next]_vars => NoneForgotten'
  BY NoneForgottenNext
<1>2. NoneForgotten => LastAttemptSettles
  BY DEF NoneForgotten
<1> QED BY <1>1, <1>2, NoneForgottenInit, Invariance, PTL DEF Spec
=============================================================================
