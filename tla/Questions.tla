----------------------------- MODULE Questions ------------------------------
(***************************************************************************)
(* Saved questions about a deck (manavault-ai, ai/answer_deck_question.rs, *)
(* ai/workers.rs, ai/question_answers.rs).  A question is saved as pending *)
(* together with the job that answers it; the job's runs may fail, time    *)
(* out or be interrupted, and the owner may delete the question while one  *)
(* of them waits for the answer.                                           *)
(*                                                                         *)
(* What is asked and answered is left out, and so are the analysis jobs    *)
(* that share the queue and only delay a claim.                            *)
(***************************************************************************)
EXTENDS Naturals, FiniteSets

CONSTANTS
  QuestionId,   \* deck_question_answers.id
  JobId, NoWork, MaxFaults

ASSUME IdsAssumption ==
  IsFiniteSet(JobId) /\ NoWork \notin QuestionId /\ MaxFaults \in Nat

MaxAttempts == 3

VARIABLES
  questions,    \* status of each question; "unasked" and "deleted" have no row
  step,         \* how far the job's run is
  lapsed,       \* history: questions whose last attempt lapsed
  rows, line, runs, server, faults

Ai == INSTANCE Jobs WITH
  Work <- QuestionId,
  Queue <- {"ai"},
  QueueOf <- [q \in QuestionId |-> "ai"],
  Slots <- [q \in {"ai"} |-> 2],
  MaxAttempts <- [q \in QuestionId |-> MaxAttempts],
  Key <- [q \in QuestionId |-> "none"],
  NoKey <- "none"

jobVars == <<rows, line, runs, server, faults>>
vars == <<questions, step, lapsed, jobVars>>

TypeOK ==
  /\ questions \in [QuestionId -> {"unasked", "pending", "completed", "failed", "deleted"}]
  /\ step \in [JobId -> {"start", "asking", "answered", "given up"}]
  /\ lapsed \subseteq QuestionId
  /\ Ai!TypeOK

Init ==
  /\ questions = [q \in QuestionId |-> "unasked"]
  /\ step = [j \in JobId |-> "start"]
  /\ lapsed = {}
  /\ Ai!Init

HasRow(q) == questions[q] \notin {"unasked", "deleted"}

-----------------------------------------------------------------------------
(* enqueue: the question and its job in one transaction.                    *)
Ask(q) ==
  /\ questions[q] = "unasked"
  /\ questions' = [questions EXCEPT ![q] = "pending"]
  /\ Ai!Enqueue(q)
  /\ UNCHANGED <<step, lapsed>>

(* delete_deck_question_answer, or the deletion of its deck.                *)
Delete(q) ==
  /\ server # "down"
  /\ HasRow(q)
  /\ questions' = [questions EXCEPT ![q] = "deleted"]
  /\ UNCHANGED <<step, lapsed, jobVars>>

-----------------------------------------------------------------------------
At(run, from, to) ==
  /\ step[run.job] = from
  /\ step' = [step EXCEPT ![run.job] = to]
  /\ UNCHANGED <<lapsed, jobVars>>

(* UPDATE ... WHERE id: a deleted question has no row to update.            *)
Stored(q, status) == [questions EXCEPT ![q] = IF HasRow(q) THEN status ELSE @]

(* Seeded fault: every question is answered, whatever its status.           *)
ToAnswerAny(q) == HasRow(q)

(* run: anything but a pending question is left alone.                      *)
ToAnswer(q) == questions[q] = "pending"

Begin(run) ==
  /\ ToAnswer(run.work)
  /\ At(run, "start", "asking")
  /\ UNCHANGED questions

Answer(run) ==
  /\ At(run, "asking", "answered")
  /\ questions' = Stored(run.work, "completed")

(* Seeded faults: giving up one attempt early, or one late.                 *)
LastAttemptEarly(run) == run.attempt + 1 >= MaxAttempts
LastAttemptLate(run) == run.attempt > MaxAttempts

LastAttempt(run) == run.attempt >= MaxAttempts

(* run failed on the last attempt: fail reads the row again and marks it.   *)
GiveUp(run) ==
  /\ LastAttempt(run)
  /\ \E from \in {"start", "asking"} : At(run, from, "given up")
  /\ questions' = [questions EXCEPT ![run.work] = IF @ = "pending" THEN "failed" ELSE @]

(* Seeded fault: a run that fails is done.                                  *)
ReturnedDone(run) ==
  \/ step[run.job] \in {"start", "asking", "answered"} /\ Ai!Done(run)
  \/ step[run.job] = "given up" /\ Ai!Retry(run)

(* perform's outcome.                                                       *)
Returned(run) ==
  \/ step[run.job] = "start" /\ ~ToAnswer(run.work) /\ Ai!Done(run)
  \/ step[run.job] = "answered" /\ Ai!Done(run)
  \/ step[run.job] = "given up" /\ Ai!Retry(run)
  \/ step[run.job] \in {"start", "asking"} /\ ~LastAttempt(run) /\ Ai!Retry(run)

(* A timeout at any point, or an error in fail itself.                      *)
Lapse(run) ==
  /\ Ai!Retry(run)
  /\ lapsed' = IF LastAttempt(run) THEN lapsed \cup {run.work} ELSE lapsed

(* A job without a run starts over when it is claimed again.                *)
Progress == [j \in JobId |-> IF \E run \in runs' : run.job = j THEN step[j] ELSE "start"]

Perform(run) ==
  \/ Begin(run)
  \/ Answer(run)
  \/ GiveUp(run)
  \/ Returned(run) /\ step' = Progress /\ UNCHANGED <<questions, lapsed>>
  \/ Lapse(run) /\ step' = Progress /\ UNCHANGED questions

Next ==
  \/ \E q \in QuestionId : Ask(q) \/ Delete(q)
  \/ \E run \in runs : Perform(run)
  \/ Ai!Runner /\ step' = Progress /\ UNCHANGED <<questions, lapsed>>

(* Runs go on until they end, as in Jobs.                                   *)
Fairness ==
  /\ Ai!RunnerFairness
  /\ \A j \in JobId : WF_vars(\E run \in Ai!RunsOf(j) : Perform(run))

Spec == Init /\ [][Next]_vars
FairSpec == Spec /\ Fairness

-----------------------------------------------------------------------------
JobFor(q) == {j \in JobId : rows[j].work = q}

(* An answer, or the news that there is none, stays until it is deleted:    *)
(* retries, timeouts and runs after a restart leave it alone                *)
(* (answer_deck_question.rs:89).                                            *)
SettledStays ==
  [][\A q \in QuestionId : questions[q] \in {"completed", "failed"} =>
       questions'[q] \in {questions[q], "deleted"}]_vars

(* A question fails only when its job has used up its attempts.             *)
FailedAfterAllAttempts ==
  \A q \in QuestionId : questions[q] = "failed" =>
    \A j \in JobFor(q) : rows[j].attempt >= MaxAttempts

(* A pending question settles, however often its runs fail, leave no        *)
(* outcome or are interrupted, unless its last attempt lapses.              *)
QuestionSettles ==
  \A q \in QuestionId : questions[q] = "pending" ~> questions[q] # "pending" \/ q \in lapsed

(* "After the last attempt the question is marked failed with the error"    *)
(* (workers.rs:74): until that attempt ends a pending question has a job.   *)
(* An attempt that times out, or cannot mark the question, leaves it        *)
(* pending for ever (perform, workers.rs:102).                              *)
LastAttemptSettles ==
  \A q \in QuestionId : questions[q] = "pending" =>
    q \in lapsed \/ \E j \in JobFor(q) : Ai!Live(j)
=============================================================================
