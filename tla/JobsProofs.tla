----------------------------- MODULE JobsProofs -----------------------------
(***************************************************************************)
(* Safety of the background jobs for any jobs, workers, queues and numbers *)
(* of slots, attempts and faults.                                          *)
(***************************************************************************)
EXTENDS Jobs, FiniteSetTheorems, SequenceTheorems, TLAPS

(* A queue's line holds queued rows of the queue, each once.                *)
InLine ==
  \A q \in Queue : \A i \in 1 .. Len(line[q]) :
    /\ rows[line[q][i]].state = "queued"
    /\ QueueOf[rows[line[q][i]].work] = q

OnceInLine ==
  \A q \in Queue : \A i, k \in 1 .. Len(line[q]) : line[q][i] = line[q][k] => i = k

LiveWork == \A j \in JobId : Live(j) => rows[j].work \in Work

RunsOnlyUp == server # "up" => runs = {}

(* A row that must be claimed again has an attempt left, or the fault that  *)
(* put it back paid for one.                                                *)
AttemptsLeft ==
  \A j \in JobId : Live(j) =>
    /\ rows[j].attempt <= MaxAttempts[rows[j].work] + faults
    /\ RunsOf(j) = {} => rows[j].attempt < MaxAttempts[rows[j].work] + faults

(* Unique rows need to know nothing of runs; that no job runs twice needs   *)
(* the lines to hold queued rows only; the slots need the lines to hold the *)
(* queue's own rows, so that what a queue claims takes that queue's slots.  *)
Inv ==
  /\ TypeOK
  /\ IsFiniteSet(runs)
  /\ InLine
  /\ OnceInLine
  /\ LiveWork
  /\ RunsOnlyUp
  /\ OneRunPerJob
  /\ AttemptsLeft
  /\ UniquePending
  /\ SlotsRespected

-----------------------------------------------------------------------------
(* The runs of a queue are finitely many.                                   *)
LEMMA RunsInFinite ==
  ASSUME IsFiniteSet(runs), NEW q \in Queue
  PROVE  IsFiniteSet(RunsIn(q)) /\ Cardinality(RunsIn(q)) \in Nat
<1>1. RunsIn(q) \in SUBSET runs
  BY DEF RunsIn
<1> QED BY <1>1, FS_Subset, FS_CardinalityType

(* Fewer runs take fewer slots.                                             *)
LEMMA FewerRuns ==
  ASSUME IsFiniteSet(runs), SlotsRespected, runs' \subseteq runs
  PROVE  IsFiniteSet(runs') /\ SlotsRespected'
<1>1. IsFiniteSet(runs')
  BY FS_Subset
<1>2. ASSUME NEW q \in Queue
      PROVE  Cardinality(RunsIn(q)') <= Slots[q]
  <2>1. RunsIn(q)' \in SUBSET RunsIn(q)
    BY DEF RunsIn
  <2>2. Cardinality(RunsIn(q)') <= Cardinality(RunsIn(q))
    BY <2>1, RunsInFinite, FS_Subset
  <2>3. Cardinality(RunsIn(q)') \in Nat
    BY <2>1, RunsInFinite, FS_Subset, FS_CardinalityType
  <2> QED BY <2>2, <2>3, RunsInFinite, SlotsAssumption DEF SlotsRespected
<1> QED BY <1>1, <1>2 DEF SlotsRespected

(* A claim starts at most as many runs as slots are free, all of its queue. *)
LEMMA ClaimedRuns ==
  ASSUME IsFiniteSet(runs), SlotsRespected, NEW q \in Queue,
         NEW n \in Nat, n <= Free(q), NEW new, NEW f \in Surjection(1 .. n, new),
         runs' = runs \cup new, \A run \in new : QueueOf[run.work] = q
  PROVE  IsFiniteSet(runs') /\ SlotsRespected'
<1>1. IsFiniteSet(1 .. n) /\ Cardinality(1 .. n) = n
  BY FS_Interval
<1>2. IsFiniteSet(new) /\ Cardinality(new) <= n /\ Cardinality(new) \in Nat
  BY <1>1, FS_Surjection, FS_CardinalityType
<1>3. IsFiniteSet(runs')
  BY <1>2, FS_Union
<1>4. ASSUME NEW r \in Queue
      PROVE  Cardinality(RunsIn(r)') <= Slots[r]
  <2>1. CASE r = q
    <3>1. RunsIn(r)' = RunsIn(q) \cup new
      BY <2>1 DEF RunsIn
    <3>2. IsFiniteSet(RunsIn(q) \cap new) /\ Cardinality(RunsIn(q) \cap new) \in Nat
      BY <1>2, FS_Subset, FS_CardinalityType
    <3>3. Cardinality(RunsIn(q) \cup new)
            = Cardinality(RunsIn(q)) + Cardinality(new) - Cardinality(RunsIn(q) \cap new)
      BY <1>2, RunsInFinite, FS_Union
    <3> QED BY <1>2, <2>1, <3>1, <3>2, <3>3, RunsInFinite, SlotsAssumption DEF Free
  <2>2. CASE r # q
    <3>1. RunsIn(r)' = RunsIn(r)
      BY <2>2 DEF RunsIn
    <3> QED BY <3>1 DEF SlotsRespected
  <2> QED BY <2>1, <2>2
<1> QED BY <1>3, <1>4 DEF SlotsRespected

-----------------------------------------------------------------------------
(* A line that gets a row more.                                             *)
LEMMA EnteredLine ==
  ASSUME line \in [Queue -> Seq(JobId)], NEW q \in Queue, NEW j \in JobId,
         line' = Entered(q, j)
  PROVE  /\ line' \in [Queue -> Seq(JobId)]
         /\ Len(line'[q]) = Len(line[q]) + 1
         /\ Len(line[q]) \in Nat
         /\ \A i \in 1 .. Len(line[q]) : line'[q][i] = line[q][i]
         /\ line'[q][Len(line[q]) + 1] = j
         /\ \A r \in Queue : r # q => line'[r] = line[r]
<1>1. line[q] \in Seq(JobId) /\ line'[q] = Append(line[q], j)
  BY DEF Entered
<1>2. Append(line[q], j) \in Seq(JobId)
  BY <1>1, AppendProperties
<1>3. line' \in [Queue -> Seq(JobId)] /\ \A r \in Queue : r # q => line'[r] = line[r]
  BY <1>2 DEF Entered
<1> QED BY <1>1, <1>3, AppendProperties, LenProperties

(* A queued row that is in no line enters its own queue's.                  *)
LEMMA EnteredInv ==
  ASSUME line \in [Queue -> Seq(JobId)], OnceInLine, NEW j \in JobId, NEW q \in Queue,
         \A r \in Queue : \A i \in 1 .. Len(line[r]) :
           line[r][i] # j /\ rows'[line[r][i]].state = "queued"
                          /\ QueueOf[rows'[line[r][i]].work] = r,
         rows'[j].state = "queued", QueueOf[rows'[j].work] = q,
         line' = Entered(q, j)
  PROVE  line' \in [Queue -> Seq(JobId)] /\ InLine' /\ OnceInLine'
<1>1. /\ line' \in [Queue -> Seq(JobId)]
      /\ Len(line'[q]) = Len(line[q]) + 1
      /\ Len(line[q]) \in Nat
      /\ \A i \in 1 .. Len(line[q]) : line'[q][i] = line[q][i]
      /\ line'[q][Len(line[q]) + 1] = j
      /\ \A r \in Queue : r # q => line'[r] = line[r]
  BY EnteredLine
<1>2. ASSUME NEW r \in Queue, NEW i \in 1 .. Len(line'[r])
      PROVE  /\ rows'[line'[r][i]].state = "queued"
             /\ QueueOf[rows'[line'[r][i]].work] = r
  <2>1. CASE r # q
    BY <1>1, <1>2, <2>1
  <2>2. CASE r = q /\ i = Len(line[q]) + 1
    BY <1>1, <2>2
  <2>3. CASE r = q /\ i # Len(line[q]) + 1
    <3>1. i \in 1 .. Len(line[q])
      BY <1>1, <1>2, <2>3
    <3> QED BY <1>1, <2>3, <3>1
  <2> QED BY <2>1, <2>2, <2>3
<1>3. ASSUME NEW r \in Queue, NEW i \in 1 .. Len(line'[r]), NEW k \in 1 .. Len(line'[r]),
             line'[r][i] = line'[r][k]
      PROVE  i = k
  <2>1. CASE r # q
    BY <1>1, <1>3, <2>1 DEF OnceInLine
  <2>2. CASE r = q
    <3>1. i \in 1 .. Len(line[q]) \/ i = Len(line[q]) + 1
      BY <1>1, <1>3, <2>2
    <3>2. k \in 1 .. Len(line[q]) \/ k = Len(line[q]) + 1
      BY <1>1, <1>3, <2>2
    <3> QED BY <1>1, <1>3, <2>2, <3>1, <3>2 DEF OnceInLine
  <2> QED BY <2>1, <2>2
<1> QED BY <1>1, <1>2, <1>3 DEF InLine, OnceInLine

-----------------------------------------------------------------------------
(* The actions, one by one.                                                 *)
LEMMA InitInv == Init => Inv
<1> SUFFICES ASSUME Init PROVE Inv
  OBVIOUS
<1>1. TypeOK
  <2>1. <<>> \in Seq(JobId)
    BY EmptySeq
  <2> QED BY <2>1, FaultsAssumption, WorkAssumption DEF Init, TypeOK, Absent
<1>2. IsFiniteSet(runs)
  BY FS_EmptySet DEF Init
<1>3. SlotsRespected
  <2> SUFFICES ASSUME NEW q \in Queue PROVE Cardinality(RunsIn(q)) <= Slots[q]
    BY DEF SlotsRespected
  <2>1. RunsIn(q) = {}
    BY DEF Init, RunsIn
  <2> QED BY <2>1, FS_EmptySet, SlotsAssumption
<1>4. \A q \in Queue : Len(line[q]) = 0
  BY EmptySeq DEF Init
<1>5. InLine /\ OnceInLine
  BY <1>4 DEF InLine, OnceInLine
<1>6. \A j \in JobId : ~Live(j)
  BY DEF Init, Live, Absent
<1>7. LiveWork /\ AttemptsLeft /\ UniquePending
  BY <1>6 DEF LiveWork, AttemptsLeft, UniquePending
<1>8. RunsOnlyUp /\ OneRunPerJob
  BY DEF Init, RunsOnlyUp, OneRunPerJob
<1> QED BY <1>1, <1>2, <1>3, <1>5, <1>7, <1>8 DEF Inv

(* What a run knows of its row.                                             *)
LEMMA RunFacts ==
  ASSUME Inv
  PROVE  /\ \A run \in runs :
              /\ run.job \in JobId /\ run.work \in Work /\ run.attempt \in Nat
              /\ run = [job |-> run.job, work |-> run.work, attempt |-> run.attempt]
              /\ rows[run.job] = [state |-> "running", work |-> run.work,
                                  attempt |-> run.attempt]
              /\ rows[run.job].state = "running"
              /\ rows[run.job].work = run.work
              /\ rows[run.job].attempt = run.attempt
         /\ \A run, other \in runs : run.job = other.job => run = other
<1>1. \A run \in runs : run \in Run
  BY DEF Inv, TypeOK
<1>2. \A run \in runs :
        rows[run.job] = [state |-> "running", work |-> run.work, attempt |-> run.attempt]
  BY DEF Inv, OneRunPerJob
<1>3. ASSUME NEW run \in runs, NEW other \in runs, run.job = other.job PROVE run = other
  <2>1. other \in RunsOf(run.job) /\ RunsOf(run.job) = {run}
    BY <1>3 DEF Inv, OneRunPerJob, RunsOf
  <2> QED BY <2>1
<1>4. ASSUME NEW run \in runs
      PROVE  /\ run.job \in JobId /\ run.work \in Work /\ run.attempt \in Nat
             /\ run = [job |-> run.job, work |-> run.work, attempt |-> run.attempt]
  BY <1>1 DEF Run
<1> QED BY <1>2, <1>3, <1>4

LEMMA EnqueueInv == ASSUME Inv, NEW w \in Work, Enqueue(w) PROVE Inv'
<1>1. PICK j \in JobId :
        /\ rows[j] = Absent
        /\ RunsOf(j) = {}
        /\ rows' = [rows EXCEPT ![j] = [state |-> "queued", work |-> w, attempt |-> 0]]
        /\ line' = Entered(QueueOf[w], j)
  BY DEF Enqueue
<1>2. Pending(w) = {} /\ UNCHANGED <<runs, server, faults>>
  BY DEF Enqueue
<1>3. TypeOK /\ QueueOf[w] \in Queue /\ MaxAttempts[w] \in Nat \ {0} /\ faults \in Nat
  BY WorkAssumption, FaultsAssumption DEF Inv, TypeOK
<1>4. /\ rows'[j] = [state |-> "queued", work |-> w, attempt |-> 0]
      /\ \A k \in JobId : k # j => rows'[k] = rows[k]
  BY <1>1, <1>3 DEF TypeOK
<1>5. \A q \in Queue : \A i \in 1 .. Len(line[q]) : line[q][i] \in JobId
  BY <1>3, LenProperties DEF TypeOK
<1>6. line' \in [Queue -> Seq(JobId)] /\ InLine' /\ OnceInLine'
  <2>1. \A r \in Queue : \A i \in 1 .. Len(line[r]) :
          line[r][i] # j /\ rows'[line[r][i]].state = "queued"
                         /\ QueueOf[rows'[line[r][i]].work] = r
    BY <1>1, <1>4, <1>5 DEF Inv, InLine, Absent
  <2>2. OnceInLine
    BY DEF Inv
  <2> QED BY <1>1, <1>3, <1>4, <2>1, <2>2, EnteredInv DEF TypeOK
<1>7. TypeOK'
  BY <1>1, <1>2, <1>3, <1>6 DEF TypeOK
<1>8. IsFiniteSet(runs)' /\ RunsOnlyUp' /\ SlotsRespected'
  <2>1. runs' \subseteq runs
    BY <1>2
  <2> QED BY <1>2, <2>1, FewerRuns DEF Inv, RunsOnlyUp
<1>9. LiveWork'
  BY <1>4 DEF Inv, LiveWork, Live
<1>10. OneRunPerJob'
  <2>1. \A run \in runs : run.job # j
    BY <1>1 DEF RunsOf
  <2> QED BY <1>2, <1>3, <1>4, <2>1 DEF Inv, OneRunPerJob, RunsOf, TypeOK, Run
<1>11. AttemptsLeft'
  BY <1>2, <1>3, <1>4 DEF Inv, AttemptsLeft, Live, RunsOf
<1>12. UniquePending'
  <2>1. \A k \in JobId : Live(k) /\ Key[w] # NoKey => Key[rows[k].work] # Key[w]
    BY <1>2 DEF Pending
  <2> QED BY <1>4, <2>1 DEF Inv, UniquePending, Live
<1> QED BY <1>6, <1>7, <1>8, <1>9, <1>10, <1>11, <1>12 DEF Inv

LEMMA BecomeDueInv == ASSUME Inv, NEW j \in JobId, BecomeDue(j) PROVE Inv'
<1>1. /\ Waiting(j)
      /\ line' = Entered(QueueOf[rows[j].work], j)
      /\ UNCHANGED <<rows, runs, server, faults>>
  BY DEF BecomeDue
<1>2. TypeOK /\ rows[j].state = "queued" /\ rows[j].work \in Work /\ QueueOf[rows[j].work] \in Queue
  BY <1>1, WorkAssumption DEF Inv, LiveWork, Live, Waiting
<1>3. line' \in [Queue -> Seq(JobId)] /\ InLine' /\ OnceInLine'
  <2>1. \A r \in Queue : \A i \in 1 .. Len(line[r]) :
          line[r][i] # j /\ rows'[line[r][i]].state = "queued"
                         /\ QueueOf[rows'[line[r][i]].work] = r
    BY <1>1 DEF Inv, InLine, Waiting
  <2>2. OnceInLine
    BY DEF Inv
  <2> QED BY <1>1, <1>2, <2>1, <2>2, EnteredInv DEF TypeOK
<1>4. TypeOK'
  BY <1>1, <1>2, <1>3 DEF TypeOK
<1>5. SlotsRespected'
  BY <1>1 DEF Inv, SlotsRespected, RunsIn
<1>6. LiveWork' /\ OneRunPerJob' /\ AttemptsLeft' /\ UniquePending' /\ RunsOnlyUp' /\ IsFiniteSet(runs)'
  BY <1>1 DEF Inv, LiveWork, OneRunPerJob, AttemptsLeft, UniquePending, RunsOnlyUp, Live, RunsOf
<1> QED BY <1>3, <1>4, <1>5, <1>6 DEF Inv

LEMMA ClaimInv == ASSUME Inv, NEW q \in Queue, Claim(q) PROVE Inv'
<1> DEFINE claimed(n) == {line[q][i] : i \in 1 .. n}
           asRun(j) == [job |-> j, work |-> rows[j].work, attempt |-> rows[j].attempt + 1]
<1>1. PICK n \in 1 .. Len(line[q]) :
        /\ n <= Free(q)
        /\ rows' = [j \in JobId |->
             IF j \in claimed(n)
             THEN [rows[j] EXCEPT !.state = "running", !.attempt = @ + 1] ELSE rows[j]]
        /\ runs' = runs \cup {asRun(j) : j \in claimed(n)}
        /\ line' = [line EXCEPT ![q] = SubSeq(@, n + 1, Len(@))]
  BY DEF Claim
<1> DEFINE C == claimed(n)
           new == {asRun(j) : j \in C}
<1>2. server = "up" /\ UNCHANGED <<server, faults>>
  BY DEF Claim
<1>3. TypeOK /\ line[q] \in Seq(JobId) /\ Len(line[q]) \in Nat /\ n \in Nat
  BY LenProperties DEF Inv, TypeOK
<1>4. \A r \in Queue : \A i \in 1 .. Len(line[r]) : line[r][i] \in JobId
  BY <1>3, LenProperties DEF TypeOK
<1>5. C \subseteq JobId /\ \A j \in C : rows[j].state = "queued" /\ QueueOf[rows[j].work] = q
  BY <1>3, <1>4 DEF Inv, InLine
<1>a. \A j : j \in C <=> \E i \in 1 .. n : j = line[q][i]
  OBVIOUS
<1>b. /\ rows' = [j \in JobId |->
             IF j \in C
             THEN [rows[j] EXCEPT !.state = "running", !.attempt = @ + 1] ELSE rows[j]]
      /\ runs' = runs \cup new
  BY <1>1
<1> HIDE DEF C
<1>c. \A j : j \in new <=> \E k \in C : j = asRun(k)
  OBVIOUS
<1> HIDE DEF new
<1>6. \A j \in C : /\ rows[j].work \in Work /\ rows[j].attempt \in Nat /\ RunsOf(j) = {}
                   /\ rows[j].attempt < MaxAttempts[rows[j].work] + faults
                   /\ MaxAttempts[rows[j].work] \in Nat /\ faults \in Nat
  <2> SUFFICES ASSUME NEW j \in C
               PROVE  /\ rows[j].work \in Work /\ rows[j].attempt \in Nat /\ RunsOf(j) = {}
                      /\ rows[j].attempt < MaxAttempts[rows[j].work] + faults
                      /\ MaxAttempts[rows[j].work] \in Nat /\ faults \in Nat
    OBVIOUS
  <2>1. j \in JobId /\ Live(j)
    BY <1>5 DEF Live
  <2>2. RunsOf(j) = {}
    <3> SUFFICES ASSUME NEW run \in runs, run.job = j PROVE FALSE
      BY DEF RunsOf
    <3>1. rows[j].state = "running"
      BY RunFacts
    <3> QED BY <1>5, <3>1
  <2>3. rows[j].work \in Work /\ rows[j].attempt \in Nat
    BY <1>3, <2>1 DEF Inv, LiveWork, TypeOK
  <2> QED BY <2>1, <2>2, <2>3, <1>3, FaultsAssumption, WorkAssumption DEF Inv, AttemptsLeft, TypeOK
<1>7. /\ \A j \in C : rows'[j] = [state |-> "running", work |-> rows[j].work,
                                 attempt |-> rows[j].attempt + 1]
      /\ \A j \in JobId \ C : rows'[j] = rows[j]
  <2>1. \A j \in JobId : rows[j] \in [state : {"absent", "queued", "running"} \cup Finished,
                                     work : Work \cup {NoWork}, attempt : Nat]
    BY <1>3 DEF TypeOK
  <2> QED BY <1>b, <1>5, <2>1
<1>d. \A j \in C : /\ rows'[j].state = "running" /\ rows'[j].work = rows[j].work
                   /\ rows'[j].attempt = rows[j].attempt + 1
  <2> SUFFICES ASSUME NEW j \in C
               PROVE  /\ rows'[j].state = "running" /\ rows'[j].work = rows[j].work
                      /\ rows'[j].attempt = rows[j].attempt + 1
    OBVIOUS
  <2>1. rows'[j] = [state |-> "running", work |-> rows[j].work, attempt |-> rows[j].attempt + 1]
    BY <1>7
  <2> QED BY <2>1
<1>8. /\ line' \in [Queue -> Seq(JobId)]
      /\ Len(line'[q]) = Len(line[q]) - n
      /\ \A i \in 1 .. Len(line'[q]) : line'[q][i] = line[q][n + i] /\ n + i \in 1 .. Len(line[q])
      /\ \A r \in Queue : r # q => line'[r] = line[r]
  <2>1. line'[q] = SubSeq(line[q], n + 1, Len(line[q]))
    BY <1>1, <1>3 DEF TypeOK
  <2>2. /\ SubSeq(line[q], n + 1, Len(line[q])) \in Seq(JobId)
        /\ Len(SubSeq(line[q], n + 1, Len(line[q]))) = Len(line[q]) - n
        /\ \A i \in 1 .. Len(line[q]) - n :
             SubSeq(line[q], n + 1, Len(line[q]))[i] = line[q][n + 1 + i - 1]
    BY <1>3, <1>4, SubSeqProperties
  <2>3. /\ line' \in [Queue -> Seq(JobId)]
        /\ \A r \in Queue : r # q => line'[r] = line[r]
    BY <1>1, <1>3, <2>2 DEF TypeOK
  <2>4. \A i \in 1 .. Len(line[q]) - n : n + 1 + i - 1 = n + i /\ n + i \in 1 .. Len(line[q])
    BY <1>3
  <2> QED BY <2>1, <2>2, <2>3, <2>4
<1>9. ASSUME NEW r \in Queue, NEW i \in 1 .. Len(line'[r]) PROVE line'[r][i] \notin C
  <2>1. CASE r # q
    <3>1. line'[r][i] = line[r][i] /\ i \in 1 .. Len(line[r])
      BY <1>8, <1>9, <2>1
    <3>2. QueueOf[rows[line[r][i]].work] = r
      BY <3>1 DEF Inv, InLine
    <3> QED BY <1>5, <2>1, <3>1, <3>2
  <2>2. CASE r = q
    <3> SUFFICES ASSUME line'[q][i] \in C PROVE FALSE
      BY <2>2
    <3>1. PICK k \in 1 .. n : line'[q][i] = line[q][k]
      BY <1>a
    <3>2. line[q][n + i] = line[q][k] /\ n + i \in 1 .. Len(line[q]) /\ k \in 1 .. Len(line[q])
      BY <1>3, <1>8, <1>9, <2>2, <3>1
    <3>3. n + i = k
      BY <3>2 DEF Inv, OnceInLine
    <3> QED BY <1>3, <1>8, <1>9, <2>2, <3>3
  <2> QED BY <2>1, <2>2
<1>10. InLine'
  <2> SUFFICES ASSUME NEW r \in Queue, NEW i \in 1 .. Len(line'[r])
               PROVE  /\ rows'[line'[r][i]].state = "queued"
                      /\ QueueOf[rows'[line'[r][i]].work] = r
    BY DEF InLine
  <2>1. PICK k \in 1 .. Len(line[r]) : line'[r][i] = line[r][k]
    BY <1>8
  <2> QED BY <1>4, <1>7, <1>9, <2>1 DEF Inv, InLine
<1>11. OnceInLine'
  <2> SUFFICES ASSUME NEW r \in Queue, NEW i \in 1 .. Len(line'[r]), NEW k \in 1 .. Len(line'[r]),
                      line'[r][i] = line'[r][k]
               PROVE  i = k
    BY DEF OnceInLine
  <2>1. CASE r # q
    BY <1>8, <2>1 DEF Inv, OnceInLine
  <2>2. CASE r = q
    <3>0. /\ line[q][n + i] = line[q][n + k]
          /\ n + i \in 1 .. Len(line[q]) /\ n + k \in 1 .. Len(line[q])
      BY <1>8, <2>2
    <3>1. n + i = n + k
      BY <3>0 DEF Inv, OnceInLine
    <3> QED BY <1>3, <1>8, <2>2, <3>1
  <2> QED BY <2>1, <2>2
<1>12. TypeOK'
  <2>1. ASSUME NEW j \in C PROVE asRun(j) \in Run
    <3>1. j \in JobId /\ rows[j].work \in Work /\ rows[j].attempt + 1 \in Nat
      BY <1>5, <1>6
    <3> QED BY <3>1 DEF Run
  <2>2. runs' \subseteq Run
    <3>1. runs \subseteq Run /\ \A fresh \in new : fresh \in Run
      BY <1>3, <1>c, <2>1 DEF TypeOK
    <3> QED BY <1>b, <3>1
  <2>3. rows' \in [JobId -> [state : {"absent", "queued", "running"} \cup Finished,
                            work : Work \cup {NoWork}, attempt : Nat]]
    <3>1. \A j \in JobId : rows'[j] \in [state : {"absent", "queued", "running"} \cup Finished,
                                       work : Work \cup {NoWork}, attempt : Nat]
      <4> SUFFICES ASSUME NEW j \in JobId
                   PROVE  rows'[j] \in [state : {"absent", "queued", "running"} \cup Finished,
                                       work : Work \cup {NoWork}, attempt : Nat]
        OBVIOUS
      <4>1. CASE j \in C
        <5>1. rows[j].work \in Work /\ rows[j].attempt + 1 \in Nat
          BY <1>6, <4>1
        <5>2. rows'[j] = [state |-> "running", work |-> rows[j].work,
                          attempt |-> rows[j].attempt + 1]
          BY <1>7, <4>1
        <5> QED BY <5>1, <5>2
      <4>2. CASE j \notin C
        BY <1>3, <1>7, <4>2 DEF TypeOK
      <4> QED BY <4>1, <4>2
    <3>2. DOMAIN rows' = JobId /\ rows' = [j \in JobId |-> rows'[j]]
      BY <1>1
    <3> QED BY <3>1, <3>2
  <2> QED BY <1>2, <1>3, <1>8, <2>2, <2>3 DEF TypeOK
<1>13. IsFiniteSet(runs)' /\ SlotsRespected'
  <2> DEFINE f == [i \in 1 .. n |-> asRun(line[q][i])]
  <2>1. f \in Surjection(1 .. n, new)
    <3>1. \A i \in 1 .. n : asRun(line[q][i]) \in new
      BY <1>a, <1>c
    <3>2. ASSUME NEW run \in new PROVE \E i \in 1 .. n : asRun(line[q][i]) = run
      <4>1. PICK k \in C : run = asRun(k)
        BY <1>c
      <4>2. PICK i \in 1 .. n : k = line[q][i]
        BY <1>a
      <4> QED BY <4>1, <4>2
    <3> QED BY <3>1, <3>2 DEF Surjection
  <2>2. \A run \in new : QueueOf[run.work] = q
    BY <1>5, <1>c
  <2>3. IsFiniteSet(runs) /\ SlotsRespected /\ runs' = runs \cup new /\ n <= Free(q)
    BY <1>1, <1>b DEF Inv
  <2> HIDE DEF f
  <2> QED BY <1>3, <2>1, <2>2, <2>3, ClaimedRuns
<1>14. LiveWork' /\ RunsOnlyUp'
  <2>1. ASSUME NEW j \in JobId, Live(j)' PROVE rows'[j].work = rows[j].work /\ Live(j)
    <3>1. CASE j \in C
      BY <1>5, <1>d, <3>1 DEF Live
    <3>2. CASE j \notin C
      BY <1>7, <2>1, <3>2 DEF Live
    <3> QED BY <3>1, <3>2
  <2> QED BY <1>2, <2>1 DEF Inv, LiveWork, RunsOnlyUp
<1>15. OneRunPerJob'
  <2> SUFFICES ASSUME NEW run \in runs'
               PROVE  /\ rows'[run.job] = [state |-> "running", work |-> run.work,
                                          attempt |-> run.attempt]
                      /\ RunsOf(run.job)' = {run}
    BY DEF OneRunPerJob
  <2>1. \A old \in runs : old.job \in JobId \ C /\ rows[old.job] = [state |-> "running", work |-> old.work,
                                          attempt |-> old.attempt] /\ RunsOf(old.job) = {old}
    BY <1>3, <1>6 DEF Inv, OneRunPerJob, TypeOK, Run, RunsOf
  <2>2. \A fresh \in new : fresh.job \in C /\ fresh = asRun(fresh.job)
    BY <1>c
  <2>3. runs' = runs \cup new
    BY <1>b
  <2>4. CASE run \in runs
    BY <1>7, <2>1, <2>2, <2>3, <2>4 DEF RunsOf
  <2>5. CASE run \in new
    <3>1. rows'[run.job] = [state |-> "running", work |-> run.work, attempt |-> run.attempt]
      BY <1>7, <2>2, <2>5
    <3>2. \A other \in runs' : other.job = run.job => other = run
      BY <2>1, <2>2, <2>3, <2>5
    <3> QED BY <3>1, <3>2 DEF RunsOf
  <2> QED BY <2>3, <2>4, <2>5
<1>16. AttemptsLeft'
  <2> SUFFICES ASSUME NEW j \in JobId, Live(j)'
               PROVE  /\ rows'[j].attempt <= MaxAttempts[rows'[j].work] + faults'
                      /\ RunsOf(j)' = {} => rows'[j].attempt < MaxAttempts[rows'[j].work] + faults'
    BY DEF AttemptsLeft
  <2>1. runs' = runs \cup new
    BY <1>b
  <2>2. CASE j \in C
    <3>1. asRun(j) \in new /\ asRun(j).job = j
      BY <1>c, <2>2
    <3>2. RunsOf(j)' # {}
      BY <2>1, <3>1 DEF RunsOf
    <3>3. /\ rows[j].attempt \in Nat /\ MaxAttempts[rows[j].work] \in Nat /\ faults \in Nat
          /\ rows[j].attempt < MaxAttempts[rows[j].work] + faults
      BY <1>6, <2>2
    <3> QED BY <1>2, <1>d, <2>2, <3>2, <3>3
  <2>3. CASE j \notin C
    <3>1. rows'[j] = rows[j] /\ Live(j)
      BY <1>7, <2>3 DEF Live
    <3>2. RunsOf(j)' = {} => RunsOf(j) = {}
      BY <2>1 DEF RunsOf
    <3> QED BY <1>2, <3>1, <3>2 DEF Inv, AttemptsLeft
  <2> QED BY <2>2, <2>3
<1>17. UniquePending'
  <2>1. ASSUME NEW j \in JobId, Live(j)' PROVE rows'[j].work = rows[j].work /\ Live(j)
    <3>1. CASE j \in C
      BY <1>5, <1>d, <3>1 DEF Live
    <3>2. CASE j \notin C
      BY <1>7, <2>1, <3>2 DEF Live
    <3> QED BY <3>1, <3>2
  <2> QED BY <2>1 DEF Inv, UniquePending
<1> QED BY <1>10, <1>11, <1>12, <1>13, <1>14, <1>15, <1>16, <1>17 DEF Inv

(* The other actions add no run and put no row in a line: a row keeps its   *)
(* state, leaves the live ones, or goes from running back to queued.        *)
LEMMA StepInv ==
  ASSUME Inv, UNCHANGED line, runs' \subseteq runs, TypeOK', RunsOnlyUp', faults <= faults',
         \A j \in JobId :
           \/ /\ rows'[j] = rows[j]
              /\ RunsOf(j)' = RunsOf(j) \/ faults < faults'
           \/ rows[j].state # "queued" /\ RunsOf(j)' = {} /\ ~Live(j)'
           \/ /\ rows[j].state = "running" /\ RunsOf(j)' = {}
              /\ rows'[j].state = "queued" /\ rows'[j].work = rows[j].work
              /\ rows'[j].attempt = rows[j].attempt
              /\ rows[j].attempt < MaxAttempts[rows[j].work] + faults'
  PROVE  Inv'
<1>1. TypeOK /\ faults \in Nat /\ faults' \in Nat
  BY FaultsAssumption DEF Inv, TypeOK
<1>2. \A q \in Queue : \A i \in 1 .. Len(line[q]) : line[q][i] \in JobId
  BY <1>1, LenProperties DEF TypeOK
<1>3. \A j \in JobId : Live(j)' => Live(j) /\ rows'[j].work = rows[j].work
  BY DEF Live
<1>4. \A j \in JobId : rows[j].state = "queued" => rows'[j] = rows[j]
  OBVIOUS
<1>5. InLine' /\ OnceInLine'
  BY <1>2, <1>4 DEF Inv, InLine, OnceInLine
<1>6. LiveWork' /\ UniquePending'
  BY <1>3 DEF Inv, LiveWork, UniquePending
<1>7. IsFiniteSet(runs)' /\ SlotsRespected'
  BY FewerRuns DEF Inv
<1>8. OneRunPerJob'
  <2> SUFFICES ASSUME NEW run \in runs'
               PROVE  /\ rows'[run.job] = [state |-> "running", work |-> run.work,
                                          attempt |-> run.attempt]
                      /\ RunsOf(run.job)' = {run}
    BY DEF OneRunPerJob
  <2>1. run \in runs /\ run.job \in JobId
    BY RunFacts
  <2>2. run \in RunsOf(run.job)'
    BY DEF RunsOf
  <2>3. rows'[run.job] = rows[run.job]
    BY <2>1, <2>2
  <2>4. \A other \in runs' : other.job = run.job => other = run
    BY <2>1, RunFacts
  <2>5. RunsOf(run.job)' = {run}
    BY <2>2, <2>4 DEF RunsOf
  <2> QED BY <2>1, <2>3, <2>5, RunFacts
<1>9. AttemptsLeft'
  <2> SUFFICES ASSUME NEW j \in JobId, Live(j)'
               PROVE  /\ rows'[j].attempt <= MaxAttempts[rows'[j].work] + faults'
                      /\ RunsOf(j)' = {} => rows'[j].attempt < MaxAttempts[rows'[j].work] + faults'
    BY DEF AttemptsLeft
  <2>1. Live(j) /\ rows'[j].work = rows[j].work /\ rows[j].work \in Work
    BY <1>3 DEF Inv, LiveWork
  <2>2. MaxAttempts[rows[j].work] \in Nat /\ rows[j].attempt \in Nat
    BY <1>1, <2>1, WorkAssumption DEF TypeOK
  <2>3. /\ rows[j].attempt <= MaxAttempts[rows[j].work] + faults
        /\ RunsOf(j) = {} => rows[j].attempt < MaxAttempts[rows[j].work] + faults
    BY <2>1 DEF Inv, AttemptsLeft
  <2>4. CASE rows'[j] = rows[j] /\ (RunsOf(j)' = RunsOf(j) \/ faults < faults')
    BY <1>1, <2>2, <2>3, <2>4
  <2>5. CASE /\ rows'[j].attempt = rows[j].attempt
             /\ rows[j].attempt < MaxAttempts[rows[j].work] + faults'
    BY <1>1, <2>1, <2>2, <2>5
  <2> QED BY <2>4, <2>5
<1> QED BY <1>5, <1>6, <1>7, <1>8, <1>9 DEF Inv

LEMMA RecordInv ==
  ASSUME Inv, NEW run \in runs,
         NEW state \in Finished \cup {"queued"}, Record(run, state),
         state = "queued" => ~Exhausted(run)
  PROVE  Inv'
<1>1. /\ rows' = [rows EXCEPT ![run.job].state = state]
      /\ runs' = runs \ {run}
      /\ UNCHANGED <<line, server, faults>>
  BY DEF Record
<1>2. TypeOK /\ faults \in Nat /\ run \in Run
  BY FaultsAssumption DEF Inv, TypeOK
<1>3. /\ run.job \in JobId /\ run.work \in Work /\ run.attempt \in Nat
      /\ rows[run.job] = [state |-> "running", work |-> run.work, attempt |-> run.attempt]
  BY RunFacts
<1>4. /\ rows'[run.job] = [state |-> state, work |-> run.work, attempt |-> run.attempt]
      /\ \A j \in JobId : j # run.job => rows'[j] = rows[j]
  BY <1>1, <1>2, <1>3 DEF TypeOK
<1>5. TypeOK' /\ RunsOnlyUp'
  <2>1. rows'[run.job] \in [state : {"absent", "queued", "running"} \cup Finished,
                            work : Work \cup {NoWork}, attempt : Nat]
    BY <1>3, <1>4
  <2>2. rows' \in [JobId -> [state : {"absent", "queued", "running"} \cup Finished,
                            work : Work \cup {NoWork}, attempt : Nat]]
    BY <1>1, <1>2, <1>4, <2>1 DEF TypeOK
  <2> QED BY <1>1, <1>2, <2>2 DEF Inv, TypeOK, RunsOnlyUp
<1>6. RunsOf(run.job)' = {} /\ \A j \in JobId : j # run.job => RunsOf(j)' = RunsOf(j)
  <2>1. \A other \in runs : other.job = run.job => other = run
    BY RunFacts
  <2> QED BY <1>1, <2>1 DEF RunsOf
<1>7. rows[run.job].state = "running" /\ rows[run.job].work = run.work
      /\ rows[run.job].attempt = run.attempt
  BY <1>3
<1>8. rows'[run.job].state = state /\ rows'[run.job].work = run.work
      /\ rows'[run.job].attempt = run.attempt
  BY <1>4
<1>9. CASE state = "queued"
  <2>1. run.attempt < MaxAttempts[run.work] + faults'
    <3>1. MaxAttempts[run.work] \in Nat /\ ~(run.attempt >= MaxAttempts[run.work])
      BY <1>3, <1>9, WorkAssumption DEF Exhausted
    <3> QED BY <1>1, <1>2, <1>3, <3>1
  <2> QED BY <1>1, <1>2, <1>4, <1>5, <1>6, <1>7, <1>8, <1>9, <2>1, StepInv
<1>10. CASE state \in Finished
  <2>1. ~Live(run.job)'
    BY <1>8, <1>10 DEF Live, Finished
  <2> QED BY <1>1, <1>2, <1>4, <1>5, <1>6, <1>7, <2>1, StepInv
<1> QED BY <1>9, <1>10

LEMMA OutcomeInv == ASSUME Inv, NEW run \in runs, Outcome(run) PROVE Inv'
<1>1. CASE Done(run)
  BY <1>1, RecordInv DEF Done, Finished
<1>2. CASE Cancel(run)
  BY <1>2, RecordInv DEF Cancel, Finished
<1>3. CASE Retry(run)
  BY <1>3, RecordInv DEF Retry, Finished
<1> QED BY <1>1, <1>2, <1>3 DEF Outcome

LEMMA LeaveUnrecordedInv == ASSUME Inv, NEW run \in runs, LeaveUnrecorded(run) PROVE Inv'
<1>1. /\ faults < MaxFaults /\ faults' = faults + 1
      /\ runs' = runs \ {run}
      /\ UNCHANGED <<rows, line, server>>
  BY DEF LeaveUnrecorded, Fault
<1>2. TypeOK /\ faults \in Nat
  BY FaultsAssumption DEF Inv, TypeOK
<1>3. TypeOK' /\ RunsOnlyUp'
  BY <1>1, <1>2, FaultsAssumption DEF Inv, TypeOK, RunsOnlyUp
<1> QED BY <1>1, <1>2, <1>3, StepInv

(* Put back: running rows without a run.                                    *)
LEMMA RequeuedFacts ==
  ASSUME Inv, NEW js \in SUBSET JobId, \A j \in js : rows[j].state = "running"
  PROVE  /\ Requeued(js) \in [JobId -> [state : {"absent", "queued", "running"} \cup Finished,
                                       work : Work \cup {NoWork}, attempt : Nat]]
         /\ \A j \in JobId \ js : Requeued(js)[j] = rows[j]
         /\ \A j \in js : RunsOf(j) = {} =>
              /\ Requeued(js)[j].state = "queued" /\ Requeued(js)[j].work = rows[j].work
              /\ Requeued(js)[j].attempt = rows[j].attempt
              /\ rows[j].attempt < MaxAttempts[rows[j].work] + faults
<1>1. \A j \in JobId : rows[j] \in [state : {"absent", "queued", "running"} \cup Finished,
                                   work : Work \cup {NoWork}, attempt : Nat]
  BY DEF Inv, TypeOK
<1>2. \A j \in JobId : Requeued(js)[j] = IF j \in js THEN [rows[j] EXCEPT !.state = "queued"] ELSE rows[j]
  BY DEF Requeued
<1>3. ASSUME NEW j \in js
      PROVE  /\ Requeued(js)[j] = [state |-> "queued", work |-> rows[j].work,
                                   attempt |-> rows[j].attempt]
             /\ RunsOf(j) = {} => rows[j].attempt < MaxAttempts[rows[j].work] + faults
  <2>1. Live(j)
    BY DEF Live
  <2> QED BY <1>1, <1>2, <2>1 DEF Inv, AttemptsLeft
<1>4. ASSUME NEW j \in JobId
      PROVE  Requeued(js)[j] \in [state : {"absent", "queued", "running"} \cup Finished,
                                  work : Work \cup {NoWork}, attempt : Nat]
  <2>1. CASE j \in js
    <3>1. Requeued(js)[j] = [state |-> "queued", work |-> rows[j].work, attempt |-> rows[j].attempt]
      BY <1>3, <2>1
    <3>2. rows[j].work \in Work \cup {NoWork} /\ rows[j].attempt \in Nat
      BY <1>1
    <3> QED BY <3>1, <3>2
  <2>2. CASE j \notin js
    BY <1>1, <1>2, <2>2
  <2> QED BY <2>1, <2>2
<1>5. Requeued(js) = [j \in JobId |-> Requeued(js)[j]]
  BY DEF Requeued
<1>6. Requeued(js) \in [JobId -> [state : {"absent", "queued", "running"} \cup Finished,
                                  work : Work \cup {NoWork}, attempt : Nat]]
  BY <1>4, <1>5
<1>7. ASSUME NEW j \in js
      PROVE  /\ Requeued(js)[j].state = "queued" /\ Requeued(js)[j].work = rows[j].work
             /\ Requeued(js)[j].attempt = rows[j].attempt
  <2>1. Requeued(js)[j] = [state |-> "queued", work |-> rows[j].work, attempt |-> rows[j].attempt]
    BY <1>3
  <2> QED BY <2>1
<1> QED BY <1>2, <1>3, <1>6, <1>7

LEMMA MaintainInv ==
  ASSUME Inv, NEW stuck \in SUBSET JobId, NEW old \in SUBSET JobId, Maintain(stuck, old)
  PROVE  Inv'
<1>1. /\ \A j \in stuck : rows[j].state = "running" /\ RunsOf(j) = {}
      /\ \A j \in old : rows[j].state \in Finished
      /\ rows' = [j \in JobId |-> IF j \in old THEN Absent ELSE Requeued(stuck)[j]]
      /\ UNCHANGED <<line, runs, server, faults>>
  BY DEF Maintain, Stuck
<1>2. TypeOK /\ faults \in Nat
  BY FaultsAssumption DEF Inv, TypeOK
<1> DEFINE Row == [state : {"absent", "queued", "running"} \cup Finished,
                   work : Work \cup {NoWork}, attempt : Nat]
<1>3. /\ Requeued(stuck) \in [JobId -> Row]
      /\ \A j \in JobId \ stuck : Requeued(stuck)[j] = rows[j]
      /\ \A j \in stuck :
           /\ Requeued(stuck)[j].state = "queued" /\ Requeued(stuck)[j].work = rows[j].work
           /\ Requeued(stuck)[j].attempt = rows[j].attempt
           /\ rows[j].attempt < MaxAttempts[rows[j].work] + faults
  BY <1>1, RequeuedFacts
<1>4. Absent \in Row
  BY DEF Absent
<1>5. rows' \in [JobId -> Row]
  <2> HIDE DEF Row
  <2> QED BY <1>1, <1>3, <1>4
<1>6. TypeOK' /\ RunsOnlyUp'
  BY <1>1, <1>2, <1>5 DEF Inv, TypeOK, RunsOnlyUp
<1>7. ASSUME NEW j \in old
      PROVE  rows[j].state # "queued" /\ RunsOf(j)' = {} /\ ~Live(j)'
  <2>1. rows'[j] = Absent
    BY <1>1
  <2>2. ~Live(j)'
    BY <2>1 DEF Live, Absent
  <2>3. \A run \in runs : run.job # j
    <3>1. \A run \in runs : rows[run.job].state = "running"
      BY RunFacts
    <3> QED BY <1>1, <3>1 DEF Finished
  <2> QED BY <1>1, <2>2, <2>3 DEF RunsOf, Finished
<1>8. ASSUME NEW j \in stuck \ old
      PROVE  /\ rows[j].state = "running" /\ RunsOf(j)' = {}
             /\ rows'[j].state = "queued" /\ rows'[j].work = rows[j].work
             /\ rows'[j].attempt = rows[j].attempt
             /\ rows[j].attempt < MaxAttempts[rows[j].work] + faults'
  <2>1. rows'[j] = Requeued(stuck)[j]
    BY <1>1
  <2>2. RunsOf(j)' = {}
    BY <1>1 DEF RunsOf
  <2> QED BY <1>1, <1>3, <2>1, <2>2
<1>9. ASSUME NEW j \in JobId, j \notin stuck, j \notin old
      PROVE  rows'[j] = rows[j] /\ RunsOf(j)' = RunsOf(j)
  BY <1>1, <1>3, <1>9 DEF RunsOf
<1> QED BY <1>1, <1>2, <1>6, <1>7, <1>8, <1>9, StepInv

LEMMA StopInv == ASSUME Inv, Stop PROVE Inv'
<1>1. /\ faults < MaxFaults /\ faults' = faults + 1
      /\ server' = "down" /\ runs' = {}
      /\ UNCHANGED <<rows, line>>
  BY DEF Stop, Fault
<1>2. TypeOK /\ faults \in Nat
  BY FaultsAssumption DEF Inv, TypeOK
<1>3. TypeOK' /\ RunsOnlyUp'
  BY <1>1, <1>2, FaultsAssumption DEF Inv, TypeOK, RunsOnlyUp
<1> QED BY <1>1, <1>2, <1>3, StepInv

LEMMA BootInv == ASSUME Inv, Boot PROVE Inv'
<1>1. server = "down" /\ server' = "booting" /\ UNCHANGED <<rows, line, runs, faults>>
  BY DEF Boot
<1>2. TypeOK /\ faults \in Nat /\ runs = {}
  BY <1>1, FaultsAssumption DEF Inv, TypeOK, RunsOnlyUp
<1>3. TypeOK' /\ RunsOnlyUp'
  BY <1>1, <1>2 DEF TypeOK, RunsOnlyUp
<1>4. \A j \in JobId : RunsOf(j)' = RunsOf(j)
  BY <1>1 DEF RunsOf
<1> QED BY <1>1, <1>2, <1>3, <1>4, StepInv

LEMMA StartQueuesInv == ASSUME Inv, StartQueues PROVE Inv'
<1> DEFINE left == {j \in JobId : rows[j].state = "running"}
<1>1. /\ server = "booting" /\ server' = "up"
      /\ rows' = Requeued(left)
      /\ UNCHANGED <<line, runs, faults>>
  BY DEF StartQueues
<1>2. TypeOK /\ faults \in Nat /\ runs = {}
  BY <1>1, FaultsAssumption DEF Inv, TypeOK, RunsOnlyUp
<1>3. \A j \in JobId : RunsOf(j) = {} /\ RunsOf(j)' = {}
  BY <1>1, <1>2 DEF RunsOf
<1>4. TypeOK' /\ RunsOnlyUp'
  BY <1>1, <1>2, RequeuedFacts DEF TypeOK, RunsOnlyUp
<1>5. /\ \A j \in JobId \ left : rows'[j] = rows[j]
      /\ \A j \in left :
           /\ rows'[j].state = "queued" /\ rows'[j].work = rows[j].work
           /\ rows'[j].attempt = rows[j].attempt
           /\ rows[j].attempt < MaxAttempts[rows[j].work] + faults
  BY <1>1, <1>3, RequeuedFacts
<1>6. \A j \in left : rows[j].state = "running"
  OBVIOUS
<1> HIDE DEF left
<1>7. ASSUME NEW j \in JobId
      PROVE  \/ rows'[j] = rows[j] /\ RunsOf(j)' = RunsOf(j)
             \/ /\ rows[j].state = "running" /\ RunsOf(j)' = {}
                /\ rows'[j].state = "queued" /\ rows'[j].work = rows[j].work
                /\ rows'[j].attempt = rows[j].attempt
                /\ rows[j].attempt < MaxAttempts[rows[j].work] + faults'
  <2>1. faults' = faults
    BY <1>1
  <2> QED BY <1>3, <1>5, <1>6, <2>1
<1>8. UNCHANGED line /\ runs' \subseteq runs /\ faults <= faults'
  BY <1>1, <1>2
<1> QED BY <1>4, <1>7, <1>8, StepInv

LEMMA StartQueuesOnlyInv == ASSUME Inv, StartQueuesOnly PROVE Inv'
<1>1. /\ server = "booting" /\ server' = "up"
      /\ faults < MaxFaults /\ faults' = faults + 1
      /\ UNCHANGED <<rows, line, runs>>
  BY DEF StartQueuesOnly, Fault
<1>2. TypeOK /\ faults \in Nat
  BY FaultsAssumption DEF Inv, TypeOK
<1>3. TypeOK' /\ RunsOnlyUp'
  BY <1>1, <1>2, FaultsAssumption DEF Inv, TypeOK, RunsOnlyUp
<1> QED BY <1>1, <1>2, <1>3, StepInv

LEMMA NextInv == Inv /\ [Next]_vars => Inv'
<1> SUFFICES ASSUME Inv, [Next]_vars PROVE Inv'
  OBVIOUS
<1>1. CASE \E w \in Work : Enqueue(w)
  BY <1>1, EnqueueInv
<1>2. CASE \E run \in runs : Done(run) \/ Cancel(run) \/ Retry(run)
  BY <1>2, OutcomeInv DEF Outcome
<1>3. CASE Runner
  <2>1. CASE \E j \in JobId : BecomeDue(j)
    BY <2>1, BecomeDueInv
  <2>2. CASE \E q \in Queue : Claim(q)
    BY <2>2, ClaimInv
  <2>3. CASE \E run \in runs : LeaveUnrecorded(run)
    BY <2>3, LeaveUnrecordedInv
  <2>4. CASE \E stuck, old \in SUBSET JobId : Maintain(stuck, old)
    BY <2>4, MaintainInv
  <2>5. CASE Stop \/ Boot \/ StartQueues \/ StartQueuesOnly
    BY <2>5, StopInv, BootInv, StartQueuesInv, StartQueuesOnlyInv
  <2> QED BY <1>3, <2>1, <2>2, <2>3, <2>4, <2>5 DEF Runner
<1>4. CASE UNCHANGED vars
  <2>1. UNCHANGED <<rows, line, runs, server, faults>> /\ faults \in Nat
    BY <1>4, FaultsAssumption DEF vars, Inv, TypeOK
  <2>2. TypeOK' /\ RunsOnlyUp'
    BY <2>1 DEF Inv, TypeOK, RunsOnlyUp
  <2>3. \A j \in JobId : RunsOf(j)' = RunsOf(j)
    BY <2>1 DEF RunsOf
  <2> QED BY <2>1, <2>2, <2>3, StepInv
<1> QED BY <1>1, <1>2, <1>3, <1>4 DEF Next

(* What a step of the runner does to a row and to the runs, for the modules *)
(* that build on jobs: rows keep their work and their attempts until they   *)
(* are pruned, only outcomes end them, and a new run is of a job that had   *)
(* none.                                                                    *)
LEMMA RunnerFacts ==
  ASSUME Inv, Runner
  PROVE  /\ \A j \in JobId :
              \/ rows'[j] = Absent
              \/ /\ rows'[j].work = rows[j].work
                 /\ rows[j].attempt <= rows'[j].attempt
                 /\ rows'[j].state \in Finished => rows'[j] = rows[j]
         /\ \A j \in JobId : Live(j) => Live(j)' /\ rows'[j].work = rows[j].work
         /\ \A run \in runs' : run \in runs \/ RunsOf(run.job) = {}
<1>1. TypeOK
  BY DEF Inv
<1>2. \A j \in JobId : rows[j].attempt \in Nat
  BY <1>1 DEF TypeOK
<1>3. CASE UNCHANGED rows /\ runs' \subseteq runs
  BY <1>2, <1>3 DEF Live
<1>4. ASSUME NEW js \in SUBSET JobId, NEW old \in SUBSET JobId,
             rows' = [j \in JobId |-> IF j \in old THEN Absent ELSE Requeued(js)[j]],
             UNCHANGED runs, \A j \in old : ~Live(j)
      PROVE  /\ \A j \in JobId :
                  \/ rows'[j] = Absent
                  \/ /\ rows'[j].work = rows[j].work
                     /\ rows[j].attempt <= rows'[j].attempt
                     /\ rows'[j].state \in Finished => rows'[j] = rows[j]
             /\ \A j \in JobId : Live(j) => Live(j)' /\ rows'[j].work = rows[j].work
  <2> SUFFICES ASSUME NEW j \in JobId, j \notin old
               PROVE  /\ rows'[j].work = rows[j].work
                      /\ rows[j].attempt <= rows'[j].attempt
                      /\ rows'[j].state \in Finished => rows'[j] = rows[j]
                      /\ Live(j) => Live(j)'
    BY <1>4
  <2>1. rows'[j] = IF j \in js THEN [rows[j] EXCEPT !.state = "queued"] ELSE rows[j]
    BY <1>4 DEF Requeued
  <2> QED BY <1>1, <1>2, <2>1 DEF TypeOK, Finished, Live
<1>5. CASE \E q \in Queue : Claim(q)
  <2>1. PICK q \in Queue : Claim(q)
    BY <1>5
  <2>2. PICK n \in 1 .. Len(line[q]) :
          /\ rows' = [j \in JobId |->
               IF j \in {line[q][i] : i \in 1 .. n}
               THEN [rows[j] EXCEPT !.state = "running", !.attempt = @ + 1] ELSE rows[j]]
          /\ runs' = runs \cup
               {[job |-> j, work |-> rows[j].work, attempt |-> rows[j].attempt + 1] :
                  j \in {line[q][i] : i \in 1 .. n}}
    BY <2>1 DEF Claim
  <2>3. \A i \in 1 .. n : rows[line[q][i]].state = "queued"
    <3>1. line[q] \in Seq(JobId) /\ Len(line[q]) \in Nat
      BY <1>1, LenProperties DEF TypeOK
    <3> QED BY <3>1 DEF Inv, InLine
  <2>4. ASSUME NEW j \in JobId
        PROVE  /\ rows'[j].work = rows[j].work
               /\ rows[j].attempt <= rows'[j].attempt
               /\ rows'[j].state \in Finished => rows'[j] = rows[j]
               /\ Live(j) => Live(j)'
    <3>1. rows'[j] = IF j \in {line[q][i] : i \in 1 .. n}
                     THEN [rows[j] EXCEPT !.state = "running", !.attempt = @ + 1] ELSE rows[j]
      BY <2>2
    <3> QED BY <1>1, <1>2, <3>1 DEF TypeOK, Finished, Live
  <2>5. ASSUME NEW run \in runs', run \notin runs PROVE RunsOf(run.job) = {}
    <3>1. PICK j \in {line[q][i] : i \in 1 .. n} :
            run = [job |-> j, work |-> rows[j].work, attempt |-> rows[j].attempt + 1]
      BY <2>2, <2>5
    <3>2. rows[run.job].state = "queued"
      BY <2>3, <3>1
    <3>3. \A other \in runs : rows[other.job].state = "running"
      BY RunFacts
    <3> QED BY <3>2, <3>3 DEF RunsOf
  <2> QED BY <2>4, <2>5
<1>6. CASE \E stuck, old \in SUBSET JobId : Maintain(stuck, old)
  <2>1. PICK stuck \in SUBSET JobId, old \in SUBSET JobId :
          /\ rows' = [j \in JobId |-> IF j \in old THEN Absent ELSE Requeued(stuck)[j]]
          /\ UNCHANGED runs
          /\ \A j \in old : ~Live(j)
    BY <1>6 DEF Maintain, Live, Finished
  <2> QED BY <1>4, <2>1
<1>7. CASE StartQueues
  <2> DEFINE js == {k \in JobId : rows[k].state = "running"}
             none == {}
  <2>1. js \in SUBSET JobId /\ none \in SUBSET JobId /\ \A j \in none : ~Live(j)
    OBVIOUS
  <2>2. rows' = [j \in JobId |-> IF j \in none THEN Absent ELSE Requeued(js)[j]] /\ UNCHANGED runs
    BY <1>7 DEF StartQueues, Requeued
  <2> HIDE DEF js, none
  <2> QED BY <1>4, <2>1, <2>2
<1>8. CASE (\E j \in JobId : BecomeDue(j)) \/ (\E run \in runs : LeaveUnrecorded(run))
           \/ Stop \/ Boot \/ StartQueuesOnly
  BY <1>3, <1>8 DEF BecomeDue, LeaveUnrecorded, Stop, Boot, StartQueuesOnly
<1> QED BY <1>5, <1>6, <1>7, <1>8 DEF Runner

-----------------------------------------------------------------------------
(* The strengthened invariant holds in every reachable state.               *)
THEOREM Invariance == Spec => []Inv
BY InitInv, NextInv, PTL DEF Spec

(* Rows, lines and runs are of the right kind.                              *)
THEOREM TypeCorrect == Spec => []TypeOK
<1>1. Inv => TypeOK
  BY DEF Inv
<1> QED BY <1>1, Invariance, PTL

(* Work of one key is pending once.                                         *)
THEOREM PendingOnce == Spec => []UniquePending
<1>1. Inv => UniquePending
  BY DEF Inv
<1> QED BY <1>1, Invariance, PTL

(* No queue runs more jobs than it has slots for.                           *)
THEOREM WithinSlots == Spec => []SlotsRespected
<1>1. Inv => SlotsRespected
  BY DEF Inv
<1> QED BY <1>1, Invariance, PTL

(* A job has one run at most, and the row counts its attempt.               *)
THEOREM RunOnce == Spec => []OneRunPerJob
<1>1. Inv => OneRunPerJob
  BY DEF Inv
<1> QED BY <1>1, Invariance, PTL

(* Attempts beyond the limit are paid for by faults.                        *)
THEOREM AttemptsPaid == Spec => []AttemptsAccounted
<1>1. Inv => AttemptsAccounted
  BY DEF Inv, AttemptsLeft, AttemptsAccounted
<1> QED BY <1>1, Invariance, PTL

(* A finished job stays as it ended until it is pruned.                     *)
THEOREM FinalOutcome == Spec => FinishedStays
<1> DEFINE Stays(j) == rows[j].state \in Finished => rows'[j] = rows[j] \/ rows'[j] = Absent
<1>1. Inv /\ [Next]_vars => [\A j \in JobId : Stays(j)]_vars
  <2> SUFFICES ASSUME Inv, Next, NEW j \in JobId, rows[j].state \in Finished
               PROVE  rows'[j] = rows[j] \/ rows'[j] = Absent
    OBVIOUS
  <2>1. TypeOK /\ DOMAIN rows = JobId
    BY DEF Inv, TypeOK
  <2>2. CASE \E w \in Work : Enqueue(w)
    BY <2>1, <2>2 DEF Enqueue, Absent, Finished
  <2>3. CASE \E run \in runs : Outcome(run)
    <3>1. PICK run \in runs : Outcome(run)
      BY <2>3
    <3>2. rows[run.job].state = "running"
      BY RunFacts
    <3>3. run.job # j
      BY <3>2 DEF Finished
    <3> QED BY <2>1, <3>1, <3>3 DEF Outcome, Done, Cancel, Retry, Record
  <2>4. CASE \E q \in Queue : Claim(q)
    <3>0. PICK q \in Queue : Claim(q)
      BY <2>4
    <3>1. PICK n \in 1 .. Len(line[q]) :
            rows' = [k \in JobId |->
              IF k \in {line[q][i] : i \in 1 .. n}
              THEN [rows[k] EXCEPT !.state = "running", !.attempt = @ + 1] ELSE rows[k]]
      BY <3>0 DEF Claim
    <3>2. \A i \in 1 .. n : rows[line[q][i]].state = "queued"
      <4>1. line[q] \in Seq(JobId)
        BY <2>1 DEF TypeOK
      <4>2. Len(line[q]) \in Nat
        BY <4>1, LenProperties
      <4> QED BY <4>2 DEF Inv, InLine
    <3>3. j \notin {line[q][i] : i \in 1 .. n}
      BY <3>2 DEF Finished
    <3> QED BY <3>1, <3>3
  <2>5. CASE \E stuck, old \in SUBSET JobId : Maintain(stuck, old)
    BY <2>5 DEF Maintain, Stuck, Requeued, Finished
  <2>6. CASE StartQueues
    BY <2>6 DEF StartQueues, Requeued, Finished
  <2>7. CASE \/ \E k \in JobId : BecomeDue(k)
             \/ \E run \in runs : LeaveUnrecorded(run)
             \/ Stop \/ Boot \/ StartQueuesOnly
    BY <2>7 DEF BecomeDue, LeaveUnrecorded, Stop, Boot, StartQueuesOnly
  <2> QED BY <2>2, <2>3, <2>4, <2>5, <2>6, <2>7 DEF Next, Runner, Outcome
<1> QED BY <1>1, Invariance, PTL DEF Spec, FinishedStays
=============================================================================
