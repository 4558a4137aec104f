----------------------------- MODULE JobProofs -----------------------------
(***************************************************************************)
(* Proofs about the job runner, its API handlers and the requests that     *)
(* read several rows while jobs go on, for every number of jobs, requests  *)
(* and crashes, and every set of collectors and workers unless a theorem   *)
(* says otherwise.                                                         *)
(***************************************************************************)
EXTENDS EvidenceDiff, RunnerProofs, FiniteSetTheorems

-----------------------------------------------------------------------------
(* Moving a request that has its question to another point of its handler. *)
LEMMA GotoTyped ==
    ASSUME ApiTypeOK, NEW r \in Requests, NEW point \in RequestPoints,
           Going(r), Goto(r, point), UNCHANGED ask
    PROVE  /\ at' \in [Requests -> RequestPoints]
           /\ \A q \in Requests : Going(q)' => ask'[q] \in Questions
<1>1. at' = [at EXCEPT ![r] = point]
  BY DEF Goto
<1>2. \A q \in Requests : q # r => at'[q] = at[q]
  BY <1>1 DEF ApiTypeOK
<1> QED
  BY <1>1, <1>2 DEF ApiTypeOK, Going

(* Every step of a handler is well typed.                                  *)
LEMMA RequestTyped ==
    ASSUME ApiTypeOK, NEW r \in Requests, RequestStep(r)
    PROVE  ApiTypeOK'
<1> USE DEF RequestPoints, Answers
<1>0. Going(r) /\ ask[r] \in Questions /\ ask[r].job \in Jobs /\ UNCHANGED ask
  <2>1. Going(r) /\ UNCHANGED ask
    BY DEF RequestStep, CancelRead, CancelWrite, CancelSweep, CancelLookup, RetryRead,
           RetryCheck, RetrySelect, RetryCommit, DeleteRead, DeleteCommit, Asked, Going
  <2> QED
    BY <2>1 DEF ApiTypeOK, Questions
<1>1. CASE CancelRead(r)
  <2>1. PICK point \in RequestPoints : Goto(r, point)
    BY <1>1 DEF CancelRead
  <2> QED
    BY <1>0, <1>1, <2>1, GotoTyped DEF CancelRead, ApiTypeOK, TypeOK, runnerVars
<1>2. CASE CancelWrite(r)
  <2>1. PICK point \in RequestPoints : Goto(r, point)
    BY <1>2 DEF CancelWrite
  <2>2. job' \in [Jobs -> JobStatuses \cup {NoRow}] /\ expired' \subseteq Jobs
    BY <1>2 DEF CancelWrite, ApiTypeOK, TypeOK, JobStatuses, TerminalJobStatuses
  <2> QED
    BY <1>0, <1>2, <2>1, <2>2, GotoTyped DEF CancelWrite, ApiTypeOK, TypeOK, process
<1>3. CASE CancelSweep(r)
  BY <1>0, <1>3, GotoTyped, SweepTyped DEF CancelSweep, ApiTypeOK, TypeOK, process
<1>4. CASE CancelLookup(r)
  <2>1. PICK point \in RequestPoints : Goto(r, point)
    BY <1>4 DEF CancelLookup
  <2>2. cancelSet' \in [Tasks -> BOOLEAN]
    BY <1>4 DEF CancelLookup, ApiTypeOK, TypeOK
  <2> QED
    BY <1>0, <1>4, <2>1, <2>2, GotoTyped DEF CancelLookup, ApiTypeOK, TypeOK, database
<1>5. CASE RetryRead(r)
  <2>1. PICK point \in RequestPoints : Goto(r, point)
    BY <1>5 DEF RetryRead
  <2>2. seen' \in [Requests -> JobStatuses \cup {NoRow}]
    BY <1>0, <1>5 DEF RetryRead, ApiTypeOK, TypeOK
  <2> QED
    BY <1>0, <1>5, <2>1, <2>2, GotoTyped DEF RetryRead, ApiTypeOK, TypeOK, runnerVars
<1>6. CASE RetryCheck(r)
  <2>1. PICK point \in RequestPoints : Goto(r, point)
    BY <1>6 DEF RetryCheck
  <2> QED
    BY <1>0, <1>6, <2>1, GotoTyped DEF RetryCheck, ApiTypeOK, TypeOK, runnerVars
<1>7. CASE RetrySelect(r)
  <2>1. PICK point \in RequestPoints : Goto(r, point)
    BY <1>7 DEF RetrySelect
  <2> QED
    BY <1>0, <1>7, <2>1, GotoTyped DEF RetrySelect, ApiTypeOK, TypeOK, runnerVars
<1>8. CASE RetryCommit(r)
  <2>1. PICK point \in RequestPoints : Goto(r, point)
    BY <1>8 DEF RetryCommit
  <2>2. job' \in [Jobs -> JobStatuses \cup {NoRow}] /\ expired' \subseteq Jobs
    BY <1>8 DEF RetryCommit, ApiTypeOK, TypeOK, JobStatuses
  <2>3. run' \in [Jobs -> [Collectors -> CollectorStatuses \cup {NoRow}]]
    <3>1. CASE UNCHANGED run
      BY <3>1 DEF ApiTypeOK, TypeOK
    <3>2. CASE run' = [run EXCEPT ![ask[r].job][ask[r].collector] = "queued"]
      BY <3>2 DEF ApiTypeOK, TypeOK, CollectorStatuses
    <3> QED
      BY <1>8, <3>1, <3>2 DEF RetryCommit
  <2> QED
    BY <1>0, <1>8, <2>1, <2>2, <2>3, GotoTyped DEF RetryCommit, ApiTypeOK, TypeOK, process
<1>9. CASE DeleteRead(r)
  <2>1. PICK point \in RequestPoints : Goto(r, point)
    BY <1>9 DEF DeleteRead
  <2> QED
    BY <1>0, <1>9, <2>1, GotoTyped DEF DeleteRead, ApiTypeOK, TypeOK, runnerVars
<1>10. CASE DeleteCommit(r)
  BY <1>0, <1>10, GotoTyped DEF DeleteCommit, ApiTypeOK, TypeOK, process
<1> QED
  BY <1>1, <1>2, <1>3, <1>4, <1>5, <1>6, <1>7, <1>8, <1>9, <1>10 DEF RequestStep

(* The database, the tasks and the requests keep their types, whatever     *)
(* crashes, retries, cancellations and deletions come.                     *)
THEOREM Typed == Spec => []ApiTypeOK
<1>1. Init => ApiTypeOK
  <2> SUFFICES ASSUME Init PROVE ApiTypeOK
    OBVIOUS
  <2>1. TypeOK
    BY NumJobsAssumption, BoundsAssumption
       DEF Init, RunnerInit, TypeOK, TaskPoints, WorkPoints, NoWork, NoJob, Tasks, Jobs
  <2>2. \A r \in Requests : ~Going(r)
    BY DEF Init, Going
  <2> QED
    BY <2>1, <2>2 DEF Init, ApiTypeOK, RequestPoints
<1>2. ApiTypeOK /\ [Next]_vars => ApiTypeOK'
  <2> SUFFICES ASSUME ApiTypeOK, [Next]_vars PROVE ApiTypeOK'
    OBVIOUS
  <2>1. CASE RunnerStep /\ UNCHANGED requestVars
    BY <2>1, RunnerTyped DEF ApiTypeOK, requestVars, Going
  <2>2. CASE Stop
    <3>1. TypeOK'
      <4>1. crashes' \in 0..MaxCrashes
        BY <2>2, BoundsAssumption DEF Stop, Crash, ApiTypeOK, TypeOK
      <4>2. /\ pc' \in [Tasks -> TaskPoints]
            /\ serving' \in [Tasks -> Jobs \cup {NoJob}]
            /\ work' \in [Tasks -> [Collectors -> WorkPoints]]
            /\ event' \in [Jobs -> Tasks \cup {NoTask}]
            /\ cancelSet' \in [Tasks -> BOOLEAN]
            /\ up' \in BOOLEAN
        BY <2>2 DEF Stop, Crash, TaskPoints, WorkPoints, NoWork
      <4> QED
        BY <2>2, <4>1, <4>2 DEF Stop, Crash, ApiTypeOK, TypeOK, database
    <3>2. at' \in [Requests -> RequestPoints]
      BY <2>2 DEF Stop, ApiTypeOK, RequestPoints, Answers
    <3>3. \A r \in Requests : ~Going(r)'
      BY <2>2 DEF Stop, ApiTypeOK, Going, Answers
    <3> QED
      BY <2>2, <3>1, <3>2, <3>3 DEF Stop, ApiTypeOK
  <2>3. ASSUME NEW r \in Requests, NEW question \in Questions, Send(r, question)
        PROVE  ApiTypeOK'
    <3>1. TypeOK'
      BY <2>3 DEF Send, ApiTypeOK, TypeOK, runnerVars
    <3>2. /\ at' = [at EXCEPT ![r] = "read"]
          /\ ask' = [ask EXCEPT ![r] = question]
          /\ seen' = seen
      BY <2>3 DEF Send, Goto
    <3> QED
      BY <3>1, <3>2 DEF ApiTypeOK, RequestPoints, Going
  <2>4. ASSUME NEW r \in Requests, RequestStep(r) PROVE ApiTypeOK'
    BY <2>4, RequestTyped
  <2>5. CASE UNCHANGED vars
    BY <2>5 DEF vars, ApiTypeOK, TypeOK, Going
  <2> QED
    BY <2>1, <2>2, <2>3, <2>4, <2>5 DEF Next
<1> QED
  BY <1>1, <1>2, PTL DEF Spec

-----------------------------------------------------------------------------
(* A DONE collector has its evidence, for any number of workers, crashes,  *)
(* retries, cancellations and deletions.                                   *)

(* Where a task stands is kept by its own steps.                           *)
LEMMA TasksInvTask ==
    ASSUME TypeOK, TasksInv, NEW t \in Tasks, TaskStep(t)
    PROVE  TasksInv'
<1> USE DEF TypeOK, TasksInv, Inside, database
<1>1. CASE ClaimNothing(t)
  BY <1>1 DEF ClaimNothing, runnerVars
<1>2. ASSUME NEW j \in Jobs, ClaimSelect(t, j) PROVE TasksInv'
  <2>1. j <= created
    BY <1>2 DEF ClaimSelect, OldestQueued, NoRow
  <2> QED
    BY <1>2, <2>1 DEF ClaimSelect
<1>3. CASE ClaimUpdate(t)
  BY <1>3 DEF ClaimUpdate, NoRow
<1>4. CASE ClaimLost(t)
  BY <1>4, NumJobsAssumption DEF ClaimLost, NoJob
<1>5. CASE Register(t)
  BY <1>5 DEF Register
<1>6. CASE Load(t)
  <2>1. \A c \in Collectors : work'[t][c] \notin Inside
    <3>1. CASE UNCHANGED work
      BY <1>6, <3>1 DEF Load
    <3>2. CASE work' = [work EXCEPT ![t] = [c \in Collectors |->
                            IF c \in Pending(serving[t]) THEN "wait" ELSE "none"]]
      BY <3>2 DEF TerminalCollectorStatuses
    <3> QED
      BY <1>6, <3>1, <3>2 DEF Load
  <2>2. \A u \in Tasks : u # t => work'[u] = work[u] /\ pc'[u] = pc[u]
    BY <1>6 DEF Load
  <2> QED
    BY <1>6, <2>1, <2>2 DEF Load
<1>7. CASE SeedDenyList(t)
  BY <1>7 DEF SeedDenyList
<1>8. CASE FailJobBeforeDispatch(t)
  <2>1. \A c \in Collectors : work'[t][c] \notin Inside
    BY <1>8 DEF FailJobBeforeDispatch, NoWork, TerminalCollectorStatuses
  <2>2. \A u \in Tasks : u # t => work'[u] = work[u] /\ pc'[u] = pc[u]
    BY <1>8 DEF FailJobBeforeDispatch
  <2>3. \A j \in Jobs : job'[j] # NoRow => job[j] # NoRow
    BY <1>8 DEF FailJobBeforeDispatch
  <2> QED
    BY <1>8, <2>1, <2>2, <2>3 DEF FailJobBeforeDispatch
<1>9. CASE FinishDispatch(t)
  <2>1. \A c \in Collectors : work[t][c] \notin Inside
    BY <1>9 DEF FinishDispatch, Idle, TerminalCollectorStatuses
  <2> QED
    BY <1>9, <2>1 DEF FinishDispatch
<1>10. CASE ComputeVerdict(t)
  <2> HIDE DEF Inside
  <2> QED
    BY <1>10 DEF ComputeVerdict
<1>11. CASE FinalizeJob(t)
  <2>1. \A j \in Jobs : job'[j] # NoRow => job[j] # NoRow
    BY <1>11 DEF FinalizeJob
  <2>2. pc[t] \notin {"off", "poll", "dispatch", "dead"}
    BY <1>11 DEF FinalizeJob, TerminalJobStatuses
  <2> QED
    BY <1>11, <2>1, <2>2 DEF FinalizeJob
<1>12. CASE FinalizeRaises(t)
  <2>1. pc[t] \notin {"off", "poll", "dispatch", "dead"}
    BY <1>12 DEF FinalizeRaises, TerminalJobStatuses
  <2>2. \A c \in Collectors : work'[t][c] \notin Inside
    BY <1>12 DEF FinalizeRaises, NoWork, TerminalCollectorStatuses
  <2>3. \A u \in Tasks : u # t => work'[u] = work[u] /\ pc'[u] = pc[u]
    BY <1>12 DEF FinalizeRaises
  <2> QED
    BY <1>12, <2>1, <2>2, <2>3 DEF FinalizeRaises
<1>13. CASE Sweep(t)
  <2>1. \A j \in Jobs : job'[j] # NoRow => job[j] # NoRow
    BY <1>13 DEF Sweep, SweepRetention
  <2> QED
    BY <1>13, <2>1 DEF Sweep, SweepRetention
<1>14. CASE Unregister(t)
  <2>1. \A c \in Collectors : work'[t][c] \notin Inside
    BY <1>14 DEF Unregister, NoWork, TerminalCollectorStatuses
  <2>2. \A u \in Tasks : u # t => work'[u] = work[u] /\ pc'[u] = pc[u]
    BY <1>14 DEF Unregister
  <2> QED
    BY <1>14, <2>1, <2>2, NumJobsAssumption DEF Unregister, NoJob
<1> QED
  BY <1>1, <1>2, <1>3, <1>4, <1>5, <1>6, <1>7, <1>8, <1>9, <1>10, <1>11, <1>12,
     <1>13, <1>14 DEF TaskStep

(* And by the steps of its collectors.                                     *)
LEMMA TasksInvCollector ==
    ASSUME TypeOK, TasksInv, NEW t \in Tasks, NEW c \in Collectors, CollectorStep(t, c)
    PROVE  TasksInv'
<1> USE DEF TypeOK, TasksInv, Inside, database
<1>1. CASE StartCollector(t, c)
  <2>1. pc[t] \in {"dispatch", "dead"}
    BY <1>1 DEF StartCollector, MayStart
  <2> QED
    BY <1>1, <2>1 DEF StartCollector
<1>2. CASE CheckCollector(t, c)
  <2>1. PICK next : work' = [work EXCEPT ![t][c] = next]
    BY <1>2 DEF CheckCollector
  <2> QED
    BY <1>2, <2>1 DEF CheckCollector
<1>3. CASE CollectorAnswers(t, c)
  BY <1>3 DEF CollectorAnswers
<1>4. CASE SaveFindings(t, c)
  BY <1>4 DEF SaveFindings
<1>5. CASE FinishCollector(t, c)
  BY <1>5 DEF FinishCollector, TerminalCollectorStatuses
<1>6. CASE CollectorRaises(t, c)
  <2>1. pc[t] \in {"dispatch", "dead"}
    BY <1>6 DEF CollectorRaises, MayStart
  <2> QED
    BY <1>6, <2>1 DEF CollectorRaises
<1> QED
  BY <1>1, <1>2, <1>3, <1>4, <1>5, <1>6 DEF CollectorStep

-----------------------------------------------------------------------------
(* A process that is down takes no step but its restart.                   *)
LEMMA DownIsStill ==
    ASSUME DownInv, ~up
    PROVE  /\ \A t \in Tasks : ~TaskStep(t)
           /\ \A t \in Tasks, c \in Collectors : ~CollectorStep(t, c)
           /\ \A r \in Requests : ~RequestStep(r)
<1>1. ASSUME NEW t \in Tasks PROVE ~TaskStep(t)
  <2>1. pc[t] = "off"
    BY DEF DownInv
  <2> QED
    BY <2>1 DEF TaskStep, ClaimNothing, ClaimSelect, ClaimUpdate, ClaimLost, Register,
                Load, SeedDenyList, FailJobBeforeDispatch, FinishDispatch, ComputeVerdict,
                FinalizeJob, FinalizeRaises, Sweep, Unregister, TerminalJobStatuses
<1>2. ASSUME NEW t \in Tasks, NEW c \in Collectors PROVE ~CollectorStep(t, c)
  <2>1. work[t][c] = "none"
    BY DEF DownInv, NoWork
  <2> QED
    BY <2>1 DEF CollectorStep, StartCollector, MayStart, CheckCollector, CollectorAnswers,
                SaveFindings, FinishCollector, CollectorRaises, TerminalCollectorStatuses
<1>3. ASSUME NEW r \in Requests PROVE ~RequestStep(r)
  <2>1. at[r] \in {"new"} \cup Answers
    BY DEF DownInv, Going
  <2> QED
    BY <2>1 DEF RequestStep, CancelRead, CancelWrite, CancelSweep, CancelLookup, RetryRead,
                RetryCheck, RetrySelect, RetryCommit, DeleteRead, DeleteCommit, Asked, Answers
<1> QED
  BY <1>1, <1>2, <1>3

(* Only a stop takes the process down, and it leaves no task or request.   *)
LEMMA DownInvKept ==
    ASSUME ApiTypeOK, DownInv, [Next]_vars
    PROVE  DownInv'
<1>1. CASE Stop
  BY <1>1 DEF Stop, Crash, DownInv, Going, Answers, ApiTypeOK
<1>2. CASE Restart
  BY <1>2 DEF Restart, DownInv
<1>3. ASSUME NEW sources \in Selections, CreateJob(sources), UNCHANGED requestVars
      PROVE  DownInv'
  BY <1>3 DEF CreateJob, process, requestVars, DownInv, Going
<1>4. ASSUME NEW j \in Jobs, Expire(j), UNCHANGED requestVars PROVE DownInv'
  BY <1>4 DEF Expire, process, requestVars, DownInv, Going
<1>5. ASSUME NEW t \in Tasks, TaskStep(t) PROVE DownInv'
  <2>1. up
    BY <1>5, DownIsStill
  <2>2. UNCHANGED up
    BY <1>5 DEF TaskStep, ClaimNothing, ClaimSelect, ClaimUpdate, ClaimLost, Register,
                Load, SeedDenyList, FailJobBeforeDispatch, FinishDispatch, ComputeVerdict,
                FinalizeJob, FinalizeRaises, Sweep, Unregister, runnerVars
  <2> QED
    BY <2>1, <2>2 DEF DownInv
<1>6. ASSUME NEW t \in Tasks, NEW c \in Collectors, CollectorStep(t, c) PROVE DownInv'
  <2>1. up
    BY <1>6, DownIsStill
  <2>2. UNCHANGED up
    BY <1>6 DEF CollectorStep, StartCollector, CheckCollector, CollectorAnswers,
                SaveFindings, FinishCollector, CollectorRaises
  <2> QED
    BY <2>1, <2>2 DEF DownInv
<1>7. ASSUME NEW r \in Requests, NEW question \in Questions, Send(r, question)
      PROVE  DownInv'
  BY <1>7 DEF Send, runnerVars, DownInv
<1>8. ASSUME NEW r \in Requests, RequestStep(r) PROVE DownInv'
  <2>1. up
    BY <1>8, DownIsStill
  <2>2. UNCHANGED up
    BY <1>8 DEF RequestStep, CancelRead, CancelWrite, CancelSweep, CancelLookup, RetryRead,
                RetryCheck, RetrySelect, RetryCommit, DeleteRead, DeleteCommit, runnerVars,
                process
  <2> QED
    BY <2>1, <2>2 DEF DownInv
<1>9. CASE UNCHANGED vars
  BY <1>9 DEF vars, DownInv, Going
<1> QED
  BY <1>1, <1>2, <1>3, <1>4, <1>5, <1>6, <1>7, <1>8, <1>9 DEF Next, RunnerStep

(* Where a task stands is kept by everything else that happens.            *)
LEMMA TasksInvKept ==
    ASSUME ApiTypeOK, TasksInv, DownInv, [Next]_vars
    PROVE  TasksInv'
<1> USE DEF ApiTypeOK, TypeOK, TasksInv, Inside
<1>1. CASE RunnerStep
  <2>1. ASSUME NEW sources \in Selections, CreateJob(sources) PROVE TasksInv'
    <3>1. created + 1 \in Jobs /\ created' = created + 1
      BY <2>1, NumJobsAssumption DEF CreateJob, Jobs
    <3>2. ASSUME NEW t \in Tasks PROVE serving[t] <= created + 1
      <4>1. serving[t] \in Nat /\ created \in Nat /\ serving[t] <= created
        BY NumJobsAssumption DEF Jobs, NoJob
      <4> QED
        BY <4>1
    <3> QED
      BY <2>1, <3>1, <3>2, NumJobsAssumption DEF CreateJob, process, Jobs
  <2>2. ASSUME NEW j \in Jobs, Expire(j) PROVE TasksInv'
    BY <2>2 DEF Expire, process
  <2>3. CASE Restart
    <3>1. \A j \in Jobs : job'[j] # NoRow => j <= created'
      BY <2>3 DEF Restart
    <3>2. \A t \in Tasks, c \in Collectors : work'[t][c] \notin Inside
      BY <2>3 DEF Restart, DownInv, NoWork, TerminalCollectorStatuses
    <3>3. \A t \in Tasks : pc'[t] \notin {"off", "poll"} => serving'[t] \in Jobs
      BY <2>3 DEF Restart, Tasks
    <3>4. \A t \in Tasks : serving'[t] <= created'
      BY <2>3, NumJobsAssumption DEF Restart, NoJob, Resumable, NoRow
    <3> QED
      BY <3>1, <3>2, <3>3, <3>4
  <2> QED
    BY <1>1, <2>1, <2>2, <2>3, TasksInvTask, TasksInvCollector DEF RunnerStep
<1>2. CASE Stop
  BY <1>2, NumJobsAssumption
     DEF Stop, Crash, database, NoWork, NoJob, TerminalCollectorStatuses
<1>3. ASSUME NEW r \in Requests, NEW question \in Questions, Send(r, question)
      PROVE  TasksInv'
  BY <1>3 DEF Send, runnerVars
<1>4. ASSUME NEW r \in Requests, RequestStep(r) PROVE TasksInv'
  <2>1. UNCHANGED <<pc, serving, work, created>>
    BY <1>4 DEF RequestStep, CancelRead, CancelWrite, CancelSweep, CancelLookup, RetryRead,
                RetryCheck, RetrySelect, RetryCommit, DeleteRead, DeleteCommit, runnerVars,
                database, process, SweepRetention
  <2>2. \A j \in Jobs : job'[j] # NoRow => job[j] # NoRow \/ j <= created
    <3>1. CASE RetryCommit(r)
      BY <3>1 DEF RetryCommit
    <3>2. CASE ~RetryCommit(r)
      BY <1>4, <3>2
         DEF RequestStep, CancelRead, CancelWrite, CancelSweep, CancelLookup, RetryRead,
             RetryCheck, RetrySelect, DeleteRead, DeleteCommit, runnerVars,
             database, SweepRetention
    <3> QED
      BY <3>1, <3>2
  <2> QED
    BY <2>1, <2>2
<1>5. CASE UNCHANGED vars
  BY <1>5 DEF vars
<1> QED
  BY <1>1, <1>2, <1>3, <1>4, <1>5 DEF Next

-----------------------------------------------------------------------------
(* A step that takes no row of findings away from a run that stays.        *)
Growing ==
    \A j \in Jobs, c \in Collectors :
        \/ run'[j][c] = NoRow
        \/ /\ rows'[j][c] >= rows[j][c]
           /\ run[j][c] # NoRow \/ j > created

(* A step that reports no collector DONE, and brings none closer to it.    *)
NoNewDone ==
    /\ \A j \in Jobs, c \in Collectors : run'[j][c] = "done" => run[j][c] = "done"
    /\ \A t \in Tasks, c \in Collectors :
           work'[t][c] = "done" => work[t][c] = "done" /\ serving'[t] = serving[t]

(* Such a step keeps the invariant.                                        *)
LEMMA EvidenceCarried ==
    ASSUME TypeOK, TypeOK', TasksInv, EvidenceInv, Growing, NoNewDone
    PROVE  EvidenceInv'
<1>1. NoLostEvidence'
  <2> SUFFICES ASSUME NEW j \in Jobs, NEW c \in Collectors, run'[j][c] = "done"
               PROVE  rows'[j][c] > 0
    BY DEF NoLostEvidence
  <2>1. run[j][c] = "done" /\ rows[j][c] > 0
    BY DEF NoNewDone, EvidenceInv, NoLostEvidence
  <2>2. rows'[j][c] >= rows[j][c]
    BY DEF Growing, NoRow
  <2>3. rows[j][c] \in Nat /\ rows'[j][c] \in Nat
    BY DEF TypeOK
  <2> QED
    BY <2>1, <2>2, <2>3
<1>2. ASSUME NEW t \in Tasks, NEW c \in Collectors, work'[t][c] = "done"
      PROVE  rows'[serving'[t]][c] > 0 \/ run'[serving'[t]][c] = NoRow
  <2> DEFINE j == serving[t]
  <2>1. work[t][c] = "done" /\ serving'[t] = j
    BY <1>2 DEF NoNewDone
  <2>2. j \in Jobs /\ j <= created
    BY <2>1 DEF TasksInv, Inside, TerminalCollectorStatuses
  <2>3. rows[j][c] \in Nat /\ rows'[j][c] \in Nat /\ j \in Nat /\ created \in Nat
    BY <2>2, NumJobsAssumption DEF TypeOK, Jobs
  <2>4. rows[j][c] > 0 \/ run[j][c] = NoRow
    BY <2>1 DEF EvidenceInv
  <2>5. run'[j][c] = NoRow \/ (rows'[j][c] >= rows[j][c] /\ run[j][c] # NoRow)
    BY <2>2, <2>3 DEF Growing
  <2> HIDE DEF j
  <2> QED
    BY <2>1, <2>3, <2>4, <2>5
<1> QED
  BY <1>1, <1>2 DEF EvidenceInv

(* A step that leaves the runs and their rows alone only has to bring no   *)
(* coroutine closer to DONE.                                               *)
LEMMA SameRows ==
    ASSUME TypeOK, UNCHANGED <<run, rows>>
    PROVE  /\ Growing
           /\ \A j \in Jobs, c \in Collectors : run'[j][c] = "done" => run[j][c] = "done"
<1>1. ASSUME NEW j \in Jobs, NEW c \in Collectors PROVE rows[j][c] >= rows[j][c]
  <2>1. rows[j][c] \in Nat
    BY DEF TypeOK
  <2> QED
    BY <2>1
<1> QED
  BY <1>1 DEF Growing

(* The retention sweep takes the rows of a job only together with its      *)
(* runs.                                                                   *)
LEMMA SweepGrowing ==
    ASSUME TypeOK, NEW cascade \in BOOLEAN, SweepRetention(cascade)
    PROVE  /\ Growing
           /\ \A j \in Jobs, c \in Collectors : run'[j][c] = "done" => run[j][c] = "done"
<1>1. ASSUME NEW j \in Jobs, NEW c \in Collectors
      PROVE  \/ run'[j][c] = NoRow
             \/ run'[j][c] = run[j][c] /\ rows'[j][c] = rows[j][c]
  BY DEF TypeOK, SweepRetention
<1>2. ASSUME NEW j \in Jobs, NEW c \in Collectors PROVE rows[j][c] \in Nat
  BY DEF TypeOK
<1> QED
  BY <1>1, <1>2 DEF Growing, NoRow

(* The steps of a task and of its collectors keep the evidence.            *)
LEMMA EvidenceTask ==
    ASSUME TypeOK, TypeOK', TasksInv, EvidenceInv, NEW t \in Tasks, TaskStep(t)
    PROVE  EvidenceInv'
<1> USE DEF database
<1>1. CASE FailJobBeforeDispatch(t)
  <2>1. \A j \in Jobs, c \in Collectors :
            run'[j][c] = run[j][c] \/ (run'[j][c] = "failed" /\ run[j][c] # NoRow)
    BY <1>1 DEF FailJobBeforeDispatch, TypeOK
  <2>2. \A j \in Jobs, c \in Collectors : rows'[j][c] = rows[j][c] /\ rows[j][c] \in Nat
    BY <1>1 DEF FailJobBeforeDispatch, TypeOK
  <2>3. Growing
    BY <2>1, <2>2 DEF Growing
  <2>4. NoNewDone
    BY <1>1, <2>1 DEF NoNewDone, FailJobBeforeDispatch, NoWork, TypeOK
  <2> QED
    BY <2>3, <2>4, EvidenceCarried
<1>2. CASE Sweep(t)
  <2>1. PICK cascade \in BOOLEAN : SweepRetention(cascade)
    BY <1>2 DEF Sweep
  <2>2. Growing /\ NoNewDone
    BY <1>2, <2>1, SweepGrowing DEF Sweep, NoNewDone
  <2> QED
    BY <2>2, EvidenceCarried
<1>3. CASE /\ UNCHANGED <<run, rows>>
           /\ \A u \in Tasks, c \in Collectors :
                  work'[u][c] = "done" => work[u][c] = "done" /\ serving'[u] = serving[u]
  BY <1>3, SameRows, EvidenceCarried DEF NoNewDone
<1>4. ASSUME ~FailJobBeforeDispatch(t), ~Sweep(t) PROVE UNCHANGED <<run, rows>>
  BY <1>4 DEF TaskStep, ClaimNothing, ClaimSelect, ClaimUpdate, ClaimLost, Register, Load,
              SeedDenyList, FinishDispatch, ComputeVerdict, FinalizeJob, FinalizeRaises,
              Unregister, runnerVars
<1>5. ASSUME ~FailJobBeforeDispatch(t), ~Sweep(t), NEW u \in Tasks, NEW c \in Collectors,
             work'[u][c] = "done"
      PROVE  work[u][c] = "done" /\ serving'[u] = serving[u]
  <2>1. CASE u # t
    BY <1>5, <2>1 DEF TaskStep, ClaimNothing, ClaimSelect, ClaimUpdate, ClaimLost, Register,
              Load, SeedDenyList, FinishDispatch, ComputeVerdict, FinalizeJob,
              FinalizeRaises, Unregister, runnerVars, TypeOK
  <2>2. CASE u = t /\ Load(t)
    <3>1. CASE UNCHANGED work
      BY <1>5, <2>2, <3>1 DEF Load
    <3>2. CASE work' = [work EXCEPT ![t] = [d \in Collectors |->
                            IF d \in Pending(serving[t]) THEN "wait" ELSE "none"]]
      BY <1>5, <2>2, <3>2 DEF TypeOK
    <3> QED
      BY <2>2, <3>1, <3>2 DEF Load
  <2>3. CASE u = t /\ Unregister(t)
    BY <1>5, <2>3 DEF Unregister, NoWork, TypeOK
  <2>4. CASE u = t /\ FinalizeRaises(t)
    BY <1>5, <2>4 DEF FinalizeRaises, NoWork, TypeOK
  <2>5. CASE u = t /\ UNCHANGED <<work, serving>>
    BY <1>5, <2>5
  <2>6. CASE pc[t] \in {"poll", "claim"} /\ UNCHANGED work
    BY <1>5, <2>1, <2>6 DEF TasksInv, Inside, TerminalCollectorStatuses
  <2>7. \/ Load(t) \/ Unregister(t) \/ FinalizeRaises(t) \/ UNCHANGED <<work, serving>>
        \/ pc[t] \in {"poll", "claim"} /\ UNCHANGED work
    BY <1>5 DEF TaskStep, ClaimNothing, ClaimSelect, ClaimUpdate, ClaimLost, Register,
              SeedDenyList, FinishDispatch, ComputeVerdict, FinalizeJob, runnerVars
  <2> QED
    BY <2>1, <2>2, <2>3, <2>4, <2>5, <2>6, <2>7
<1> QED
  BY <1>1, <1>2, <1>3, <1>4, <1>5

(* Only SaveFindings brings a coroutine to DONE, and only FinishCollector  *)
(* a run.                                                                  *)
LEMMA EvidenceCollector ==
    ASSUME TypeOK, TypeOK', TasksInv, EvidenceInv,
           NEW t \in Tasks, NEW c \in Collectors, CollectorStep(t, c)
    PROVE  EvidenceInv'
<1> USE DEF database
<1> DEFINE j == serving[t]
<1>1. CASE StartCollector(t, c)
  <2>1. \A k \in Jobs, d \in Collectors :
            run'[k][d] = run[k][d] \/ (run'[k][d] = "running" /\ run[k][d] # NoRow)
    BY <1>1 DEF StartCollector, TypeOK
  <2>2. \A k \in Jobs, d \in Collectors : rows'[k][d] = rows[k][d] /\ rows[k][d] \in Nat
    BY <1>1 DEF StartCollector, TypeOK
  <2>3. Growing /\ NoNewDone
    BY <1>1, <2>1, <2>2 DEF Growing, NoNewDone, StartCollector, TypeOK
  <2> QED
    BY <2>3, EvidenceCarried
<1>2. CASE CheckCollector(t, c) \/ CollectorAnswers(t, c) \/ CollectorRaises(t, c)
  <2>1. UNCHANGED <<run, rows, serving>>
    BY <1>2 DEF CheckCollector, CollectorAnswers, CollectorRaises
  <2>2. PICK next : work' = [work EXCEPT ![t][c] = next] /\ next # "done"
    BY <1>2 DEF CheckCollector, CollectorAnswers, CollectorRaises
  <2>3. NoNewDone
    BY <2>1, <2>2, SameRows DEF NoNewDone, TypeOK
  <2> QED
    BY <2>1, <2>3, SameRows, EvidenceCarried
<1>3. CASE SaveFindings(t, c)
  <2>1. pc[t] \notin {"off", "poll"}
    BY <1>3 DEF SaveFindings, TasksInv, Inside
  <2>2. j \in Jobs
    BY <2>1 DEF TasksInv
  <2>3. /\ rows' = [rows EXCEPT ![j][c] = @ + 1]
        /\ work' = [work EXCEPT ![t][c] = "done"]
        /\ UNCHANGED <<run, serving>>
    BY <1>3 DEF SaveFindings
  <2>4. rows[j][c] \in Nat /\ rows'[j][c] = rows[j][c] + 1
    BY <2>2, <2>3 DEF TypeOK
  <2>5. \A k \in Jobs, d \in Collectors :
            rows[k][d] \in Nat /\ (rows'[k][d] = rows[k][d] \/ rows'[k][d] = rows[k][d] + 1)
    BY <2>2, <2>3 DEF TypeOK
  <2>6. ASSUME NEW k \in Jobs, NEW d \in Collectors, rows[k][d] > 0 PROVE rows'[k][d] > 0
    BY <2>5, <2>6
  <2>7. NoLostEvidence'
    BY <2>3, <2>6 DEF EvidenceInv, NoLostEvidence
  <2>8. ASSUME NEW u \in Tasks, NEW d \in Collectors, work'[u][d] = "done"
        PROVE  rows'[serving'[u]][d] > 0 \/ run'[serving'[u]][d] = NoRow
    <3>1. CASE u = t /\ d = c
      BY <2>3, <2>4, <3>1
    <3>2. CASE ~(u = t /\ d = c)
      <4>1. work[u][d] = "done"
        BY <2>3, <2>8, <3>2 DEF TypeOK
      <4>2. serving[u] \in Jobs
        BY <4>1 DEF TasksInv, Inside, TerminalCollectorStatuses
      <4> QED
        BY <2>3, <2>6, <4>1, <4>2 DEF EvidenceInv
    <3> QED
      BY <3>1, <3>2
  <2> QED
    BY <2>7, <2>8 DEF EvidenceInv
<1>4. CASE FinishCollector(t, c)
  <2>1. /\ run' = [run EXCEPT ![j][c] = IF @ = NoRow THEN NoRow ELSE work[t][c]]
        /\ work' = [work EXCEPT ![t][c] = "over"]
        /\ UNCHANGED <<rows, serving>>
    BY <1>4 DEF FinishCollector
  <2>2. ASSUME NEW k \in Jobs, NEW d \in Collectors, run'[k][d] = "done"
        PROVE  rows'[k][d] > 0
    <3>1. CASE run[k][d] = "done"
      BY <2>1, <3>1 DEF EvidenceInv, NoLostEvidence
    <3>2. CASE run[k][d] # "done"
      <4>1. k = j /\ d = c /\ work[t][c] = "done" /\ run[j][c] # NoRow
        BY <2>1, <2>2, <3>2 DEF TypeOK, NoRow
      <4> QED
        BY <2>1, <4>1 DEF EvidenceInv
    <3> QED
      BY <3>1, <3>2
  <2>3. ASSUME NEW u \in Tasks, NEW d \in Collectors, work'[u][d] = "done"
        PROVE  rows'[serving'[u]][d] > 0 \/ run'[serving'[u]][d] = NoRow
    <3>1. work[u][d] = "done"
      BY <2>1, <2>3 DEF TypeOK
    <3>2. serving[u] \in Jobs
      BY <3>1 DEF TasksInv, Inside, TerminalCollectorStatuses
    <3>3. run[serving[u]][d] = NoRow => run'[serving[u]][d] = NoRow
      BY <2>1, <3>2 DEF TypeOK
    <3> QED
      BY <2>1, <3>1, <3>3 DEF EvidenceInv
  <2> QED
    BY <2>2, <2>3 DEF EvidenceInv, NoLostEvidence
<1> QED
  BY <1>1, <1>2, <1>3, <1>4 DEF CollectorStep

(* So does every other step.                                               *)
LEMMA EvidenceKept ==
    ASSUME ApiTypeOK, ApiTypeOK', TasksInv, DownInv, EvidenceInv, [Next]_vars
    PROVE  EvidenceInv'
<1>0. TypeOK /\ TypeOK'
  BY DEF ApiTypeOK
<1>1. ASSUME NEW sources \in Selections, CreateJob(sources) PROVE EvidenceInv'
  <2>1. created + 1 \in Jobs /\ created \in Nat
    BY <1>0, <1>1, NumJobsAssumption DEF CreateJob, Jobs, TypeOK
  <2>2. \A j \in Jobs, c \in Collectors :
            \/ run'[j][c] = run[j][c]
            \/ j = created + 1 /\ run'[j][c] \in {"queued", NoRow}
    BY <1>0, <1>1 DEF CreateJob, TypeOK
  <2>3. \A j \in Jobs, c \in Collectors : rows'[j][c] = rows[j][c] /\ rows[j][c] \in Nat
    BY <1>0, <1>1 DEF CreateJob, TypeOK
  <2>4. \A j \in Jobs : j = created + 1 => j > created
    BY <2>1
  <2>5. Growing /\ NoNewDone
    BY <1>1, <2>2, <2>3, <2>4 DEF Growing, NoNewDone, NoRow, CreateJob, process
  <2> QED
    BY <1>0, <2>5, EvidenceCarried
<1>2. ASSUME NEW j \in Jobs, Expire(j) PROVE EvidenceInv'
  <2>1. UNCHANGED <<run, rows, work, serving>>
    BY <1>2 DEF Expire, process
  <2> QED
    BY <1>0, <2>1, SameRows, EvidenceCarried DEF NoNewDone
<1>3. CASE Restart
  <2>1. \A t \in Tasks, c \in Collectors : work'[t][c] # "done"
    BY <1>3 DEF Restart, DownInv, NoWork
  <2>2. \A j \in Jobs, c \in Collectors :
            \/ run'[j][c] = NoRow
            \/ run'[j][c] = Recovered(run[j][c]) /\ rows'[j][c] = rows[j][c]
    BY <1>3 DEF Restart
  <2>3. \A j \in Jobs, c \in Collectors : rows[j][c] \in Nat
    BY <1>0 DEF TypeOK
  <2>4. Growing /\ NoNewDone
    BY <2>1, <2>2, <2>3 DEF Growing, NoNewDone, Recovered, NoRow
  <2> QED
    BY <1>0, <2>4, EvidenceCarried
<1>4. CASE Stop
  <2>1. UNCHANGED <<run, rows>> /\ \A t \in Tasks, c \in Collectors : work'[t][c] # "done"
    BY <1>4 DEF Stop, Crash, NoWork, database
  <2>2. NoNewDone
    BY <2>1 DEF NoNewDone
  <2> QED
    BY <1>0, <2>1, <2>2, SameRows, EvidenceCarried
<1>5. ASSUME NEW r \in Requests, NEW question \in Questions, Send(r, question)
      PROVE  EvidenceInv'
  <2>1. UNCHANGED <<run, rows, work, serving>>
    BY <1>5 DEF Send, runnerVars
  <2> QED
    BY <1>0, <2>1, SameRows, EvidenceCarried DEF NoNewDone
<1>6. ASSUME NEW r \in Requests, RequestStep(r) PROVE EvidenceInv'
  <2>1. UNCHANGED <<work, serving>>
    BY <1>6 DEF RequestStep, CancelRead, CancelWrite, CancelSweep, CancelLookup, RetryRead,
                RetryCheck, RetrySelect, RetryCommit, DeleteRead, DeleteCommit, runnerVars,
                database, process
  <2>2. CASE UNCHANGED <<run, rows>>
    BY <1>0, <2>1, <2>2, SameRows, EvidenceCarried DEF NoNewDone
  <2>3. CASE CancelSweep(r)
    <3>1. PICK cascade \in BOOLEAN : SweepRetention(cascade)
      BY <2>3 DEF CancelSweep
    <3> QED
      BY <1>0, <2>1, <3>1, SweepGrowing, EvidenceCarried DEF NoNewDone
  <2>4. CASE RetryCommit(r) /\ ~UNCHANGED run
    <3>1. \A j \in Jobs, c \in Collectors :
              run'[j][c] = run[j][c] \/ (run'[j][c] = "queued" /\ run[j][c] # NoRow)
      <4>1. /\ run' = [run EXCEPT ![ask[r].job][ask[r].collector] = "queued"]
            /\ run[ask[r].job][ask[r].collector] # NoRow
        BY <2>4 DEF RetryCommit
      <4> QED
        BY <1>0, <4>1 DEF TypeOK
    <3>2. \A j \in Jobs, c \in Collectors : rows'[j][c] = rows[j][c] /\ rows[j][c] \in Nat
      BY <1>0, <2>4 DEF RetryCommit, TypeOK
    <3>3. Growing /\ NoNewDone
      BY <2>1, <3>1, <3>2 DEF Growing, NoNewDone
    <3> QED
      BY <1>0, <3>3, EvidenceCarried
  <2>5. CASE DeleteCommit(r)
    <3>1. \A j \in Jobs, c \in Collectors :
              \/ run'[j][c] = NoRow
              \/ run'[j][c] = run[j][c] /\ rows'[j][c] = rows[j][c]
      BY <1>0, <2>5 DEF DeleteCommit, TypeOK
    <3>2. \A j \in Jobs, c \in Collectors : rows[j][c] \in Nat
      BY <1>0 DEF TypeOK
    <3>3. Growing /\ NoNewDone
      BY <2>1, <3>1, <3>2 DEF Growing, NoNewDone, NoRow
    <3> QED
      BY <1>0, <3>3, EvidenceCarried
  <2>6. \/ UNCHANGED <<run, rows>> \/ CancelSweep(r) \/ DeleteCommit(r)
        \/ RetryCommit(r) /\ ~UNCHANGED run
    BY <1>6 DEF RequestStep, CancelRead, CancelWrite, CancelLookup, RetryRead,
                RetryCheck, RetrySelect, RetryCommit, DeleteRead, runnerVars, database
  <2> QED
    BY <2>2, <2>3, <2>4, <2>5, <2>6
<1>7. CASE UNCHANGED vars
  <2>1. UNCHANGED <<run, rows, work, serving>>
    BY <1>7 DEF vars
  <2> QED
    BY <1>0, <2>1, SameRows, EvidenceCarried DEF NoNewDone
<1> QED
  BY <1>0, <1>1, <1>2, <1>3, <1>4, <1>5, <1>6, <1>7, EvidenceTask, EvidenceCollector
     DEF Next, RunnerStep

-----------------------------------------------------------------------------
(* The inductive invariant: a stopped process has no tasks, a coroutine    *)
(* past its start belongs to a job in dispatch, and evidence is stored     *)
(* before DONE.                                                            *)
THEOREM EvidenceInvariant == Spec => [](TasksInv /\ DownInv /\ EvidenceInv)
<1> DEFINE Inv == ApiTypeOK /\ TasksInv /\ DownInv /\ EvidenceInv
<1>1. Init /\ ApiTypeOK => Inv
  <2> SUFFICES ASSUME Init, ApiTypeOK PROVE Inv
    OBVIOUS
  <2>1. TasksInv
    BY NumJobsAssumption
       DEF Init, RunnerInit, TasksInv, Inside, NoWork, NoJob, TerminalCollectorStatuses
  <2>2. DownInv
    BY DEF Init, RunnerInit, DownInv
  <2>3. EvidenceInv
    BY DEF Init, RunnerInit, EvidenceInv, NoLostEvidence, NoWork, NoRow
  <2> QED
    BY <2>1, <2>2, <2>3
<1>2. Inv /\ ApiTypeOK' /\ [Next]_vars => Inv'
  BY TasksInvKept, DownInvKept, EvidenceKept
<1>3. Inv => TasksInv /\ DownInv /\ EvidenceInv
  OBVIOUS
<1> QED
  BY <1>1, <1>2, <1>3, Typed, PTL DEF Spec

(* A collector run that shows DONE has its findings in the database, for   *)
(* any number of jobs, workers, crashes, cancellations, retries and        *)
(* deletions.                                                              *)
THEOREM EvidenceIsKept == Spec => []NoLostEvidence
<1>1. EvidenceInv => NoLostEvidence
  BY DEF EvidenceInv
<1> QED
  BY <1>1, EvidenceInvariant, PTL

-----------------------------------------------------------------------------
(* A deleted job stays deleted; and, when there is one worker loop, a job  *)
(* has one dispatcher at most, no job is left without one, and no attempt  *)
(* stores twice.                                                           *)

(* No row of jobs appears by UPDATE.                                       *)
LEMMA GoneStays ==
    ASSUME ApiTypeOK, [Next]_vars, NEW k \in Jobs, k <= created, job[k] = NoRow
    PROVE  job'[k] = NoRow
<1> DEFINE Stays == job'[k] = NoRow
<1> USE DEF ApiTypeOK, TypeOK
<1>1. ASSUME NEW sources \in Selections, CreateJob(sources) PROVE Stays
  <2>1. created \in Nat
    BY NumJobsAssumption
  <2>2. \A j \in Jobs : j <= created => j # created + 1
    BY <2>1 DEF Jobs
  <2> QED
    BY <1>1, <2>2 DEF CreateJob
<1>2. ASSUME NEW j \in Jobs, Expire(j) PROVE Stays
  BY <1>2 DEF Expire
<1>3. CASE Restart
  BY <1>3 DEF Restart
<1>4. CASE Stop
  BY <1>4 DEF Stop, Crash, database
<1>5. ASSUME NEW t \in Tasks, TaskStep(t) PROVE Stays
  <2>1. CASE ClaimUpdate(t)
    BY <2>1 DEF ClaimUpdate, NoRow
  <2>2. CASE FailJobBeforeDispatch(t)
    BY <2>2 DEF FailJobBeforeDispatch
  <2>3. CASE FinalizeJob(t)
    BY <2>3 DEF FinalizeJob
  <2>4. CASE Sweep(t)
    BY <2>4 DEF Sweep, SweepRetention
  <2>5. ASSUME ~ClaimUpdate(t), ~FailJobBeforeDispatch(t), ~FinalizeJob(t), ~Sweep(t)
        PROVE  UNCHANGED job
    BY <1>5, <2>5 DEF TaskStep, ClaimNothing, ClaimSelect, ClaimLost, Register, Load,
              SeedDenyList, FinishDispatch, ComputeVerdict, FinalizeRaises, Unregister,
              runnerVars, database
  <2> QED
    BY <2>1, <2>2, <2>3, <2>4, <2>5
<1>6. ASSUME NEW t \in Tasks, NEW c \in Collectors, CollectorStep(t, c) PROVE Stays
  BY <1>6 DEF CollectorStep, StartCollector, CheckCollector, CollectorAnswers,
              SaveFindings, FinishCollector, CollectorRaises, database
<1>7. ASSUME NEW r \in Requests, NEW question \in Questions, Send(r, question) PROVE Stays
  BY <1>7 DEF Send, runnerVars
<1>8. ASSUME NEW r \in Requests, RequestStep(r) PROVE Stays
  <2>1. CASE CancelWrite(r)
    BY <2>1 DEF CancelWrite
  <2>2. CASE CancelSweep(r)
    BY <2>2 DEF CancelSweep, SweepRetention
  <2>3. CASE RetryCommit(r)
    BY <2>3 DEF RetryCommit
  <2>4. CASE DeleteCommit(r)
    BY <2>4 DEF DeleteCommit
  <2>5. ASSUME ~CancelWrite(r), ~CancelSweep(r), ~RetryCommit(r), ~DeleteCommit(r)
        PROVE  UNCHANGED job
    BY <1>8, <2>5 DEF RequestStep, CancelRead, CancelLookup, RetryRead, RetryCheck,
              RetrySelect, DeleteRead, runnerVars, database
  <2> QED
    BY <2>1, <2>2, <2>3, <2>4, <2>5
<1>9. CASE UNCHANGED vars
  BY <1>9 DEF vars
<1> QED
  BY <1>1, <1>2, <1>3, <1>4, <1>5, <1>6, <1>7, <1>8, <1>9 DEF Next, RunnerStep

(* A job that is gone stays gone through every verdict, cancellation and   *)
(* retry that was on its way (runner.py 137-163 and 372-382, api/jobs.py   *)
(* 147-186).                                                               *)
THEOREM GoneForGood == Spec => DeletedStaysDeleted
<1> DEFINE Kept == \A j \in Jobs : j <= created /\ job[j] = NoRow => job'[j] = NoRow
<1>1. ApiTypeOK /\ [Next]_vars => [Kept]_vars
  BY GoneStays
<1> QED
  BY <1>1, Typed, PTL DEF Spec, DeletedStaysDeleted

-----------------------------------------------------------------------------
(* A step of a task leaves the other tasks and the other jobs alone.       *)
LEMMA TaskFrame ==
    ASSUME TypeOK, NEW t \in Tasks, TaskStep(t)
    PROVE  /\ up' = up
           /\ \A u \in Tasks : u # t =>
                  pc'[u] = pc[u] /\ serving'[u] = serving[u] /\ work'[u] = work[u]
           /\ \A j \in Jobs :
                  /\ j # serving[t] => event'[j] = event[j]
                  /\ job'[j] # NoRow /\ j # serving[t] =>
                         job'[j] = job[j] /\ run'[j] = run[j]
           /\ serving'[t] # serving[t] => ~Active(t)'
<1> USE DEF TypeOK, database
<1>1. CASE ClaimNothing(t)
  BY <1>1 DEF ClaimNothing, runnerVars
<1>2. CASE \E j \in Jobs : ClaimSelect(t, j)
  BY <1>2 DEF ClaimSelect, Active
<1>3. CASE ClaimUpdate(t) \/ ClaimLost(t)
  BY <1>3 DEF ClaimUpdate, ClaimLost, Active
<1>4. CASE Register(t) \/ Load(t) \/ SeedDenyList(t) \/ FinishDispatch(t) \/ ComputeVerdict(t)
  BY <1>4 DEF Register, Load, SeedDenyList, FinishDispatch, ComputeVerdict
<1>5. CASE FailJobBeforeDispatch(t) \/ FinalizeJob(t) \/ FinalizeRaises(t)
  BY <1>5 DEF FailJobBeforeDispatch, FinalizeJob, FinalizeRaises
<1>6. CASE Sweep(t)
  BY <1>6 DEF Sweep, SweepRetention
<1>7. CASE Unregister(t)
  BY <1>7 DEF Unregister, Active
<1> QED
  BY <1>1, <1>2, <1>3, <1>4, <1>5, <1>6, <1>7 DEF TaskStep

(* A task dies when its job is gone, and the job stays gone.               *)
LEMMA DeadInvKept ==
    ASSUME ApiTypeOK, TasksInv, DeadInv, [Next]_vars
    PROVE  DeadInv'
<1> USE DEF ApiTypeOK, TypeOK
<1> SUFFICES ASSUME NEW t \in Tasks, pc'[t] = "dead" PROVE job'[serving'[t]] = NoRow
  BY DEF DeadInv
<1>1. CASE pc[t] = "dead" /\ serving'[t] = serving[t]
  <2>1. serving[t] \in Jobs /\ serving[t] <= created /\ job[serving[t]] = NoRow
    BY <1>1 DEF TasksInv, DeadInv
  <2> QED
    BY <1>1, <2>1, GoneStays
<1>2. CASE FinalizeRaises(t)
  BY <1>2 DEF FinalizeRaises, database
<1>3. CASE \E c \in Collectors : CollectorRaises(t, c)
  BY <1>3 DEF CollectorRaises, database
<1>4. ASSUME NEW u \in Tasks, TaskStep(u), ~FinalizeRaises(t)
      PROVE  pc[t] = "dead" /\ serving'[t] = serving[t]
  <2>1. CASE u = t
    <3>1. CASE ComputeVerdict(t)
      <4>1. ComputeJobStatus(RunStatuses(serving[t])) # "dead"
        BY VerdictRange DEF TerminalJobStatuses
      <4> QED
        BY <3>1, <4>1 DEF ComputeVerdict
    <3>2. CASE ~ComputeVerdict(t)
      BY <1>4, <2>1, <3>2
         DEF TaskStep, ClaimNothing, ClaimSelect, ClaimUpdate, ClaimLost, Register, Load,
             SeedDenyList, FailJobBeforeDispatch, FinishDispatch, FinalizeJob, Sweep,
             Unregister, runnerVars
    <3> QED
      BY <3>1, <3>2
  <2>2. CASE u # t
    BY <1>4, <2>2, TaskFrame
  <2> QED
    BY <2>1, <2>2
<1>5. ASSUME NEW u \in Tasks, NEW c \in Collectors, CollectorStep(u, c),
             ~CollectorRaises(t, c)
      PROVE  pc[t] = "dead" /\ serving'[t] = serving[t]
  BY <1>5 DEF CollectorStep, StartCollector, CheckCollector, CollectorAnswers, SaveFindings,
              FinishCollector, CollectorRaises
<1>6. ASSUME NEW r \in Requests, RequestStep(r)
      PROVE  pc[t] = "dead" /\ serving'[t] = serving[t]
  BY <1>6 DEF RequestStep, CancelRead, CancelWrite, CancelSweep, CancelLookup, RetryRead,
         RetryCheck, RetrySelect, RetryCommit, DeleteRead, DeleteCommit, runnerVars, process
<1>7. ~Restart /\ ~Stop
  BY DEF Restart, Stop, Crash
<1>8. ASSUME \/ \E sources \in Selections : CreateJob(sources)
             \/ \E j \in Jobs : Expire(j)
             \/ \E r \in Requests, question \in Questions : Send(r, question)
             \/ UNCHANGED vars
      PROVE  pc[t] = "dead" /\ serving'[t] = serving[t]
  BY <1>8 DEF CreateJob, Expire, Send, process, runnerVars, vars
<1> QED
  BY <1>1, <1>2, <1>3, <1>4, <1>5, <1>6, <1>7, <1>8 DEF Next, RunnerStep

-----------------------------------------------------------------------------
(* A step that makes no task active, moves no active task to another job,  *)
(* queues no job and unregisters no Event of an active resume task, and    *)
(* lets no retry past is_active.                                           *)
NothingNew ==
    /\ \A j \in Jobs : pc'[j] \notin {"poll", "claim", "register"}
    /\ \A t \in Tasks : Active(t)' => Active(t) /\ serving'[t] = serving[t]
    /\ \A j \in Jobs : Active(j)' =>
           /\ job'[j] = "queued" => job[j] = "queued"
           /\ event'[j] = NoTask => event[j] = NoTask
    /\ \A r \in Requests :
           /\ at'[r] \in {"select", "commit"}
           /\ ask'[r].kind = "retry"
           /\ \E j \in Jobs : ask'[r].job = j /\ Active(j)
           => at[r] \in {"select", "commit"} /\ ask'[r] = ask[r]

(* Such a step keeps the invariant.                                        *)
LEMMA DispatchCarried ==
    ASSUME ResumedInv, ExclusiveDispatch, NothingNew
    PROVE  ResumedInv' /\ ExclusiveDispatch'
<1>1. ExclusiveDispatch'
  BY DEF ExclusiveDispatch, NothingNew
<1>2. ASSUME NEW j \in Jobs, Active(j)'
      PROVE  /\ serving'[j] = j
             /\ job'[j] # "queued"
             /\ event'[j] # NoTask
             /\ \A r \in Requests :
                    at'[r] \in {"select", "commit"} /\ ask'[r].kind = "retry" =>
                        ask'[r].job # j
  <2>1. j \in Tasks
    BY DEF Tasks
  <2>2. Active(j) /\ serving'[j] = serving[j]
    BY <1>2, <2>1 DEF NothingNew
  <2> QED
    BY <1>2, <2>2 DEF NothingNew, ResumedInv
<1>3. \A j \in Jobs : pc'[j] \notin {"poll", "claim", "register"}
  BY DEF NothingNew
<1> QED
  BY <1>1, <1>2, <1>3 DEF ResumedInv

(* A worker loop that claims a job claims a QUEUED one, which no resume    *)
(* task is running.                                                        *)
LEMMA ClaimExclusive ==
    ASSUME \A v, w \in Workers : v = w,
           ApiTypeOK, TasksInv, ResumedInv, ExclusiveDispatch,
           NEW t \in Tasks, ClaimUpdate(t), UNCHANGED requestVars
    PROVE  ResumedInv' /\ ExclusiveDispatch'
<1> USE DEF ApiTypeOK, TypeOK
<1>1. t \in Workers /\ t \notin Jobs /\ ~Active(t)
  BY WorkersAssumption DEF ClaimUpdate, ResumedInv, Tasks, Active
<1>2. /\ job' = [job EXCEPT ![serving[t]] = "running"]
      /\ pc' = [pc EXCEPT ![t] = "register"]
      /\ UNCHANGED <<serving, event>>
      /\ job[serving[t]] = "queued"
  BY DEF ClaimUpdate
<1>3. \A j \in Jobs : pc'[j] = pc[j] /\ (job'[j] = "queued" => job[j] = "queued")
  BY <1>1, <1>2 DEF Tasks
<1>4. ResumedInv'
  BY <1>2, <1>3 DEF ResumedInv, Active, requestVars, Tasks
<1>5. ASSUME NEW u \in Tasks, u # t, Active(u) PROVE serving[u] # serving[t]
  <2>1. u \in Jobs
    BY <1>1, <1>5 DEF Tasks
  <2>2. serving[u] = u /\ job[u] # "queued"
    BY <1>5, <2>1 DEF ResumedInv
  <2> QED
    BY <1>1, <1>2, <2>2
<1>6. \A u \in Tasks : u # t => Active(u)' = Active(u)
  BY <1>2 DEF Active
<1>7. ExclusiveDispatch'
  BY <1>2, <1>5, <1>6 DEF ExclusiveDispatch
<1> QED
  BY <1>4, <1>7

(* A task that stops being active and pops the Event of its job pops only  *)
(* its own.                                                                *)
LEMMA PopOwn ==
    ASSUME ApiTypeOK, TasksInv, ResumedInv, ExclusiveDispatch,
           NEW t \in Tasks, Active(t), ~Active(t)',
           event' = [event EXCEPT ![serving[t]] = NoTask],
           \A u \in Tasks : u # t => pc'[u] = pc[u] /\ serving'[u] = serving[u],
           pc'[t] \in {"off", "poll", "dead"}, pc'[t] = "poll" => t \in Workers,
           UNCHANGED <<job, requestVars>>
    PROVE  NothingNew
<1>1. ASSUME NEW j \in Jobs PROVE pc'[j] \notin {"poll", "claim", "register"}
  BY WorkersAssumption DEF ResumedInv, Tasks
<1>2. ASSUME NEW u \in Tasks, Active(u)' PROVE u # t /\ Active(u) /\ serving'[u] = serving[u]
  BY <1>2 DEF Active
<1>3. ASSUME NEW j \in Jobs, Active(j)', event'[j] = NoTask PROVE event[j] = NoTask
  <2>1. j \in Tasks /\ j # t /\ Active(j)
    BY <1>2, <1>3 DEF Tasks
  <2>2. serving[j] = j /\ serving[t] # serving[j]
    BY <2>1 DEF ResumedInv, ExclusiveDispatch
  <2> QED
    BY <1>3, <2>2 DEF ApiTypeOK, TypeOK
<1> QED
  BY <1>1, <1>2, <1>3 DEF NothingNew, requestVars

(* Every step of a task keeps the invariant.                               *)
LEMMA DispatchTask ==
    ASSUME \A v, w \in Workers : v = w,
           ApiTypeOK, TasksInv, ResumedInv, ExclusiveDispatch,
           NEW t \in Tasks, TaskStep(t), UNCHANGED requestVars
    PROVE  ResumedInv' /\ ExclusiveDispatch'
<1> USE DEF ApiTypeOK, TypeOK, database
<1>0. \A j \in Jobs : pc[j] \notin {"poll", "claim", "register"} /\ j \in Tasks /\ j \notin Workers
  BY WorkersAssumption DEF ResumedInv, Tasks
<1>1. CASE ClaimUpdate(t)
  BY <1>1, ClaimExclusive
<1>2. CASE ClaimNothing(t) \/ (\E j \in Jobs : ClaimSelect(t, j)) \/ ClaimLost(t)
  <2>1. t \notin Jobs /\ ~Active(t)
    BY <1>0, <1>2 DEF ClaimNothing, ClaimSelect, ClaimLost, Active
  <2>2. /\ \A u \in Tasks : u # t => pc'[u] = pc[u] /\ serving'[u] = serving[u]
        /\ ~Active(t)'
        /\ UNCHANGED <<job, event>>
    BY <1>2 DEF ClaimNothing, ClaimSelect, ClaimLost, Active, runnerVars
  <2>3. NothingNew
    BY <1>0, <2>1, <2>2 DEF NothingNew, Active, requestVars
  <2> QED
    BY <2>3, DispatchCarried
<1>3. CASE Register(t)
  <2>1. \A u \in Tasks : pc'[u] = IF u = t THEN "load" ELSE pc[u]
    BY <1>3 DEF Register
  <2>2. \A j \in Jobs : event'[j] = NoTask => event[j] = NoTask
    BY <1>3, NoTaskAssumption DEF Register
  <2>3. NothingNew
    BY <1>0, <1>3, <2>1, <2>2 DEF NothingNew, Register, Active, requestVars
  <2> QED
    BY <2>3, DispatchCarried
<1>4. CASE \/ Load(t) \/ SeedDenyList(t) \/ FinishDispatch(t) \/ ComputeVerdict(t)
           \/ FailJobBeforeDispatch(t) \/ FinalizeJob(t) \/ Sweep(t)
  <2>1. Active(t) /\ UNCHANGED <<serving, event>>
    BY <1>4 DEF Load, SeedDenyList, FinishDispatch, ComputeVerdict, FailJobBeforeDispatch,
                FinalizeJob, Sweep, Active, TerminalJobStatuses
  <2>2. \A u \in Tasks : u # t => pc'[u] = pc[u]
    BY <1>4 DEF Load, SeedDenyList, FinishDispatch, ComputeVerdict, FailJobBeforeDispatch,
                FinalizeJob, Sweep
  <2>3. pc'[t] \notin {"poll", "claim", "register"}
    <3>1. CASE ComputeVerdict(t)
      <4>1. ComputeJobStatus(RunStatuses(serving[t])) \notin {"poll", "claim", "register"}
        BY VerdictRange DEF TerminalJobStatuses
      <4> QED
        BY <3>1, <4>1 DEF ComputeVerdict
    <3>2. CASE ~ComputeVerdict(t)
      BY <1>4, <3>2 DEF Load, SeedDenyList, FinishDispatch, FailJobBeforeDispatch,
                FinalizeJob, Sweep
    <3> QED
      BY <3>1, <3>2
  <2>4. \A j \in Jobs : job'[j] = "queued" => job[j] = "queued"
    BY <1>4 DEF Load, SeedDenyList, FinishDispatch, ComputeVerdict, FailJobBeforeDispatch,
                FinalizeJob, Sweep, SweepRetention, TerminalJobStatuses, NoRow
  <2>5. NothingNew
    BY <1>0, <2>1, <2>2, <2>3, <2>4 DEF NothingNew, Active, requestVars
  <2> QED
    BY <2>5, DispatchCarried
<1>5. CASE FinalizeRaises(t) \/ Unregister(t)
  <2>1. Active(t) /\ event' = [event EXCEPT ![serving[t]] = NoTask] /\ UNCHANGED job
    BY <1>5 DEF FinalizeRaises, Unregister, Active, TerminalJobStatuses
  <2>2. /\ \A u \in Tasks : u # t => pc'[u] = pc[u] /\ serving'[u] = serving[u]
        /\ pc'[t] \in {"off", "poll", "dead"}
        /\ pc'[t] = "poll" => t \in Workers
    BY <1>5 DEF FinalizeRaises, Unregister
  <2>3. ~Active(t)'
    BY <2>2 DEF Active
  <2>4. NothingNew
    BY <2>1, <2>2, <2>3, PopOwn
  <2> QED
    BY <2>4, DispatchCarried
<1> QED
  BY <1>1, <1>2, <1>3, <1>4, <1>5 DEF TaskStep

(* So does every step of a collector.                                      *)
LEMMA DispatchCollector ==
    ASSUME ApiTypeOK, TasksInv, ResumedInv, ExclusiveDispatch, NEW t \in Tasks,
           NEW c \in Collectors, CollectorStep(t, c), UNCHANGED requestVars
    PROVE  ResumedInv' /\ ExclusiveDispatch'
<1> USE DEF ApiTypeOK, TypeOK, database
<1>1. CASE CollectorRaises(t, c) /\ pc[t] # "dead"
  <2>1. Active(t)
    BY <1>1 DEF CollectorRaises, MayStart, TasksInv, Inside, Active
  <2>2. /\ event' = [event EXCEPT ![serving[t]] = NoTask]
        /\ pc' = [pc EXCEPT ![t] = "dead"]
        /\ UNCHANGED <<job, serving>>
    BY <1>1 DEF CollectorRaises
  <2>3. pc'[t] = "dead" /\ ~Active(t)'
    BY <2>2 DEF Active
  <2>4. NothingNew
    BY <2>1, <2>2, <2>3, PopOwn
  <2> QED
    BY <2>4, DispatchCarried
<1>2. CASE ~(CollectorRaises(t, c) /\ pc[t] # "dead")
  <2>1. UNCHANGED <<job, serving, event>> /\ \A u \in Tasks : pc'[u] = pc[u]
    BY <1>2 DEF CollectorStep, StartCollector, CheckCollector, CollectorAnswers,
                SaveFindings, FinishCollector, CollectorRaises
  <2>2. NothingNew
    BY <2>1 DEF NothingNew, Active, requestVars, ResumedInv, Tasks
  <2> QED
    BY <2>2, DispatchCarried
<1> QED
  BY <1>1, <1>2

(* And every step of a handler: is_active refuses a retry while the resume *)
(* task's Event is registered.                                             *)
LEMMA DispatchRequest ==
    ASSUME ApiTypeOK, ResumedInv, ExclusiveDispatch, NEW r \in Requests, RequestStep(r)
    PROVE  ResumedInv' /\ ExclusiveDispatch'
<1> USE DEF ApiTypeOK, TypeOK, database, process
<1>1. UNCHANGED <<pc, serving, event, ask>>
  BY DEF RequestStep, CancelRead, CancelWrite, CancelSweep, CancelLookup, RetryRead,
         RetryCheck, RetrySelect, RetryCommit, DeleteRead, DeleteCommit, runnerVars
<1>2. ASSUME NEW j \in Jobs, Active(j), job'[j] = "queued" PROVE job[j] = "queued"
  <2>1. CASE RetryCommit(r)
    <3>1. ask[r].job # j
      BY <1>2, <2>1 DEF RetryCommit, Asked, ResumedInv
    <3> QED
      BY <1>2, <2>1, <3>1 DEF RetryCommit
  <2>2. CASE ~RetryCommit(r)
    BY <1>2, <2>2 DEF RequestStep, CancelRead, CancelWrite, CancelSweep, CancelLookup,
              RetryRead, RetryCheck, RetrySelect, DeleteRead, DeleteCommit, runnerVars,
              SweepRetention, NoRow
  <2> QED
    BY <2>1, <2>2
<1>3. \A q \in Requests : q # r => at'[q] = at[q]
  BY DEF RequestStep, CancelRead, CancelWrite, CancelSweep, CancelLookup, RetryRead,
         RetryCheck, RetrySelect, RetryCommit, DeleteRead, DeleteCommit, Goto
<1>4. ASSUME at'[r] \in {"select", "commit"}, ask[r].kind = "retry",
             NEW j \in Jobs, ask[r].job = j, Active(j)
      PROVE  at[r] \in {"select", "commit"}
  <2>1. CASE RetryCheck(r)
    <3>1. event[j] # NoTask
      BY <1>4 DEF ResumedInv
    <3>2. at'[r] = "refused"
      BY <1>4, <2>1, <3>1 DEF RetryCheck, Goto
    <3> QED
      BY <1>4, <3>2
  <2>2. CASE RetryRead(r)
    BY <1>4, <2>2 DEF RetryRead, Goto
  <2>3. CASE RetrySelect(r) \/ RetryCommit(r)
    BY <2>3 DEF RetrySelect, RetryCommit, Asked
  <2> QED
    BY <1>4, <2>1, <2>2, <2>3
       DEF RequestStep, CancelRead, CancelWrite, CancelSweep, CancelLookup, DeleteRead,
           DeleteCommit, Asked
<1>5. NothingNew
  BY <1>1, <1>2, <1>3, <1>4 DEF NothingNew, Active, ResumedInv
<1> QED
  BY <1>5, DispatchCarried

(* One step of anything, from a state where the invariant holds.           *)
LEMMA DispatchKept ==
    ASSUME \A v, w \in Workers : v = w,
           ApiTypeOK, DispatchInv, [Next]_vars
    PROVE  DispatchInv'
<1> USE DEF DispatchInv
<1>1. TasksInv' /\ DownInv'
  BY TasksInvKept, DownInvKept
<1>2. ResumedInv' /\ ExclusiveDispatch'
  <2>1. ASSUME NEW sources \in Selections, CreateJob(sources), UNCHANGED requestVars
        PROVE  ResumedInv' /\ ExclusiveDispatch'
    <3>1. ASSUME NEW j \in Jobs, Active(j), job'[j] = "queued" PROVE job[j] = "queued"
      <4>1. serving[j] = j /\ serving[j] <= created /\ created \in Nat
        BY <3>1, NumJobsAssumption DEF ResumedInv, TasksInv, Tasks, ApiTypeOK, TypeOK
      <4>2. j # created + 1
        BY <4>1
      <4> QED
        BY <2>1, <3>1, <4>2 DEF CreateJob, ApiTypeOK, TypeOK
    <3>2. NothingNew
      BY <2>1, <3>1 DEF CreateJob, process, NothingNew, Active, requestVars, ResumedInv
    <3> QED
      BY <3>2, DispatchCarried
  <2>2. CASE (\E j \in Jobs : Expire(j)) /\ UNCHANGED requestVars
    <3>1. NothingNew
      BY <2>2 DEF Expire, process, NothingNew, Active, requestVars, ResumedInv
    <3> QED
      BY <3>1, DispatchCarried
  <2>3. CASE Restart /\ UNCHANGED requestVars
    <3>1. ASSUME NEW t \in Tasks, Active(t)'
          PROVE  t \in Jobs /\ Resumable(t) /\ serving'[t] = t
      BY <2>3, <3>1 DEF Restart, Active, Tasks
    <3>2. ASSUME NEW j \in Jobs, Active(j)'
          PROVE  serving'[j] = j /\ job'[j] # "queued" /\ event'[j] # NoTask
      <4>1. Resumable(j) /\ serving'[j] = j
        BY <3>1, <3>2 DEF Tasks
      <4> QED
        BY <2>3, <4>1, NoTaskAssumption DEF Restart, Resumable, Tasks, NoRow
    <3>3. \A r \in Requests : at'[r] \notin {"select", "commit"}
      BY <2>3 DEF Restart, DownInv, requestVars, Going, Answers
    <3>4. \A j \in Jobs : pc'[j] \notin {"poll", "claim", "register"}
      BY <2>3, WorkersAssumption DEF Restart, Tasks
    <3> QED
      BY <3>1, <3>2, <3>3, <3>4 DEF ResumedInv, ExclusiveDispatch
  <2>4. CASE Stop
    BY <2>4 DEF Stop, Crash, ResumedInv, ExclusiveDispatch, Active, Tasks
  <2>5. ASSUME NEW r \in Requests, NEW question \in Questions, Send(r, question)
        PROVE  ResumedInv' /\ ExclusiveDispatch'
    <3>1. /\ at' = [at EXCEPT ![r] = "read"]
          /\ ask' = [ask EXCEPT ![r] = question]
          /\ UNCHANGED runnerVars
      BY <2>5 DEF Send, Goto
    <3>2. \A q \in Requests : at'[q] \in {"select", "commit"} => at'[q] = at[q] /\ ask'[q] = ask[q]
      BY <3>1 DEF ApiTypeOK
    <3>3. NothingNew
      BY <3>1, <3>2 DEF runnerVars, NothingNew, Active, ResumedInv
    <3> QED
      BY <3>3, DispatchCarried
  <2>6. CASE UNCHANGED vars
    <3>1. NothingNew
      BY <2>6 DEF vars, NothingNew, Active, ResumedInv
    <3> QED
      BY <3>1, DispatchCarried
  <2> QED
    BY <2>1, <2>2, <2>3, <2>4, <2>5, <2>6, DispatchTask, DispatchCollector, DispatchRequest
       DEF Next, RunnerStep
<1> QED
  BY <1>1, <1>2

(* With one worker loop, the default of max_concurrent_jobs, the inductive *)
(* invariant holds for any number of jobs, collectors, crashes and         *)
(* requests (runner.py 87-137, api/jobs.py 147-186).                       *)
THEOREM DispatchInvariant ==
    ASSUME \A v, w \in Workers : v = w
    PROVE  Spec => []DispatchInv
<1>1. Init => DispatchInv
  <2> SUFFICES ASSUME Init PROVE DispatchInv
    OBVIOUS
  <2>1. TasksInv
    BY NumJobsAssumption
       DEF Init, RunnerInit, TasksInv, Inside, NoWork, NoJob, TerminalCollectorStatuses
  <2>2. DownInv
    BY DEF Init, RunnerInit, DownInv
  <2>3. ResumedInv
    BY WorkersAssumption DEF Init, RunnerInit, ResumedInv, Active, Tasks
  <2>4. ExclusiveDispatch
    BY DEF Init, RunnerInit, ExclusiveDispatch, Active
  <2> QED
    BY <2>1, <2>2, <2>3, <2>4 DEF DispatchInv
<1>2. ApiTypeOK /\ DispatchInv /\ [Next]_vars => DispatchInv'
  BY DispatchKept
<1> QED
  BY <1>1, <1>2, Typed, PTL DEF Spec

(* With one worker loop no two tasks ever run the same job: claims, resume *)
(* tasks, retries and crashes give a job one dispatcher at most.           *)
THEOREM OneDispatcher ==
    ASSUME \A v, w \in Workers : v = w
    PROVE  Spec => []ExclusiveDispatch
<1>1. DispatchInv => ExclusiveDispatch
  BY DEF DispatchInv
<1> QED
  BY <1>1, DispatchInvariant, PTL
-----------------------------------------------------------------------------
(* A step of a running server leaves a job that reads RUNNING to the task  *)
(* that works on it: run_job writes a verdict before it unregisters, and   *)
(* an exception ends it only when its job is gone.                         *)
LEMMA ServedStays ==
    ASSUME ApiTypeOK, TasksInv, AbandonInv, ~Restart, ~Stop, [Next]_vars,
           NEW j \in Jobs, job'[j] = "running", job[j] = "running" => Served(j)
    PROVE  Served(j)'
<1> USE DEF ApiTypeOK, TypeOK, database, process
<1>1. ASSUME job[j] = "running", UNCHANGED <<pc, serving>> PROVE Served(j)'
  BY <1>1 DEF Served, Active
<1>2. ASSUME NEW sources \in Selections, CreateJob(sources) PROVE Served(j)'
  BY <1>1, <1>2 DEF CreateJob
<1>3. ASSUME NEW k \in Jobs, Expire(k) PROVE Served(j)'
  BY <1>1, <1>3 DEF Expire
<1>4. ASSUME NEW t \in Tasks, TaskStep(t) PROVE Served(j)'
  <2>1. CASE ClaimUpdate(t) /\ serving[t] = j
    BY <2>1 DEF ClaimUpdate, Served, Active
  <2>2. CASE ~(ClaimUpdate(t) /\ serving[t] = j)
    <3>1. job[j] = "running"
      BY <1>4, <2>2 DEF TaskStep, ClaimNothing, ClaimSelect, ClaimUpdate, ClaimLost, Register,
              Load, SeedDenyList, FailJobBeforeDispatch, FinishDispatch, ComputeVerdict,
              FinalizeJob, FinalizeRaises, Sweep, SweepRetention, Unregister, runnerVars,
              TerminalJobStatuses, NoRow
    <3>2. PICK u \in Tasks : Active(u) /\ serving[u] = j
      BY <3>1 DEF Served
    <3>3. CASE u # t
      <4>1. pc'[u] = pc[u] /\ serving'[u] = serving[u]
        BY <1>4, <3>3, TaskFrame
      <4> QED
        BY <3>2, <4>1 DEF Served, Active
    <3>4. CASE u = t
      <4>1. ~FinalizeRaises(t) /\ ~Unregister(t)
        BY <3>1, <3>2, <3>4 DEF FinalizeRaises, Unregister, AbandonInv, NoRow
      <4>2. pc[t] \notin {"off", "poll", "claim", "dead"}
        BY <3>2, <3>4 DEF Active
      <4>3. CASE ComputeVerdict(t)
        <5>1. ComputeJobStatus(RunStatuses(j)) \in TerminalJobStatuses
          BY VerdictRange
        <5> QED
          BY <3>2, <3>4, <4>3, <5>1 DEF ComputeVerdict, Served, Active, TerminalJobStatuses
      <4>4. CASE ~ComputeVerdict(t)
        BY <1>4, <3>2, <3>4, <4>1, <4>2, <4>4
           DEF TaskStep, ClaimNothing, ClaimSelect, ClaimUpdate, ClaimLost, Register, Load,
               SeedDenyList, FailJobBeforeDispatch, FinishDispatch, FinalizeJob, Sweep,
               Served, Active
      <4> QED
        BY <4>3, <4>4
    <3> QED
      BY <3>3, <3>4
  <2> QED
    BY <2>1, <2>2
<1>5. ASSUME NEW t \in Tasks, NEW c \in Collectors, CollectorStep(t, c) PROVE Served(j)'
  <2>1. job[j] = "running" /\ UNCHANGED serving
    BY <1>5 DEF CollectorStep, StartCollector, CheckCollector, CollectorAnswers, SaveFindings,
                FinishCollector, CollectorRaises
  <2>2. CASE CollectorRaises(t, c)
    <3>1. serving[t] # j /\ \A u \in Tasks : u # t => pc'[u] = pc[u]
      BY <2>1, <2>2 DEF CollectorRaises, NoRow
    <3> QED
      BY <2>1, <3>1 DEF Served, Active
  <2>3. CASE ~CollectorRaises(t, c)
    BY <1>1, <1>5, <2>1, <2>3 DEF CollectorStep, StartCollector, CheckCollector,
              CollectorAnswers, SaveFindings, FinishCollector
  <2> QED
    BY <2>2, <2>3
<1>6. ASSUME NEW r \in Requests, NEW question \in Questions, Send(r, question)
      PROVE  Served(j)'
  BY <1>1, <1>6 DEF Send, runnerVars
<1>7. ASSUME NEW r \in Requests, RequestStep(r) PROVE Served(j)'
  <2>1. UNCHANGED <<pc, serving>>
    BY <1>7 DEF RequestStep, CancelRead, CancelWrite, CancelSweep, CancelLookup, RetryRead,
           RetryCheck, RetrySelect, RetryCommit, DeleteRead, DeleteCommit, runnerVars
  <2>2. job[j] = "running"
    BY <1>7 DEF RequestStep, CancelRead, CancelWrite, CancelSweep, CancelLookup, RetryRead,
           RetryCheck, RetrySelect, RetryCommit, DeleteRead, DeleteCommit, runnerVars,
           SweepRetention, NoRow
  <2> QED
    BY <1>1, <2>1, <2>2
<1>8. CASE UNCHANGED vars
  BY <1>1, <1>8 DEF vars
<1> QED
  BY <1>2, <1>3, <1>4, <1>5, <1>6, <1>7, <1>8 DEF Next, RunnerStep

(* A server is started by Restart and stopped by Stop alone.               *)
LEMMA UpStays ==
    ASSUME ApiTypeOK, ~Restart, [Next]_vars, up'
    PROVE  up /\ ~Stop
<1>1. ~Stop
  BY DEF Stop, Crash
<1>2. ASSUME NEW r \in Requests, RequestStep(r) PROVE up' = up
  BY <1>2 DEF RequestStep, CancelRead, CancelWrite, CancelSweep, CancelLookup, RetryRead,
         RetryCheck, RetrySelect, RetryCommit, DeleteRead, DeleteCommit, runnerVars, process
<1>3. ASSUME NEW t \in Tasks, NEW c \in Collectors, CollectorStep(t, c) PROVE up' = up
  BY <1>3 DEF CollectorStep, StartCollector, CheckCollector, CollectorAnswers, SaveFindings,
              FinishCollector, CollectorRaises
<1> QED
  BY <1>1, <1>2, <1>3, TaskFrame
     DEF ApiTypeOK, Next, RunnerStep, CreateJob, Expire, Send, process, runnerVars, vars

(* A collector run is taken away or ended, or left as it is, by every step *)
(* but the four that create, start, restart and retry runs.                *)
LEMMA RunsEnd ==
    ASSUME ApiTypeOK, [Next]_vars, ~Restart,
           \A sources \in Selections : ~CreateJob(sources),
           \A t \in Tasks, c \in Collectors : ~StartCollector(t, c),
           \A r \in Requests : ~RetryCommit(r),
           NEW j \in Jobs, NEW c \in Collectors
    PROVE  run'[j][c] \in {run[j][c], NoRow} \cup TerminalCollectorStatuses
<1> USE DEF ApiTypeOK, TypeOK, database, process
<1>1. ASSUME NEW cascade \in BOOLEAN, SweepRetention(cascade)
      PROVE  run'[j][c] \in {run[j][c], NoRow}
  BY <1>1 DEF SweepRetention
<1>2. ASSUME NEW t \in Tasks, FailJobBeforeDispatch(t)
      PROVE  run'[j][c] \in {run[j][c], "failed"}
  BY <1>2 DEF FailJobBeforeDispatch
<1>3. ASSUME NEW t \in Tasks, TaskStep(t), ~FailJobBeforeDispatch(t)
      PROVE  run'[j][c] \in {run[j][c], NoRow}
  BY <1>1, <1>3 DEF TaskStep, ClaimNothing, ClaimSelect, ClaimUpdate, ClaimLost, Register, Load,
            SeedDenyList, FinishDispatch, ComputeVerdict, FinalizeJob, FinalizeRaises, Sweep,
            Unregister, runnerVars
<1>4. ASSUME NEW t \in Tasks, NEW d \in Collectors, CollectorStep(t, d)
      PROVE  run'[j][c] \in {run[j][c], NoRow} \cup TerminalCollectorStatuses
  <2>1. CASE FinishCollector(t, d)
    BY <2>1 DEF FinishCollector
  <2>2. CASE ~FinishCollector(t, d)
    BY <1>4, <2>2 DEF CollectorStep, CheckCollector, CollectorAnswers, SaveFindings,
              CollectorRaises
  <2> QED
    BY <2>1, <2>2
<1>5. ASSUME NEW r \in Requests, RequestStep(r), ~DeleteCommit(r)
      PROVE  run'[j][c] \in {run[j][c], NoRow}
  BY <1>1, <1>5 DEF RequestStep, CancelRead, CancelWrite, CancelSweep, CancelLookup, RetryRead,
         RetryCheck, RetrySelect, DeleteRead, runnerVars
<1>6. CASE \/ \E k \in Jobs : Expire(k)
           \/ Stop
           \/ \E r \in Requests, question \in Questions : Send(r, question)
           \/ UNCHANGED vars
  BY <1>6 DEF Expire, Stop, Crash, Send, runnerVars, vars
<1>7. ASSUME NEW r \in Requests, DeleteCommit(r) PROVE run'[j][c] \in {run[j][c], NoRow}
  <2>1. run' = [run EXCEPT ![ask[r].job] = [d \in Collectors |-> NoRow]]
    BY <1>7 DEF DeleteCommit
  <2>2. CASE j = ask[r].job
    BY <2>1, <2>2
  <2>3. CASE j # ask[r].job
    BY <2>1, <2>3
  <2> QED
    BY <2>2, <2>3
<1>8. "failed" \in TerminalCollectorStatuses
  BY DEF TerminalCollectorStatuses
<1> QED
  BY <1>2, <1>3, <1>4, <1>5, <1>6, <1>7, <1>8 DEF Next, RunnerStep

(* Only recovery and a retry give a RUNNING job something to run.          *)
LEMMA PendingShrinks ==
    ASSUME ApiTypeOK, ~Restart, \A r \in Requests : ~RetryCommit(r), [Next]_vars,
           NEW j \in Jobs, job'[j] = "running"
    PROVE  Pending(j)' \subseteq Pending(j)
<1> SUFFICES ASSUME NEW c \in Collectors, run'[j][c] \in {"queued", "interrupted"}
             PROVE  run'[j][c] = run[j][c]
  BY DEF Pending
<1> USE DEF ApiTypeOK, TypeOK
<1>1. ASSUME NEW sources \in Selections, CreateJob(sources) PROVE run'[j][c] = run[j][c]
  BY <1>1 DEF CreateJob
<1>2. ASSUME NEW t \in Tasks, NEW d \in Collectors, StartCollector(t, d)
      PROVE  run'[j][c] = run[j][c]
  BY <1>2 DEF StartCollector
<1>3. NoRow \notin {"queued", "interrupted"}
      /\ TerminalCollectorStatuses \cap {"queued", "interrupted"} = {}
  BY DEF NoRow, TerminalCollectorStatuses
<1> QED
  BY <1>1, <1>2, <1>3, RunsEnd

(* A job that a task is about to leave does not become RUNNING again: the  *)
(* one worker loop is the task itself, or claims another job.              *)
LEMMA LeavingKept ==
    ASSUME \A v, w \in Workers : v = w,
           ApiTypeOK, TasksInv, ResumedInv, AbandonInv, [Next]_vars,
           NEW t \in Tasks, pc'[t] \in {"sweep", "unregister"}
    PROVE  job'[serving'[t]] # "running"
<1> USE DEF ApiTypeOK, TypeOK, database, process
<1>1. ASSUME pc[t] \in {"sweep", "unregister"}, serving'[t] = serving[t],
             \A j \in Jobs : job'[j] = "running" => job[j] = "running"
      PROVE  job'[serving'[t]] # "running"
  <2>1. serving[t] \in Jobs /\ job[serving[t]] # "running"
    BY <1>1 DEF TasksInv, AbandonInv
  <2> QED
    BY <1>1, <2>1
<1>2. ASSUME NEW sources \in Selections, CreateJob(sources) PROVE job'[serving'[t]] # "running"
  BY <1>1, <1>2 DEF CreateJob
<1>3. ASSUME NEW u \in Tasks, TaskStep(u) PROVE job'[serving'[t]] # "running"
  <2>1. CASE ClaimUpdate(u)
    <3>1. u \in Workers /\ u # t /\ UNCHANGED serving
      BY <2>1 DEF ClaimUpdate, ResumedInv, Tasks
    <3>2. pc[t] \in {"sweep", "unregister"} /\ job[serving[u]] = "queued"
      BY <2>1, <3>1 DEF ClaimUpdate
    <3>3. t \in Jobs /\ Active(t)
      BY <3>1, <3>2 DEF Tasks, Active
    <3>4. serving[t] # serving[u]
      BY <3>2, <3>3 DEF ResumedInv
    <3>5. serving[t] \in Jobs /\ job[serving[t]] # "running"
      BY <3>2 DEF TasksInv, AbandonInv
    <3> QED
      BY <2>1, <3>1, <3>4, <3>5 DEF ClaimUpdate
  <2>2. CASE ~ClaimUpdate(u) /\ u # t
    <3>1. \A j \in Jobs : job'[j] = "running" => job[j] = "running"
      BY <1>3, <2>2 DEF TaskStep, ClaimNothing, ClaimSelect, ClaimLost, Register, Load,
              SeedDenyList, FailJobBeforeDispatch, FinishDispatch, ComputeVerdict,
              FinalizeJob, FinalizeRaises, Sweep, SweepRetention, Unregister, runnerVars,
              TerminalJobStatuses, NoRow
    <3>2. pc'[t] = pc[t] /\ serving'[t] = serving[t]
      BY <1>3, <2>2, TaskFrame
    <3> QED
      BY <1>1, <3>1, <3>2
  <2>3. CASE u = t /\ (Load(t) \/ FailJobBeforeDispatch(t) \/ FinalizeJob(t))
    <3>1. serving[t] \in Jobs
      BY <2>3 DEF TasksInv, Load, FailJobBeforeDispatch, FinalizeJob, TerminalJobStatuses
    <3> QED
      BY <2>3, <3>1
         DEF Load, FailJobBeforeDispatch, FinalizeJob, TerminalJobStatuses, NoRow
  <2>4. CASE u = t /\ Sweep(t)
    BY <1>1, <2>4 DEF Sweep, SweepRetention, NoRow
  <2>5. CASE u = t /\ ComputeVerdict(t)
    <3>1. ComputeJobStatus(RunStatuses(serving[t])) \in TerminalJobStatuses
      BY VerdictRange
    <3> QED
      BY <2>5, <3>1 DEF ComputeVerdict, TerminalJobStatuses
  <2>6. CASE u = t /\ (ClaimNothing(t) \/ (\E j \in Jobs : ClaimSelect(t, j))
                       \/ ClaimLost(t) \/ Register(t) \/ SeedDenyList(t)
                       \/ FinishDispatch(t) \/ FinalizeRaises(t) \/ Unregister(t))
    BY <1>1, <2>6 DEF ClaimNothing, ClaimSelect, ClaimLost, Register, SeedDenyList,
              FinishDispatch, FinalizeRaises, Unregister, runnerVars
  <2> QED
    BY <1>3, <2>1, <2>2, <2>3, <2>4, <2>5, <2>6 DEF TaskStep
<1>4. ASSUME NEW u \in Tasks, NEW c \in Collectors, CollectorStep(u, c)
      PROVE  job'[serving'[t]] # "running"
  BY <1>1, <1>4 DEF CollectorStep, StartCollector, CheckCollector, CollectorAnswers,
            SaveFindings, FinishCollector, CollectorRaises
<1>5. ASSUME NEW r \in Requests, RequestStep(r) PROVE job'[serving'[t]] # "running"
  <2>1. UNCHANGED <<pc, serving>>
    BY <1>5 DEF RequestStep, CancelRead, CancelWrite, CancelSweep, CancelLookup, RetryRead,
           RetryCheck, RetrySelect, RetryCommit, DeleteRead, DeleteCommit, runnerVars
  <2>2. \A j \in Jobs : job'[j] = "running" => job[j] = "running"
    BY <1>5 DEF RequestStep, CancelRead, CancelWrite, CancelSweep, CancelLookup, RetryRead,
           RetryCheck, RetrySelect, RetryCommit, DeleteRead, DeleteCommit, runnerVars,
           SweepRetention, NoRow
  <2> QED
    BY <1>1, <2>1, <2>2
<1>6. CASE \/ \E j \in Jobs : Expire(j)
           \/ \E r \in Requests, question \in Questions : Send(r, question)
           \/ UNCHANGED vars
  BY <1>1, <1>6 DEF Expire, Send, runnerVars, vars
<1>7. ~Restart /\ ~Stop
  BY DEF Restart, Stop, Crash
<1> QED
  BY <1>2, <1>3, <1>4, <1>5, <1>6, <1>7 DEF Next, RunnerStep

(* A retry that has read the job QUEUED, and will leave it as it is.       *)
Careless(r) ==
    at[r] \in {"check", "select", "commit"} /\ ask[r].kind = "retry" /\ seen[r] = "queued"

(* It has read so before the job was claimed, if it has been claimed.      *)
LEMMA CarelessKept ==
    ASSUME ApiTypeOK, [Next]_vars, NEW r \in Requests, Careless(r)'
    PROVE  /\ ask[r].job \in Jobs /\ ask'[r] = ask[r]
           /\ Careless(r) \/ job'[ask[r].job] = "queued"
<1> USE DEF ApiTypeOK, Careless
<1>1. CASE UNCHANGED requestVars
  BY <1>1 DEF requestVars, Going, Answers, Questions
<1>2. ASSUME NEW q \in Requests, RequestStep(q)
      PROVE  /\ UNCHANGED ask
             /\ q # r => at'[r] = at[r] /\ seen'[r] = seen[r]
             /\ q = r => Careless(r) \/ RetryRead(r)
  BY <1>2 DEF RequestStep, CancelRead, CancelWrite, CancelSweep, CancelLookup, RetryRead,
         RetryCheck, RetrySelect, RetryCommit, DeleteRead, DeleteCommit, Goto, Asked
<1>3. ASSUME RetryRead(r)
      PROVE  ask[r].job \in Jobs /\ ask'[r] = ask[r] /\ job'[ask[r].job] = "queued"
  <2>1. ask[r].job \in Jobs
    BY <1>3 DEF RetryRead, Asked, Going, Answers, Questions
  <2> QED
    BY <1>3, <2>1 DEF RetryRead, runnerVars
<1>4. ASSUME NEW q \in Requests, NEW question \in Questions, Send(q, question)
      PROVE  at'[r] = at[r] /\ ask'[r] = ask[r] /\ seen'[r] = seen[r]
  BY <1>4 DEF Send, Goto
<1>5. ~Stop
  BY DEF Stop, Going, Answers
<1>6. Careless(r) => ask[r].job \in Jobs
  BY DEF Going, Answers, Questions
<1>7. UNCHANGED vars => UNCHANGED requestVars
  BY DEF vars, requestVars
<1> QED
  BY <1>1, <1>2, <1>3, <1>4, <1>5, <1>6, <1>7 DEF Next

LEMMA AbandonKept ==
    ASSUME \A v, w \in Workers : v = w,
           ApiTypeOK, ApiTypeOK', DispatchInv, AbandonInv, [Next]_vars
    PROVE  AbandonInv'
<1> USE DEF DispatchInv
<1>1. ASSUME NEW t \in Tasks, pc'[t] \in {"sweep", "unregister"}
      PROVE  job'[serving'[t]] # "running"
  BY <1>1, LeavingKept
<1>2. ASSUME NEW r \in Requests, Careless(r)', NEW j \in Jobs, ask'[r].job = j,
             job'[j] = "running"
      PROVE  Served(j)'
  <2>1. ask[r].job = j /\ Careless(r)
    BY <1>2, CarelessKept
  <2>2. job[j] = "running" => Served(j)
    BY <2>1 DEF AbandonInv, Careless
  <2>3. ~Restart /\ ~Stop
    BY <1>2, <2>1 DEF Stop, Restart, DownInv, Careless, ApiTypeOK, Going, Answers
  <2> QED
    BY <1>2, <2>2, <2>3, ServedStays
<1>3. ASSUME NEW j \in Jobs, up', job'[j] = "running", Pending(j)' # {}
      PROVE  Served(j)'
  <2>1. CASE Restart
    <3>1. PICK c \in Collectors : run'[j][c] \in {"queued", "interrupted"}
      BY <1>3 DEF Pending
    <3>2. Resumable(j)
      BY <1>3, <2>1, <3>1 DEF Restart, Resumable, NoRow
    <3>3. j \in Tasks /\ j \notin Workers
      BY WorkersAssumption DEF Tasks
    <3> QED
      BY <2>1, <3>2, <3>3 DEF Restart, Served, Active
  <2>2. CASE ~Restart
    <3>0. ~Stop /\ up
      BY <1>3, <2>2, UpStays
    <3>1. ASSUME Pending(j) # {} PROVE Served(j)'
      BY <1>3, <2>2, <3>0, <3>1, ServedStays DEF AbandonInv, NoAbandonedWork, Served
    <3>2. CASE \A r \in Requests : ~RetryCommit(r)
      BY <1>3, <2>2, <3>1, <3>2, PendingShrinks
    <3>3. ASSUME NEW r \in Requests, RetryCommit(r) PROVE Served(j)'
      <4>1. CASE run'[j] = run[j]
        BY <1>3, <3>1, <4>1 DEF Pending
      <4>2. CASE run'[j] # run[j]
        <5>1. ask[r].job = j /\ job' = job /\ seen[r] = "queued" /\ Careless(r)
          BY <1>3, <3>3, <4>2 DEF RetryCommit, Asked, ApiTypeOK, TypeOK, Careless
        <5>2. job[j] = "running" => Served(j)
          BY <5>1 DEF AbandonInv, Careless
        <5> QED
          BY <1>3, <2>2, <3>0, <5>2, ServedStays
      <4> QED
        BY <4>1, <4>2
    <3> QED
      BY <3>2, <3>3
  <2> QED
    BY <2>1, <2>2
<1>4. NoAbandonedWork'
  BY <1>3 DEF NoAbandonedWork, Served
<1>5. ASSUME NEW r \in Requests, Careless(r)', job'[ask'[r].job] = "running"
      PROVE  Served(ask[r].job)'
  <2>1. ask'[r].job \in Jobs
    BY <1>5, CarelessKept
  <2>2. PICK j \in Jobs : j = ask'[r].job
    BY <2>1
  <2>3. Served(j)'
    BY <1>2, <1>5, <2>2
  <2> QED
    BY <2>2, <2>3 DEF Served
<1> QED
  BY <1>1, <1>4, <1>5 DEF AbandonInv, Careless

(* With one worker loop a RUNNING job that has a collector to run is never *)
(* left without a task that will run it, whatever is retried, cancelled or *)
(* deleted meanwhile and after any number of crashes (runner.py 87-163,    *)
(* api/jobs.py 147-186).                                                   *)
THEOREM NothingAbandoned ==
    ASSUME \A v, w \in Workers : v = w
    PROVE  Spec => []NoAbandonedWork
<1>1. Init => AbandonInv
  BY DEF Init, RunnerInit, AbandonInv, NoAbandonedWork, NoRow
<1>2. ApiTypeOK /\ ApiTypeOK' /\ DispatchInv /\ AbandonInv /\ [Next]_vars => AbandonInv'
  BY AbandonKept
<1>3. AbandonInv => NoAbandonedWork
  BY DEF AbandonInv
<1> QED
  BY <1>1, <1>2, <1>3, Typed, DispatchInvariant, PTL DEF Spec

-----------------------------------------------------------------------------
(* A task belongs to a job from the claim to its end, a dead one for good: *)
(* its coroutines may still be at work.                                    *)
Bound(t) == Active(t) \/ pc[t] = "dead"

LEMMA BoundSteps ==
    ASSUME ApiTypeOK, TasksInv, ~Restart, ~Stop, [Next]_vars, NEW t \in Tasks, Bound(t)',
           ~ClaimUpdate(t)
    PROVE  Bound(t) /\ serving'[t] = serving[t]
<1> USE DEF ApiTypeOK, TypeOK, process
<1>1. ASSUME UNCHANGED <<pc, serving>> PROVE Bound(t) /\ serving'[t] = serving[t]
  BY <1>1 DEF Bound, Active
<1>2. ASSUME NEW u \in Tasks, TaskStep(u) PROVE Bound(t) /\ serving'[t] = serving[t]
  <2>1. CASE u # t
    <3>1. pc'[t] = pc[t] /\ serving'[t] = serving[t]
      BY <1>2, <2>1, TaskFrame
    <3> QED
      BY <3>1 DEF Bound, Active
  <2>2. CASE u = t
    BY <1>2, <2>2 DEF TaskStep, ClaimNothing, ClaimSelect, ClaimUpdate, ClaimLost, Register,
            Load, SeedDenyList, FailJobBeforeDispatch, FinishDispatch, ComputeVerdict,
            FinalizeJob, FinalizeRaises, Sweep, Unregister, runnerVars, Bound, Active,
            TerminalJobStatuses
  <2> QED
    BY <2>1, <2>2
<1>3. ASSUME NEW u \in Tasks, NEW c \in Collectors, CollectorStep(u, c)
      PROVE  Bound(t) /\ serving'[t] = serving[t]
  <2>1. CASE CollectorRaises(u, c)
    <3>1. pc[u] \in {"dispatch", "dead"}
      BY <1>3, <2>1 DEF CollectorRaises, MayStart, TasksInv, Inside
    <3>2. UNCHANGED serving /\ \A v \in Tasks : v # u => pc'[v] = pc[v]
      BY <2>1 DEF CollectorRaises
    <3> QED
      BY <3>1, <3>2 DEF Bound, Active
  <2>2. CASE ~CollectorRaises(u, c)
    BY <1>1, <1>3, <2>2 DEF CollectorStep, StartCollector, CheckCollector,
              CollectorAnswers, SaveFindings, FinishCollector
  <2> QED
    BY <2>1, <2>2
<1>4. ASSUME NEW r \in Requests, RequestStep(r) PROVE UNCHANGED <<pc, serving>>
  BY <1>4 DEF RequestStep, CancelRead, CancelWrite, CancelSweep, CancelLookup, RetryRead,
         RetryCheck, RetrySelect, RetryCommit, DeleteRead, DeleteCommit, runnerVars
<1>5. CASE \/ \E sources \in Selections : CreateJob(sources)
           \/ \E j \in Jobs : Expire(j)
           \/ \E r \in Requests, question \in Questions : Send(r, question)
           \/ UNCHANGED vars
  BY <1>1, <1>5 DEF CreateJob, Expire, Send, runnerVars, vars
<1> QED
  BY <1>1, <1>2, <1>3, <1>4, <1>5 DEF Next, RunnerStep

(* Whoever works on a job, or died of its loss, is alone with it.          *)
LEMMA DeadApartKept ==
    ASSUME ApiTypeOK, TasksInv, ExclusiveDispatch, DeadInv, DeadApart, [Next]_vars
    PROVE  DeadApart'
<1> SUFFICES ASSUME NEW t \in Tasks, NEW u \in Tasks, t # u, pc'[t] = "dead", Bound(u)'
             PROVE  serving'[t] # serving'[u]
  BY DEF DeadApart, Bound
<1> USE DEF ApiTypeOK, TypeOK
<1>1. ~Restart /\ ~Stop
  BY DEF Restart, Stop, Crash
<1>2. ~ClaimUpdate(t)
  BY DEF ClaimUpdate
<1>3. Bound(t) /\ serving'[t] = serving[t]
  BY <1>1, <1>2, BoundSteps DEF Bound
<1>4. CASE ~ClaimUpdate(u)
  <2>1. Bound(u) /\ serving'[u] = serving[u]
    BY <1>1, <1>4, BoundSteps
  <2> QED
    BY <1>3, <2>1 DEF Bound, DeadApart, ExclusiveDispatch
<1>5. CASE ClaimUpdate(u)
  <2>1. pc[t] = "dead" /\ UNCHANGED serving /\ job[serving[u]] = "queued"
    BY <1>5 DEF ClaimUpdate
  <2> QED
    BY <2>1 DEF DeadInv, NoRow
<1> QED
  BY <1>4, <1>5

-----------------------------------------------------------------------------
(* A step that starts no coroutine, stores nothing and creates no job.     *)
StoresNothing ==
    /\ created' = created
    /\ \A t \in Tasks, c \in Collectors :
           Storing(t, c)' => Storing(t, c) /\ serving'[t] = serving[t]
    /\ \A j \in Jobs, c \in Collectors :
           /\ rows'[j][c] \in {rows[j][c], 0}
           /\ run'[j][c] # NoRow =>
                  /\ run[j][c] # NoRow
                  /\ rows'[j][c] = rows[j][c]
                  /\ attempts'[j][c] = attempts[j][c]

LEMMA AttemptsCarried ==
    ASSUME TasksInv, AttemptLeft, NothingAhead, RowsWithinAttempts, StoresNothing
    PROVE  AttemptLeft' /\ NothingAhead' /\ RowsWithinAttempts'
<1>1. ASSUME NEW t \in Tasks, NEW c \in Collectors, Storing(t, c)',
             run'[serving'[t]][c] # NoRow
      PROVE  rows'[serving'[t]][c] < attempts'[serving'[t]][c]
  <2>1. Storing(t, c) /\ serving'[t] = serving[t]
    BY <1>1 DEF StoresNothing
  <2>2. serving[t] \in Jobs
    BY <2>1 DEF TasksInv, Storing, Inside
  <2>3. /\ run[serving[t]][c] # NoRow
        /\ rows'[serving[t]][c] = rows[serving[t]][c]
        /\ attempts'[serving[t]][c] = attempts[serving[t]][c]
    BY <1>1, <2>1, <2>2 DEF StoresNothing
  <2> QED
    BY <2>1, <2>2, <2>3 DEF AttemptLeft
<1>2. AttemptLeft'
  BY <1>1 DEF AttemptLeft
<1>3. NothingAhead'
  BY DEF StoresNothing, NothingAhead
<1>4. RowsWithinAttempts'
  BY DEF StoresNothing, RowsWithinAttempts
<1> QED
  BY <1>2, <1>3, <1>4

LEMMA AttemptsTask ==
    ASSUME TypeOK, TasksInv, NEW t \in Tasks, TaskStep(t)
    PROVE  StoresNothing
<1> USE DEF TypeOK, database
<1>1. ASSUME \A c \in Collectors : Storing(t, c)' => Storing(t, c) /\ serving'[t] = serving[t]
      PROVE  \A u \in Tasks, c \in Collectors :
                 Storing(u, c)' => Storing(u, c) /\ serving'[u] = serving[u]
  BY <1>1, TaskFrame DEF Storing
<1>2. CASE FailJobBeforeDispatch(t)
  <2>1. /\ created' = created /\ rows' = rows /\ attempts' = attempts
        /\ \A j \in Jobs, c \in Collectors : run'[j][c] # NoRow => run[j][c] # NoRow
    BY <1>2 DEF FailJobBeforeDispatch
  <2>2. \A c \in Collectors : ~Storing(t, c)'
    BY <1>2 DEF FailJobBeforeDispatch, NoWork, Storing
  <2> QED
    BY <1>1, <2>1, <2>2 DEF StoresNothing
<1>3. CASE Sweep(t)
  <2>1. PICK cascade \in BOOLEAN : SweepRetention(cascade)
    BY <1>3 DEF Sweep
  <2>2. UNCHANGED <<work, serving>>
    BY <1>3 DEF Sweep
  <2> QED
    BY <2>1, <2>2 DEF SweepRetention, StoresNothing, Storing
<1>4. CASE ~FailJobBeforeDispatch(t) /\ ~Sweep(t)
  <2>1. UNCHANGED <<run, rows, attempts, created>>
    BY <1>4 DEF TaskStep, ClaimNothing, ClaimSelect, ClaimUpdate, ClaimLost, Register, Load,
            SeedDenyList, FinishDispatch, ComputeVerdict, FinalizeJob, FinalizeRaises,
            Unregister, runnerVars
  <2>2. CASE \/ ClaimNothing(t) \/ ClaimUpdate(t) \/ Register(t) \/ SeedDenyList(t)
             \/ FinishDispatch(t) \/ ComputeVerdict(t) \/ FinalizeJob(t)
    BY <2>1, <2>2 DEF ClaimNothing, ClaimUpdate, Register, SeedDenyList, FinishDispatch,
              ComputeVerdict, FinalizeJob, runnerVars, StoresNothing, Storing
  <2>3. CASE Load(t)
    <3>1. \A c \in Collectors : Storing(t, c)' => Storing(t, c) /\ serving'[t] = serving[t]
      <4>1. CASE work' = work
        BY <2>3, <4>1 DEF Load, Storing
      <4>2. CASE work' # work
        <5>1. \A c \in Collectors : work'[t][c] \in {"wait", "none"}
          BY <2>3, <4>2 DEF Load
        <5> QED
          BY <5>1 DEF Storing
      <4> QED
        BY <4>1, <4>2
    <3> QED
      BY <1>1, <2>1, <3>1 DEF StoresNothing
  <2>4. CASE FinalizeRaises(t) \/ Unregister(t)
    <3>1. \A c \in Collectors : ~Storing(t, c)'
      BY <2>4 DEF FinalizeRaises, Unregister, NoWork, Storing
    <3> QED
      BY <1>1, <2>1, <3>1 DEF StoresNothing
  <2>5. CASE ClaimLost(t) \/ \E j \in Jobs : ClaimSelect(t, j)
    <3>1. (\A c \in Collectors : ~Storing(t, c)) /\ UNCHANGED work
      BY <2>5 DEF ClaimLost, ClaimSelect, TasksInv, Inside, Storing
    <3>2. \A c \in Collectors : ~Storing(t, c)'
      BY <3>1 DEF Storing
    <3> QED
      BY <1>1, <2>1, <3>2 DEF StoresNothing
  <2> QED
    BY <1>4, <2>2, <2>3, <2>4, <2>5 DEF TaskStep
<1> QED
  BY <1>2, <1>3, <1>4

(* A coroutine takes an attempt before it stores, and stores once; nobody  *)
(* else touches the counts of its collector.                               *)
LEMMA AttemptsCollector ==
    ASSUME ApiTypeOK, TasksInv, ExclusiveDispatch, DeadApart, AttemptLeft, NothingAhead,
           RowsWithinAttempts, NEW t \in Tasks, NEW c \in Collectors, CollectorStep(t, c)
    PROVE  AttemptLeft' /\ NothingAhead' /\ RowsWithinAttempts'
<1> USE DEF ApiTypeOK, TypeOK, database
<1> DEFINE j == serving[t]
<1>1. /\ UNCHANGED <<serving, created>>
      /\ \A u \in Tasks, d \in Collectors : u # t \/ d # c => work'[u][d] = work[u][d]
  BY DEF CollectorStep, StartCollector, CheckCollector, CollectorAnswers, SaveFindings,
         FinishCollector, CollectorRaises
<1>2. CASE StartCollector(t, c) \/ SaveFindings(t, c)
  <2>1. pc[t] \in {"dispatch", "dead"} /\ j \in Jobs /\ j <= created
    BY <1>2 DEF StartCollector, SaveFindings, MayStart, TasksInv, Inside
  <2>2. ASSUME NEW u \in Tasks, NEW d \in Collectors, Storing(u, d), u # t
        PROVE  serving[u] # j
    <3>1. pc[u] \in {"dispatch", "dead"}
      BY <2>2 DEF Storing, TasksInv, Inside
    <3> QED
      BY <2>1, <2>2, <3>1 DEF ExclusiveDispatch, DeadApart, Active
  <2>3. ASSUME NEW u \in Tasks, NEW d \in Collectors, Storing(u, d) PROVE serving[u] \in Jobs
    BY <2>3 DEF Storing, TasksInv, Inside
  <2>4. ASSUME NEW k \in Jobs, NEW d \in Collectors PROVE rows[k][d] \in Nat /\ attempts[k][d] \in Nat
    OBVIOUS
  <2>5. CASE StartCollector(t, c)
    <3>1. /\ run[j][c] # NoRow
          /\ rows' = rows
          /\ attempts'[j][c] = attempts[j][c] + 1
          /\ \A k \in Jobs, d \in Collectors : k # j \/ d # c =>
                 run'[k][d] = run[k][d] /\ attempts'[k][d] = attempts[k][d]
      BY <2>1, <2>5 DEF StartCollector
    <3>2. rows[j][c] <= attempts[j][c]
      BY <2>1, <3>1 DEF RowsWithinAttempts
    <3>3. rows'[j][c] < attempts'[j][c]
      BY <2>1, <2>4, <3>1, <3>2
    <3>4. ASSUME NEW u \in Tasks, NEW d \in Collectors, Storing(u, d)',
                 run'[serving[u]][d] # NoRow, u # t \/ d # c
          PROVE  rows'[serving[u]][d] < attempts'[serving[u]][d]
      <4>1. Storing(u, d) /\ serving[u] \in Jobs /\ (serving[u] # j \/ d # c)
        BY <1>1, <2>2, <2>3, <3>4 DEF Storing
      <4> QED
        BY <3>1, <3>4, <4>1 DEF AttemptLeft
    <3>5. AttemptLeft'
      BY <1>1, <3>3, <3>4 DEF AttemptLeft
    <3>6. NothingAhead'
      BY <1>1, <3>1 DEF NothingAhead
    <3>7. ASSUME NEW k \in Jobs, NEW d \in Collectors, run'[k][d] # NoRow
          PROVE  rows'[k][d] <= attempts'[k][d]
      <4>1. CASE k = j /\ d = c
        BY <2>1, <2>4, <3>1, <3>2, <4>1
      <4>2. CASE k # j \/ d # c
        BY <3>1, <3>7, <4>2 DEF RowsWithinAttempts
      <4> QED
        BY <4>1, <4>2
    <3> QED
      BY <3>5, <3>6, <3>7 DEF RowsWithinAttempts
  <2>6. CASE SaveFindings(t, c)
    <3>1. /\ Storing(t, c) /\ ~Storing(t, c)'
          /\ attempts' = attempts /\ run' = run
          /\ rows'[j][c] = rows[j][c] + 1
          /\ \A k \in Jobs, d \in Collectors : k # j \/ d # c => rows'[k][d] = rows[k][d]
      BY <2>1, <2>6 DEF SaveFindings, Storing
    <3>2. run[j][c] # NoRow => rows[j][c] < attempts[j][c]
      BY <3>1 DEF AttemptLeft
    <3>3. ASSUME NEW u \in Tasks, NEW d \in Collectors, Storing(u, d)',
                 run[serving[u]][d] # NoRow
          PROVE  rows'[serving[u]][d] < attempts[serving[u]][d]
      <4>1. Storing(u, d) /\ serving[u] \in Jobs /\ (serving[u] # j \/ d # c)
        BY <1>1, <2>2, <2>3, <3>1, <3>3 DEF Storing
      <4> QED
        BY <3>1, <3>3, <4>1 DEF AttemptLeft
    <3>4. AttemptLeft'
      BY <1>1, <3>1, <3>3 DEF AttemptLeft
    <3>5. NothingAhead'
      <4>1. created \in Nat /\ j \in Nat
        BY <2>1, NumJobsAssumption DEF Jobs
      <4>2. \A k \in Jobs : k > created => k # j
        BY <2>1, <4>1
      <4> QED
        BY <1>1, <3>1, <4>2 DEF NothingAhead
    <3>6. ASSUME NEW k \in Jobs, NEW d \in Collectors, run'[k][d] # NoRow
          PROVE  rows'[k][d] <= attempts'[k][d]
      <4>1. CASE k = j /\ d = c
        BY <2>1, <2>4, <3>1, <3>2, <3>6, <4>1
      <4>2. CASE k # j \/ d # c
        BY <3>1, <3>6, <4>2 DEF RowsWithinAttempts
      <4> QED
        BY <4>1, <4>2
    <3> QED
      BY <3>4, <3>5, <3>6 DEF RowsWithinAttempts
  <2> QED
    BY <1>2, <2>5, <2>6
<1>3. CASE ~StartCollector(t, c) /\ ~SaveFindings(t, c)
  <2>1. rows' = rows /\ attempts' = attempts
    BY <1>3 DEF CollectorStep, CheckCollector, CollectorAnswers, FinishCollector,
                CollectorRaises
  <2>2. \A k \in Jobs, d \in Collectors : run'[k][d] # NoRow => run[k][d] # NoRow
    BY <1>3 DEF CollectorStep, CheckCollector, CollectorAnswers, FinishCollector,
                CollectorRaises
  <2>3. Storing(t, c)' => Storing(t, c)
    BY <1>3 DEF CollectorStep, CheckCollector, CollectorAnswers, FinishCollector,
                CollectorRaises, Storing
  <2>4. StoresNothing
    BY <1>1, <2>1, <2>2, <2>3 DEF StoresNothing, Storing
  <2> QED
    BY <2>4, AttemptsCarried
<1> QED
  BY <1>2, <1>3

LEMMA AttemptsRequest ==
    ASSUME ApiTypeOK, NEW r \in Requests, RequestStep(r)
    PROVE  StoresNothing
<1> USE DEF ApiTypeOK, TypeOK, database, process
<1>1. UNCHANGED <<work, serving, created>>
  BY DEF RequestStep, CancelRead, CancelWrite, CancelSweep, CancelLookup, RetryRead,
         RetryCheck, RetrySelect, RetryCommit, DeleteRead, DeleteCommit, runnerVars,
         SweepRetention
<1>2. ASSUME NEW j \in Jobs, NEW c \in Collectors
      PROVE  /\ rows'[j][c] \in {rows[j][c], 0}
             /\ run'[j][c] # NoRow =>
                    /\ run[j][c] # NoRow
                    /\ rows'[j][c] = rows[j][c]
                    /\ attempts'[j][c] = attempts[j][c]
  <2>1. CASE RetryCommit(r)
    <3>1. run[j][c] = NoRow => run'[j][c] = NoRow
      <4>1. CASE run' = run
        BY <4>1
      <4>2. CASE run' # run
        <5>1. /\ run[ask[r].job][ask[r].collector] # NoRow
              /\ run' = [run EXCEPT ![ask[r].job][ask[r].collector] = "queued"]
          BY <2>1, <4>2 DEF RetryCommit
        <5> QED
          BY <5>1
      <4> QED
        BY <4>1, <4>2
    <3> QED
      BY <2>1, <3>1 DEF RetryCommit
  <2>2. CASE CancelSweep(r)
    BY <2>2 DEF CancelSweep, SweepRetention
  <2>3. CASE DeleteCommit(r)
    BY <2>3 DEF DeleteCommit
  <2>4. CASE ~RetryCommit(r) /\ ~CancelSweep(r) /\ ~DeleteCommit(r)
    BY <2>4 DEF RequestStep, CancelRead, CancelWrite, CancelLookup, RetryRead, RetryCheck,
              RetrySelect, DeleteRead, runnerVars
  <2> QED
    BY <2>1, <2>2, <2>3, <2>4
<1> QED
  BY <1>1, <1>2 DEF StoresNothing, Storing

(* A job is created without rows or attempts of its own.                   *)
LEMMA AttemptsCreate ==
    ASSUME ApiTypeOK, TasksInv, AttemptLeft, NothingAhead, RowsWithinAttempts,
           NEW sources \in Selections, CreateJob(sources)
    PROVE  AttemptLeft' /\ NothingAhead' /\ RowsWithinAttempts'
<1> USE DEF ApiTypeOK, TypeOK
<1>1. created \in Nat /\ created + 1 \in Jobs
  BY NumJobsAssumption DEF CreateJob, Jobs
<1>2. /\ created' = created + 1
      /\ UNCHANGED <<rows, attempts, work, serving>>
      /\ \A j \in Jobs : j # created + 1 => run'[j] = run[j]
  BY DEF CreateJob, process
<1>3. ASSUME NEW t \in Tasks, NEW c \in Collectors, Storing(t, c),
             run'[serving[t]][c] # NoRow
      PROVE  rows[serving[t]][c] < attempts[serving[t]][c]
  <2>1. serving[t] \in Jobs /\ serving[t] <= created
    BY <1>3 DEF TasksInv, Storing, Inside
  <2>2. serving[t] # created + 1
    BY <1>1, <2>1
  <2> QED
    BY <1>2, <1>3, <2>1, <2>2 DEF AttemptLeft
<1>4. ASSUME NEW j \in Jobs, NEW c \in Collectors, run'[j][c] # NoRow
      PROVE  rows[j][c] <= attempts[j][c]
  <2>1. CASE j = created + 1
    <3>1. rows[j][c] = 0 /\ attempts[j][c] \in Nat
      BY <1>1, <2>1 DEF NothingAhead
    <3> QED
      BY <3>1
  <2>2. CASE j # created + 1
    BY <1>2, <1>4, <2>2 DEF RowsWithinAttempts
  <2> QED
    BY <2>1, <2>2
<1>5. \A j \in Jobs : j > created' => j > created
  BY <1>1, <1>2 DEF Jobs
<1> QED
  BY <1>2, <1>3, <1>4, <1>5 DEF AttemptLeft, NothingAhead, RowsWithinAttempts, Storing

LEMMA AttemptsKept ==
    ASSUME ApiTypeOK, DispatchInv, AttemptsInv, [Next]_vars
    PROVE  AttemptsInv'
<1> USE DEF DispatchInv, AttemptsInv
<1>1. DeadInv' /\ DeadApart'
  BY DeadInvKept, DeadApartKept
<1>2. ASSUME StoresNothing PROVE AttemptLeft' /\ NothingAhead' /\ RowsWithinAttempts'
  BY <1>2, AttemptsCarried
<1>3. CASE Restart
  <2>1. \A t \in Tasks, c \in Collectors : ~Storing(t, c)'
    BY <1>3 DEF Restart, DownInv, NoWork, Storing
  <2>2. created' = created
    BY <1>3 DEF Restart
  <2>3. ASSUME NEW j \in Jobs, NEW c \in Collectors
        PROVE  /\ rows'[j][c] \in {rows[j][c], 0}
               /\ run'[j][c] # NoRow =>
                      /\ run[j][c] # NoRow
                      /\ rows'[j][c] = rows[j][c]
                      /\ attempts'[j][c] = attempts[j][c]
    BY <1>3 DEF Restart, Recovered, NoRow, ApiTypeOK, TypeOK
  <2> QED
    BY <1>1, <1>2, <2>1, <2>2, <2>3 DEF StoresNothing
<1>4. CASE Stop
  <2>1. \A t \in Tasks, c \in Collectors : ~Storing(t, c)'
    BY <1>4 DEF Stop, Crash, NoWork, Storing
  <2>2. UNCHANGED <<run, rows, attempts, created>>
    BY <1>4 DEF Stop, Crash, database
  <2>3. StoresNothing
    BY <2>1, <2>2 DEF StoresNothing
  <2> QED
    BY <1>1, <1>2, <2>3
<1>5. CASE \/ \E j \in Jobs : Expire(j)
           \/ \E r \in Requests, question \in Questions : Send(r, question)
           \/ UNCHANGED vars
  <2>1. UNCHANGED <<run, rows, attempts, created, work, serving>>
    BY <1>5 DEF Expire, Send, process, runnerVars, vars
  <2>2. StoresNothing
    BY <2>1 DEF StoresNothing, Storing
  <2> QED
    BY <1>1, <1>2, <2>2
<1>6. ASSUME NEW t \in Tasks, TaskStep(t) PROVE StoresNothing
  BY <1>6, AttemptsTask DEF ApiTypeOK
<1> QED
  BY <1>1, <1>2, <1>3, <1>4, <1>5, <1>6, AttemptsCollector, AttemptsRequest, AttemptsCreate
     DEF Next, RunnerStep

(* With one worker loop no collector stores more batches than it counts    *)
(* attempts, whatever crashes, retries and deletions come in between       *)
(* (runner.py 230-262 and 317-337): a coroutine whose task has died is     *)
(* still the only one at work for its collector.                           *)
THEOREM RowsBounded ==
    ASSUME \A v, w \in Workers : v = w
    PROVE  Spec => []RowsWithinAttempts
<1>1. Init => AttemptsInv
  BY DEF Init, RunnerInit, AttemptsInv, DeadInv, DeadApart, AttemptLeft, NothingAhead,
         RowsWithinAttempts, Storing, NoWork
<1>2. ApiTypeOK /\ DispatchInv /\ AttemptsInv /\ [Next]_vars => AttemptsInv'
  BY AttemptsKept
<1>3. AttemptsInv => RowsWithinAttempts
  BY DEF AttemptsInv
<1> QED
  BY <1>1, <1>2, <1>3, Typed, DispatchInvariant, PTL DEF Spec

-----------------------------------------------------------------------------
(***************************************************************************)
(* The refinement: the runner and the handlers implement JobLifecycle, for *)
(* any number of jobs, collectors, crashes and requests, when there is one *)
(* worker loop (the default of max_concurrent_jobs) and one of the         *)
(* requests at most is a retry, sent from the dashboard; and what follows  *)
(* from the same invariant for the collectors that run last.               *)
(***************************************************************************)

(* What the invariant asks of a job is not disturbed by a step that leaves *)
(* the job and whoever works on it alone.                                  *)
Apart(j) ==
    /\ job'[j] # NoRow =>
           job'[j] = job[j] /\ run'[j] = run[j] /\ event'[j] = event[j]
    /\ up' = up
    /\ \A t \in Tasks :
           /\ ServedBy(t, j)' = ServedBy(t, j)
           /\ ServedBy(t, j) => pc'[t] = pc[t] /\ work'[t] = work[t]

(* A retry that has been answered stays answered.                          *)
AnswersStay ==
    \A r \in Requests :
        ask[r].kind = "retry" /\ at[r] \in Answers =>
            ask'[r].kind = "retry" /\ at'[r] \in Answers

LEMMA ApartFollowed ==
    ASSUME AnswersStay, NEW j \in Jobs, job[j] # NoRow => Followed(j), Apart(j),
           job'[j] # NoRow
    PROVE  Followed(j)'
<1>1. Followed(j) /\ job'[j] = job[j] /\ run'[j] = run[j] /\ event'[j] = event[j]
  BY DEF Apart
<1>2. ASSUME NEW t \in Tasks, ServedBy(t, j)' PROVE Stage(t, j)'
  <2>1. ServedBy(t, j) /\ pc'[t] = pc[t] /\ work'[t] = work[t]
    BY <1>2 DEF Apart
  <2>2. Stage(t, j)
    BY <1>1, <2>1 DEF Followed
  <2> QED
    BY <1>1, <2>1, <2>2 DEF Stage, Pending, NoneRuns, Ended, RunStatuses
<1>3. Resting(j)'
  BY <1>1 DEF Followed, Resting, Apart, Pending, NoneRuns
<1>4. Fresh(j)'
  BY <1>1 DEF Followed, Fresh, Apart, AnswersStay
<1> QED
  BY <1>2, <1>3, <1>4 DEF Followed

LEMMA RetriesStayAnswered ==
    ASSUME ApiTypeOK, [Next]_vars
    PROVE  AnswersStay
<1> USE DEF ApiTypeOK, AnswersStay
<1>1. CASE UNCHANGED requestVars
  BY <1>1 DEF requestVars
<1>2. CASE Stop
  BY <1>2 DEF Stop, Going
<1>3. ASSUME NEW r \in Requests, NEW question \in Questions, Send(r, question)
      PROVE  AnswersStay
  BY <1>3 DEF Send, Goto, Answers
<1>4. ASSUME NEW r \in Requests, RequestStep(r) PROVE AnswersStay
  BY <1>4 DEF RequestStep, CancelRead, CancelWrite, CancelSweep, CancelLookup, RetryRead,
         RetryCheck, RetrySelect, RetryCommit, DeleteRead, DeleteCommit, Goto, Asked, Answers
<1>5. UNCHANGED vars => UNCHANGED requestVars
  BY DEF vars, requestVars
<1> QED
  BY <1>1, <1>2, <1>3, <1>4, <1>5 DEF Next

(* The job of a task that goes on with it: nobody else works on it, so it  *)
(* is enough to follow this task.                                          *)
LEMMA OwnFollowed ==
    ASSUME NEW t \in Tasks, NEW j \in Jobs, ExclusiveDispatch,
           Active(t), serving[t] = j,
           \A u \in Tasks : u # t => pc'[u] = pc[u] /\ serving'[u] = serving[u],
           job'[j] # "queued", pc'[t] # "register",
           \/ ServedBy(t, j)' /\ Stage(t, j)'
           \/ ~ServedBy(t, j)' /\ NoneRuns(j)'
    PROVE  Followed(j)'
<1>1. \A u \in Tasks : u # t => ~ServedBy(u, j)'
  BY DEF ExclusiveDispatch, ServedBy, Active
<1>2. Resting(j)'
  BY DEF Resting
<1>3. Fresh(j)'
  BY <1>1 DEF Fresh
<1> QED
  BY <1>1, <1>2, <1>3 DEF Followed

(* The worker loop claims a job that rests.                                *)
LEMMA ClaimFollowed ==
    ASSUME ApiTypeOK, TasksInv, DownInv, AnswersStay, NEW t \in Tasks, ClaimUpdate(t),
           NEW j \in Jobs, serving[t] = j, Followed(j)
    PROVE  Followed(j)'
<1> USE DEF ApiTypeOK, TypeOK
<1>1. /\ j \in Jobs /\ up
      /\ job[j] = "queued" /\ job'[j] = "running"
      /\ pc' = [pc EXCEPT ![t] = "register"]
      /\ UNCHANGED <<run, up, serving, work, event>>
  BY DEF ClaimUpdate, TasksInv, DownInv
<1>2. ASSUME NEW u \in Tasks PROVE ~ServedBy(u, j)
  <2>1. ServedBy(u, j) => job[j] # "queued"
    BY DEF Followed, Stage, TerminalJobStatuses
  <2> QED
    BY <1>1, <2>1
<1>3. Pending(j) # {} /\ NoneRuns(j)
  BY <1>1, <1>2 DEF Followed, Resting
<1>4. \A u \in Tasks : ServedBy(u, j)' => u = t
  BY <1>1, <1>2 DEF ServedBy, Active
<1>5. Stage(t, j)'
  BY <1>1, <1>3 DEF Stage, Pending, NoneRuns, TerminalJobStatuses
<1>6. Resting(j)'
  BY <1>1, <1>3 DEF Resting, NoneRuns
<1>7. Fresh(j)'
  BY <1>1 DEF Followed, Fresh, AnswersStay
<1> QED
  BY <1>1, <1>4, <1>5, <1>6, <1>7 DEF Followed

(* run_job goes on with its job, whatever the database says of it by now.  *)
LEMMA RunFollowed ==
    ASSUME ApiTypeOK, ExclusiveDispatch, NEW t \in Tasks, TaskStep(t), Active(t),
           NEW j \in Jobs, serving[t] = j, Followed(j), job[j] # NoRow, job'[j] # NoRow
    PROVE  Followed(j)'
<1> USE DEF ApiTypeOK, TypeOK, database
<1>1. Stage(t, j) /\ job[j] \in JobStatuses /\ event[j] \in Tasks \cup {NoTask}
  BY DEF Followed, ServedBy
<1>2. /\ \A u \in Tasks : u # t => pc'[u] = pc[u] /\ serving'[u] = serving[u]
      /\ \A c \in Collectors : run[j][c] \in CollectorStatuses \cup {NoRow}
  BY TaskFrame
<1>3. CASE Register(t)
  <2>1. /\ pc'[t] = "load" /\ pc[t] = "register" /\ event'[j] = t
        /\ UNCHANGED <<job, run, serving, work>>
    BY <1>3 DEF Register
  <2>2. job'[j] # "queued" /\ pc'[t] # "register"
    BY <1>1, <2>1 DEF Stage, TerminalJobStatuses
  <2>3. ServedBy(t, j)' /\ Stage(t, j)'
    BY <1>1, <2>1, NoTaskAssumption
       DEF Stage, ServedBy, Active, Pending, NoneRuns, TerminalJobStatuses
  <2> QED
    BY <1>2, <2>2, <2>3, OwnFollowed
<1>4. CASE Load(t)
  <2>1. /\ pc'[t] = "seed" /\ pc[t] = "load"
        /\ UNCHANGED <<job, run, serving, event>>
        /\ \A c \in Collectors : work'[t][c] = IF c \in Pending(j) THEN "wait" ELSE "none"
    BY <1>4 DEF Load
  <2>2. job'[j] # "queued" /\ pc'[t] # "register"
    BY <1>1, <2>1 DEF Stage, TerminalJobStatuses
  <2>3. Pending(j) # {} /\ NoneRuns(j)
    BY <1>1, <2>1 DEF Stage
  <2>4. \A c \in Collectors : Matches(work'[t][c], run[j][c])
    BY <1>2, <2>1, <2>3
       DEF Matches, Pending, NoneRuns, Inside, CollectorStatuses, TerminalCollectorStatuses
  <2>5. ServedBy(t, j)' /\ Stage(t, j)'
    BY <1>1, <2>1, <2>3, <2>4
       DEF Stage, ServedBy, Active, Pending, NoneRuns, TerminalJobStatuses
  <2> QED
    BY <1>2, <2>2, <2>5, OwnFollowed
<1>5. CASE SeedDenyList(t)
  <2>1. /\ pc'[t] \in {"dispatch", "fail"} /\ pc[t] = "seed"
        /\ UNCHANGED <<job, run, serving, event, work>>
    BY <1>5 DEF SeedDenyList
  <2>2. job'[j] # "queued" /\ pc'[t] # "register"
    BY <1>1, <2>1 DEF Stage, TerminalJobStatuses
  <2>3. ServedBy(t, j)' /\ Stage(t, j)'
    BY <1>1, <2>1 DEF Stage, ServedBy, Active, Pending, NoneRuns, TerminalJobStatuses
  <2> QED
    BY <1>2, <2>2, <2>3, OwnFollowed
<1>6. CASE FailJobBeforeDispatch(t)
  <2>1. /\ pc'[t] = "sweep" /\ pc[t] = "fail" /\ job'[j] = "failed"
        /\ UNCHANGED <<serving, event>>
        /\ \A c \in Collectors : run'[j][c] =
               IF work[t][c] = "wait" /\ run[j][c] # NoRow THEN "failed" ELSE run[j][c]
    BY <1>6 DEF FailJobBeforeDispatch
  <2>2. \A c \in Collectors : Matches(work[t][c], run[j][c]) /\ run[j][c] # "running"
    BY <1>1, <2>1 DEF Stage, NoneRuns
  <2>3. \A c \in Collectors : work[t][c] \in WorkPoints
    OBVIOUS
  <2>4. Ended(j)'
    BY <2>1, <2>2, <2>3 DEF Ended, Matches, WorkPoints, Inside, TerminalCollectorStatuses
  <2>5. ServedBy(t, j)' /\ Stage(t, j)'
    BY <1>1, <2>1, <2>4 DEF Stage, ServedBy, Active, TerminalJobStatuses
  <2> QED
    BY <1>2, <2>1, <2>5, OwnFollowed
<1>7. CASE FinishDispatch(t)
  <2>1. /\ pc'[t] = "finalize" /\ pc[t] = "dispatch"
        /\ UNCHANGED <<job, run, serving, event, work>>
        /\ \A c \in Collectors : work[t][c] \in {"none", "over"}
    BY <1>7 DEF FinishDispatch, Idle
  <2>2. job'[j] # "queued" /\ pc'[t] # "register"
    BY <1>1, <2>1 DEF Stage, TerminalJobStatuses
  <2>3. Ended(j)
    BY <1>1, <2>1 DEF Stage, Ended, Matches
  <2>4. ServedBy(t, j)' /\ Stage(t, j)'
    BY <1>1, <2>1, <2>3 DEF Stage, ServedBy, Active, Ended, TerminalJobStatuses
  <2> QED
    BY <1>2, <2>2, <2>4, OwnFollowed
<1>8. CASE ComputeVerdict(t)
  <2>1. /\ pc'[t] \in {"canceled", ComputeJobStatus(RunStatuses(j))} /\ pc[t] = "finalize"
        /\ UNCHANGED <<job, run, serving, event, work>>
    BY <1>8 DEF ComputeVerdict
  <2>2. pc'[t] \in TerminalJobStatuses
    BY <2>1, VerdictRange DEF TerminalJobStatuses
  <2>3. job'[j] # "queued" /\ pc'[t] # "register"
    BY <1>1, <2>1, <2>2 DEF Stage, TerminalJobStatuses
  <2>4. Ended(j) /\ event[j] # NoTask /\ job[j] \in {"running", "canceled"}
    BY <1>1, <2>1 DEF Stage, TerminalJobStatuses
  <2>5. RunStatuses(j)' = RunStatuses(j) /\ Ended(j)'
    BY <2>1, <2>4 DEF RunStatuses, Ended
  <2>6. ServedBy(t, j)' /\ Stage(t, j)'
    BY <2>1, <2>2, <2>4, <2>5 DEF Stage, ServedBy, Active, TerminalJobStatuses
  <2> QED
    BY <1>2, <2>3, <2>6, OwnFollowed
<1>9. CASE FinalizeJob(t)
  <2>1. /\ pc'[t] = "sweep" /\ pc[t] \in TerminalJobStatuses /\ job'[j] = pc[t]
        /\ UNCHANGED <<run, serving, event, work>>
    BY <1>9 DEF FinalizeJob
  <2>2. job'[j] # "queued"
    BY <2>1 DEF TerminalJobStatuses
  <2>3. ServedBy(t, j)' /\ Stage(t, j)'
    BY <1>1, <2>1 DEF Stage, ServedBy, Active, Ended, TerminalJobStatuses
  <2> QED
    BY <1>2, <2>1, <2>2, <2>3, OwnFollowed
<1>10. CASE Sweep(t)
  <2>1. /\ pc'[t] = "unregister" /\ pc[t] = "sweep" /\ job'[j] = job[j] /\ run'[j] = run[j]
        /\ UNCHANGED <<serving, event, work>>
    BY <1>10 DEF Sweep, SweepRetention
  <2>2. job'[j] # "queued"
    BY <1>1, <2>1 DEF Stage, TerminalJobStatuses
  <2>3. ServedBy(t, j)' /\ Stage(t, j)'
    BY <1>1, <2>1 DEF Stage, ServedBy, Active, Ended, TerminalJobStatuses
  <2> QED
    BY <1>2, <2>1, <2>2, <2>3, OwnFollowed
<1>11. CASE Unregister(t)
  <2>1. /\ pc'[t] \in {"poll", "off"} /\ pc[t] = "unregister"
        /\ UNCHANGED <<job, run>>
    BY <1>11 DEF Unregister
  <2>2. job'[j] # "queued"
    BY <1>1, <2>1 DEF Stage, TerminalJobStatuses
  <2>3. Ended(j)
    BY <1>1, <2>1 DEF Stage
  <2>4. NoneRuns(j)'
    BY <2>1, <2>3 DEF Ended, NoneRuns, TerminalCollectorStatuses, NoRow
  <2>5. ~ServedBy(t, j)'
    BY <2>1 DEF ServedBy, Active
  <2> QED
    BY <1>2, <2>1, <2>2, <2>4, <2>5, OwnFollowed
<1>12. ~FinalizeRaises(t) /\ ~ClaimNothing(t) /\ ~ClaimUpdate(t) /\ ~ClaimLost(t)
       /\ \A k \in Jobs : ~ClaimSelect(t, k)
  BY DEF FinalizeRaises, ClaimNothing, ClaimUpdate, ClaimLost, ClaimSelect, Active
<1> QED
  BY <1>3, <1>4, <1>5, <1>6, <1>7, <1>8, <1>9, <1>10, <1>11, <1>12 DEF TaskStep

(* Every step of a task's own coroutine.                                   *)
LEMMA JobsInvTask ==
    ASSUME ApiTypeOK, TasksInv, DownInv, ExclusiveDispatch, JobsInv, AnswersStay,
           NEW t \in Tasks, TaskStep(t), [Next]_vars
    PROVE  JobsInv'
<1> SUFFICES ASSUME NEW j \in Jobs, job'[j] # NoRow PROVE Followed(j)'
  BY DEF JobsInv
<1> USE DEF ApiTypeOK
<1>1. job[j] # NoRow => Followed(j)
  BY DEF JobsInv
<1>2. CASE ClaimNothing(t) \/ (\E k \in Jobs : ClaimSelect(t, k)) \/ ClaimLost(t)
  <2>1. /\ UNCHANGED <<job, run, event, up, work>>
        /\ \A u \in Tasks : u # t => pc'[u] = pc[u] /\ serving'[u] = serving[u]
        /\ ~Active(t) /\ ~Active(t)'
    BY <1>2 DEF ClaimNothing, ClaimSelect, ClaimLost, Active, runnerVars, database, TypeOK
  <2>2. Apart(j)
    BY <2>1 DEF Apart, ServedBy, Active
  <2> QED
    BY <1>1, <2>2, ApartFollowed
<1>3. CASE ~(ClaimNothing(t) \/ (\E k \in Jobs : ClaimSelect(t, k)) \/ ClaimLost(t))
  <2>1. CASE j # serving[t]
    <3>1. Apart(j)
      BY <2>1, TaskFrame DEF Apart, ServedBy, Active
    <3> QED
      BY <1>1, <3>1, ApartFollowed
  <2>2. CASE j = serving[t]
    <3>1. job[j] # NoRow
      <4>1. j <= created
        BY <2>2 DEF TasksInv
      <4> QED
        BY <4>1, GoneStays
    <3>2. CASE ClaimUpdate(t)
      BY <1>1, <2>2, <3>1, <3>2, ClaimFollowed
    <3>3. CASE ~ClaimUpdate(t)
      <4>1. Active(t)
        BY <1>3, <3>3 DEF TaskStep, Register, Load, SeedDenyList, FailJobBeforeDispatch,
              FinishDispatch, ComputeVerdict, FinalizeJob, FinalizeRaises, Sweep,
              Unregister, Active, TerminalJobStatuses
      <4> QED
        BY <1>1, <2>2, <3>1, <4>1, RunFollowed
    <3> QED
      BY <3>2, <3>3
  <2> QED
    BY <2>1, <2>2
<1> QED
  BY <1>2, <1>3

(* Every step of a collector: a dead task has lost its job, so the runs    *)
(* that are left are those of a task that is dispatching.                  *)
LEMMA JobsInvCollector ==
    ASSUME ApiTypeOK, TasksInv, ExclusiveDispatch, JobsInv, DeadInv, AnswersStay,
           NEW t \in Tasks, NEW c \in Collectors, CollectorStep(t, c)
    PROVE  JobsInv'
<1> SUFFICES ASSUME NEW j \in Jobs, job'[j] # NoRow PROVE Followed(j)'
  BY DEF JobsInv
<1> USE DEF ApiTypeOK, TypeOK, database
<1>1. /\ UNCHANGED <<job, up, serving>>
      /\ \A u \in Tasks : u # t => pc'[u] = pc[u] /\ work'[u] = work[u]
      /\ \A k \in Jobs : k # serving[t] => run'[k] = run[k] /\ event'[k] = event[k]
  BY DEF CollectorStep, StartCollector, CheckCollector, CollectorAnswers, SaveFindings,
         FinishCollector, CollectorRaises
<1>2. Followed(j)
  BY <1>1 DEF JobsInv
<1>3. CASE j # serving[t]
  <2>1. Apart(j)
    BY <1>1, <1>3 DEF Apart, ServedBy, Active
  <2> QED
    BY <1>2, <2>1, ApartFollowed
<1>4. CASE j = serving[t]
  <2>1. ~CollectorRaises(t, c)
    BY <1>1, <1>4 DEF CollectorRaises
  <2>2. pc[t] = "dispatch" /\ Active(t)
    BY <1>1, <1>4, <2>1
       DEF CollectorStep, StartCollector, CheckCollector, CollectorAnswers, SaveFindings,
           FinishCollector, MayStart, TasksInv, DeadInv, Inside, Active
  <2>3. pc' = pc /\ event' = event
    BY <2>1 DEF CollectorStep, StartCollector, CheckCollector, CollectorAnswers,
                SaveFindings, FinishCollector
  <2>4. Stage(t, j) /\ job[j] \in {"running", "canceled"}
    BY <1>2, <1>4, <2>2 DEF Followed, ServedBy, Stage
  <2>5. \A d \in Collectors : Matches(work[t][d], run[j][d])
    BY <2>2, <2>4 DEF Stage
  <2>6. \A d \in Collectors : d # c => work'[t][d] = work[t][d] /\ run'[j][d] = run[j][d]
    BY <1>4, <2>1 DEF CollectorStep, StartCollector, CheckCollector, CollectorAnswers,
                      SaveFindings, FinishCollector
  <2>7. Matches(work'[t][c], run'[j][c])
    <3>1. CASE StartCollector(t, c)
      <4>1. work'[t][c] = "check" /\ run'[j][c] = "running"
        BY <1>4, <3>1 DEF StartCollector
      <4> QED
        BY <4>1 DEF Matches, Inside
    <3>2. CASE CheckCollector(t, c) \/ CollectorAnswers(t, c) \/ SaveFindings(t, c)
      <4>1. work[t][c] \in Inside /\ run' = run
        BY <3>2 DEF CheckCollector, CollectorAnswers, SaveFindings, Inside
      <4>2. work'[t][c] \in Inside
        BY <3>2 DEF CheckCollector, CollectorAnswers, SaveFindings, Inside,
                    TerminalCollectorStatuses
      <4> QED
        BY <2>5, <4>1, <4>2
           DEF Matches, Inside, TerminalCollectorStatuses
    <3>3. CASE FinishCollector(t, c)
      <4>1. work'[t][c] = "over" /\ run'[j][c] \in TerminalCollectorStatuses \cup {NoRow}
        BY <1>4, <3>3 DEF FinishCollector
      <4> QED
        BY <4>1 DEF Matches, Inside, TerminalCollectorStatuses
    <3> QED
      BY <2>1, <3>1, <3>2, <3>3 DEF CollectorStep
  <2>8. \A d \in Collectors : Matches(work'[t][d], run'[j][d])
    BY <2>5, <2>6, <2>7
  <2>9. ServedBy(t, j)' /\ Stage(t, j)'
    BY <1>1, <1>4, <2>2, <2>3, <2>4, <2>8 DEF Stage, ServedBy, Active, TerminalJobStatuses
  <2>10. job'[j] # "queued" /\ pc'[t] # "register"
    BY <1>1, <2>2, <2>3, <2>4
  <2> QED
    BY <1>1, <1>4, <2>2, <2>9, <2>10, OwnFollowed
<1> QED
  BY <1>3, <1>4

(* Every step of a handler: a retry that commits finds its job ended and   *)
(* with nobody to work on it.                                              *)
LEMMA JobsInvRequest ==
    ASSUME ApiTypeOK, DownInv, JobsInv, RetryInv, AnswersStay,
           NEW r \in Requests, RequestStep(r)
    PROVE  JobsInv'
<1> SUFFICES ASSUME NEW j \in Jobs, job'[j] # NoRow PROVE Followed(j)'
  BY DEF JobsInv
<1> USE DEF ApiTypeOK, TypeOK, database, process
<1>1. UNCHANGED <<up, pc, serving, work, event>>
  BY DEF RequestStep, CancelRead, CancelWrite, CancelSweep, CancelLookup, RetryRead,
         RetryCheck, RetrySelect, RetryCommit, DeleteRead, DeleteCommit, runnerVars
<1>2. job[j] # NoRow => Followed(j)
  BY DEF JobsInv
<1>3. CASE job'[j] = job[j] /\ run'[j] = run[j]
  <2>1. Apart(j)
    BY <1>1, <1>3 DEF Apart, ServedBy, Active
  <2> QED
    BY <1>2, <2>1, ApartFollowed
<1>4. CASE CancelWrite(r) /\ job'[j] # job[j]
  <2>1. job'[j] = "canceled" /\ job[j] # NoRow /\ UNCHANGED run
    BY <1>4 DEF CancelWrite, Goto
  <2>2. ASSUME NEW t \in Tasks, ServedBy(t, j)' PROVE Stage(t, j)'
    <3>1. Stage(t, j)
      BY <1>1, <1>2, <2>1, <2>2 DEF Followed, ServedBy, Active
    <3> QED
      BY <1>1, <2>1, <3>1
         DEF Stage, Pending, NoneRuns, Ended, RunStatuses, TerminalJobStatuses
  <2>3. Resting(j)'
    BY <1>1, <1>2, <2>1 DEF Followed, Resting, NoneRuns, ServedBy, Active
  <2>4. Fresh(j)'
    BY <1>1, <1>2, <2>1 DEF Followed, Fresh, AnswersStay, ServedBy, Active
  <2> QED
    BY <2>2, <2>3, <2>4 DEF Followed
<1>5. CASE RetryCommit(r) /\ (job'[j] # job[j] \/ run'[j] # run[j])
  <2>1. ask[r].job = j /\ Going(r) /\ ask[r].kind = "retry" /\ at[r] = "commit"
    BY <1>5 DEF RetryCommit, Asked, Going, Answers
  <2>2. /\ ask[r].collector \in Collectors
        /\ at'[r] = "accepted"
        /\ job'[j] = "queued"
        /\ job[j] # NoRow
        /\ run' = [run EXCEPT ![j][ask[r].collector] = "queued"]
    BY <1>5, <2>1 DEF RetryCommit, Goto, RetryInv, Offered, Questions
  <2>3. \A t \in Tasks : ~ServedBy(t, j)
    BY <2>1, <2>2 DEF RetryInv, Offered
  <2>4. up
    BY <2>1 DEF DownInv
  <2>5. NoneRuns(j)
    BY <1>2, <2>2, <2>3, <2>4 DEF Followed, Resting
  <2>6. Pending(j)' # {} /\ NoneRuns(j)'
    BY <2>2, <2>5 DEF Pending, NoneRuns
  <2>7. UNCHANGED ask
    BY <1>5 DEF RetryCommit
  <2>8. Fresh(j)'
    BY <2>1, <2>2, <2>7 DEF Fresh, Answers
  <2> QED
    BY <1>1, <2>3, <2>6, <2>8 DEF Followed, Resting, ServedBy, Active
<1> QED
  BY <1>3, <1>4, <1>5
     DEF RequestStep, CancelRead, CancelWrite, CancelSweep, CancelLookup, RetryRead,
         RetryCheck, RetrySelect, DeleteRead, DeleteCommit, runnerVars, SweepRetention

(* A job begins with something to run and nobody to run it.                *)
LEMMA JobsInvCreate ==
    ASSUME ApiTypeOK, TasksInv, JobsInv, AnswersStay,
           NEW sources \in Selections, CreateJob(sources)
    PROVE  JobsInv'
<1> SUFFICES ASSUME NEW j \in Jobs, job'[j] # NoRow PROVE Followed(j)'
  BY DEF JobsInv
<1> USE DEF ApiTypeOK, TypeOK, process
<1>1. UNCHANGED <<up, pc, serving, work, event>>
  BY DEF CreateJob
<1>2. CASE j # created + 1
  <2>1. job'[j] = job[j] /\ run'[j] = run[j]
    BY <1>2 DEF CreateJob
  <2>2. Apart(j)
    BY <1>1, <2>1 DEF Apart, ServedBy, Active
  <2> QED
    BY <2>1, <2>2, ApartFollowed DEF JobsInv
<1>3. CASE j = created + 1
  <2>1. \A c \in Collectors : run'[j][c] = IF c \in sources THEN "queued" ELSE NoRow
    BY <1>3 DEF CreateJob
  <2>2. sources \subseteq Collectors /\ sources # {}
    BY CollectorsAssumption
  <2>3. ASSUME NEW t \in Tasks, ServedBy(t, j)' PROVE FALSE
    <3>1. serving[t] = created + 1 /\ serving[t] <= created /\ created \in Nat
      BY <1>1, <1>3, <2>3, NumJobsAssumption DEF ServedBy, TasksInv
    <3> QED
      BY <3>1
  <2>4. Pending(j)' # {}
    BY <2>1, <2>2 DEF Pending
  <2>5. \A c \in Collectors : run'[j][c] \notin {"running", "failed"}
    BY <2>1 DEF NoRow
  <2> QED
    BY <2>3, <2>4, <2>5 DEF Followed, Resting, Fresh, NoneRuns
<1> QED
  BY <1>2, <1>3

(* After a restart only the resume tasks work, each on a job with          *)
(* something to run; no collector is running.                              *)
LEMMA JobsInvRestart ==
    ASSUME ApiTypeOK, DownInv, JobsInv, AnswersStay, Restart
    PROVE  JobsInv'
<1> SUFFICES ASSUME NEW j \in Jobs, job'[j] # NoRow PROVE Followed(j)'
  BY DEF JobsInv
<1> USE DEF ApiTypeOK, TypeOK
<1>1. job'[j] = job[j] /\ job[j] # NoRow
  BY DEF Restart
<1>2. \A c \in Collectors : run'[j][c] = Recovered(run[j][c])
  <2>1. ~(j \in expired /\ job[j] \in TerminalJobStatuses)
    BY DEF Restart
  <2> QED
    BY <2>1 DEF Restart
<1>3. NoneRuns(j)'
  BY <1>2 DEF NoneRuns, Recovered
<1>4. Pending(j) # {} => Pending(j)' # {}
  BY <1>2 DEF Pending, Recovered
<1>5. \A c \in Collectors : run'[j][c] = "failed" => run[j][c] = "failed"
  BY <1>2 DEF Recovered
<1>6. Followed(j)
  BY <1>1 DEF JobsInv
<1>7. ASSUME NEW t \in Tasks, ServedBy(t, j)' PROVE Stage(t, j)' /\ pc'[t] = "load"
  <2>1. t = j /\ Resumable(j) /\ pc'[t] = "load" /\ event'[j] = j
    BY <1>7, WorkersAssumption DEF Restart, ServedBy, Active, Tasks, NoJob
  <2>2. Pending(j)' # {}
    BY <1>2, <2>1 DEF Resumable, Pending
  <2>3. job'[j] = "running"
    BY <1>1, <2>1 DEF Resumable
  <2>4. event'[j] # NoTask
    BY <2>1, NoTaskAssumption DEF Tasks
  <2> QED
    BY <1>3, <2>1, <2>2, <2>3, <2>4 DEF Stage, TerminalJobStatuses
<1>8. Resting(j)'
  BY <1>1, <1>3, <1>4, <1>6 DEF Followed, Resting
<1>9. Fresh(j)'
  BY <1>1, <1>5, <1>6, <1>7 DEF Followed, Fresh, AnswersStay
<1> QED
  BY <1>7, <1>8, <1>9 DEF Followed

(* One step of anything.                                                   *)
LEMMA JobsInvKept ==
    ASSUME ApiTypeOK, DispatchInv, JobsInv, DeadInv, RetryInv, [Next]_vars
    PROVE  JobsInv'
<1> USE DEF DispatchInv
<1>1. AnswersStay
  BY RetriesStayAnswered
<1>2. CASE (\E j \in Jobs : Expire(j)) \/ UNCHANGED runnerVars
  <2>1. UNCHANGED <<job, run, up, pc, serving, work, event>>
    BY <1>2 DEF Expire, process, runnerVars
  <2>2. \A j \in Jobs : Apart(j)
    BY <2>1 DEF Apart, ServedBy, Active
  <2> QED
    BY <1>1, <2>1, <2>2, ApartFollowed DEF JobsInv
<1>3. CASE Stop
  <2> SUFFICES ASSUME NEW j \in Jobs, job'[j] # NoRow PROVE Followed(j)'
    BY DEF JobsInv
  <2>1. /\ ~up' /\ \A t \in Tasks : ~ServedBy(t, j)'
        /\ UNCHANGED <<job, run>>
    BY <1>3 DEF Stop, Crash, database, ServedBy, Active
  <2>2. Followed(j)
    BY <2>1 DEF JobsInv
  <2>3. Resting(j)' /\ Fresh(j)'
    BY <1>1, <2>1, <2>2 DEF Followed, Resting, Fresh, AnswersStay, Pending
  <2> QED
    BY <2>1, <2>3 DEF Followed
<1>4. (\E r \in Requests, question \in Questions : Send(r, question)) => UNCHANGED runnerVars
  BY DEF Send
<1>5. UNCHANGED vars => UNCHANGED runnerVars
  BY DEF vars, runnerVars
<1> QED
  BY <1>1, <1>2, <1>3, <1>4, <1>5, JobsInvTask, JobsInvCollector, JobsInvRequest,
     JobsInvCreate, JobsInvRestart
     DEF Next, RunnerStep

-----------------------------------------------------------------------------
(* A second retry is not sent.                                             *)
LEMMA OneRetryKept ==
    ASSUME MaxRetries <= 1, IsFiniteSet(Requests), ApiTypeOK, OneRetry, [Next]_vars
    PROVE  OneRetry'
<1> USE DEF ApiTypeOK
<1>1. ASSUME NEW r \in Requests, NEW question \in Questions, Send(r, question)
      PROVE  OneRetry'
  <2>1. \A q \in Requests : ask'[q] = IF q = r THEN question ELSE ask[q]
    BY <1>1 DEF Send
  <2>2. CASE question.kind = "retry"
    <3> DEFINE sent == {q \in Requests : ask[q].kind = "retry"}
    <3>1. Cardinality(sent) < MaxRetries
      BY <1>1, <2>2 DEF Send
    <3>2. IsFiniteSet(sent)
      BY FS_Subset
    <3>3. Cardinality(sent) \in Nat
      BY <3>2, FS_CardinalityType
    <3>4. Cardinality(sent) = 0
      BY <3>1, <3>3, RetriesAssumption
    <3>5. sent = {}
      BY <3>2, <3>4, FS_EmptySet
    <3> QED
      BY <2>1, <3>5 DEF OneRetry
  <2>3. CASE question.kind # "retry"
    BY <2>1, <2>3 DEF OneRetry
  <2> QED
    BY <2>2, <2>3
<1>2. CASE UNCHANGED ask
  BY <1>2 DEF OneRetry
<1>3. ASSUME NEW r \in Requests, RequestStep(r) PROVE UNCHANGED ask
  BY <1>3 DEF RequestStep, CancelRead, CancelWrite, CancelSweep, CancelLookup, RetryRead,
         RetryCheck, RetrySelect, RetryCommit, DeleteRead, DeleteCommit
<1> QED
  BY <1>1, <1>2, <1>3 DEF Next, Stop, requestVars, vars

(* A job that has ended stays ended, with its failed collector and without *)
(* anybody new to work on it.                                              *)
StaysEnded(j, c) ==
    /\ job'[j] # NoRow
    /\ job[j] \in TerminalJobStatuses
    /\ run[j][c] = "failed"
    => /\ job'[j] \in TerminalJobStatuses
       /\ run'[j][c] = "failed"
       /\ \A t \in Tasks : ServedBy(t, j)' => ServedBy(t, j)

LEMMA SameStaysEnded ==
    ASSUME NEW j, NEW c, job'[j] = job[j], run'[j] = run[j], UNCHANGED <<pc, serving>>
    PROVE  StaysEnded(j, c)
BY DEF StaysEnded, ServedBy, Active

LEMMA OfferKept ==
    ASSUME NEW r \in Requests, Offered(r), at'[r] = at[r], ask'[r] = ask[r],
           seen'[r] = seen[r], ask[r].job \in Jobs,
           created \in Nat, created' \in Nat, created <= created',
           ask[r].job <= created /\ job[ask[r].job] = NoRow => job'[ask[r].job] = NoRow,
           StaysEnded(ask[r].job, ask[r].collector)
    PROVE  Offered(r)'
<1> DEFINE j == ask[r].job
           c == ask[r].collector
<1>1. /\ j \in Jobs /\ j <= created
      /\ at[r] # "read" => seen[r] # "queued"
      /\ job[j] # NoRow =>
             /\ job[j] \in TerminalJobStatuses
             /\ run[j][c] = "failed"
             /\ at[r] \in {"select", "commit"} => \A t \in Tasks : ~ServedBy(t, j)
  BY DEF Offered
<1>2. j \in Nat /\ j <= created'
  BY <1>1, JobsArePositive
<1>3. job'[j] # NoRow =>
          /\ job'[j] \in TerminalJobStatuses
          /\ run'[j][c] = "failed"
          /\ at[r] \in {"select", "commit"} => \A t \in Tasks : ~ServedBy(t, j)'
  BY <1>1 DEF StaysEnded
<1>4. ask'[r].job = j /\ ask'[r].collector = c
  OBVIOUS
<1> QED
  BY <1>1, <1>2, <1>3, <1>4 DEF Offered, ServedBy, Active

LEMMA EndedTask ==
    ASSUME TypeOK, NEW t \in Tasks, TaskStep(t), NEW j \in Jobs, NEW c \in Collectors
    PROVE  StaysEnded(j, c)
<1> USE DEF TypeOK, database
<1> SUFFICES ASSUME job'[j] # NoRow, job[j] \in TerminalJobStatuses, run[j][c] = "failed"
             PROVE  /\ job'[j] \in TerminalJobStatuses
                    /\ run'[j][c] = "failed"
                    /\ \A u \in Tasks : ServedBy(u, j)' => ServedBy(u, j)
  BY DEF StaysEnded
<1>1. job'[j] \in TerminalJobStatuses
  BY DEF TaskStep, ClaimNothing, ClaimSelect, ClaimUpdate, ClaimLost, Register, Load,
         SeedDenyList, FailJobBeforeDispatch, FinishDispatch, ComputeVerdict, FinalizeJob,
         FinalizeRaises, Sweep, SweepRetention, Unregister, runnerVars, TerminalJobStatuses
<1>2. run'[j][c] = "failed"
  <2>1. CASE FailJobBeforeDispatch(t)
    BY <2>1 DEF FailJobBeforeDispatch
  <2>2. CASE Sweep(t)
    BY <2>2 DEF Sweep, SweepRetention
  <2>3. ASSUME ~FailJobBeforeDispatch(t), ~Sweep(t) PROVE run' = run
    BY <2>3 DEF TaskStep, ClaimNothing, ClaimSelect, ClaimUpdate, ClaimLost, Register, Load,
         SeedDenyList, FinishDispatch, ComputeVerdict, FinalizeJob, FinalizeRaises,
         Unregister, runnerVars
  <2> QED
    BY <2>1, <2>2, <2>3
<1>3. ASSUME NEW u \in Tasks, ServedBy(u, j)' PROVE ServedBy(u, j)
  <2>1. CASE u # t
    BY <1>3, <2>1, TaskFrame DEF ServedBy, Active
  <2>2. CASE u = t
    <3>1. serving[t] = j /\ Active(t)'
      BY <1>3, <2>2, TaskFrame DEF ServedBy, Active
    <3>2. ~ClaimUpdate(t)
      BY <3>1 DEF ClaimUpdate, TerminalJobStatuses
    <3>3. Active(t)
      BY <3>1, <3>2 DEF TaskStep, ClaimNothing, ClaimSelect, ClaimLost, Register, Load,
         SeedDenyList, FailJobBeforeDispatch, FinishDispatch, ComputeVerdict, FinalizeJob,
         FinalizeRaises, Sweep, Unregister, runnerVars, Active, TerminalJobStatuses
    <3> QED
      BY <2>2, <3>1, <3>3 DEF ServedBy
  <2> QED
    BY <2>1, <2>2
<1> QED
  BY <1>1, <1>2, <1>3

LEMMA EndedCollector ==
    ASSUME ApiTypeOK, TasksInv, JobsInv, DeadInv, NEW t \in Tasks,
           NEW d \in Collectors, CollectorStep(t, d), NEW j \in Jobs, NEW c \in Collectors
    PROVE  StaysEnded(j, c)
<1> USE DEF ApiTypeOK, TypeOK, database
<1> SUFFICES ASSUME job'[j] # NoRow, job[j] \in TerminalJobStatuses, run[j][c] = "failed"
             PROVE  /\ job'[j] \in TerminalJobStatuses
                    /\ run'[j][c] = "failed"
                    /\ \A u \in Tasks : ServedBy(u, j)' => ServedBy(u, j)
  BY DEF StaysEnded
<1>1. /\ job' = job /\ serving' = serving
      /\ \A u \in Tasks : pc'[u] # pc[u] => pc'[u] = "dead"
  BY DEF CollectorStep, StartCollector, CheckCollector, CollectorAnswers, SaveFindings,
         FinishCollector, CollectorRaises
<1>2. \A u \in Tasks : ServedBy(u, j)' => ServedBy(u, j)
  BY <1>1 DEF ServedBy, Active
<1>3. ASSUME run'[j][c] # run[j][c] PROVE FALSE
  <2>1. /\ j = serving[t] /\ c = d
        /\ StartCollector(t, c) \/ FinishCollector(t, c)
    BY <1>3 DEF CollectorStep, StartCollector, CheckCollector, CollectorAnswers,
                SaveFindings, FinishCollector, CollectorRaises
  <2>2. work[t][c] \in {"wait"} \cup TerminalCollectorStatuses
    BY <2>1 DEF StartCollector, FinishCollector, MayStart
  <2>3. pc[t] = "dispatch" /\ Active(t)
    BY <1>1, <2>1, <2>2
       DEF StartCollector, MayStart, TasksInv, DeadInv, Inside, Active, FinishCollector
  <2>4. Matches(work[t][c], run[j][c])
    BY <1>1, <2>1, <2>3 DEF JobsInv, Followed, ServedBy, Stage
  <2> QED
    BY <2>2, <2>4 DEF Matches, Inside
<1> QED
  BY <1>1, <1>2, <1>3

LEMMA EndedRequest ==
    ASSUME ApiTypeOK, NEW q \in Requests, RequestStep(q), ~RetryCommit(q),
           NEW j \in Jobs, NEW c \in Collectors
    PROVE  StaysEnded(j, c)
<1> USE DEF ApiTypeOK, TypeOK, database, process
<1>1. /\ UNCHANGED <<pc, serving>>
      /\ job'[j] # NoRow => run'[j] = run[j] /\ job'[j] \in {job[j], "canceled"}
  BY DEF RequestStep, CancelRead, CancelWrite, CancelSweep, CancelLookup, RetryRead,
         RetryCheck, RetrySelect, DeleteRead, DeleteCommit, SweepRetention, runnerVars
<1> QED
  BY <1>1 DEF StaysEnded, ServedBy, Active, TerminalJobStatuses

(* The next step of a retry itself: is_active refuses while an Event is    *)
(* registered, and a job that is claimed but not registered yet has no     *)
(* failed collector, because it was never retried.                         *)
LEMMA RetrySteps ==
    ASSUME ApiTypeOK, JobsInv, OneRetry, NEW r \in Requests, Offered(r), Going(r),
           ask[r].kind = "retry", RequestStep(r), Going(r)'
    PROVE  Offered(r)'
<1> USE DEF ApiTypeOK, TypeOK
<1> DEFINE j == ask[r].job
           c == ask[r].collector
<1>0. j \in Jobs /\ c \in Collectors
  BY DEF Questions
<1>1. UNCHANGED <<runnerVars, ask>>
  BY DEF RequestStep, CancelRead, CancelWrite, CancelSweep, CancelLookup, RetryRead,
         RetryCheck, RetrySelect, RetryCommit, DeleteRead, DeleteCommit, Asked, Goto,
         Going, Answers
<1>2. CASE RetryRead(r)
  <2>1. at'[r] = "check" /\ seen'[r] = job[j] /\ job[j] # NoRow
    BY <1>2 DEF RetryRead, Goto, Going, Answers
  <2> QED
    BY <1>1, <2>1 DEF Offered, TerminalJobStatuses, runnerVars
<1>3. CASE RetryCheck(r)
  <2>1. at[r] = "check" /\ at'[r] = "select" /\ event[j] = NoTask /\ UNCHANGED seen
    BY <1>3 DEF RetryCheck, Asked, Goto, Going, Answers
  <2>2. ASSUME NEW t \in Tasks, ServedBy(t, j), job[j] # NoRow PROVE FALSE
    <3>1. Stage(t, j) /\ Fresh(j)
      BY <1>0, <2>2 DEF JobsInv, Followed
    <3>2. pc[t] = "register"
      BY <2>1, <3>1 DEF Stage
    <3>3. run[j][c] = "failed"
      BY <2>2 DEF Offered
    <3>4. PICK q \in Requests : ask[q].kind = "retry" /\ at[q] \in Answers
      BY <1>0, <2>2, <3>1, <3>2, <3>3 DEF Fresh
    <3>5. q = r
      BY <3>4 DEF OneRetry
    <3> QED
      BY <2>1, <3>4, <3>5 DEF Answers
  <2> QED
    BY <1>1, <2>1, <2>2 DEF Offered, ServedBy, Active, runnerVars
<1>4. CASE RetrySelect(r)
  <2>1. at[r] = "select" /\ at'[r] = "commit" /\ UNCHANGED seen
    BY <1>4 DEF RetrySelect, Asked, Goto, Going, Answers
  <2> QED
    BY <1>1, <2>1 DEF Offered, ServedBy, Active, runnerVars
<1> QED
  BY <1>2, <1>3, <1>4
     DEF RequestStep, CancelRead, CancelWrite, CancelSweep, CancelLookup, RetryCommit,
         DeleteRead, DeleteCommit, Asked, Goto, Going, Answers

LEMMA RetryInvKept ==
    ASSUME DashboardOnly, ApiTypeOK, DispatchInv, ImplementsInv, [Next]_vars
    PROVE  RetryInv'
<1> USE DEF ApiTypeOK, TypeOK, DispatchInv, ImplementsInv
<1> SUFFICES ASSUME NEW r \in Requests, Going(r)', ask'[r].kind = "retry"
             PROVE  Offered(r)'
  BY DEF RetryInv
<1> DEFINE j == ask[r].job
           c == ask[r].collector
<1>1. ASSUME NEW question \in Questions, Send(r, question) PROVE Offered(r)'
  <2>1. /\ at'[r] = "read" /\ ask'[r] = question /\ question.kind = "retry"
        /\ question.job <= created
        /\ job[question.job] \in TerminalJobStatuses
        /\ run[question.job][question.collector] = "failed"
        /\ UNCHANGED runnerVars
    BY <1>1 DEF Send, Goto, RetryOffered
  <2> QED
    BY <2>1 DEF Offered, runnerVars
<1>2. CASE RequestStep(r)
  <2>1. Going(r) /\ ask[r].kind = "retry"
    BY <1>2 DEF RequestStep, CancelRead, CancelWrite, CancelSweep, CancelLookup, RetryRead,
         RetryCheck, RetrySelect, RetryCommit, DeleteRead, DeleteCommit, Asked, Going, Answers
  <2>2. Offered(r)
    BY <2>1 DEF RetryInv
  <2> QED
    BY <1>2, <2>1, <2>2, RetrySteps
<1>3. ASSUME at'[r] = at[r], ask'[r] = ask[r], seen'[r] = seen[r],
             created' \in {created, created + 1},
             Going(r) /\ j \in Jobs /\ c \in Collectors => StaysEnded(j, c)
      PROVE  Offered(r)'
  <2>1. Going(r) /\ ask[r].kind = "retry" /\ j \in Jobs /\ c \in Collectors
    BY <1>3 DEF Going, Questions
  <2>2. Offered(r) /\ StaysEnded(j, c)
    BY <1>3, <2>1 DEF RetryInv
  <2>3. created \in Nat /\ created' \in Nat /\ created <= created'
    BY <1>3, NumJobsAssumption
  <2>4. j <= created /\ job[j] = NoRow => job'[j] = NoRow
    BY <2>1, GoneStays
  <2> QED
    BY <1>3, <2>1, <2>2, <2>3, <2>4, OfferKept
<1>4. CASE UNCHANGED requestVars
  <2>1. at'[r] = at[r] /\ ask'[r] = ask[r] /\ seen'[r] = seen[r] /\ Going(r)
    BY <1>4 DEF requestVars, Going
  <2>2. up /\ ~Stop
    BY <2>1 DEF DownInv, Stop, Crash, Going, Answers
  <2>3. ASSUME NEW t \in Tasks, TaskStep(t) PROVE Offered(r)'
    <3>1. UNCHANGED created
      BY <2>3 DEF TaskStep, ClaimNothing, ClaimSelect, ClaimUpdate, ClaimLost, Register, Load,
         SeedDenyList, FailJobBeforeDispatch, FinishDispatch, ComputeVerdict, FinalizeJob,
         FinalizeRaises, Sweep, SweepRetention, Unregister, runnerVars, database
    <3> QED
      BY <1>3, <2>1, <2>3, <3>1, EndedTask
  <2>4. ASSUME NEW t \in Tasks, NEW d \in Collectors, CollectorStep(t, d) PROVE Offered(r)'
    <3>1. UNCHANGED created
      BY <2>4 DEF CollectorStep, StartCollector, CheckCollector, CollectorAnswers,
                  SaveFindings, FinishCollector, CollectorRaises, database
    <3> QED
      BY <1>3, <2>1, <2>4, <3>1, EndedCollector
  <2>5. CASE \E sources \in Selections : CreateJob(sources)
    <3>1. created' = created + 1 /\ UNCHANGED <<pc, serving>>
      BY <2>5 DEF CreateJob, process
    <3>2. ASSUME j \in Jobs PROVE StaysEnded(j, c)
      <4>1. j <= created /\ j \in Nat /\ created \in Nat
        BY <2>1, <3>2, JobsArePositive, NumJobsAssumption DEF RetryInv, Offered
      <4>2. j # created + 1
        BY <4>1
      <4>3. job'[j] = job[j] /\ run'[j] = run[j]
        BY <2>5, <4>2 DEF CreateJob
      <4> QED
        BY <3>1, <4>3, SameStaysEnded
    <3> QED
      BY <1>3, <2>1, <3>1, <3>2
  <2>6. CASE (\E k \in Jobs : Expire(k)) \/ UNCHANGED vars
    <3>1. UNCHANGED <<job, run, pc, serving, created>>
      BY <2>6 DEF Expire, process, vars
    <3>2. StaysEnded(j, c)
      BY <3>1, SameStaysEnded
    <3> QED
      BY <1>3, <2>1, <3>1, <3>2
  <2>7. ~Restart
    BY <2>2 DEF Restart
  <2>8. ASSUME NEW q \in Requests, NEW question \in Questions, Send(q, question) PROVE FALSE
    BY <1>4, <2>8 DEF Send, Goto, requestVars
  <2>9. ASSUME NEW q \in Requests, RequestStep(q) PROVE FALSE
    BY <1>4, <2>9 DEF RequestStep, CancelRead, CancelWrite, CancelSweep, CancelLookup,
         RetryRead, RetryCheck, RetrySelect, RetryCommit, DeleteRead, DeleteCommit, Asked,
         Goto, requestVars
  <2> QED
    BY <2>2, <2>3, <2>4, <2>5, <2>6, <2>7, <2>8, <2>9 DEF Next, RunnerStep
<1>5. ASSUME NEW q \in Requests, NEW question \in Questions, Send(q, question), q # r
      PROVE  Offered(r)'
  <2>1. /\ at'[r] = at[r] /\ ask'[r] = ask[r] /\ seen' = seen
        /\ UNCHANGED <<job, run, pc, serving, created>>
    BY <1>5 DEF Send, Goto, runnerVars
  <2>2. StaysEnded(j, c)
    BY <2>1, SameStaysEnded
  <2> QED
    BY <1>3, <2>1, <2>2
<1>6. ASSUME NEW q \in Requests, RequestStep(q), q # r PROVE Offered(r)'
  <2>1. at'[r] = at[r] /\ ask'[r] = ask[r] /\ seen'[r] = seen[r] /\ UNCHANGED created
    BY <1>6 DEF RequestStep, CancelRead, CancelWrite, CancelSweep, CancelLookup, RetryRead,
         RetryCheck, RetrySelect, RetryCommit, DeleteRead, DeleteCommit, Goto, runnerVars,
         SweepRetention, database
  <2>2. ~RetryCommit(q)
    BY <1>6, <2>1 DEF RetryCommit, Asked, OneRetry
  <2> QED
    BY <1>3, <1>6, <2>1, <2>2, EndedRequest
<1>7. ~Stop
  BY DEF Stop, Going, Answers
<1> QED
  BY <1>1, <1>2, <1>4, <1>5, <1>6, <1>7 DEF Next, vars, requestVars

(* The inductive invariant of the refinement.                              *)
THEOREM ImplementsInvariant ==
    ASSUME \A v, w \in Workers : v = w, DashboardOnly, MaxRetries <= 1,
           IsFiniteSet(Requests)
    PROVE  Spec => []ImplementsInv
<1>1. Init => ImplementsInv
  <2> SUFFICES ASSUME Init PROVE ImplementsInv
    OBVIOUS
  <2>1. JobsInv
    BY DEF Init, RunnerInit, JobsInv
  <2>2. DeadInv
    BY DEF Init, RunnerInit, DeadInv
  <2>3. RetryInv /\ OneRetry
    BY DEF Init, RetryInv, OneRetry, NoQuestion
  <2> QED
    BY <2>1, <2>2, <2>3 DEF ImplementsInv
<1>2. ApiTypeOK /\ DispatchInv /\ ImplementsInv /\ [Next]_vars => ImplementsInv'
  BY JobsInvKept, DeadInvKept, RetryInvKept, OneRetryKept DEF ImplementsInv, DispatchInv
<1> QED
  BY <1>1, <1>2, Typed, DispatchInvariant, PTL DEF Spec

-----------------------------------------------------------------------------
(* Both specifications speak of the same statuses.                         *)
LEMMA SameWords ==
    /\ Lifecycle!NoRow = NoRow
    /\ Lifecycle!TerminalJobStatuses = TerminalJobStatuses
    /\ Lifecycle!TerminalCollectorStatuses = TerminalCollectorStatuses
    /\ Lifecycle!Waiting = {"queued", "interrupted"}
    /\ \A statuses : Lifecycle!ComputeJobStatus(statuses) = ComputeJobStatus(statuses)
BY DEF NoRow, Lifecycle!NoRow, TerminalJobStatuses, Lifecycle!TerminalJobStatuses,
       TerminalCollectorStatuses, Lifecycle!TerminalCollectorStatuses, Lifecycle!Waiting,
       ComputeJobStatus, Lifecycle!ComputeJobStatus

(* What a client sees of a job that is there, and of one that is not.      *)
LEMMA Visible ==
    ASSUME NEW j \in Jobs
    PROVE  /\ job[j] # NoRow => VisibleRun[j] = run[j]
           /\ job[j] = NoRow => VisibleRun[j] = [c \in Collectors |-> NoRow]
BY DEF VisibleRun

(* A step that keeps what is seen of every job is a stutter.               *)
LEMMA Stutters ==
    ASSUME TypeOK, TypeOK',
           \A j \in Jobs : job'[j] = job[j] /\ (job[j] # NoRow => run'[j] = run[j])
    PROVE  UNCHANGED Lifecycle!lifecycleVars
<1>1. job' = job
  BY DEF TypeOK
<1>2. VisibleRun' = VisibleRun
  BY <1>1 DEF VisibleRun
<1> QED
  BY <1>1, <1>2 DEF Lifecycle!lifecycleVars

(* A step that changes what is seen of one job changes VisibleRun there.   *)
LEMMA SeenAt ==
    ASSUME TypeOK, TypeOK', NEW j \in Jobs, NEW seenRun,
           \A k \in Jobs : k # j => job'[k] = job[k] /\ run'[k] = run[k],
           IF job'[j] = NoRow THEN seenRun = [c \in Collectors |-> NoRow] ELSE run'[j] = seenRun
    PROVE  /\ job' = [job EXCEPT ![j] = job'[j]]
           /\ VisibleRun' = [VisibleRun EXCEPT ![j] = seenRun]
BY DEF TypeOK, VisibleRun

(* The statuses of a visible job are those of its rows.                    *)
LEMMA SeenStatuses ==
    ASSUME NEW j \in Jobs, job[j] # NoRow
    PROVE  Lifecycle!Statuses(j) = RunStatuses(j)
BY Visible, SameWords DEF Lifecycle!Statuses, RunStatuses

(* A sweep deletes finished jobs, seen from outside: all their runs too.   *)
LEMMA SweepDeletes ==
    ASSUME TypeOK, TypeOK', NEW cascade \in BOOLEAN, SweepRetention(cascade)
    PROVE  \E gone \in SUBSET Jobs : Lifecycle!Delete(gone)
<1> DEFINE gone == {j \in expired : job[j] \in TerminalJobStatuses}
<1>1. gone \in SUBSET Jobs
  BY DEF TypeOK
<1>2. job' = [j \in Jobs |-> IF j \in gone THEN NoRow ELSE job[j]]
  BY DEF SweepRetention
<1>3. \A j \in Jobs : j \notin gone => run'[j] = run[j]
  BY DEF SweepRetention
<1>4. VisibleRun' = [j \in Jobs |-> [c \in Collectors |->
                        IF j \in gone THEN NoRow ELSE VisibleRun[j][c]]]
  BY <1>2, <1>3 DEF VisibleRun, TypeOK
<1> HIDE DEF gone
<1> QED
  BY <1>1, <1>2, <1>4, SameWords DEF Lifecycle!Delete

(* A step of a task is the lifecycle step the client expects, or none.     *)
LEMMA TaskImplements ==
    ASSUME ApiTypeOK, ApiTypeOK', TasksInv, JobsInv, NEW t \in Tasks, TaskStep(t)
    PROVE  [Lifecycle!LifecycleNext]_(Lifecycle!lifecycleVars)
<1> USE SameWords DEF ApiTypeOK, database
<1> DEFINE j == serving[t]
<1>1. CASE ClaimUpdate(t)
  <2>1. j \in Jobs /\ job[j] = "queued"
    BY <1>1 DEF ClaimUpdate, TasksInv
  <2>2. /\ job' = [job EXCEPT ![j] = "running"]
        /\ VisibleRun' = VisibleRun
    BY <1>1, <2>1 DEF ClaimUpdate, VisibleRun, TypeOK, NoRow
  <2> HIDE DEF j
  <2>3. Lifecycle!Claim(j)
    BY <2>1, <2>2 DEF Lifecycle!Claim
  <2> QED
    BY <2>1, <2>3 DEF Lifecycle!LifecycleNext
<1>2. CASE Sweep(t)
  BY <1>2, SweepDeletes DEF Sweep, Lifecycle!LifecycleNext
<1>3. CASE FailJobBeforeDispatch(t) /\ job[j] # NoRow
  <2>1. j \in Jobs /\ pc[t] = "fail" /\ Stage(t, j)
    BY <1>3 DEF FailJobBeforeDispatch, TasksInv, JobsInv, Followed, ServedBy, Active
  <2>2. /\ job[j] \in {"running", "canceled"}
        /\ NoneRuns(j) /\ Pending(j) # {}
        /\ \A c \in Collectors : Matches(work[t][c], run[j][c])
    BY <2>1 DEF Stage, TerminalJobStatuses
  <2> DEFINE seenRun == [c \in Collectors |->
                 IF run[j][c] \in {"queued", "interrupted"} THEN "failed" ELSE run[j][c]]
  <2>3. \A c \in Collectors : (work[t][c] = "wait") <=> run[j][c] \in {"queued", "interrupted"}
    <3>1. \A c \in Collectors : work[t][c] \in WorkPoints /\ run[j][c] # "running"
      BY <2>1, <2>2 DEF TypeOK, NoneRuns
    <3> QED
      BY <2>2, <3>1
         DEF Matches, WorkPoints, Inside, TerminalCollectorStatuses, NoRow
  <2>4. run' = [run EXCEPT ![j] = seenRun] /\ job' = [job EXCEPT ![j] = "failed"]
    <3>1. job' = [job EXCEPT ![j] = "failed"]
      BY <1>3, <2>1 DEF FailJobBeforeDispatch, TypeOK
    <3>2. \A c \in Collectors :
             (IF work[t][c] = "wait" /\ run[j][c] # NoRow THEN "failed" ELSE run[j][c])
             = seenRun[c]
      BY <2>3 DEF NoRow
    <3>3. run' = [run EXCEPT ![j] = seenRun]
      BY <1>3, <3>2 DEF FailJobBeforeDispatch
    <3> QED
      BY <3>1, <3>3
  <2>5. VisibleRun[j] = run[j]
    BY <1>3, <2>1, Visible
  <2>6. VisibleRun' = [VisibleRun EXCEPT ![j] = seenRun]
    BY <2>1, <2>4 DEF VisibleRun, TypeOK, NoRow
  <2>7. "running" \notin RunStatuses(j) /\ RunStatuses(j) \cap {"queued", "interrupted"} # {}
    BY <2>2 DEF RunStatuses, NoneRuns, Pending, NoRow
  <2>8. Lifecycle!Statuses(j) = RunStatuses(j)
    BY <1>3, <2>1, SeenStatuses
  <2> HIDE DEF j
  <2>9. Lifecycle!FailEarly(j)
    BY <2>2, <2>4, <2>5, <2>6, <2>7, <2>8 DEF Lifecycle!FailEarly
  <2> QED
    BY <2>1, <2>9 DEF Lifecycle!LifecycleNext
<1>4. CASE FinalizeJob(t) /\ job[j] # NoRow
  <2>1. j \in Jobs /\ pc[t] \in TerminalJobStatuses /\ Stage(t, j)
    BY <1>4 DEF FinalizeJob, TasksInv, JobsInv, Followed, ServedBy, Active,
                TerminalJobStatuses
  <2>2. /\ job[j] \in {"running", "canceled"} /\ Ended(j)
        /\ pc[t] \in {"canceled", ComputeJobStatus(RunStatuses(j))}
    BY <2>1 DEF Stage, TerminalJobStatuses
  <2>3. job' = [job EXCEPT ![j] = pc[t]] /\ run' = run
    BY <1>4, <2>1 DEF FinalizeJob, TypeOK
  <2>4. VisibleRun' = VisibleRun
    BY <1>4, <2>1, <2>3 DEF VisibleRun, TypeOK, TerminalJobStatuses, NoRow
  <2>5. Lifecycle!Statuses(j) = RunStatuses(j)
    BY <1>4, <2>1, SeenStatuses
  <2>6. Lifecycle!Settled(j)
    BY <2>2, <2>5 DEF Lifecycle!Settled, RunStatuses, Ended
  <2> HIDE DEF j
  <2>7. Lifecycle!Conclude(j)
    BY <2>2, <2>3, <2>4, <2>5, <2>6 DEF Lifecycle!Conclude
  <2> QED
    BY <2>1, <2>7 DEF Lifecycle!LifecycleNext
<1>5. CASE (FailJobBeforeDispatch(t) \/ FinalizeJob(t)) /\ job[j] = NoRow
  <2>1. j \in Jobs
    BY <1>5 DEF FailJobBeforeDispatch, FinalizeJob, TasksInv, TerminalJobStatuses
  <2>2. job' = job /\ \A k \in Jobs : k # j => run'[k] = run[k]
    BY <1>5, <2>1 DEF FailJobBeforeDispatch, FinalizeJob, TypeOK
  <2> QED
    BY <1>5, <2>2, Stutters
<1>6. ASSUME ~ClaimUpdate(t), ~Sweep(t), ~FailJobBeforeDispatch(t), ~FinalizeJob(t)
      PROVE  UNCHANGED Lifecycle!lifecycleVars
  <2>1. UNCHANGED <<job, run>>
    BY <1>6 DEF TaskStep, ClaimNothing, ClaimSelect, ClaimLost, Register, Load,
         SeedDenyList, FinishDispatch, ComputeVerdict, FinalizeRaises, Unregister, runnerVars
  <2> QED
    BY <2>1, Stutters
<1> QED
  BY <1>1, <1>2, <1>3, <1>4, <1>5, <1>6

LEMMA CollectorImplements ==
    ASSUME ApiTypeOK, ApiTypeOK', TasksInv, JobsInv, DeadInv,
           NEW t \in Tasks, NEW c \in Collectors, CollectorStep(t, c)
    PROVE  [Lifecycle!LifecycleNext]_(Lifecycle!lifecycleVars)
<1> USE SameWords DEF ApiTypeOK, database
<1> DEFINE j == serving[t]
<1>1. CASE (StartCollector(t, c) \/ FinishCollector(t, c)) /\ job[j] # NoRow
  <2>1. pc[t] = "dispatch" /\ Active(t) /\ j \in Jobs
    BY <1>1 DEF StartCollector, FinishCollector, MayStart, TasksInv, DeadInv, Inside, Active
  <2>2. Stage(t, j)
    BY <1>1, <2>1 DEF JobsInv, Followed, ServedBy
  <2>3. job[j] \in {"running", "canceled"} /\ Matches(work[t][c], run[j][c])
    BY <2>1, <2>2 DEF Stage
  <2>4. VisibleRun[j] = run[j]
    BY <1>1, <2>1, Visible
  <2>5. ASSUME NEW status, run' = [run EXCEPT ![j][c] = status], job' = job
        PROVE  VisibleRun' = [VisibleRun EXCEPT ![j][c] = status]
    BY <1>1, <2>1, <2>5 DEF VisibleRun, TypeOK
  <2>6. CASE StartCollector(t, c)
    <3>1. run' = [run EXCEPT ![j][c] = "running"] /\ job' = job
      BY <2>6 DEF StartCollector
    <3>2. run[j][c] \in {"queued", "interrupted"}
      BY <2>3, <2>6 DEF StartCollector, MayStart, Matches
    <3>3. VisibleRun' = [VisibleRun EXCEPT ![j][c] = "running"]
      BY <2>5, <3>1
    <3> HIDE DEF j
    <3>4. Lifecycle!Start(j, c)
      BY <2>3, <2>4, <3>1, <3>2, <3>3 DEF Lifecycle!Start
    <3> QED
      BY <2>1, <3>4 DEF Lifecycle!LifecycleNext
  <2>7. CASE FinishCollector(t, c)
    <3>1. work[t][c] \in TerminalCollectorStatuses /\ run[j][c] = "running"
      BY <2>3, <2>7 DEF FinishCollector, Matches, Inside
    <3>2. run' = [run EXCEPT ![j][c] = work[t][c]] /\ job' = job
      BY <2>7, <3>1 DEF FinishCollector, NoRow
    <3>3. VisibleRun' = [VisibleRun EXCEPT ![j][c] = work[t][c]]
      BY <2>5, <3>2
    <3> HIDE DEF j
    <3>4. Lifecycle!Finish(j, c)
      BY <2>4, <3>1, <3>2, <3>3 DEF Lifecycle!Finish
    <3> QED
      BY <2>1, <3>4 DEF Lifecycle!LifecycleNext
  <2> QED
    BY <1>1, <2>6, <2>7
<1>2. CASE ~((StartCollector(t, c) \/ FinishCollector(t, c)) /\ job[j] # NoRow)
  <2>1. job' = job /\ \A k \in Jobs : job[k] # NoRow => run'[k] = run[k]
    BY <1>2 DEF CollectorStep, StartCollector, CheckCollector, CollectorAnswers,
                SaveFindings, FinishCollector, CollectorRaises, TypeOK
  <2> QED
    BY <2>1, Stutters
<1> QED
  BY <1>1, <1>2

LEMMA RequestImplements ==
    ASSUME ApiTypeOK, ApiTypeOK', RetryInv, NEW r \in Requests, RequestStep(r)
    PROVE  [Lifecycle!LifecycleNext]_(Lifecycle!lifecycleVars)
<1> USE SameWords DEF ApiTypeOK, database
<1> DEFINE j == ask[r].job
           c == ask[r].collector
<1>1. Going(r) /\ j \in Jobs /\ c \in Collectors
  <2>1. Going(r)
    BY DEF RequestStep, CancelRead, CancelWrite, CancelSweep, CancelLookup, RetryRead,
         RetryCheck, RetrySelect, RetryCommit, DeleteRead, DeleteCommit, Asked, Going, Answers
  <2> QED
    BY <2>1 DEF Questions
<1>2. CASE CancelWrite(r) /\ job[j] # NoRow
  <2>1. job' = [job EXCEPT ![j] = "canceled"] /\ run' = run
    BY <1>2 DEF CancelWrite
  <2>2. VisibleRun' = VisibleRun
    BY <1>1, <1>2, <2>1 DEF VisibleRun, TypeOK, NoRow
  <2> HIDE DEF j
  <2>3. Lifecycle!Cancel(j)
    BY <1>2, <2>1, <2>2 DEF Lifecycle!Cancel
  <2> QED
    BY <1>1, <2>3 DEF Lifecycle!LifecycleNext
<1>3. CASE CancelSweep(r)
  BY <1>3, SweepDeletes DEF CancelSweep, Lifecycle!LifecycleNext
<1>4. CASE RetryCommit(r) /\ UNCHANGED <<job, run>>
  BY <1>4, Stutters
<1>5. CASE RetryCommit(r) /\ ~UNCHANGED <<job, run>>
  <2>1. /\ job[j] \in TerminalJobStatuses /\ job[j] # NoRow
        /\ run[j][c] = "failed"
        /\ seen[r] # "queued"
    BY <1>1, <1>5 DEF RetryCommit, Asked, RetryInv, Offered
  <2>2. run' = [run EXCEPT ![j][c] = "queued"] /\ job' = [job EXCEPT ![j] = "queued"]
    BY <1>5, <2>1 DEF RetryCommit
  <2>3. VisibleRun' = [VisibleRun EXCEPT ![j][c] = "queued"] /\ VisibleRun[j] = run[j]
    BY <1>1, <2>1, <2>2 DEF VisibleRun, TypeOK, NoRow
  <2> HIDE DEF j, c
  <2>4. Lifecycle!Retry(j, c)
    BY <2>1, <2>2, <2>3 DEF Lifecycle!Retry
  <2> QED
    BY <1>1, <2>4 DEF Lifecycle!LifecycleNext
<1>6. CASE DeleteCommit(r)
  <2>1. /\ job' = [job EXCEPT ![j] = NoRow]
        /\ run' = [run EXCEPT ![j] = [d \in Collectors |-> NoRow]]
    BY <1>6 DEF DeleteCommit
  <2>2. job' = [k \in Jobs |-> IF k \in {j} THEN NoRow ELSE job[k]]
    BY <1>1, <2>1 DEF TypeOK
  <2>3. VisibleRun' = [k \in Jobs |-> [d \in Collectors |->
                          IF k \in {j} THEN NoRow ELSE VisibleRun[k][d]]]
    BY <1>1, <2>1, <2>2 DEF VisibleRun, TypeOK
  <2> HIDE DEF j
  <2>4. Lifecycle!Delete({j})
    BY <2>2, <2>3 DEF Lifecycle!Delete
  <2> QED
    BY <1>1, <2>4 DEF Lifecycle!LifecycleNext
<1>7. CASE \/ CancelWrite(r) /\ job[j] = NoRow
           \/ ~CancelWrite(r) /\ ~CancelSweep(r) /\ ~RetryCommit(r) /\ ~DeleteCommit(r)
  <2>1. UNCHANGED <<job, run>>
    BY <1>7 DEF RequestStep, CancelRead, CancelWrite, CancelLookup, RetryRead, RetryCheck,
                RetrySelect, DeleteRead, runnerVars
  <2> QED
    BY <2>1, Stutters
<1> QED
  BY <1>2, <1>3, <1>4, <1>5, <1>6, <1>7

LEMMA CreateImplements ==
    ASSUME ApiTypeOK, ApiTypeOK', TasksInv, NEW sources \in Selections, CreateJob(sources)
    PROVE  [Lifecycle!LifecycleNext]_(Lifecycle!lifecycleVars)
<1> USE SameWords DEF ApiTypeOK
<1> DEFINE j == created + 1
           seenRun == [c \in Collectors |-> IF c \in sources THEN "queued" ELSE NoRow]
<1>1. created \in Nat /\ j \in Jobs /\ j > created
  BY NumJobsAssumption DEF CreateJob, TypeOK, Jobs
<1>2. job[j] = NoRow
  BY <1>1 DEF TasksInv
<1>3. sources \in SUBSET Collectors /\ sources # {}
  BY CollectorsAssumption
<1>4. job' = [job EXCEPT ![j] = "queued"] /\ run' = [run EXCEPT ![j] = seenRun]
  BY DEF CreateJob
<1>5. VisibleRun' = [VisibleRun EXCEPT ![j] = seenRun]
  BY <1>1, <1>4 DEF VisibleRun, TypeOK, NoRow
<1> HIDE DEF j
<1>6. Lifecycle!Create(j, sources)
  BY <1>2, <1>3, <1>4, <1>5 DEF Lifecycle!Create
<1> QED
  BY <1>1, <1>3, <1>6 DEF Lifecycle!LifecycleNext

LEMMA RestartImplements ==
    ASSUME ApiTypeOK, ApiTypeOK', Restart
    PROVE  [Lifecycle!LifecycleNext]_(Lifecycle!lifecycleVars)
<1> USE SameWords DEF ApiTypeOK
<1> DEFINE gone == {j \in expired : job[j] \in TerminalJobStatuses}
<1>1. gone \in SUBSET Jobs
  BY DEF TypeOK
<1>2. job' = [j \in Jobs |-> IF j \in gone THEN NoRow ELSE job[j]]
  BY DEF Restart
<1>3. \A j \in Jobs, c \in Collectors :
         j \notin gone => run'[j][c] = Recovered(run[j][c])
  BY DEF Restart
<1>4. VisibleRun' = [j \in Jobs |-> [c \in Collectors |->
         IF j \in gone THEN NoRow
         ELSE IF VisibleRun[j][c] = "running" THEN "interrupted" ELSE VisibleRun[j][c]]]
  <2>1. ASSUME NEW j \in Jobs, job'[j] # NoRow
        PROVE  run'[j] = [c \in Collectors |->
                   IF VisibleRun[j][c] = "running" THEN "interrupted" ELSE VisibleRun[j][c]]
    <3>1. j \notin gone /\ VisibleRun[j] = run[j]
      BY <1>2, <2>1, Visible
    <3>2. \A c \in Collectors : run'[j][c] = Recovered(run[j][c])
      BY <1>3, <3>1
    <3> QED
      BY <3>1, <3>2 DEF Recovered, TypeOK
  <2>2. ASSUME NEW j \in Jobs, job'[j] = NoRow, j \notin gone
        PROVE  VisibleRun[j] = [c \in Collectors |-> NoRow]
    BY <1>2, <2>2, Visible
  <2> HIDE DEF gone
  <2>3. \A j \in Jobs : j \in gone => job'[j] = NoRow
    BY <1>2
  <2> QED
    BY <2>1, <2>2, <2>3 DEF VisibleRun, NoRow
<1> HIDE DEF gone
<1>5. Lifecycle!Interrupt(gone)
  BY <1>2, <1>4 DEF Lifecycle!Interrupt
<1> QED
  BY <1>1, <1>5 DEF Lifecycle!LifecycleNext

LEMMA StepImplements ==
    ASSUME ApiTypeOK, ApiTypeOK', DispatchInv, ImplementsInv, [Next]_vars
    PROVE  [Lifecycle!LifecycleNext]_(Lifecycle!lifecycleVars)
<1> USE DEF DispatchInv, ImplementsInv
<1>1. ASSUME UNCHANGED <<job, run>>
      PROVE  [Lifecycle!LifecycleNext]_(Lifecycle!lifecycleVars)
  BY <1>1, Stutters DEF ApiTypeOK
<1>2. CASE Stop \/ (\E j \in Jobs : Expire(j)) \/ UNCHANGED vars
  BY <1>1, <1>2 DEF Stop, Crash, Expire, database, vars
<1>3. CASE \E r \in Requests, question \in Questions : Send(r, question)
  BY <1>1, <1>3 DEF Send, runnerVars
<1> QED
  BY <1>2, <1>3, TaskImplements, CollectorImplements, RequestImplements,
     CreateImplements, RestartImplements
     DEF Next, RunnerStep

(* Seen through GET /api/jobs the runner and the handlers do nothing that  *)
(* JobLifecycle does not allow (runner.py, api/jobs.py 92-186): with the   *)
(* default of one worker loop, for any number of jobs, collectors,         *)
(* cancellations, deletions, crashes and sweeps, and one retry from the    *)
(* dashboard.                                                              *)
THEOREM Implements ==
    ASSUME \A v, w \in Workers : v = w, DashboardOnly, MaxRetries <= 1,
           IsFiniteSet(Requests)
    PROVE  Spec => ImplementsLifecycle
<1>1. Init => Lifecycle!LifecycleInit
  BY SameWords DEF Init, RunnerInit, VisibleRun, Lifecycle!LifecycleInit
<1>2. ApiTypeOK /\ ApiTypeOK' /\ DispatchInv /\ ImplementsInv /\ [Next]_vars
      => [Lifecycle!LifecycleNext]_(Lifecycle!lifecycleVars)
  BY StepImplements
<1> QED
  BY <1>1, <1>2, Typed, DispatchInvariant, ImplementsInvariant, PTL
     DEF Spec, ImplementsLifecycle, Lifecycle!LifecycleSpec

-----------------------------------------------------------------------------
LP == INSTANCE LifecycleProofs
      WITH Jobs <- Jobs, Collectors <- Collectors, job <- job, run <- VisibleRun

(* The lifecycle LifecycleProofs is about is the one the runner implements. *)
LEMMA SameLifecycle ==
    /\ Lifecycle!LifecycleInit => LP!LifecycleInit
    /\ [Lifecycle!LifecycleNext]_(Lifecycle!lifecycleVars) =>
           [LP!LifecycleNext]_(LP!lifecycleVars)
    /\ LP!VerdictIsTrue => VerdictIsTrue
<1>1. /\ Lifecycle!NoRow = LP!NoRow
      /\ Lifecycle!TerminalJobStatuses = LP!TerminalJobStatuses
      /\ Lifecycle!TerminalCollectorStatuses = LP!TerminalCollectorStatuses
      /\ Lifecycle!Waiting = LP!Waiting
      /\ Lifecycle!Verdicts = LP!Verdicts
      /\ \A statuses : Lifecycle!ComputeJobStatus(statuses) = LP!ComputeJobStatus(statuses)
  BY DEF Lifecycle!NoRow, LP!NoRow, Lifecycle!TerminalJobStatuses, LP!TerminalJobStatuses,
         Lifecycle!TerminalCollectorStatuses, LP!TerminalCollectorStatuses,
         Lifecycle!Waiting, LP!Waiting, Lifecycle!Verdicts, LP!Verdicts,
         Lifecycle!ComputeJobStatus, LP!ComputeJobStatus
<1>2. \A j : Lifecycle!Statuses(j) = LP!Statuses(j)
  BY <1>1 DEF Lifecycle!Statuses, LP!Statuses
<1>3. \A j : Lifecycle!Settled(j) = LP!Settled(j)
  BY <1>1, <1>2 DEF Lifecycle!Settled, LP!Settled
<1>4. LP!VerdictIsTrue => VerdictIsTrue
  BY <1>1, <1>2, <1>3
     DEF VerdictIsTrue, Lifecycle!VerdictIsTrue, LP!VerdictIsTrue,
         Lifecycle!TrueVerdict, LP!TrueVerdict
<1>5. Lifecycle!LifecycleInit => LP!LifecycleInit
  BY <1>1 DEF Lifecycle!LifecycleInit, LP!LifecycleInit
<1>6. ASSUME NEW j \in Jobs, NEW sources \in SUBSET Collectors, Lifecycle!Create(j, sources)
      PROVE  LP!Create(j, sources)
  BY <1>1, <1>6 DEF Lifecycle!Create, LP!Create
<1>7. ASSUME NEW j \in Jobs PROVE Lifecycle!Claim(j) => LP!Claim(j)
  BY DEF Lifecycle!Claim, LP!Claim
<1>8. ASSUME NEW j \in Jobs PROVE Lifecycle!Conclude(j) => LP!Conclude(j)
  BY <1>1, <1>2, <1>3 DEF Lifecycle!Conclude, LP!Conclude
<1>9. ASSUME NEW j \in Jobs PROVE Lifecycle!FailEarly(j) => LP!FailEarly(j)
  BY <1>1, <1>2 DEF Lifecycle!FailEarly, LP!FailEarly
<1>10. ASSUME NEW j \in Jobs PROVE Lifecycle!Cancel(j) => LP!Cancel(j)
  BY <1>1 DEF Lifecycle!Cancel, LP!Cancel
<1>11. ASSUME NEW j \in Jobs, NEW c \in Collectors
       PROVE  /\ Lifecycle!Start(j, c) => LP!Start(j, c)
              /\ Lifecycle!Finish(j, c) => LP!Finish(j, c)
              /\ Lifecycle!Retry(j, c) => LP!Retry(j, c)
  BY <1>1 DEF Lifecycle!Start, LP!Start, Lifecycle!Finish, LP!Finish,
              Lifecycle!Retry, LP!Retry
<1>12. ASSUME NEW gone \in SUBSET Jobs
       PROVE  /\ Lifecycle!Delete(gone) => LP!Delete(gone)
              /\ Lifecycle!Interrupt(gone) => LP!Interrupt(gone)
  BY <1>1 DEF Lifecycle!Delete, LP!Delete, Lifecycle!Interrupt, LP!Interrupt
<1>13. Lifecycle!LifecycleNext => LP!LifecycleNext
  BY <1>6, <1>7, <1>8, <1>9, <1>10, <1>11, <1>12
     DEF Lifecycle!LifecycleNext, LP!LifecycleNext
<1> QED
  BY <1>4, <1>5, <1>13 DEF Lifecycle!lifecycleVars, LP!lifecycleVars

(* So what was proved of the lifecycle is true of the runner: no verdict   *)
(* contradicts the collectors it is about (runner.py 62-68, 372-382).      *)
THEOREM VerdictsHold ==
    ASSUME \A v, w \in Workers : v = w, DashboardOnly, MaxRetries <= 1,
           IsFiniteSet(Requests)
    PROVE  Spec => []VerdictIsTrue
BY SameLifecycle, Implements, LP!VerdictsAreTrue, PTL
   DEF ImplementsLifecycle, Lifecycle!LifecycleSpec, LP!LifecycleSpec
-----------------------------------------------------------------------------
(* A deferred coroutine starts when the gathered ones have ended, and they *)
(* do not start again.                                                     *)
LEMMA DeferredAloneKept ==
    ASSUME ApiTypeOK, DownInv, DeferredAlone, [Next]_vars
    PROVE  DeferredAlone'
<1> USE CollectorsAssumption DEF ApiTypeOK, TypeOK
<1>1. ASSUME UNCHANGED <<work, pc>> PROVE DeferredAlone'
  BY <1>1 DEF DeferredAlone, AtWork, Idle
<1>2. ASSUME NEW t \in Tasks, TaskStep(t) PROVE DeferredAlone'
  <2>1. \A u \in Tasks : u # t => work'[u] = work[u] /\ pc'[u] = pc[u]
    BY <1>2, TaskFrame
  <2>2. \A c \in Deferred : ~AtWork(t, c)'
    <3>1. CASE FailJobBeforeDispatch(t) \/ FinalizeRaises(t) \/ Unregister(t)
      BY <3>1 DEF FailJobBeforeDispatch, FinalizeRaises, Unregister, NoWork, AtWork
    <3>2. CASE Load(t) /\ work' # work
      <4>1. \A c \in Collectors : work'[t][c] \in {"wait", "none"}
        BY <3>2 DEF Load
      <4> QED
        BY <4>1 DEF AtWork
    <3>3. CASE work' = work
      <4>1. \A c \in Deferred : ~AtWork(t, c)
        <5>1. CASE FinishDispatch(t)
          BY <5>1 DEF FinishDispatch, Idle, AtWork
        <5>2. CASE ~FinishDispatch(t)
          <6>1. pc[t] # "dispatch"
            BY <1>2, <5>2 DEF TaskStep, ClaimNothing, ClaimSelect, ClaimUpdate, ClaimLost,
                    Register, Load, SeedDenyList, FailJobBeforeDispatch, ComputeVerdict,
                    FinalizeJob, FinalizeRaises, Sweep, Unregister, TerminalJobStatuses
          <6> QED
            BY <6>1 DEF DeferredAlone
        <5> QED
          BY <5>1, <5>2
      <4> QED
        BY <3>3, <4>1 DEF AtWork
    <3> QED
      BY <1>2, <3>1, <3>2, <3>3
         DEF TaskStep, ClaimNothing, ClaimSelect, ClaimUpdate, ClaimLost, Register, Load,
             SeedDenyList, FinishDispatch, ComputeVerdict, FinalizeJob, Sweep, runnerVars
  <2> QED
    BY <2>1, <2>2 DEF DeferredAlone, AtWork, Idle
<1>3. ASSUME NEW t \in Tasks, NEW c \in Collectors, CollectorStep(t, c)
      PROVE  DeferredAlone'
  <2>1. /\ \A u \in Tasks, d \in Collectors : u # t \/ d # c => work'[u][d] = work[u][d]
        /\ \A u \in Tasks : u # t => pc'[u] = pc[u]
    BY <1>3 DEF CollectorStep, StartCollector, CheckCollector, CollectorAnswers, SaveFindings,
                FinishCollector, CollectorRaises
  <2>2. \/ MayStart(t, c) \/ AtWork(t, c)
    BY <1>3 DEF CollectorStep, StartCollector, CheckCollector, CollectorAnswers, SaveFindings,
                FinishCollector, CollectorRaises, AtWork, TerminalCollectorStatuses
  <2>3. ASSUME NEW d \in Deferred, d # c PROVE ~AtWork(t, d)
    <3>1. ~Idle(t, c)
      BY <2>2 DEF MayStart, Idle, AtWork
    <3>2. CASE c \in Deferred /\ MayStart(t, c)
      BY <2>3, <3>2 DEF MayStart, AtWork, Idle
    <3>3. CASE c \in Deferred /\ AtWork(t, c)
      BY <2>3, <3>3 DEF DeferredAlone
    <3>4. CASE c \notin Deferred
      BY <3>1, <3>4 DEF DeferredAlone
    <3> QED
      BY <2>2, <3>2, <3>3, <3>4
  <2>4. CASE c \in Deferred /\ AtWork(t, c)'
    <3>1. pc'[t] = pc[t]
      BY <1>3, <2>4 DEF CollectorStep, StartCollector, CheckCollector, CollectorAnswers,
                SaveFindings, FinishCollector, CollectorRaises, AtWork
    <3>2. pc[t] = "dispatch" /\ \A d \in Collectors \ Deferred : Idle(t, d)
      BY <2>2, <2>4 DEF MayStart, DeferredAlone
    <3>3. /\ pc'[t] = "dispatch"
          /\ \A d \in Collectors \ Deferred : Idle(t, d)'
          /\ \A d \in Deferred \ {c} : ~AtWork(t, d)'
      BY <2>1, <2>3, <2>4, <3>1, <3>2 DEF Idle, AtWork
    <3> QED
      BY <2>1, <3>3 DEF DeferredAlone, AtWork, Idle
  <2>5. CASE ~(c \in Deferred /\ AtWork(t, c)')
    <3>1. \A d \in Deferred : ~AtWork(t, d)'
      BY <2>1, <2>3, <2>5 DEF AtWork
    <3> QED
      BY <2>1, <3>1 DEF DeferredAlone, AtWork, Idle
  <2> QED
    BY <2>4, <2>5
<1>4. ASSUME NEW r \in Requests, RequestStep(r) PROVE DeferredAlone'
  <2>1. UNCHANGED <<work, pc>>
    BY <1>4 DEF RequestStep, CancelRead, CancelWrite, CancelSweep, CancelLookup, RetryRead,
           RetryCheck, RetrySelect, RetryCommit, DeleteRead, DeleteCommit, runnerVars, process
  <2> QED
    BY <1>1, <2>1
<1>5. CASE Restart \/ Stop
  BY <1>5 DEF Restart, DownInv, Stop, Crash, NoWork, DeferredAlone, AtWork
<1>6. CASE \/ \E sources \in Selections : CreateJob(sources)
           \/ \E j \in Jobs : Expire(j)
           \/ \E r \in Requests, question \in Questions : Send(r, question)
           \/ UNCHANGED vars
  BY <1>1, <1>6 DEF CreateJob, Expire, Send, process, runnerVars, vars
<1> QED
  BY <1>2, <1>3, <1>4, <1>5, <1>6 DEF Next, RunnerStep

(* What a dispatch has finished with has ended, and stays so: nobody else  *)
(* starts it, and a retry does not get to it.                              *)
LEMMA SettledStays ==
    ASSUME ApiTypeOK, DispatchInv, DeadApart, RetryInv, [Next]_vars, ~Restart,
           NEW t \in Tasks, Active(t), serving[t] \in Jobs,
           NEW c \in Collectors, Idle(t, c), run[serving[t]][c] \notin Unsettled
    PROVE  run'[serving[t]][c] \notin Unsettled
<1> USE DEF ApiTypeOK, TypeOK, DispatchInv
<1> DEFINE j == serving[t]
<1>1. ASSUME NEW sources \in Selections, CreateJob(sources) PROVE run'[j][c] = run[j][c]
  <2>1. created \in Nat /\ j <= created /\ j \in Nat
    BY NumJobsAssumption DEF TasksInv, Jobs
  <2>2. j # created + 1
    BY <2>1
  <2> QED
    BY <1>1, <2>2 DEF CreateJob
<1>2. ASSUME NEW u \in Tasks, NEW d \in Collectors, StartCollector(u, d)
      PROVE  run'[j][c] = run[j][c]
  <2>1. CASE u = t
    <3>1. d # c
      BY <1>2, <2>1 DEF StartCollector, MayStart, Idle
    <3> QED
      BY <1>2, <3>1 DEF StartCollector
  <2>2. CASE u # t
    <3>1. pc[u] \in {"dispatch", "dead"}
      BY <1>2 DEF StartCollector, MayStart
    <3>2. serving[u] # j
      BY <2>2, <3>1 DEF ExclusiveDispatch, DeadApart, Active
    <3> QED
      BY <1>2, <3>2 DEF StartCollector
  <2> QED
    BY <2>1, <2>2
<1>3. ASSUME NEW r \in Requests, RetryCommit(r) PROVE run'[j][c] = run[j][c]
  <2>1. CASE ask[r].job = j
    <3>1. at[r] = "commit" /\ ask[r].kind = "retry" /\ Going(r)
      BY <1>3 DEF RetryCommit, Asked, Going, Answers
    <3>2. Offered(r) /\ seen[r] # "queued"
      BY <3>1 DEF RetryInv, Offered
    <3>3. job[j] = NoRow
      BY <2>1, <3>1, <3>2 DEF Offered, ServedBy
    <3> QED
      BY <1>3, <2>1, <3>2, <3>3 DEF RetryCommit
  <2>2. CASE ask[r].job # j
    BY <1>3, <2>2 DEF RetryCommit
  <2> QED
    BY <2>1, <2>2
<1>4. NoRow \notin Unsettled /\ TerminalCollectorStatuses \cap Unsettled = {}
  BY DEF NoRow, TerminalCollectorStatuses, Unsettled
<1> QED
  BY <1>1, <1>2, <1>3, <1>4, RunsEnd

LEMMA IdleMeansEndedKept ==
    ASSUME ApiTypeOK, ApiTypeOK', DispatchInv, DeadApart, JobsInv, RetryInv, IdleMeansEnded,
           [Next]_vars
    PROVE  IdleMeansEnded'
<1> USE DEF ApiTypeOK, TypeOK, DispatchInv
<1> SUFFICES ASSUME NEW t \in Tasks, NEW c \in Collectors,
                    pc'[t] \in {"seed", "dispatch"}, Idle(t, c)'
             PROVE  run'[serving'[t]][c] \notin Unsettled
  BY DEF IdleMeansEnded
<1>1. ASSUME pc[t] \in {"seed", "dispatch"}, serving'[t] = serving[t], Idle(t, c)
      PROVE  run'[serving'[t]][c] \notin Unsettled
  <2>1. Active(t) /\ serving[t] \in Jobs /\ ~Restart
    BY <1>1 DEF Active, TasksInv, Restart, DownInv
  <2>2. run[serving[t]][c] \notin Unsettled
    BY <1>1 DEF IdleMeansEnded
  <2> QED
    BY <1>1, <2>1, <2>2, SettledStays
<1>2. ASSUME UNCHANGED <<pc, serving, work>> PROVE run'[serving'[t]][c] \notin Unsettled
  BY <1>1, <1>2 DEF Idle
<1>3. ASSUME NEW u \in Tasks, TaskStep(u) PROVE run'[serving'[t]][c] \notin Unsettled
  <2>1. CASE u # t
    <3>1. pc'[t] = pc[t] /\ serving'[t] = serving[t] /\ work'[t] = work[t]
      BY <1>3, <2>1, TaskFrame
    <3> QED
      BY <1>1, <3>1 DEF Idle
  <2>2. CASE u = t /\ Load(t)
    <3>1. /\ pc[t] = "load" /\ job[serving[t]] # NoRow
          /\ UNCHANGED <<serving, run>>
          /\ work'[t][c] = IF c \in Pending(serving[t]) THEN "wait" ELSE "none"
      BY <2>2 DEF Load, database
    <3>2. c \notin Pending(serving[t])
      BY <3>1 DEF Idle
    <3>3. serving[t] \in Jobs /\ ServedBy(t, serving[t])
      BY <3>1 DEF TasksInv, ServedBy, Active
    <3>4. run[serving[t]][c] # "running"
      BY <3>1, <3>3 DEF JobsInv, Followed, Stage, NoneRuns
    <3> QED
      BY <3>1, <3>2, <3>4 DEF Pending, Unsettled
  <2>3. CASE u = t /\ SeedDenyList(t)
    BY <1>1, <2>3 DEF SeedDenyList, Idle
  <2>4. CASE u = t /\ ComputeVerdict(t)
    <3>1. ComputeJobStatus(RunStatuses(serving[t])) \in TerminalJobStatuses
      BY VerdictRange
    <3> QED
      BY <2>4, <3>1 DEF ComputeVerdict, TerminalJobStatuses
  <2>5. CASE u = t /\ ~Load(t) /\ ~SeedDenyList(t) /\ ~ComputeVerdict(t)
    <3>1. ClaimNothing(t)
      BY <1>3, <2>5 DEF TaskStep, ClaimSelect, ClaimUpdate, ClaimLost, Register,
              FailJobBeforeDispatch, FinishDispatch, FinalizeJob, FinalizeRaises, Sweep,
              Unregister
    <3> QED
      BY <1>2, <3>1 DEF ClaimNothing, runnerVars
  <2> QED
    BY <2>1, <2>2, <2>3, <2>4, <2>5
<1>4. ASSUME NEW u \in Tasks, NEW d \in Collectors, CollectorStep(u, d)
      PROVE  run'[serving'[t]][c] \notin Unsettled
  <2>1. pc'[t] = pc[t] /\ serving'[t] = serving[t]
    BY <1>4 DEF CollectorStep, StartCollector, CheckCollector, CollectorAnswers, SaveFindings,
                FinishCollector, CollectorRaises
  <2>2. CASE FinishCollector(u, d) /\ u = t /\ d = c
    <3>1. serving[t] \in Jobs
      BY <2>1 DEF TasksInv
    <3>2. /\ serving'[t] = serving[t]
          /\ run'[serving[t]][c] \in {NoRow} \cup TerminalCollectorStatuses
      BY <2>2, <3>1 DEF FinishCollector
    <3> QED
      BY <3>2 DEF NoRow, TerminalCollectorStatuses, Unsettled
  <2>3. CASE ~(FinishCollector(u, d) /\ u = t /\ d = c)
    <3>1. Idle(t, c)
      BY <1>4, <2>3 DEF CollectorStep, StartCollector, CheckCollector, CollectorAnswers,
                SaveFindings, FinishCollector, CollectorRaises, Idle, TerminalCollectorStatuses
    <3> QED
      BY <1>1, <2>1, <3>1
  <2> QED
    BY <2>2, <2>3
<1>5. ASSUME NEW r \in Requests, RequestStep(r) PROVE run'[serving'[t]][c] \notin Unsettled
  <2>1. UNCHANGED <<pc, serving, work>>
    BY <1>5 DEF RequestStep, CancelRead, CancelWrite, CancelSweep, CancelLookup, RetryRead,
           RetryCheck, RetrySelect, RetryCommit, DeleteRead, DeleteCommit, runnerVars, process
  <2> QED
    BY <1>2, <2>1
<1>6. CASE \/ \E sources \in Selections : CreateJob(sources)
           \/ \E j \in Jobs : Expire(j)
           \/ \E r \in Requests, question \in Questions : Send(r, question)
           \/ UNCHANGED vars
  BY <1>2, <1>6 DEF CreateJob, Expire, Send, process, runnerVars, vars
<1>7. ~Restart /\ ~Stop
  BY DEF Restart, Stop, Crash
<1> QED
  BY <1>3, <1>4, <1>5, <1>6, <1>7 DEF Next, RunnerStep

(* Technology inference comes last: while it is at work every other        *)
(* collector of its job has ended, and stays ended until it has read what  *)
(* they found (runner.py 38-44 and 200-211), for any number of collectors  *)
(* and whatever crashes, cancellations and deletions come in between.      *)
THEOREM DeferredLast ==
    ASSUME \A v, w \in Workers : v = w, DashboardOnly, MaxRetries <= 1,
           IsFiniteSet(Requests)
    PROVE  Spec => []DeferredSeesEverything
<1>1. Init => AttemptsInv /\ DeferredInv
  <2> SUFFICES ASSUME Init PROVE AttemptsInv /\ DeferredInv
    OBVIOUS
  <2>1. AttemptsInv
    BY DEF Init, RunnerInit, AttemptsInv, DeadInv, DeadApart, AttemptLeft, NothingAhead,
           RowsWithinAttempts, Storing, NoWork
  <2>2. IdleMeansEnded
    BY DEF Init, RunnerInit, IdleMeansEnded
  <2>3. DeferredAlone
    BY CollectorsAssumption DEF Init, RunnerInit, NoWork, DeferredAlone, AtWork
  <2> QED
    BY <2>1, <2>2, <2>3 DEF DeferredInv
<1>2. /\ ApiTypeOK /\ ApiTypeOK' /\ DispatchInv /\ ImplementsInv
      /\ AttemptsInv /\ DeferredInv /\ [Next]_vars
      => AttemptsInv' /\ DeferredInv'
  BY AttemptsKept, DeferredAloneKept, IdleMeansEndedKept
     DEF DispatchInv, ImplementsInv, AttemptsInv, DeferredInv
<1>3. DispatchInv /\ DeferredInv => DeferredSeesEverything
  <2> SUFFICES ASSUME DispatchInv, DeferredInv, NEW t \in Tasks, NEW c \in Deferred,
                      work[t][c] \in {"check", "run", "save"}, NEW d \in Collectors \ Deferred
               PROVE  run[serving[t]][d] \notin Unsettled
    BY DEF DeferredSeesEverything
  <2>1. pc[t] = "dispatch" /\ Idle(t, d)
    BY DEF DeferredInv, DeferredAlone, AtWork
  <2> QED
    BY <2>1 DEF DeferredInv, IdleMeansEnded
<1> QED
  BY <1>1, <1>2, <1>3, Typed, DispatchInvariant, ImplementsInvariant, PTL DEF Spec

-----------------------------------------------------------------------------
(* A collector that has succeeded is not dispatched again: what a task has *)
(* still to do for a collector is to do because it is not DONE.            *)
Busy(t, c) == work[t][c] \notin {"none", "over"}

BusyInv ==
    \A t \in Tasks, c \in Collectors :
        Busy(t, c) =>
            /\ pc[t] \in {"seed", "fail", "dispatch", "dead"}
            /\ run[serving[t]][c] # "done"

(* Only _finish_collector makes a run DONE.                                *)
LEMMA DoneComesFrom ==
    ASSUME ApiTypeOK, TasksInv, [Next]_vars, NEW j \in Jobs, NEW c \in Collectors,
           run'[j][c] = "done"
    PROVE  run[j][c] = "done" \/ \E t \in Tasks : FinishCollector(t, c) /\ serving[t] = j
<1> DEFINE Was == run[j][c] = "done"
<1> USE DEF ApiTypeOK, TypeOK
<1>1. CASE UNCHANGED run
  BY <1>1
<1>2. ASSUME NEW cascade \in BOOLEAN, SweepRetention(cascade) PROVE Was
  BY <1>2 DEF SweepRetention, NoRow
<1>3. ASSUME NEW sources \in Selections, CreateJob(sources) PROVE Was
  BY <1>3 DEF CreateJob, NoRow
<1>4. CASE Restart
  BY <1>4 DEF Restart, Recovered, NoRow
<1>5. ASSUME NEW t \in Tasks, TaskStep(t) PROVE Was
  <2>1. CASE FailJobBeforeDispatch(t)
    BY <2>1 DEF FailJobBeforeDispatch
  <2>2. CASE Sweep(t)
    BY <1>2, <2>2 DEF Sweep
  <2>3. CASE ~FailJobBeforeDispatch(t) /\ ~Sweep(t)
    BY <1>1, <1>5, <2>3 DEF TaskStep, ClaimNothing, ClaimSelect, ClaimUpdate, ClaimLost,
              Register, Load, SeedDenyList, FinishDispatch, ComputeVerdict, FinalizeJob,
              FinalizeRaises, Unregister, runnerVars, database
  <2> QED BY <2>1, <2>2, <2>3
<1>6. ASSUME NEW t \in Tasks, NEW d \in Collectors, CollectorStep(t, d)
      PROVE  Was \/ (FinishCollector(t, c) /\ serving[t] = j)
  <2>0. serving[t] \in Jobs \/ UNCHANGED run
    BY <1>1, <1>6 DEF CollectorStep, StartCollector, MayStart, CheckCollector, CollectorAnswers,
              SaveFindings, FinishCollector, CollectorRaises, TasksInv, Inside, database
  <2>1. CASE StartCollector(t, d)
    <3>1. run' = [run EXCEPT ![serving[t]] = [run[serving[t]] EXCEPT ![d] = "running"]]
      BY <2>1 DEF StartCollector
    <3> QED BY <2>0, <3>1
  <2>2. CASE FinishCollector(t, d)
    <3>1. CASE d = c /\ serving[t] = j
      BY <2>2, <3>1
    <3>2. CASE ~(d = c /\ serving[t] = j)
      <4>1. PICK next : run' = [run EXCEPT ![serving[t]] = [run[serving[t]] EXCEPT ![d] = next]]
        BY <2>2 DEF FinishCollector
      <4> QED BY <2>0, <3>2, <4>1
    <3> QED BY <3>1, <3>2
  <2>3. CASE ~StartCollector(t, d) /\ ~FinishCollector(t, d)
    <3>1. UNCHANGED run
      BY <1>6, <2>3 DEF CollectorStep, CheckCollector, CollectorAnswers, SaveFindings,
                CollectorRaises, database
    <3> QED BY <1>1, <3>1
  <2> QED BY <2>1, <2>2, <2>3
<1>7. ASSUME NEW r \in Requests, RequestStep(r) PROVE Was
  <2>1. CASE CancelSweep(r)
    BY <1>2, <2>1 DEF CancelSweep
  <2>2. CASE RetryCommit(r)
    <3> DEFINE k == ask[r].job  d == ask[r].collector
    <3>1. UNCHANGED run \/ run' = [run EXCEPT ![k] = [run[k] EXCEPT ![d] = "queued"]]
      BY <2>2 DEF RetryCommit
    <3> HIDE DEF k, d
    <3>2. CASE run' = [run EXCEPT ![k] = [run[k] EXCEPT ![d] = "queued"]]
      <4>1. k = j => run'[j] = [run[j] EXCEPT ![d] = "queued"]
        BY <3>2
      <4>2. k # j => run'[j] = run[j]
        BY <3>2
      <4>3. run[j] \in [Collectors -> CollectorStatuses \cup {NoRow}]
        OBVIOUS
      <4> QED BY <4>1, <4>2, <4>3
    <3> QED BY <1>1, <3>1, <3>2
  <2>3. CASE DeleteCommit(r)
    BY <2>3 DEF DeleteCommit, NoRow
  <2>4. CASE ~CancelSweep(r) /\ ~RetryCommit(r) /\ ~DeleteCommit(r)
    BY <1>1, <1>7, <2>4 DEF RequestStep, CancelRead, CancelWrite, CancelLookup, RetryRead,
              RetryCheck, RetrySelect, DeleteRead, runnerVars, database
  <2> QED BY <2>1, <2>2, <2>3, <2>4
<1>8. CASE \/ \E k \in Jobs : Expire(k)
           \/ Stop
           \/ \E r \in Requests, question \in Questions : Send(r, question)
           \/ UNCHANGED vars
  BY <1>1, <1>8 DEF Expire, Stop, Crash, Send, runnerVars, database, vars
<1> QED BY <1>3, <1>4, <1>5, <1>6, <1>7, <1>8 DEF Next, RunnerStep

(* What a task has to do it had to do before, unless it has just read it   *)
(* off the database.                                                       *)
LEMMA BusyComesFrom ==
    ASSUME ApiTypeOK, TasksInv, DownInv, [Next]_vars, NEW t \in Tasks, NEW c \in Collectors,
           Busy(t, c)', Busy(t, c) => pc[t] \in {"seed", "fail", "dispatch", "dead"}
    PROVE  /\ pc'[t] \in {"seed", "fail", "dispatch", "dead"}
           /\ serving'[t] = serving[t]
           /\ Busy(t, c) \/ (Load(t) /\ c \in Pending(serving[t]))
<1> USE DEF ApiTypeOK, TypeOK, Busy, process
<1>1. ASSUME UNCHANGED <<pc, work, serving>>
      PROVE  pc'[t] \in {"seed", "fail", "dispatch", "dead"} /\ serving'[t] = serving[t] /\ Busy(t, c)
  BY <1>1
<1>2. ASSUME NEW u \in Tasks, TaskStep(u), u # t
      PROVE  pc'[t] \in {"seed", "fail", "dispatch", "dead"} /\ serving'[t] = serving[t] /\ Busy(t, c)
  <2>1. pc'[t] = pc[t] /\ serving'[t] = serving[t] /\ work'[t] = work[t]
    BY <1>2, TaskFrame
  <2> QED BY <2>1
<1>3. CASE TaskStep(t)
  <2> DEFINE Same == /\ pc'[t] \in {"seed", "fail", "dispatch", "dead"}
                     /\ serving'[t] = serving[t] /\ Busy(t, c)
  <2>1. CASE Load(t)
    BY <2>1 DEF Load
  <2>2. CASE \/ ClaimNothing(t) \/ (\E j \in Jobs : ClaimSelect(t, j))
             \/ ClaimUpdate(t) \/ ClaimLost(t) \/ Register(t) \/ SeedDenyList(t)
    BY <2>2 DEF ClaimNothing, ClaimSelect, ClaimUpdate, ClaimLost, Register, SeedDenyList,
            runnerVars
  <2>3. CASE FailJobBeforeDispatch(t) \/ FinalizeRaises(t) \/ Unregister(t)
    BY <2>3 DEF FailJobBeforeDispatch, FinalizeRaises, Unregister, NoWork
  <2>4. CASE FinishDispatch(t) \/ ComputeVerdict(t) \/ FinalizeJob(t) \/ Sweep(t)
    BY <2>4 DEF FinishDispatch, ComputeVerdict, FinalizeJob, Sweep, Idle, TerminalJobStatuses
  <2> QED BY <1>3, <2>1, <2>2, <2>3, <2>4 DEF TaskStep
<1>4. ASSUME NEW u \in Tasks, NEW d \in Collectors, CollectorStep(u, d)
      PROVE  pc'[t] \in {"seed", "fail", "dispatch", "dead"} /\ serving'[t] = serving[t] /\ Busy(t, c)
  <2>1. work[u][d] # "none" /\ work[u][d] # "over"
    BY <1>4 DEF CollectorStep, StartCollector, CheckCollector, CollectorAnswers, SaveFindings,
              FinishCollector, CollectorRaises, MayStart, TerminalCollectorStatuses
  <2>2. /\ serving' = serving
        /\ pc' = pc \/ pc' = [pc EXCEPT ![u] = "dead"]
        /\ \E next : work' = [work EXCEPT ![u][d] = next]
    BY <1>4 DEF CollectorStep, StartCollector, CheckCollector, CollectorAnswers, SaveFindings,
              FinishCollector, CollectorRaises
  <2>3. Busy(t, c)
    BY <2>1, <2>2
  <2> QED BY <2>2, <2>3
<1>5. ASSUME NEW r \in Requests, RequestStep(r) PROVE UNCHANGED <<pc, work, serving>>
  BY <1>5 DEF RequestStep, CancelRead, CancelWrite, CancelSweep, CancelLookup, RetryRead,
         RetryCheck, RetrySelect, RetryCommit, DeleteRead, DeleteCommit, runnerVars
<1>6. CASE \/ \E sources \in Selections : CreateJob(sources)
           \/ \E j \in Jobs : Expire(j)
           \/ \E r \in Requests, question \in Questions : Send(r, question)
           \/ UNCHANGED vars
  <2>1. UNCHANGED <<pc, work, serving>>
    BY <1>6 DEF CreateJob, Expire, Send, runnerVars, vars
  <2> QED BY <1>1, <2>1
<1>7. ~Stop
  BY DEF Stop, Crash, NoWork
<1>8. ~Restart
  <2> SUFFICES ASSUME Restart PROVE FALSE
    OBVIOUS
  <2>1. ~up /\ UNCHANGED work
    BY DEF Restart
  <2> QED BY <2>1 DEF DownInv, NoWork
<1> QED BY <1>1, <1>2, <1>3, <1>4, <1>5, <1>6, <1>7, <1>8 DEF Next, RunnerStep

(* It is kept, since a job has one task: the one that is about to finish a *)
(* collector is the only one that has something to do for it.              *)
LEMMA BusyKept ==
    ASSUME ApiTypeOK, DispatchInv, DeadApart, BusyInv, [Next]_vars
    PROVE  BusyInv'
<1> SUFFICES ASSUME NEW t \in Tasks, NEW c \in Collectors, Busy(t, c)'
             PROVE  /\ pc'[t] \in {"seed", "fail", "dispatch", "dead"}
                    /\ run'[serving'[t]][c] # "done"
  BY DEF BusyInv
<1>1. TasksInv /\ DownInv /\ ExclusiveDispatch
  BY DEF DispatchInv
<1>2. /\ pc'[t] \in {"seed", "fail", "dispatch", "dead"}
      /\ serving'[t] = serving[t]
      /\ Busy(t, c) \/ (Load(t) /\ c \in Pending(serving[t]))
  <2>1. Busy(t, c) => pc[t] \in {"seed", "fail", "dispatch", "dead"}
    BY DEF BusyInv
  <2> QED BY <1>1, <2>1, BusyComesFrom
<1> DEFINE j == serving[t]
<1>3. j \in Jobs /\ (Active(t) \/ pc[t] = "dead")
  <2>1. pc[t] \in {"load", "seed", "fail", "dispatch", "dead"}
    BY <1>2 DEF BusyInv, Load
  <2> QED BY <1>1, <2>1 DEF TasksInv, Active
<1>4. run[j][c] # "done"
  BY <1>2 DEF BusyInv, Pending
<1>5. SUFFICES ASSUME run'[j][c] = "done" PROVE FALSE
  BY <1>2
<1>6. PICK u \in Tasks : FinishCollector(u, c) /\ serving[u] = j
  BY <1>1, <1>3, <1>4, <1>5, DoneComesFrom
<1>7. /\ work[u][c] \in Inside /\ pc[u] \in {"dispatch", "dead"}
  BY <1>1, <1>6 DEF FinishCollector, TasksInv, Inside
<1>8. CASE u = t
  BY <1>2, <1>6, <1>7, <1>8 DEF FinishCollector, Busy, Load, ApiTypeOK, TypeOK
<1>9. CASE u # t
  <2>1. Active(u) \/ pc[u] = "dead"
    BY <1>7 DEF Active
  <2>2. Active(t) => pc[u] = "dead" \/ ~Active(u)
    BY <1>1, <1>6, <1>9 DEF ExclusiveDispatch
  <2> QED BY <1>3, <1>6, <1>9, <2>1, <2>2 DEF DeadApart
<1> QED BY <1>8, <1>9

(* DONE is final: the row can only go, together with its job.              *)
LEMMA DoneStays ==
    ASSUME ApiTypeOK, DispatchInv, AttemptsInv, EvidenceInv, RetryInv, BusyInv, [Next]_vars,
           NEW j \in Jobs, NEW c \in Collectors, run[j][c] = "done"
    PROVE  run'[j][c] = "done" \/ (run'[j][c] = NoRow /\ job'[j] = NoRow)
<1> DEFINE Stays == run'[j][c] = "done" \/ (run'[j][c] = NoRow /\ job'[j] = NoRow)
<1> USE DEF ApiTypeOK, TypeOK
<1>1. j <= created
  <2>1. rows[j][c] > 0
    BY DEF EvidenceInv, NoLostEvidence
  <2>2. j \in Nat /\ created \in Nat
    BY NumJobsAssumption DEF Jobs
  <2> QED BY <2>1, <2>2 DEF AttemptsInv, NothingAhead
<1>2. CASE UNCHANGED run
  BY <1>2
<1>3. ASSUME NEW cascade \in BOOLEAN, SweepRetention(cascade) PROVE Stays
  BY <1>3 DEF SweepRetention
<1>4. ASSUME NEW sources \in Selections, CreateJob(sources) PROVE Stays
  <2>1. j # created + 1
    BY <1>1, NumJobsAssumption DEF Jobs
  <2> QED BY <1>4, <2>1 DEF CreateJob
<1>5. CASE Restart
  BY <1>5 DEF Restart, Recovered
<1>6. ASSUME NEW t \in Tasks, TaskStep(t) PROVE Stays
  <2>1. CASE FailJobBeforeDispatch(t)
    <3>1. work[t][c] = "wait" => run[serving[t]][c] # "done"
      BY DEF BusyInv, Busy
    <3> QED BY <2>1, <3>1 DEF FailJobBeforeDispatch
  <2>2. CASE Sweep(t)
    BY <1>3, <2>2 DEF Sweep
  <2>3. CASE ~FailJobBeforeDispatch(t) /\ ~Sweep(t)
    BY <1>2, <1>6, <2>3 DEF TaskStep, ClaimNothing, ClaimSelect, ClaimUpdate, ClaimLost,
              Register, Load, SeedDenyList, FinishDispatch, ComputeVerdict, FinalizeJob,
              FinalizeRaises, Unregister, runnerVars, database
  <2> QED BY <2>1, <2>2, <2>3
<1>7. ASSUME NEW t \in Tasks, NEW d \in Collectors, CollectorStep(t, d) PROVE Stays
  <2>1. CASE UNCHANGED run
    BY <1>2, <2>1
  <2>2. CASE ~UNCHANGED run
    <3>1. PICK next : run' = [run EXCEPT ![serving[t]] = [run[serving[t]] EXCEPT ![d] = next]]
      BY <1>7, <2>2 DEF CollectorStep, StartCollector, CheckCollector, CollectorAnswers,
                SaveFindings, FinishCollector, CollectorRaises, database
    <3>2. Busy(t, d)
      BY <1>7, <2>2 DEF CollectorStep, StartCollector, MayStart, CheckCollector, CollectorAnswers,
                SaveFindings, FinishCollector, CollectorRaises, database, Busy,
                TerminalCollectorStatuses
    <3>3. run[serving[t]][d] # "done"
      BY <3>2 DEF BusyInv
    <3>4. CASE serving[t] = j
      <4>1. d # c
        BY <3>3, <3>4
      <4>2. run'[j] = [run[j] EXCEPT ![d] = next]
        BY <3>1, <3>4
      <4> QED BY <4>1, <4>2
    <3>5. CASE serving[t] # j
      BY <3>1, <3>5
    <3> QED BY <3>4, <3>5
  <2> QED BY <2>1, <2>2
<1>8. ASSUME NEW r \in Requests, RequestStep(r) PROVE Stays
  <2>1. CASE CancelSweep(r)
    BY <1>3, <2>1 DEF CancelSweep
  <2>2. CASE RetryCommit(r)
    <3> DEFINE k == ask[r].job  d == ask[r].collector
    <3>1. Going(r) /\ at[r] = "commit" /\ ask[r].kind = "retry"
      BY <2>2 DEF RetryCommit, Asked, Going, Answers
    <3>2. seen[r] # "queued" /\ (job[k] # NoRow => run[k][d] = "failed")
      BY <3>1 DEF RetryInv, Offered
    <3>3. UNCHANGED run \/ (run' = [run EXCEPT ![k] = [run[k] EXCEPT ![d] = "queued"]] /\ job[k] # NoRow)
      BY <2>2, <3>2 DEF RetryCommit
    <3> HIDE DEF k, d
    <3>4. CASE run' = [run EXCEPT ![k] = [run[k] EXCEPT ![d] = "queued"]] /\ job[k] # NoRow
      <4>1. run[k][d] = "failed"
        BY <3>2, <3>4
      <4>2. k = j => run'[j] = [run[j] EXCEPT ![d] = "queued"] /\ d # c
        BY <3>4, <4>1
      <4>3. k # j => run'[j] = run[j]
        BY <3>4
      <4> QED BY <4>2, <4>3
    <3> QED BY <1>2, <3>3, <3>4
  <2>3. CASE DeleteCommit(r)
    BY <2>3 DEF DeleteCommit
  <2>4. CASE ~CancelSweep(r) /\ ~RetryCommit(r) /\ ~DeleteCommit(r)
    BY <1>2, <1>8, <2>4 DEF RequestStep, CancelRead, CancelWrite, CancelLookup, RetryRead,
              RetryCheck, RetrySelect, DeleteRead, runnerVars, database
  <2> QED BY <2>1, <2>2, <2>3, <2>4
<1>9. CASE \/ \E k \in Jobs : Expire(k)
           \/ Stop
           \/ \E r \in Requests, question \in Questions : Send(r, question)
           \/ UNCHANGED vars
  BY <1>2, <1>9 DEF Expire, Stop, Crash, Send, runnerVars, database, vars
<1> QED BY <1>4, <1>5, <1>6, <1>7, <1>8, <1>9 DEF Next, RunnerStep

(* All that is known of jobs, in one invariant.                            *)
KnownInv ==
    ApiTypeOK /\ DispatchInv /\ AttemptsInv /\ EvidenceInv /\ ImplementsInv /\ BusyInv

THEOREM Known ==
    ASSUME \A v, w \in Workers : v = w, DashboardOnly, MaxRetries <= 1,
           IsFiniteSet(Requests)
    PROVE  Spec => []KnownInv
<1>1. Init => BusyInv /\ AttemptsInv
  BY DEF Init, RunnerInit, BusyInv, Busy, NoWork, AttemptsInv, DeadInv, DeadApart, AttemptLeft,
         NothingAhead, RowsWithinAttempts, Storing
<1>2. ApiTypeOK /\ DispatchInv /\ AttemptsInv /\ [Next]_vars => AttemptsInv'
  BY AttemptsKept
<1>3. ApiTypeOK /\ DispatchInv /\ AttemptsInv /\ BusyInv /\ [Next]_vars => BusyInv'
  BY BusyKept DEF AttemptsInv
<1> QED
  BY <1>1, <1>2, <1>3, Typed, DispatchInvariant, EvidenceInvariant, ImplementsInvariant, PTL
     DEF Spec, KnownInv

(* A collector that has succeeded is not dispatched again by recovery,     *)
(* resumption, a claim, or the retry of another collector (runner.py       *)
(* 165-178 and 262-269, api/jobs.py 147-186).                              *)
THEOREM DoneForGood ==
    ASSUME \A v, w \in Workers : v = w, DashboardOnly, MaxRetries <= 1,
           IsFiniteSet(Requests)
    PROVE  Spec => DoneIsFinal
<1> DEFINE Kept == \A j \in Jobs, c \in Collectors :
                       run[j][c] = "done" => run'[j][c] \in {"done", NoRow}
<1>1. KnownInv /\ [Next]_vars => [Kept]_vars
  BY DoneStays DEF KnownInv, ImplementsInv
<1> QED
  BY <1>1, Known, PTL DEF Spec, DoneIsFinal

-----------------------------------------------------------------------------
(* What a diff and a report read while the jobs go on.                     *)

(* No run appears for a job that is there already, but by its creation.    *)
LEMMA RunGoneStays ==
    ASSUME ApiTypeOK, TasksInv, [Next]_vars, NEW j \in Jobs, NEW c \in Collectors,
           j <= created, run[j][c] = NoRow
    PROVE  run'[j][c] = NoRow
<1> DEFINE Stays == run'[j][c] = NoRow
<1> USE DEF ApiTypeOK, TypeOK
<1>1. CASE UNCHANGED run
  BY <1>1
<1>2. ASSUME NEW cascade \in BOOLEAN, SweepRetention(cascade) PROVE Stays
  BY <1>2 DEF SweepRetention
<1>3. ASSUME NEW sources \in Selections, CreateJob(sources) PROVE Stays
  <2>1. j # created + 1
    BY NumJobsAssumption DEF Jobs
  <2> QED BY <1>3, <2>1 DEF CreateJob
<1>4. CASE Restart
  BY <1>4 DEF Restart, Recovered, NoRow
<1>5. ASSUME NEW t \in Tasks, TaskStep(t) PROVE Stays
  <2>1. CASE FailJobBeforeDispatch(t)
    BY <2>1 DEF FailJobBeforeDispatch
  <2>2. CASE Sweep(t)
    BY <1>2, <2>2 DEF Sweep
  <2>3. CASE ~FailJobBeforeDispatch(t) /\ ~Sweep(t)
    BY <1>1, <1>5, <2>3 DEF TaskStep, ClaimNothing, ClaimSelect, ClaimUpdate, ClaimLost,
              Register, Load, SeedDenyList, FinishDispatch, ComputeVerdict, FinalizeJob,
              FinalizeRaises, Unregister, runnerVars, database
  <2> QED BY <2>1, <2>2, <2>3
<1>6. ASSUME NEW t \in Tasks, NEW d \in Collectors, CollectorStep(t, d) PROVE Stays
  <2>1. CASE UNCHANGED run
    BY <1>1, <2>1
  <2>2. CASE ~UNCHANGED run
    <3>1. PICK next :
              /\ run' = [run EXCEPT ![serving[t]] = [run[serving[t]] EXCEPT ![d] = next]]
              /\ run[serving[t]][d] = NoRow => next = NoRow
      BY <1>6, <2>2 DEF CollectorStep, StartCollector, CheckCollector, CollectorAnswers,
                SaveFindings, FinishCollector, CollectorRaises, database
    <3>2. CASE serving[t] = j
      <4>1. run'[j] = [run[j] EXCEPT ![d] = next]
        BY <3>1, <3>2
      <4>2. d = c => next = NoRow
        BY <3>1, <3>2
      <4> QED BY <4>1, <4>2
    <3>3. CASE serving[t] # j
      BY <3>1, <3>3
    <3> QED BY <3>2, <3>3
  <2> QED BY <2>1, <2>2
<1>7. ASSUME NEW r \in Requests, RequestStep(r) PROVE Stays
  <2>1. CASE CancelSweep(r)
    BY <1>2, <2>1 DEF CancelSweep
  <2>2. CASE RetryCommit(r)
    <3> DEFINE k == ask[r].job  d == ask[r].collector
    <3>1. \/ UNCHANGED run
          \/ /\ run' = [run EXCEPT ![k] = [run[k] EXCEPT ![d] = "queued"]]
             /\ run[k][d] # NoRow
      BY <2>2 DEF RetryCommit
    <3> HIDE DEF k, d
    <3>2. CASE /\ run' = [run EXCEPT ![k] = [run[k] EXCEPT ![d] = "queued"]]
               /\ run[k][d] # NoRow
      <4>1. k = j => run'[j] = [run[j] EXCEPT ![d] = "queued"] /\ d # c
        BY <3>2
      <4>2. k # j => run'[j] = run[j]
        BY <3>2
      <4> QED BY <4>1, <4>2
    <3> QED BY <1>1, <3>1, <3>2
  <2>3. CASE DeleteCommit(r)
    BY <2>3 DEF DeleteCommit
  <2>4. CASE ~CancelSweep(r) /\ ~RetryCommit(r) /\ ~DeleteCommit(r)
    BY <1>1, <1>7, <2>4 DEF RequestStep, CancelRead, CancelWrite, CancelLookup, RetryRead,
              RetryCheck, RetrySelect, DeleteRead, runnerVars, database
  <2> QED BY <2>1, <2>2, <2>3, <2>4
<1>8. CASE \/ \E k \in Jobs : Expire(k)
           \/ Stop
           \/ \E r \in Requests, question \in Questions : Send(r, question)
           \/ UNCHANGED vars
  BY <1>1, <1>8 DEF Expire, Stop, Crash, Send, runnerVars, database, vars
<1> QED BY <1>3, <1>4, <1>5, <1>6, <1>7, <1>8 DEF Next, RunnerStep

(* Where a coroutine comes from that holds an answer, or has stored it.    *)
LEMMA HolderComesFrom ==
    ASSUME ApiTypeOK, TasksInv, DownInv, BusyInv, [Next]_vars,
           NEW t \in Tasks, NEW c \in Collectors, work'[t][c] \in {"save", "done"}
    PROVE  /\ serving'[t] = serving[t] /\ serving[t] \in Jobs /\ serving[t] <= created
           /\ Busy(t, c)
           /\ work'[t][c] = "save" => work[t][c] \in {"run", "save"}
           /\ work'[t][c] = "done" => work[t][c] \in {"save", "done"}
<1>1. /\ serving'[t] = serving[t]
      /\ Busy(t, c) \/ (Load(t) /\ c \in Pending(serving[t]))
  <2>1. Busy(t, c)' /\ (Busy(t, c) => pc[t] \in {"seed", "fail", "dispatch", "dead"})
    BY DEF Busy, BusyInv
  <2> QED BY <2>1, BusyComesFrom
<1> USE DEF ApiTypeOK, TypeOK
<1>2. ~Load(t)
  <2>1. Load(t) => UNCHANGED work \/ work'[t][c] \in {"wait", "none"}
    BY DEF Load
  <2> QED BY <2>1 DEF Load, BusyInv, Busy
<1>3. Busy(t, c)
  BY <1>1, <1>2
<1>4. serving[t] \in Jobs /\ serving[t] <= created
  BY <1>3 DEF BusyInv, TasksInv
<1>5. \/ work'[t][c] = work[t][c]
      \/ \E d \in Collectors : CollectorStep(t, d)
  <2>1. ASSUME NEW u \in Tasks, TaskStep(u) PROVE work'[t][c] = work[t][c]
    <3>1. CASE u = t
      BY <1>2, <2>1, <3>1 DEF TaskStep, ClaimNothing, ClaimSelect, ClaimUpdate, ClaimLost,
             Register, Load, SeedDenyList, FailJobBeforeDispatch, FinishDispatch,
             ComputeVerdict, FinalizeJob, FinalizeRaises, Sweep, Unregister, runnerVars, NoWork
    <3>2. CASE u # t
      BY <2>1, <3>2, TaskFrame
    <3> QED BY <3>1, <3>2
  <2>2. ASSUME NEW u \in Tasks, NEW d \in Collectors, CollectorStep(u, d), u # t
        PROVE  work'[t][c] = work[t][c]
    BY <2>2 DEF CollectorStep, StartCollector, CheckCollector, CollectorAnswers, SaveFindings,
             FinishCollector, CollectorRaises
  <2>3. ~Stop
    BY DEF Stop, Crash, NoWork
  <2>4. CASE \/ \E sources \in Selections : CreateJob(sources)
             \/ \E j \in Jobs : Expire(j)
             \/ Restart
             \/ \E r \in Requests, question \in Questions : Send(r, question)
             \/ \E r \in Requests : RequestStep(r)
             \/ UNCHANGED vars
    BY <2>4 DEF CreateJob, Expire, Restart, Send, RequestStep, CancelRead, CancelWrite,
           CancelSweep, CancelLookup, RetryRead, RetryCheck, RetrySelect, RetryCommit,
           DeleteRead, DeleteCommit, process, runnerVars, vars
  <2> QED BY <2>1, <2>2, <2>3, <2>4 DEF Next, RunnerStep
<1>6. ASSUME NEW d \in Collectors, CollectorStep(t, d)
      PROVE  /\ work'[t][c] = "save" => work[t][c] \in {"run", "save"}
             /\ work'[t][c] = "done" => work[t][c] \in {"save", "done"}
  <2>1. CASE d = c
    BY <1>6, <2>1 DEF CollectorStep, StartCollector, CheckCollector, CollectorAnswers,
           SaveFindings, FinishCollector, CollectorRaises
  <2>2. CASE d # c
    BY <1>6, <2>2 DEF CollectorStep, StartCollector, CheckCollector, CollectorAnswers,
           SaveFindings, FinishCollector, CollectorRaises
  <2> QED BY <2>1, <2>2
<1> QED BY <1>1, <1>3, <1>4, <1>5, <1>6

(* A job has one task that has something to do for its collectors.         *)
LEMMA OneBusy ==
    ASSUME ExclusiveDispatch, DeadApart, BusyInv, NEW t \in Tasks, NEW u \in Tasks,
           NEW c \in Collectors, NEW d \in Collectors,
           Busy(t, c), Busy(u, d), serving[t] = serving[u]
    PROVE  t = u
<1> SUFFICES ASSUME t # u PROVE FALSE
  OBVIOUS
<1>1. (Active(t) \/ pc[t] = "dead") /\ (Active(u) \/ pc[u] = "dead")
  BY DEF BusyInv, Active
<1> QED BY <1>1 DEF ExclusiveDispatch, DeadApart

(* An answer is given to the one coroutine that asks for it.               *)
LEMMA AnswerTaken ==
    ASSUME ApiTypeOK, DiffTypeOK, ExclusiveDispatch, DeadApart, BusyInv, Evidence,
           NEW t \in Tasks, NEW c \in Collectors, serving[t] \in Jobs, Receives(t, c)
    PROVE  answered'[serving[t]][c] = IF c \in fetched'[t] THEN "present" ELSE "absent"
<1> DEFINE j == serving[t]
<1>1. Answered(j, c)
  BY DEF Answered
<1>2. ASSUME NEW u \in Tasks, serving[u] = j, Receives(u, c) PROVE u = t
  BY <1>2, OneBusy DEF Receives, Busy
<1>3. c \in fetched'[t] <=> Found(t, c)
  BY DEF Evidence, Receives
<1>4. answered'[j][c] = IF \E u \in Tasks : serving[u] = j /\ Receives(u, c) /\ Found(u, c)
                        THEN "present" ELSE "absent"
  BY <1>1 DEF Evidence
<1> QED BY <1>2, <1>3, <1>4

(* Nobody is answered for a collector that another coroutine of its job is *)
(* at, or that has succeeded.                                              *)
LEMMA AnswerStays ==
    ASSUME ApiTypeOK, DiffTypeOK, ExclusiveDispatch, DeadApart, BusyInv, Evidence,
           NEW j \in Jobs, NEW c \in Collectors,
           \/ run[j][c] = "done"
           \/ \E t \in Tasks : serving[t] = j /\ work[t][c] \in {"save", "done"}
    PROVE  answered'[j][c] = answered[j][c]
<1>1. ~Answered(j, c)
  <2> SUFFICES ASSUME NEW u \in Tasks, serving[u] = j, Receives(u, c) PROVE FALSE
    BY DEF Answered
  <2>1. Busy(u, c) /\ work[u][c] = "run"
    BY DEF Receives, Busy
  <2>2. run[j][c] # "done"
    BY <2>1 DEF BusyInv
  <2>3. PICK t \in Tasks : serving[t] = j /\ work[t][c] \in {"save", "done"}
    BY <2>2
  <2>4. t = u
    BY <2>1, <2>3, OneBusy DEF Busy
  <2> QED BY <2>1, <2>3, <2>4
<1> QED BY <1>1 DEF Evidence

(* What is told after the step, of a job that may depend on it.            *)
ToldThen(j, c) ==
    /\ answered'[j][c] # Unknown
    /\ answered'[j][c] = "present" => c \in evidence'[j]

(* What is known stays known while the rows stay.                          *)
LEMMA ToldStays ==
    ASSUME ApiTypeOK, DiffTypeOK, Evidence, NEW j \in Jobs, NEW c \in Collectors,
           Told(j, c), answered'[j][c] = answered[j][c], rows'[j][c] > 0
    PROVE  ToldThen(j, c)
<1>1. c \in evidence[j] => c \in evidence'[j]
  BY DEF Evidence
<1> QED BY <1>1 DEF Told, ToldThen

LEMMA AnswersKept ==
    ASSUME ApiTypeOK, TasksInv, DownInv, ExclusiveDispatch, DeadApart, BusyInv,
           EvidenceInv', DiffTypeOK, AnswersInv, [Next]_vars, Evidence
    PROVE  AnswersInv'
<1>1. ASSUME NEW t \in Tasks, NEW c \in Collectors, work'[t][c] = "save"
      PROVE  answered'[serving'[t]][c] = IF c \in fetched'[t] THEN "present" ELSE "absent"
  <2>1. serving'[t] = serving[t] /\ serving[t] \in Jobs /\ work[t][c] \in {"run", "save"}
    BY <1>1, HolderComesFrom
  <2>2. CASE work[t][c] = "run"
    BY <1>1, <2>1, <2>2, AnswerTaken DEF Receives
  <2>3. CASE work[t][c] = "save"
    <3>1. answered'[serving[t]][c] = answered[serving[t]][c]
      BY <2>1, <2>3, AnswerStays
    <3>2. c \in fetched'[t] <=> c \in fetched[t]
      BY <1>1, <2>3 DEF Evidence, Receives
    <3> QED BY <2>1, <2>3, <3>1, <3>2 DEF AnswersInv
  <2> QED BY <2>1, <2>2, <2>3
<1>2. ASSUME NEW t \in Tasks, NEW c \in Collectors, work'[t][c] = "done"
      PROVE  run'[serving'[t]][c] = NoRow \/ ToldThen(serving'[t], c)
  <2> DEFINE j == serving[t]
  <2>1. /\ serving'[t] = j /\ j \in Jobs /\ j <= created
        /\ work[t][c] \in {"save", "done"}
    BY <1>2, HolderComesFrom
  <2>2. rows'[j][c] > 0 \/ run'[j][c] = NoRow
    BY <1>2, <2>1 DEF EvidenceInv
  <2>3. answered'[j][c] = answered[j][c]
    BY <2>1, AnswerStays
  <2>4. ASSUME rows'[j][c] > 0, run'[j][c] # NoRow PROVE ToldThen(j, c)
    <3>1. CASE work[t][c] = "done"
      <4>1. run[j][c] # NoRow
        BY <2>1, <2>4, RunGoneStays
      <4>2. Told(j, c)
        BY <3>1, <4>1 DEF AnswersInv
      <4> QED BY <2>1, <2>3, <2>4, <4>2, ToldStays
    <3>2. CASE work[t][c] = "save"
      <4>1. answered[j][c] = IF c \in fetched[t] THEN "present" ELSE "absent"
        BY <3>2 DEF AnswersInv
      <4>2. c \in fetched[t] => c \in evidence'[j]
        <5>1. c \in fetched[t] => Holds(j, c)
          BY <1>2, <3>2 DEF Holds, Stores
        <5> QED BY <2>1, <2>4, <5>1 DEF Evidence
      <4> QED BY <2>3, <4>1, <4>2 DEF ToldThen, Unknown
    <3> QED BY <2>1, <3>1, <3>2
  <2> QED BY <2>1, <2>2, <2>4
<1>3. ASSUME NEW j \in Jobs, NEW c \in Collectors, run'[j][c] = "done" PROVE ToldThen(j, c)
  <2>1. rows'[j][c] > 0
    BY <1>3 DEF EvidenceInv, NoLostEvidence
  <2>2. CASE run[j][c] = "done"
    BY <2>1, <2>2, AnswerStays, ToldStays DEF AnswersInv
  <2>3. CASE run[j][c] # "done"
    <3>1. PICK t \in Tasks : FinishCollector(t, c) /\ serving[t] = j
      BY <1>3, <2>3, DoneComesFrom
    <3>2. run[j][c] # NoRow /\ work[t][c] = "done"
      <4>1. run' = [run EXCEPT ![j] = [run[j] EXCEPT
                       ![c] = IF run[j][c] = NoRow THEN NoRow ELSE work[t][c]]]
        BY <3>1 DEF FinishCollector
      <4>2. run'[j][c] = IF run[j][c] = NoRow THEN NoRow ELSE work[t][c]
        BY <4>1 DEF ApiTypeOK, TypeOK
      <4> QED BY <1>3, <4>2 DEF NoRow
    <3>3. Told(j, c)
      BY <3>1, <3>2 DEF AnswersInv
    <3>4. answered'[j][c] = answered[j][c]
      BY <3>1, <3>2, AnswerStays
    <3> QED BY <2>1, <3>3, <3>4, ToldStays
  <2> QED BY <2>2, <2>3
<1> QED BY <1>1, <1>2, <1>3 DEF AnswersInv, Told, ToldThen

(* Where in its order of reading the request stands.                       *)
LEMMA ReadsAt ==
    ASSUME reads \in 0..NotFound, request \in Requested
    PROVE  /\ request = "diff" => Len(ReadOrder) = 6
           /\ request # "diff" => Len(ReadOrder) = 3
           /\ NextRead("new_job") => request \in {"diff", "report_on_new"} /\ reads = 0
           /\ NextRead("old_job") =>
                  \/ request = "diff" /\ reads = 1
                  \/ request = "report_on_old" /\ reads = 0
           /\ NextRead("old_statuses") =>
                  \/ request = "diff" /\ reads = 2
                  \/ request = "report_on_old" /\ reads = 1
           /\ NextRead("new_statuses") =>
                  \/ request = "diff" /\ reads = 3
                  \/ request = "report_on_new" /\ reads = 1
           /\ NextRead("old_findings") =>
                  \/ request = "diff" /\ reads = 4
                  \/ request = "report_on_old" /\ reads = 2
           /\ NextRead("new_findings") =>
                  \/ request = "diff" /\ reads = 5
                  \/ request = "report_on_new" /\ reads = 2
<1>1. CASE request = "diff"
  <2>1. ReadOrder = <<"new_job", "old_job", "old_statuses", "new_statuses",
                      "old_findings", "new_findings">>
    BY <1>1 DEF ReadOrder
  <2> HIDE DEF ReadOrder
  <2> QED BY <1>1, <2>1 DEF NextRead
<1>2. CASE request = "report_on_old"
  <2>1. ReadOrder = <<"old_job", "old_statuses", "old_findings">>
    BY <1>2 DEF ReadOrder
  <2> HIDE DEF ReadOrder
  <2> QED BY <1>2, <2>1 DEF NextRead
<1>3. CASE request = "report_on_new"
  <2>1. ReadOrder = <<"new_job", "new_statuses", "new_findings">>
    BY <1>3 DEF ReadOrder
  <2> HIDE DEF ReadOrder
  <2> QED BY <1>3, <2>1 DEF NextRead
<1> QED BY <1>1, <1>2, <1>3 DEF Requested

(* A request reads, and changes nothing else.                              *)
LEMMA DiffTyped ==
    ASSUME ApiTypeOK, ApiTypeOK', DiffTypeOK, [DiffNext]_allVars
    PROVE  DiffTypeOK'
<1> USE DEF DiffTypeOK
<1>1. CASE JobsGoOn
  <2>1. fetched' \in [Tasks -> SUBSET Collectors]
    BY <1>1 DEF JobsGoOn, Evidence
  <2>2. evidence' \in [Jobs -> SUBSET Collectors]
    BY <1>1 DEF JobsGoOn, Evidence
  <2>3. answered' \in [Jobs -> [Collectors -> Presence]]
    <3>1. \A j \in Jobs, c \in Collectors :
              IF ~Answered(j, c) THEN answered[j][c] \in Presence
              ELSE {"present", "absent"} \subseteq Presence
      BY DEF Presence
    <3> QED BY <1>1, <3>1 DEF JobsGoOn, Evidence, Presence
  <2> QED BY <1>1, <2>1, <2>2, <2>3 DEF JobsGoOn, diffVars
<1>2. ASSUME NEW c \in Collectors, SourceChanges(c) PROVE DiffTypeOK'
  BY <1>2, ChangesAssumption DEF SourceChanges, diffVars
<1>3. CASE DiffJobs
  <2> USE DEF evidenceVars
  <2>0. {Old, New} \subseteq Jobs /\ Compared = {Old, New}
    BY ComparedAssumption DEF Compared
  <2>1. ASSUME NEW what, NextRead(what) PROVE reads + 1 \in 0..NotFound
    <3> DEFINE last == Len(ReadOrder)
    <3>1. last \in {3, 6} /\ reads < last
      BY <2>1, ReadsAt DEF NextRead
    <3>2. reads \in 0..7
      BY DEF NotFound
    <3> HIDE DEF last, DiffTypeOK
    <3> QED BY <3>1, <3>2 DEF NotFound
  <2>2. ASSUME NEW j \in Compared, NEW what, ReadJob(j, what) PROVE DiffTypeOK'
    BY <2>1, <2>2 DEF ReadJob, NotFound
  <2>3. ASSUME NEW j \in Compared, NEW what, ReadStatuses(j, what) PROVE DiffTypeOK'
    <3>1. run[j] \in [Collectors -> CollectorStatuses \cup {NoRow}]
      BY <2>0 DEF ApiTypeOK, TypeOK
    <3> QED BY <2>1, <2>3, <3>1 DEF ReadStatuses
  <2>4. ASSUME NEW j \in Compared, NEW what, ReadFindings(j, what) PROVE DiffTypeOK'
    <3>1. evidence[j] \subseteq Collectors
      BY <2>0
    <3> QED BY <2>1, <2>4, <3>1 DEF ReadFindings
  <2> QED BY <1>3, <2>0, <2>2, <2>3, <2>4 DEF DiffJobs
<1>4. CASE UNCHANGED allVars
  BY <1>4 DEF allVars, evidenceVars, diffVars
<1> QED BY <1>1, <1>2, <1>3, <1>4 DEF DiffNext

(* What was read as DONE is DONE, and its answer is final.                 *)
LEMMA ReadsKeptByJobs ==
    ASSUME KnownInv, DiffTypeOK, ReadsInv, JobsGoOn
    PROVE  ReadsInv'
<1> SUFFICES ASSUME NEW j \in Compared, NEW c \in Collectors, statusOf'[j][c] = "done"
             PROVE  /\ j <= created'
                    /\ job'[j] # NoRow =>
                           /\ run'[j][c] = "done"
                           /\ FindingsRead(j)' /\ answered'[j][c] = "present" =>
                                  c \in findingsOf'[j]
  BY DEF ReadsInv
<1>0. j \in Jobs /\ [Next]_vars /\ Evidence /\ UNCHANGED diffVars
  BY ComparedAssumption DEF Compared, JobsGoOn
<1>1. statusOf[j][c] = "done" /\ j <= created
  BY <1>0 DEF diffVars, ReadsInv
<1>2. created' \in Nat /\ created \in Nat /\ created <= created'
  <2>1. created' = created \/ \E sources \in Selections : CreateJob(sources)
    BY <1>0 DEF Next, RunnerStep, Expire, Restart, TaskStep, CollectorStep, Stop, Crash, Send,
       RequestStep, ClaimNothing, ClaimSelect, ClaimUpdate, ClaimLost, Register, Load,
       SeedDenyList, FailJobBeforeDispatch, FinishDispatch, ComputeVerdict, FinalizeJob,
       FinalizeRaises, Sweep, SweepRetention, Unregister, StartCollector, CheckCollector,
       CollectorAnswers, SaveFindings, FinishCollector, CollectorRaises, CancelRead, CancelWrite,
       CancelSweep, CancelLookup, RetryRead, RetryCheck, RetrySelect, RetryCommit, DeleteRead,
       DeleteCommit, runnerVars, database, process, vars
  <2>2. created \in Nat
    BY NumJobsAssumption DEF KnownInv, ApiTypeOK, TypeOK
  <2>3. created' \in {created, created + 1}
    BY <2>1 DEF CreateJob
  <2> QED BY <2>2, <2>3
<1>3. j <= created'
  BY <1>0, <1>1, <1>2 DEF Jobs
<1>4. ASSUME job'[j] # NoRow
      PROVE  /\ run'[j][c] = "done"
             /\ FindingsRead(j)' /\ answered'[j][c] = "present" => c \in findingsOf'[j]
  <2>1. job[j] # NoRow
    BY <1>0, <1>1, <1>4, GoneStays DEF KnownInv
  <2>2. run[j][c] = "done"
    BY <1>1, <2>1 DEF ReadsInv
  <2>3. run'[j][c] = "done"
    BY <1>0, <1>4, <2>2, DoneStays DEF KnownInv, ImplementsInv
  <2>4. answered'[j][c] = answered[j][c]
    BY <1>0, <2>2, AnswerStays DEF KnownInv, DispatchInv, AttemptsInv
  <2>5. FindingsRead(j)' => FindingsRead(j)
    BY <1>0 DEF FindingsRead, ReportedJob, diffVars
  <2>6. FindingsRead(j) /\ answered[j][c] = "present" => c \in findingsOf[j]
    BY <1>1, <2>1 DEF ReadsInv
  <2> QED BY <1>0, <2>3, <2>4, <2>5, <2>6 DEF diffVars
<1> QED BY <1>3, <1>4

(* A SELECT of the statuses, and then one of the findings.                 *)
LEMMA ReadsKeptByReads ==
    ASSUME KnownInv, DiffTypeOK, AnswersInv, ReadsInv, DiffJobs
    PROVE  ReadsInv'
<1> SUFFICES ASSUME NEW j \in Compared, NEW c \in Collectors, statusOf'[j][c] = "done"
             PROVE  /\ j <= created
                    /\ job[j] # NoRow =>
                           /\ run[j][c] = "done"
                           /\ FindingsRead(j)' /\ answered[j][c] = "present" =>
                                  c \in findingsOf'[j]
  <2>1. UNCHANGED <<vars, evidenceVars>>
    BY DEF DiffJobs, ReadJob, ReadStatuses, ReadFindings
  <2> QED BY <2>1 DEF ReadsInv, vars, evidenceVars
<1> DEFINE Goal == /\ j <= created
                   /\ job[j] # NoRow =>
                          /\ run[j][c] = "done"
                          /\ FindingsRead(j)' /\ answered[j][c] = "present" =>
                                 c \in findingsOf'[j]
<1>0. /\ {Old, New} \subseteq Jobs /\ Compared = {Old, New} /\ Old # New
      /\ reads \in 0..NotFound /\ request \in Requested
  BY ComparedAssumption DEF Compared, DiffTypeOK
<1> USE DEF DiffTypeOK
<1>1. ASSUME statusOf[j][c] = "done"
      PROVE  /\ j <= created
             /\ job[j] # NoRow =>
                    /\ run[j][c] = "done"
                    /\ FindingsRead(j) /\ answered[j][c] = "present" => c \in findingsOf[j]
  BY <1>1 DEF ReadsInv
<1>2. CASE ReadJob(New, "new_job") \/ ReadJob(Old, "old_job")
  <2>1. statusOf' = statusOf
    BY <1>2 DEF ReadJob
  <2>2. request' = request /\ reads' \in {1, 2, NotFound}
    BY <1>0, <1>2, ReadsAt DEF ReadJob
  <2>3. ~FindingsRead(j)'
    BY <1>2, <1>0, <2>2, ReadsAt DEF FindingsRead, NotFound, ReadJob
  <2> QED BY <1>1, <2>1, <2>3
<1>3. CASE ReadStatuses(Old, "old_statuses") \/ ReadStatuses(New, "new_statuses")
  <2>1. request' = request /\ reads' = reads + 1
    BY <1>3 DEF ReadStatuses
  <2>2. (request = "diff" /\ reads \in {2, 3}) \/ (request # "diff" /\ reads = 1)
    BY <1>0, <1>3, ReadsAt DEF ReadStatuses
  <2>3. ~FindingsRead(j)'
    BY <2>1, <2>2 DEF FindingsRead
  <2>4. run[j][c] = "done" \/ statusOf[j][c] = "done"
    BY <1>3 DEF ReadStatuses
  <2>5. run[j][c] = "done" => j <= created
    <3>1. rows[j][c] > 0 => j <= created
      <4>1. j \in Nat /\ created \in Nat
        BY <1>0, NumJobsAssumption DEF Jobs, KnownInv, ApiTypeOK, TypeOK
      <4> QED BY <1>0, <4>1 DEF KnownInv, AttemptsInv, NothingAhead
    <3> QED BY <1>0, <3>1 DEF KnownInv, EvidenceInv, NoLostEvidence
  <2> QED BY <1>1, <2>3, <2>4, <2>5
<1>4. ASSUME NEW k \in Compared, NEW what, ReadFindings(k, what),
             (k = Old /\ what = "old_findings") \/ (k = New /\ what = "new_findings")
      PROVE  Goal
  <2>1. statusOf' = statusOf /\ request' = request /\ reads' = reads + 1
    BY <1>4 DEF ReadFindings
  <2>2. CASE j = k
    <3>1. findingsOf'[j] = evidence[j]
      BY <1>4, <2>2 DEF ReadFindings
    <3>2. run[j][c] = "done" /\ answered[j][c] = "present" => c \in evidence[j]
      BY <1>0 DEF AnswersInv, Told
    <3> QED BY <1>1, <2>1, <3>1, <3>2
  <2>3. CASE j # k
    <3>1. findingsOf'[j] = findingsOf[j]
      BY <1>4, <2>3 DEF ReadFindings
    <3>2. \/ request = "diff" /\ k = Old /\ reads = 4
          \/ request = "diff" /\ k = New /\ reads = 5
          \/ request = "report_on_old" /\ k = Old
          \/ request = "report_on_new" /\ k = New
      BY <1>0, <1>4, ReadsAt DEF ReadFindings
    <3>3. FindingsRead(j)' => FindingsRead(j)
      BY <1>0, <2>1, <2>3, <3>2 DEF FindingsRead, ReportedJob
    <3> QED BY <1>1, <2>1, <3>1, <3>3
  <2> QED BY <2>2, <2>3
<1>5. CASE ReadFindings(Old, "old_findings") \/ ReadFindings(New, "new_findings")
  BY <1>0, <1>4, <1>5
<1> QED BY <1>2, <1>3, <1>5 DEF DiffJobs

(* While it is compared the new job is neither deleted nor swept.          *)
LEMMA NewJobKept ==
    ASSUME "delete" \notin Kinds, New \notin Expirable,
           KnownInv, DiffTypeOK, NewJobStays, [Next]_vars, UNCHANGED diffVars
    PROVE  NewJobStays'
<1> USE DEF KnownInv, ApiTypeOK, TypeOK
<1>0. New \in Jobs
  BY ComparedAssumption
<1>1. expired' \subseteq Expirable
  <2> DEFINE Fewer == expired' \subseteq expired
  <2>1. ASSUME NEW t \in Tasks, TaskStep(t) PROVE Fewer
    BY <2>1 DEF TaskStep, ClaimNothing, ClaimSelect, ClaimUpdate, ClaimLost, Register, Load,
       SeedDenyList, FailJobBeforeDispatch, FinishDispatch, ComputeVerdict, FinalizeJob,
       FinalizeRaises, Sweep, SweepRetention, Unregister, runnerVars, database
  <2>2. ASSUME NEW t \in Tasks, NEW c \in Collectors, CollectorStep(t, c) PROVE Fewer
    BY <2>2 DEF CollectorStep, StartCollector, CheckCollector, CollectorAnswers, SaveFindings,
       FinishCollector, CollectorRaises, database
  <2>3. ASSUME NEW r \in Requests, RequestStep(r) PROVE Fewer
    BY <2>3 DEF RequestStep, CancelRead, CancelWrite, CancelSweep, SweepRetention, CancelLookup,
       RetryRead, RetryCheck, RetrySelect, RetryCommit, DeleteRead, DeleteCommit, runnerVars,
       database
  <2>4. CASE \/ \E sources \in Selections : CreateJob(sources)
             \/ Restart
             \/ Stop
             \/ \E r \in Requests, question \in Questions : Send(r, question)
             \/ UNCHANGED vars
    BY <2>4 DEF CreateJob, Restart, Stop, Crash, Send, runnerVars, database, vars, NewJobStays
  <2>5. CASE \E j \in Jobs : Expire(j)
    BY <2>5 DEF Expire, NewJobStays
  <2> QED BY <2>1, <2>2, <2>3, <2>4, <2>5 DEF Next, RunnerStep, NewJobStays
<1>2. ASSUME NEW r \in Requests, Going(r)' PROVE ask'[r].kind \in Kinds
  <2>1. ASSUME NEW q \in Requests, NEW question \in Questions, Send(q, question)
        PROVE  ask'[r].kind \in Kinds
    <3>1. CASE q = r
      BY <2>1, <3>1 DEF Send
    <3>2. CASE q # r
      BY <1>2, <2>1, <3>2 DEF Send, Goto, Going, NewJobStays
    <3> QED BY <3>1, <3>2
  <2>2. ASSUME NEW q \in Requests, RequestStep(q) PROVE ask'[r].kind \in Kinds
    <3>1. Going(q) /\ UNCHANGED ask /\ \E point : Goto(q, point)
      BY <2>2 DEF RequestStep, CancelRead, CancelWrite, CancelSweep, CancelLookup, RetryRead,
             RetryCheck, RetrySelect, RetryCommit, DeleteRead, DeleteCommit, Asked, Going, Answers
    <3> QED BY <1>2, <3>1 DEF Goto, Going, NewJobStays
  <2>3. CASE Stop
    BY <1>2, <2>3 DEF Stop, Going, NewJobStays, Answers
  <2>4. CASE RunnerStep /\ UNCHANGED requestVars
    BY <1>2, <2>4 DEF requestVars, Going, NewJobStays
  <2>5. CASE UNCHANGED vars
    BY <1>2, <2>5 DEF vars, Going, NewJobStays
  <2> QED BY <2>1, <2>2, <2>3, <2>4, <2>5 DEF Next
<1>3. ASSUME job[New] # NoRow PROVE job'[New] # NoRow
  <2> DEFINE Stays == job'[New] # NoRow
  <2>0. New \notin expired
    BY DEF NewJobStays
  <2>1. ASSUME NEW cascade \in BOOLEAN, SweepRetention(cascade) PROVE Stays
    BY <1>0, <1>3, <2>0, <2>1 DEF SweepRetention
  <2>2. ASSUME NEW t \in Tasks, TaskStep(t) PROVE Stays
    <3>1. CASE Sweep(t)
      BY <2>1, <3>1 DEF Sweep
    <3>2. CASE ~Sweep(t)
      BY <1>0, <1>3, <2>2, <3>2 DEF TaskStep, ClaimNothing, ClaimSelect, ClaimUpdate, ClaimLost,
         Register, Load, SeedDenyList, FailJobBeforeDispatch, FinishDispatch, ComputeVerdict,
         FinalizeJob, FinalizeRaises, Unregister, runnerVars, database, TerminalJobStatuses, NoRow
    <3> QED BY <3>1, <3>2
  <2>3. ASSUME NEW r \in Requests, RequestStep(r) PROVE Stays
    <3>1. CASE CancelSweep(r)
      BY <2>1, <3>1 DEF CancelSweep
    <3>2. ~DeleteCommit(r)
      <4>1. DeleteCommit(r) => at[r] = "commit" /\ ask[r].kind = "delete"
        BY DEF DeleteCommit, Asked
      <4>2. at[r] = "commit" => Going(r)
        BY DEF Going, Answers
      <4> QED BY <4>1, <4>2 DEF NewJobStays
    <3>3. CASE ~CancelSweep(r)
      BY <1>0, <1>3, <2>3, <3>2, <3>3 DEF RequestStep, CancelRead, CancelWrite, CancelLookup,
             RetryRead, RetryCheck, RetrySelect, RetryCommit, DeleteRead, runnerVars, database, NoRow
    <3> QED BY <3>1, <3>3
  <2>4. CASE Restart
    BY <1>0, <1>3, <2>0, <2>4 DEF Restart
  <2>5. CASE \/ \E sources \in Selections : CreateJob(sources)
             \/ \E j \in Jobs : Expire(j)
             \/ \E t \in Tasks, c \in Collectors : CollectorStep(t, c)
             \/ Stop
             \/ \E r \in Requests, question \in Questions : Send(r, question)
             \/ UNCHANGED vars
    BY <1>0, <1>3, <2>5 DEF CreateJob, Expire, CollectorStep, StartCollector, CheckCollector,
           CollectorAnswers, SaveFindings, FinishCollector, CollectorRaises, Stop, Crash, Send,
           runnerVars, database, vars, NoRow
  <2> QED BY <2>2, <2>3, <2>4, <2>5 DEF Next, RunnerStep
<1>4. ASSUME request' = "diff", reads' \in 1..6 PROVE job'[New] # NoRow /\ New <= created'
  <2>1. job[New] # NoRow
    BY <1>4 DEF NewJobStays, diffVars
  <2>2. TasksInv'
    BY TasksInvKept DEF DispatchInv
  <2> QED BY <1>0, <1>3, <2>1, <2>2 DEF TasksInv
<1> QED BY <1>1, <1>2, <1>4 DEF NewJobStays

(* A diff or a report under way leaves the jobs what they are.             *)
LEMMA DiffIsSpec == DiffSpec => Spec
<1>1. DiffInit => Init
  BY DEF DiffInit
<1>2. [DiffNext]_allVars => [Next]_vars
  BY DEF DiffNext, JobsGoOn, SourceChanges, DiffJobs, ReadJob, ReadStatuses, ReadFindings, allVars
<1> QED BY <1>1, <1>2, PTL DEF DiffSpec, Spec

(* The inductive invariant holds when the request arrives, and is kept by  *)
(* the jobs, the sources and the request.                                  *)
LEMMA FirstAnswers ==
    ASSUME DiffInit
    PROVE  DiffTypeOK /\ AnswersInv /\ ReadsInv /\ NewJobStays
<1>1. DiffTypeOK
  BY ChangesAssumption DEF DiffInit, DiffTypeOK, NotFound, Presence, Unknown
<1>2. AnswersInv
  BY DEF DiffInit, Init, RunnerInit, AnswersInv, NoWork, NoRow
<1>3. ReadsInv
  BY DEF DiffInit, ReadsInv, NoRow
<1>4. NewJobStays
  BY DEF DiffInit, Init, RunnerInit, NewJobStays, Going
<1> QED BY <1>1, <1>2, <1>3, <1>4

LEMMA AnswersAndReadsKept ==
    ASSUME KnownInv, KnownInv', DiffTypeOK, AnswersInv, ReadsInv, [DiffNext]_allVars
    PROVE  AnswersInv' /\ ReadsInv'
<1>1. CASE JobsGoOn
  <2>1. AnswersInv'
    BY <1>1, AnswersKept DEF KnownInv, DispatchInv, AttemptsInv, JobsGoOn
  <2> QED BY <1>1, <2>1, ReadsKeptByJobs
<1>2. ASSUME UNCHANGED <<vars, fetched, evidence, answered, diffVars>>
      PROVE  AnswersInv' /\ ReadsInv'
  BY <1>2 DEF vars, diffVars, AnswersInv, Told, ReadsInv, FindingsRead, ReportedJob
<1>3. CASE DiffJobs
  <2>1. UNCHANGED <<vars, evidenceVars>>
    BY <1>3 DEF DiffJobs, ReadJob, ReadStatuses, ReadFindings
  <2>2. AnswersInv'
    BY <2>1 DEF vars, evidenceVars, AnswersInv, Told
  <2> QED BY <1>3, <2>2, ReadsKeptByReads
<1>4. CASE (\E c \in Collectors : SourceChanges(c)) \/ UNCHANGED allVars
  BY <1>2, <1>4 DEF SourceChanges, allVars, evidenceVars
<1> QED BY <1>1, <1>3, <1>4 DEF DiffNext

LEMMA NewJobStaysKept ==
    ASSUME "delete" \notin Kinds, New \notin Expirable,
           KnownInv, DiffTypeOK, NewJobStays, [DiffNext]_allVars
    PROVE  NewJobStays'
<1>1. CASE JobsGoOn
  BY <1>1, NewJobKept DEF JobsGoOn
<1>2. CASE UNCHANGED <<vars, diffVars>>
  BY <1>2 DEF vars, diffVars, NewJobStays, Going
<1>3. CASE DiffJobs
  <2>1. UNCHANGED <<vars, request>>
    BY <1>3 DEF DiffJobs, ReadJob, ReadStatuses, ReadFindings
  <2>2. ASSUME request = "diff", reads' \in 1..6 PROVE job[New] # NoRow /\ New <= created
    <3>0. New \in Jobs /\ reads \in 0..NotFound /\ request \in Requested
      BY ComparedAssumption DEF DiffTypeOK
    <3>1. CASE reads = 0
      <4>1. ReadJob(New, "new_job")
        BY <1>3, <2>2, <3>0, <3>1, ReadsAt DEF DiffJobs, ReadJob, ReadStatuses, ReadFindings
      <4>2. job[New] # NoRow
        BY <2>2, <4>1 DEF ReadJob, NotFound
      <4> QED BY <3>0, <4>2 DEF KnownInv, DispatchInv, TasksInv
    <3>2. CASE reads # 0
      <4>1. reads < Len(ReadOrder)
        BY <1>3 DEF DiffJobs, ReadJob, ReadStatuses, ReadFindings, NextRead
      <4>2. Len(ReadOrder) = 6
        BY <2>2, <3>0, ReadsAt
      <4> DEFINE last == Len(ReadOrder)
      <4>3. reads < last /\ last = 6
        BY <4>1, <4>2
      <4> HIDE DEF last
      <4>4. reads \in 1..6
        BY <3>0, <3>2, <4>3 DEF NotFound
      <4> QED BY <2>2, <4>4 DEF NewJobStays
    <3> QED BY <3>1, <3>2
  <2> QED BY <2>1, <2>2 DEF vars, NewJobStays, Going
<1>4. CASE (\E c \in Collectors : SourceChanges(c)) \/ UNCHANGED allVars
  BY <1>2, <1>4 DEF SourceChanges, allVars
<1> QED BY <1>1, <1>3, <1>4 DEF DiffNext

(* What the answer of a request says is true of what it has read.          *)
LEMMA ReportFollows ==
    ASSUME DiffTypeOK, ReadsInv
    PROVE  ReportShowsItsEvidence
<1> SUFFICES ASSUME HasRead, request # "diff", job[ReportedJob] # NoRow, NEW c \in Collectors,
                    statusOf[ReportedJob][c] = "done", answered[ReportedJob][c] = "present"
             PROVE  c \in findingsOf[ReportedJob]
  BY DEF ReportShowsItsEvidence
<1>1. FindingsRead(ReportedJob) /\ ReportedJob \in Compared
  BY ReadsAt DEF DiffTypeOK, HasRead, FindingsRead, ReportedJob, Compared
<1> QED BY <1>1 DEF ReadsInv

LEMMA DiffFollows ==
    ASSUME DiffTypeOK, AnswersInv, ReadsInv, job[New] # NoRow
    PROVE  RemovedMeansGone
<1> SUFFICES ASSUME Compares, NEW c \in Removed PROVE answered[New][c] = "absent"
  BY DEF RemovedMeansGone
<1>1. request = "diff" /\ reads = 6 /\ FindingsRead(New)
  BY ReadsAt DEF DiffTypeOK, Compares, HasRead, FindingsRead
<1>2. /\ New \in Compared /\ New \in Jobs /\ c \in Collectors
      /\ statusOf[New][c] = "done" /\ c \notin findingsOf[New]
  BY ComparedAssumption DEF Removed, Missing, CompletedInBoth, Compared, DiffTypeOK
<1>3. run[New][c] = "done" /\ answered[New][c] # "present"
  BY <1>1, <1>2 DEF ReadsInv
<1>4. answered[New][c] # Unknown
  BY <1>2, <1>3 DEF AnswersInv, Told
<1> QED BY <1>2, <1>3, <1>4 DEF DiffTypeOK, Presence

(* What the reads of a request know of the jobs, whatever the jobs do      *)
(* while it reads.                                                         *)
LEMMA AnswersAndReads ==
    ASSUME \A v, w \in Workers : v = w, DashboardOnly, MaxRetries <= 1,
           IsFiniteSet(Requests)
    PROVE  DiffSpec => [](KnownInv /\ DiffTypeOK /\ AnswersInv /\ ReadsInv)
<1>1. DiffInit => DiffTypeOK /\ AnswersInv /\ ReadsInv
  BY FirstAnswers
<1>2. KnownInv /\ KnownInv' /\ DiffTypeOK /\ AnswersInv /\ ReadsInv /\ [DiffNext]_allVars
        => DiffTypeOK' /\ AnswersInv' /\ ReadsInv'
  BY AnswersAndReadsKept, DiffTyped DEF KnownInv
<1> QED BY <1>1, <1>2, DiffIsSpec, Known, PTL DEF DiffSpec

(* Whatever the job it reports on does while it is read - run, crash,      *)
(* resume, be retried or be cancelled - a report shows what its source     *)
(* table promises (api/exports.py 41-62).                                  *)
THEOREM ReportIsWhole ==
    ASSUME \A v, w \in Workers : v = w, DashboardOnly, MaxRetries <= 1,
           IsFiniteSet(Requests)
    PROVE  DiffSpec => []ReportShowsItsEvidence
BY AnswersAndReads, ReportFollows, PTL

(* Whatever requests are made, deletions of either job included: unless    *)
(* the new job is gone, nothing is reported as removed that its source has *)
(* not looked for in vain (services/diff.py 66-171).                       *)
THEOREM DiffIsTrue ==
    ASSUME \A v, w \in Workers : v = w, DashboardOnly, MaxRetries <= 1,
           IsFiniteSet(Requests)
    PROVE  DiffSpec => [](job[New] # NoRow => RemovedMeansGone)
BY AnswersAndReads, DiffFollows, PTL

(* When nobody deletes jobs and the new one is not yet old enough for the  *)
(* retention sweep, no exception is left.                                  *)
THEOREM DiffHolds ==
    ASSUME \A v, w \in Workers : v = w, DashboardOnly, MaxRetries <= 1,
           IsFiniteSet(Requests), "delete" \notin Kinds, New \notin Expirable
    PROVE  DiffSpec => []DiffInv
<1>1. DiffInit => NewJobStays
  BY FirstAnswers
<1>2. KnownInv /\ DiffTypeOK /\ NewJobStays /\ [DiffNext]_allVars => NewJobStays'
  BY NewJobStaysKept
<1>3. DiffTypeOK /\ AnswersInv /\ ReadsInv /\ NewJobStays => DiffInv
  <2> SUFFICES ASSUME DiffTypeOK, AnswersInv, ReadsInv, NewJobStays PROVE RemovedMeansGone
    BY DEF DiffInv
  <2>1. CASE job[New] # NoRow
    BY <2>1, DiffFollows
  <2>2. CASE job[New] = NoRow
    <3>1. Compares => request = "diff" /\ reads = 6
      BY ReadsAt DEF DiffTypeOK, Compares, HasRead
    <3>2. ~Compares
      BY <2>2, <3>1 DEF NewJobStays
    <3> QED BY <3>2 DEF RemovedMeansGone
  <2> QED BY <2>1, <2>2
<1> QED BY <1>1, <1>2, <1>3, AnswersAndReads, PTL DEF DiffSpec
=============================================================================
