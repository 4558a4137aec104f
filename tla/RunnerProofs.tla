---------------------------- MODULE RunnerProofs ----------------------------
(***************************************************************************)
(* Proofs about a job runner that has its database for itself, for every   *)
(* number of jobs, collectors, worker loops and crashes: everything has    *)
(* its type, a job has one task, and a collector run reads RUNNING exactly *)
(* while it is executed.                                                   *)
(***************************************************************************)
EXTENDS JobRunner, TLAPS

(* The job's verdict is a terminal job status.                             *)
LEMMA VerdictRange ==
    ASSUME NEW statuses
    PROVE  ComputeJobStatus(statuses) \in TerminalJobStatuses
BY DEF ComputeJobStatus, TerminalJobStatuses

(* Counting one more row in a table of counts gives a table of counts.     *)
LEMMA IncrementTyped ==
    ASSUME NEW count \in [Jobs -> [Collectors -> Nat]], NEW j, NEW c
    PROVE  [count EXCEPT ![j][c] = @ + 1] \in [Jobs -> [Collectors -> Nat]]
<1>1. CASE j \in Jobs /\ c \in Collectors
  <2>1. count[j][c] + 1 \in Nat
    BY <1>1
  <2> QED
    BY <2>1
<1>2. CASE j \in Jobs /\ c \notin Collectors
  BY <1>2
<1>3. CASE j \notin Jobs
  BY <1>3
<1> QED
  BY <1>1, <1>2, <1>3

(* The retention sweep leaves well-typed tables.                           *)
LEMMA SweepTyped ==
    ASSUME TypeOK, NEW cascade \in BOOLEAN, SweepRetention(cascade)
    PROVE  /\ job' \in [Jobs -> JobStatuses \cup {NoRow}]
           /\ run' \in [Jobs -> [Collectors -> CollectorStatuses \cup {NoRow}]]
           /\ rows' \in [Jobs -> [Collectors -> Nat]]
           /\ attempts' \in [Jobs -> [Collectors -> Nat]]
           /\ expired' \subseteq Jobs
           /\ created' = created
BY DEF TypeOK, SweepRetention

(* Every step of a task's own coroutine is well typed.                     *)
LEMMA TaskTyped ==
    ASSUME TypeOK, NEW t \in Tasks, TaskStep(t)
    PROVE  TypeOK'
<1> USE DEF TypeOK, database, process, TaskPoints, WorkPoints, NoWork, NoJob
<1>1. CASE ClaimNothing(t)
  BY <1>1 DEF ClaimNothing, runnerVars
<1>2. ASSUME NEW j \in Jobs, ClaimSelect(t, j) PROVE TypeOK'
  BY <1>2 DEF ClaimSelect
<1>3. CASE ClaimUpdate(t)
  BY <1>3 DEF ClaimUpdate, JobStatuses
<1>4. CASE ClaimLost(t)
  BY <1>4 DEF ClaimLost
<1>5. CASE Register(t)
  BY <1>5 DEF Register
<1>6. CASE Load(t)
  <2>1. work' \in [Tasks -> [Collectors -> WorkPoints]]
    <3>1. CASE UNCHANGED work
      BY <3>1
    <3>2. CASE work' = [work EXCEPT ![t] = [c \in Collectors |->
                            IF c \in Pending(serving[t]) THEN "wait" ELSE "none"]]
      BY <3>2
    <3> QED
      BY <1>6, <3>1, <3>2 DEF Load
  <2>2. pc' \in [Tasks -> TaskPoints]
    BY <1>6 DEF Load
  <2> QED
    BY <1>6, <2>1, <2>2 DEF Load
<1>7. CASE SeedDenyList(t)
  BY <1>7 DEF SeedDenyList
<1>8. CASE FailJobBeforeDispatch(t)
  <2>1. job' \in [Jobs -> JobStatuses \cup {NoRow}]
    BY <1>8 DEF FailJobBeforeDispatch, JobStatuses, TerminalJobStatuses
  <2>2. run' \in [Jobs -> [Collectors -> CollectorStatuses \cup {NoRow}]]
    BY <1>8 DEF FailJobBeforeDispatch, CollectorStatuses, TerminalCollectorStatuses
  <2> QED
    BY <1>8, <2>1, <2>2 DEF FailJobBeforeDispatch
<1>9. CASE FinishDispatch(t)
  BY <1>9 DEF FinishDispatch
<1>10. CASE ComputeVerdict(t)
  <2>1. ComputeJobStatus(RunStatuses(serving[t])) \in TaskPoints
    BY VerdictRange
  <2>2. "canceled" \in TaskPoints
    BY DEF TerminalJobStatuses
  <2> QED
    BY <1>10, <2>1, <2>2 DEF ComputeVerdict
<1>11. CASE FinalizeJob(t)
  <2>1. job' \in [Jobs -> JobStatuses \cup {NoRow}]
    BY <1>11 DEF FinalizeJob, JobStatuses
  <2> QED
    BY <1>11, <2>1 DEF FinalizeJob
<1>12. CASE FinalizeRaises(t)
  BY <1>12 DEF FinalizeRaises
<1>13. CASE Sweep(t)
  BY <1>13, SweepTyped DEF Sweep
<1>14. CASE Unregister(t)
  BY <1>14 DEF Unregister
<1> QED
  BY <1>1, <1>2, <1>3, <1>4, <1>5, <1>6, <1>7, <1>8, <1>9, <1>10, <1>11, <1>12,
     <1>13, <1>14 DEF TaskStep

(* Every step of a collector's coroutine is well typed.                    *)
LEMMA CollectorTyped ==
    ASSUME TypeOK, NEW t \in Tasks, NEW c \in Collectors, CollectorStep(t, c)
    PROVE  TypeOK'
<1> USE DEF TypeOK, database, WorkPoints
<1>1. CASE StartCollector(t, c)
  <2>1. attempts' \in [Jobs -> [Collectors -> Nat]]
    BY <1>1, IncrementTyped DEF StartCollector
  <2>2. run' \in [Jobs -> [Collectors -> CollectorStatuses \cup {NoRow}]]
    BY <1>1 DEF StartCollector, CollectorStatuses
  <2> QED
    BY <1>1, <2>1, <2>2 DEF StartCollector
<1>2. CASE CheckCollector(t, c)
  <2>1. PICK next \in WorkPoints : work' = [work EXCEPT ![t][c] = next]
    BY <1>2 DEF CheckCollector, TerminalCollectorStatuses
  <2> QED
    BY <1>2, <2>1 DEF CheckCollector
<1>3. CASE CollectorAnswers(t, c)
  BY <1>3 DEF CollectorAnswers, TerminalCollectorStatuses
<1>4. CASE SaveFindings(t, c)
  <2>1. rows' \in [Jobs -> [Collectors -> Nat]]
    BY <1>4, IncrementTyped DEF SaveFindings
  <2> QED
    BY <1>4, <2>1 DEF SaveFindings, TerminalCollectorStatuses
<1>5. CASE FinishCollector(t, c)
  <2>1. run' \in [Jobs -> [Collectors -> CollectorStatuses \cup {NoRow}]]
    BY <1>5 DEF FinishCollector, CollectorStatuses
  <2> QED
    BY <1>5, <2>1 DEF FinishCollector
<1>6. CASE CollectorRaises(t, c)
  BY <1>6 DEF CollectorRaises, TaskPoints
<1> QED
  BY <1>1, <1>2, <1>3, <1>4, <1>5, <1>6 DEF CollectorStep

(* So is every other step of the runner.                                   *)
LEMMA RunnerTyped ==
    ASSUME TypeOK, RunnerStep
    PROVE  TypeOK'
<1> USE DEF TypeOK
<1>1. ASSUME NEW sources \in Selections, CreateJob(sources) PROVE TypeOK'
  BY <1>1, NumJobsAssumption DEF CreateJob, process, Jobs, JobStatuses, CollectorStatuses
<1>2. ASSUME NEW j \in Jobs, Expire(j) PROVE TypeOK'
  BY <1>2 DEF Expire, process
<1>3. CASE Restart
  <2>1. /\ run' \in [Jobs -> [Collectors -> CollectorStatuses \cup {NoRow}]]
        /\ rows' \in [Jobs -> [Collectors -> Nat]]
        /\ attempts' \in [Jobs -> [Collectors -> Nat]]
    BY <1>3 DEF Restart, Recovered, CollectorStatuses
  <2>2. /\ pc' \in [Tasks -> TaskPoints]
        /\ serving' \in [Tasks -> Jobs \cup {NoJob}]
        /\ event' \in [Jobs -> Tasks \cup {NoTask}]
    BY <1>3 DEF Restart, TaskPoints, Tasks
  <2> QED
    BY <1>3, <2>1, <2>2 DEF Restart
<1> QED
  BY <1>1, <1>2, <1>3, TaskTyped, CollectorTyped DEF RunnerStep

(* So do a crash and the first start.                                      *)
LEMMA CrashTyped ==
    ASSUME TypeOK, Crash
    PROVE  TypeOK'
<1>1. crashes' \in 0..MaxCrashes
  BY BoundsAssumption DEF Crash, TypeOK
<1>2. /\ pc' \in [Tasks -> TaskPoints]
      /\ serving' \in [Tasks -> Jobs \cup {NoJob}]
      /\ work' \in [Tasks -> [Collectors -> WorkPoints]]
      /\ event' \in [Jobs -> Tasks \cup {NoTask}]
      /\ cancelSet' \in [Tasks -> BOOLEAN]
      /\ up' \in BOOLEAN
  BY DEF Crash, TaskPoints, WorkPoints, NoWork
<1> QED
  BY <1>1, <1>2 DEF Crash, TypeOK, database

LEMMA InitTyped == RunnerInit => TypeOK
BY NumJobsAssumption, BoundsAssumption
   DEF RunnerInit, TypeOK, TaskPoints, WorkPoints, NoWork, NoJob, Tasks, Jobs

-----------------------------------------------------------------------------
(* A task or a coroutine that takes a step belongs to a process that is    *)
(* up.                                                                     *)
LEMMA StepsAreUp ==
    ASSUME TypeOK, StoppedIsStill, NEW t \in Tasks,
           TaskStep(t) \/ \E c \in Collectors : CollectorStep(t, c)
    PROVE  up /\ up'
<1> USE DEF TypeOK, StoppedIsStill, NoWork
<1>1. CASE TaskStep(t)
  BY <1>1
  DEF TaskStep, ClaimNothing, ClaimSelect, ClaimUpdate, ClaimLost, Register, Load,
      SeedDenyList, FailJobBeforeDispatch, FinishDispatch, ComputeVerdict,
      FinalizeJob, FinalizeRaises, Sweep, Unregister, runnerVars, TerminalJobStatuses
<1>2. ASSUME NEW c \in Collectors, CollectorStep(t, c) PROVE up /\ up'
  BY <1>2
  DEF CollectorStep, StartCollector, CheckCollector, CollectorAnswers, SaveFindings,
      FinishCollector, CollectorRaises, MayStart, TerminalCollectorStatuses
<1> QED
  BY <1>1, <1>2

(* A task moves itself and no other.                                       *)
LEMMA OthersStay ==
    ASSUME TypeOK, NEW t \in Tasks, TaskStep(t), NEW u \in Tasks, u # t
    PROVE  pc'[u] = pc[u] /\ serving'[u] = serving[u] /\ work'[u] = work[u]
BY DEF TypeOK, TaskStep, ClaimNothing, ClaimSelect, ClaimUpdate, ClaimLost, Register,
       Load, SeedDenyList, FailJobBeforeDispatch, FinishDispatch, ComputeVerdict,
       FinalizeJob, FinalizeRaises, Sweep, Unregister, runnerVars

(* A step that changes neither which runs are RUNNING nor what the others  *)
(* do, of a task that executes nothing before and after it.                *)
LEMMA ExecutionKept ==
    ASSUME TypeOK, RunningIsExecuted, up, NEW t \in Tasks,
           \A j \in Jobs, c \in Collectors : run'[j][c] = "running" <=> run[j][c] = "running",
           \A u \in Tasks : u # t =>
               pc'[u] = pc[u] /\ serving'[u] = serving[u] /\ work'[u] = work[u],
           \A c \in Collectors : work[t][c] \notin Inside /\ work'[t][c] \notin Inside
    PROVE  RunningIsExecuted'
<1> SUFFICES ASSUME NEW j \in Jobs, NEW c \in Collectors
             PROVE  run'[j][c] = "running" <=>
                        \E u \in Tasks : Serves(u, j)' /\ work'[u][c] \in Inside
  BY DEF RunningIsExecuted
<1>1. \A u \in Tasks : (Serves(u, j)' /\ work'[u][c] \in Inside) <=>
                          (Serves(u, j) /\ work[u][c] \in Inside)
  BY DEF Serves, Active
<1>2. run[j][c] = "running" <=> \E u \in Tasks : Serves(u, j) /\ work[u][c] \in Inside
  BY DEF RunningIsExecuted
<1> QED
  BY <1>1, <1>2

(* Job numbers are positive, so 0 is no job.                               *)
LEMMA JobsArePositive == \A j \in Jobs : j \in Nat /\ j > 0 /\ j # NoJob
BY NumJobsAssumption DEF Jobs, NoJob

(* The statements of a task about itself.                                  *)
LEMMA TasksStandTask ==
    ASSUME TypeOK, TypeOK', TasksStand, OneTaskEach, JobsInPlace,
           NEW t \in Tasks, TaskStep(t)
    PROVE  TasksStand'
<1> USE DEF TypeOK, TasksStand, database
<1>0. Inside \cap {"none", "wait", "over"} = {}
  BY DEF Inside, TerminalCollectorStatuses
<1>1. CASE ClaimNothing(t)
  BY <1>1 DEF ClaimNothing, runnerVars, Active
<1>2. ASSUME NEW j \in Jobs, ClaimSelect(t, j) PROVE TasksStand'
  BY <1>2 DEF ClaimSelect, OldestQueued, Active, NoRow
<1>3. CASE ClaimUpdate(t)
  BY <1>3 DEF ClaimUpdate, Active, NoRow
<1>4. CASE ClaimLost(t)
  BY <1>4 DEF ClaimLost, Active
<1>5. CASE Register(t)
  BY <1>5 DEF Register, Active
<1>6. CASE Load(t)
  <2>1. \A c \in Collectors : work'[t][c] \notin Inside
    BY <1>6, <1>0 DEF Load
  <2>2. /\ pc[t] = "load" /\ pc'[t] \in {"unregister", "seed"}
        /\ serving' = serving /\ job' = job
    BY <1>6 DEF Load
  <2>3. \A u \in Tasks : u # t => pc'[u] = pc[u] /\ work'[u] = work[u]
    BY <1>6 DEF Load
  <2> QED
    BY <2>1, <2>2, <2>3 DEF Active
<1>7. CASE SeedDenyList(t)
  BY <1>7 DEF SeedDenyList, Active
<1>8. CASE FailJobBeforeDispatch(t)
  BY <1>8, <1>0 DEF FailJobBeforeDispatch, Active, NoRow, NoWork
<1>9. CASE FinishDispatch(t)
  BY <1>9, <1>0 DEF FinishDispatch, Active, Idle
<1>10. CASE ComputeVerdict(t)
  <2>1. pc'[t] \in TerminalJobStatuses
    BY <1>10, VerdictRange DEF ComputeVerdict, TerminalJobStatuses
  <2>2. pc'[t] # "dead"
    BY <2>1 DEF TerminalJobStatuses
  <2> QED
    BY <1>10, <2>2 DEF ComputeVerdict, Active
<1>11. CASE FinalizeJob(t)
  BY <1>11 DEF FinalizeJob, Active, NoRow, TerminalJobStatuses
<1>12. CASE FinalizeRaises(t)
  BY <1>12 DEF FinalizeRaises, TerminalJobStatuses
<1>13. CASE Sweep(t)
  <2>1. \A j \in Jobs : (\E u \in Tasks : serving[u] = j) => job'[j] = job[j]
    BY <1>13 DEF Sweep, SweepRetention, JobsInPlace
  <2> QED
    BY <1>13, <2>1 DEF Sweep, Active
<1>14. CASE Unregister(t)
  BY <1>14, <1>0 DEF Unregister, Active, NoWork
<1> QED
  BY <1>1, <1>2, <1>3, <1>4, <1>5, <1>6, <1>7, <1>8, <1>9, <1>10, <1>11, <1>12,
     <1>13, <1>14 DEF TaskStep

(* A task takes up only a job that was queued, which nobody runs.          *)
LEMMA OneTaskEachTask ==
    ASSUME TypeOK, TypeOK', TasksStand, OneTaskEach, NEW t \in Tasks, TaskStep(t)
    PROVE  OneTaskEach'
<1> USE DEF TypeOK
<1>1. ASSUME NEW j \in Jobs, Serves(t, j)', ~Serves(t, j)
      PROVE  \A u \in Tasks : ~Serves(u, j)
  <2>1. CASE ClaimUpdate(t)
    BY <1>1, <2>1 DEF ClaimUpdate, Serves, Active, TasksStand
  <2>2. CASE ~ClaimUpdate(t)
    <3>1. pc[t] \in {"off", "poll", "claim", "dead"} => pc'[t] \in {"off", "poll", "claim", "dead"}
      BY <2>2
      DEF TaskStep, ClaimNothing, ClaimSelect, ClaimLost, Register, Load, SeedDenyList,
          FailJobBeforeDispatch, FinishDispatch, ComputeVerdict, FinalizeJob,
          FinalizeRaises, Sweep, Unregister, runnerVars, TerminalJobStatuses
    <3>2. Active(t) => serving'[t] = serving[t] \/ serving'[t] = NoJob
      BY <2>2
      DEF TaskStep, ClaimNothing, ClaimSelect, ClaimLost, Register, Load, SeedDenyList,
          FailJobBeforeDispatch, FinishDispatch, ComputeVerdict, FinalizeJob,
          FinalizeRaises, Sweep, Unregister, runnerVars, Active
    <3> QED
      BY <1>1, <3>1, <3>2, JobsArePositive DEF Serves, Active
  <2> QED
    BY <2>1, <2>2
<1>2. \A u \in Tasks, j \in Jobs : u # t => (Serves(u, j)' <=> Serves(u, j))
  BY OthersStay DEF Serves, Active
<1> QED
  BY <1>1, <1>2 DEF OneTaskEach

(* Nobody works on a job that may be swept, and every verdict takes it off *)
(* the list.                                                               *)
LEMMA JobsInPlaceTask ==
    ASSUME TypeOK, TypeOK', TasksStand, JobsInPlace, NEW t \in Tasks, TaskStep(t)
    PROVE  JobsInPlace'
<1> USE DEF TypeOK, JobsInPlace, database
<1>0. "queued" \notin TerminalJobStatuses /\ NoRow \notin TerminalJobStatuses
  BY DEF TerminalJobStatuses, NoRow
<1>1. CASE ClaimNothing(t)
  BY <1>1 DEF ClaimNothing, runnerVars
<1>2. ASSUME NEW j \in Jobs, ClaimSelect(t, j) PROVE JobsInPlace'
  BY <1>2, <1>0 DEF ClaimSelect, OldestQueued
<1>3. CASE ClaimUpdate(t)
  BY <1>3, <1>0 DEF ClaimUpdate, NoRow
<1>4. CASE ClaimLost(t)
  BY <1>4, JobsArePositive DEF ClaimLost
<1>5. CASE Register(t) \/ Load(t) \/ SeedDenyList(t) \/ FinishDispatch(t) \/ ComputeVerdict(t)
  BY <1>5 DEF Register, Load, SeedDenyList, FinishDispatch, ComputeVerdict
<1>6. CASE FailJobBeforeDispatch(t)
  BY <1>6, <1>0 DEF FailJobBeforeDispatch, TasksStand
<1>7. CASE FinalizeJob(t)
  BY <1>7, <1>0 DEF FinalizeJob, TasksStand, TerminalJobStatuses
<1>8. CASE FinalizeRaises(t)
  BY <1>8 DEF FinalizeRaises
<1>9. CASE Sweep(t)
  BY <1>9 DEF Sweep, SweepRetention
<1>10. CASE Unregister(t)
  BY <1>10, JobsArePositive DEF Unregister
<1> QED
  BY <1>1, <1>2, <1>3, <1>4, <1>5, <1>6, <1>7, <1>8, <1>9, <1>10 DEF TaskStep

(* No task's step changes who executes what.                               *)
LEMMA ExecutedTask ==
    ASSUME TypeOK, StoppedIsStill, TasksStand, TasksStand', OneTaskEach, JobsInPlace,
           RunningIsExecuted, NEW t \in Tasks, TaskStep(t)
    PROVE  RunningIsExecuted'
<1> USE DEF TypeOK, database
<1>0. up
  BY StepsAreUp
<1>1. CASE UNCHANGED runnerVars
  BY <1>1 DEF runnerVars, RunningIsExecuted, Serves, Active
<1>2. CASE ~ UNCHANGED runnerVars
  <2>1. \A c \in Collectors : work[t][c] \notin Inside /\ work'[t][c] \notin Inside
    <3>1. \A c \in Collectors : work[t][c] \in Inside => pc[t] = "dispatch"
      BY DEF TasksStand
    <3>2. \A c \in Collectors : work'[t][c] \in Inside => pc'[t] = "dispatch"
      BY DEF TasksStand
    <3>3. pc[t] = "dispatch" => FinishDispatch(t)
      BY <1>2
      DEF TaskStep, ClaimNothing, ClaimSelect, ClaimUpdate, ClaimLost, Register, Load,
          SeedDenyList, FailJobBeforeDispatch, ComputeVerdict,
          FinalizeJob, FinalizeRaises, Sweep, Unregister, TerminalJobStatuses
    <3>4. CASE FinishDispatch(t)
      BY <3>4 DEF FinishDispatch, Idle, Inside, TerminalCollectorStatuses
    <3>5. CASE pc'[t] = "dispatch" /\ ~FinishDispatch(t)
      <4>1. SeedDenyList(t)
        BY <1>2, <3>3, <3>5, VerdictRange
        DEF TaskStep, ClaimNothing, ClaimSelect, ClaimUpdate, ClaimLost, Register, Load,
            FailJobBeforeDispatch, ComputeVerdict,
            FinalizeJob, FinalizeRaises, Sweep, Unregister, TerminalJobStatuses
      <4> QED
        BY <3>1, <4>1 DEF SeedDenyList
    <3> QED
      BY <3>1, <3>2, <3>3, <3>4, <3>5
  <2>2. \A j \in Jobs, c \in Collectors : run'[j][c] = "running" <=> run[j][c] = "running"
    <3>1. CASE FailJobBeforeDispatch(t)
      <4>1. \A c \in Collectors : run[serving[t]][c] # "running"
        <5>1. serving[t] \in Jobs /\ Serves(t, serving[t])
          BY <3>1 DEF FailJobBeforeDispatch, TasksStand, Serves, Active
        <5>2. \A u \in Tasks : Serves(u, serving[t]) => u = t
          BY <5>1 DEF OneTaskEach
        <5> QED
          BY <1>0, <2>1, <5>1, <5>2 DEF RunningIsExecuted
      <4> QED
        BY <3>1, <4>1 DEF FailJobBeforeDispatch, TasksStand
    <3>2. CASE Sweep(t)
      <4>1. \A j \in expired, c \in Collectors : run[j][c] # "running"
        BY <1>0 DEF RunningIsExecuted, JobsInPlace, Serves
      <4> QED
        BY <3>2, <4>1 DEF Sweep, SweepRetention, NoRow
    <3>3. CASE ~FailJobBeforeDispatch(t) /\ ~Sweep(t)
      <4>1. UNCHANGED run
        BY <3>3
        DEF TaskStep, ClaimNothing, ClaimSelect, ClaimUpdate, ClaimLost, Register, Load,
            SeedDenyList, FinishDispatch, ComputeVerdict,
            FinalizeJob, FinalizeRaises, Unregister, runnerVars
      <4> QED
        BY <4>1
    <3> QED
      BY <3>1, <3>2, <3>3
  <2> QED
    BY <1>0, <2>1, <2>2, OthersStay, ExecutionKept
<1> QED
  BY <1>1, <1>2

-----------------------------------------------------------------------------
(* A coroutine that may be started, or stands inside, belongs to a task    *)
(* that dispatches a job that is there; so it never raises.                *)
LEMMA CollectorsDispatch ==
    ASSUME TypeOK, TasksStand, NEW t \in Tasks, NEW c \in Collectors, CollectorStep(t, c)
    PROVE  /\ pc[t] = "dispatch" /\ pc' = pc /\ serving' = serving /\ job' = job
           /\ UNCHANGED <<up, created, expired>>
           /\ serving[t] \in Jobs /\ Serves(t, serving[t])
           /\ ~CollectorRaises(t, c)
<1> USE DEF TypeOK, TasksStand, database
<1>1. work[t][c] \in {"check", "run", "save"} \cup TerminalCollectorStatuses => pc[t] = "dispatch"
  BY DEF Inside
<1>2. MayStart(t, c) => pc[t] = "dispatch"
  BY DEF MayStart
<1>3. pc[t] = "dispatch"
  BY <1>1, <1>2
  DEF CollectorStep, StartCollector, CheckCollector, CollectorAnswers, SaveFindings,
      FinishCollector, CollectorRaises
<1>4. serving[t] \in Jobs /\ Serves(t, serving[t]) /\ job[serving[t]] # NoRow
  BY <1>3 DEF Serves, Active
<1>5. ~CollectorRaises(t, c)
  BY <1>4 DEF CollectorRaises
<1> QED
  BY <1>3, <1>4, <1>5
  DEF CollectorStep, StartCollector, CheckCollector, CollectorAnswers, SaveFindings,
      FinishCollector

(* What a coroutine's step does to its run and its place.                  *)
LEMMA CollectorMoves ==
    ASSUME TypeOK, TypeOK', NEW t \in Tasks, NEW c \in Collectors,
           serving[t] \in Jobs, CollectorStep(t, c), ~CollectorRaises(t, c)
    PROVE  /\ \A u \in Tasks, d \in Collectors : <<u, d>> # <<t, c>> => work'[u][d] = work[u][d]
           /\ \A j \in Jobs, d \in Collectors : <<j, d>> # <<serving[t], c>> => run'[j][d] = run[j][d]
           /\ \/ work'[t][c] \in Inside /\ run'[serving[t]][c] = "running"
              \/ work[t][c] \in Inside /\ work'[t][c] \in Inside /\ run' = run
              \/ work'[t][c] \notin Inside /\ run'[serving[t]][c] # "running"
<1> USE DEF TypeOK, database, Inside
<1>1. CASE StartCollector(t, c)
  BY <1>1 DEF StartCollector
<1>2. CASE CheckCollector(t, c)
  BY <1>2 DEF CheckCollector, TerminalCollectorStatuses
<1>3. CASE CollectorAnswers(t, c)
  BY <1>3 DEF CollectorAnswers, TerminalCollectorStatuses
<1>4. CASE SaveFindings(t, c)
  BY <1>4 DEF SaveFindings, TerminalCollectorStatuses
<1>5. CASE FinishCollector(t, c)
  BY <1>5 DEF FinishCollector, TerminalCollectorStatuses, NoRow
<1> QED
  BY <1>1, <1>2, <1>3, <1>4, <1>5 DEF CollectorStep

LEMMA CollectorKeeps ==
    ASSUME RunnerInv, TypeOK', NEW t \in Tasks, NEW c \in Collectors, CollectorStep(t, c)
    PROVE  RunnerInv'
<1> DEFINE j == serving[t]
<1> USE DEF RunnerInv
<1>1. /\ pc[t] = "dispatch" /\ pc' = pc /\ serving' = serving /\ job' = job
      /\ UNCHANGED <<up, created, expired>>
      /\ j \in Jobs /\ Serves(t, j)
      /\ ~CollectorRaises(t, c)
  BY CollectorsDispatch
<1>2. /\ \A u \in Tasks, d \in Collectors : <<u, d>> # <<t, c>> => work'[u][d] = work[u][d]
      /\ \A k \in Jobs, d \in Collectors : <<k, d>> # <<j, c>> => run'[k][d] = run[k][d]
      /\ \/ work'[t][c] \in Inside /\ run'[j][c] = "running"
         \/ work[t][c] \in Inside /\ work'[t][c] \in Inside /\ run' = run
         \/ work'[t][c] \notin Inside /\ run'[j][c] # "running"
  BY <1>1, CollectorMoves
<1> HIDE DEF j
<1>3. up /\ up'
  BY StepsAreUp
<1>4. StoppedIsStill'
  BY <1>3 DEF StoppedIsStill
<1>5. TasksStand'
  BY <1>1, <1>2 DEF TasksStand, Active
<1>6. OneTaskEach'
  BY <1>1 DEF OneTaskEach, Serves, Active
<1>7. JobsInPlace'
  BY <1>1 DEF JobsInPlace
<1>8. RunningIsExecuted'
  <2> SUFFICES ASSUME NEW k \in Jobs, NEW d \in Collectors
               PROVE  run'[k][d] = "running" <=>
                          \E u \in Tasks : Serves(u, k)' /\ work'[u][d] \in Inside
    BY DEF RunningIsExecuted
  <2>1. \A u \in Tasks : Serves(u, k)' <=> Serves(u, k)
    BY <1>1 DEF Serves, Active
  <2>2. run[k][d] = "running" <=> \E u \in Tasks : Serves(u, k) /\ work[u][d] \in Inside
    BY <1>3 DEF RunningIsExecuted
  <2>3. CASE k = j /\ d = c
    <3>1. \A u \in Tasks : Serves(u, k) => u = t
      BY <1>1, <2>3 DEF OneTaskEach
    <3> QED
      BY <1>1, <1>2, <2>1, <2>2, <2>3, <3>1
  <2>4. CASE <<k, d>> # <<j, c>>
    <3>1. run'[k][d] = run[k][d]
      BY <1>2, <2>4
    <3>2. \A u \in Tasks : Serves(u, k) => work'[u][d] = work[u][d]
      BY <1>1, <1>2, <2>4 DEF OneTaskEach, Serves
    <3> QED
      BY <2>1, <2>2, <3>1, <3>2
  <2> QED
    BY <2>3, <2>4
<1> QED
  BY <1>4, <1>5, <1>6, <1>7, <1>8

-----------------------------------------------------------------------------
(* The other steps: a job is created or expires, the process stops, and    *)
(* starts again.                                                           *)
LEMMA CreateKeeps ==
    ASSUME RunnerInv, TypeOK', NEW sources \in Selections, CreateJob(sources)
    PROVE  RunnerInv'
<1> DEFINE n == created + 1
<1> USE DEF RunnerInv
<1>1. /\ n \in Jobs /\ job[n] = NoRow /\ job' = [job EXCEPT ![n] = "queued"]
      /\ up /\ created' = n
      /\ UNCHANGED <<expired, up, pc, serving, work>>
  BY NumJobsAssumption DEF CreateJob, JobsInPlace, TypeOK, Jobs, process
<1>2. \A t \in Tasks : ~Serves(t, n)
  BY <1>1 DEF TasksStand, Serves, Active
<1>3. /\ \A c \in Collectors : run'[n][c] # "running"
      /\ \A j \in Jobs : j # n => run'[j] = run[j]
  BY <1>1 DEF CreateJob, TypeOK, NoRow
<1>4. created' = created + 1 /\ created \in Nat
  BY <1>1 DEF TypeOK
<1> HIDE DEF n
<1>5. StoppedIsStill'
  BY <1>1 DEF StoppedIsStill
<1>6. TasksStand'
  BY <1>1, <1>2 DEF TasksStand, Active, Serves, TypeOK, NoRow
<1>7. OneTaskEach'
  BY <1>1 DEF OneTaskEach, Serves, Active
<1>8. JobsInPlace'
  <2>1. \A j \in Jobs : j \in Nat
    BY JobsArePositive
  <2>2. \A j \in Jobs : job'[j] # NoRow => j <= created'
    BY <1>1, <1>4, <2>1 DEF JobsInPlace, TypeOK, n
  <2>3. n \notin expired
    BY <1>1 DEF JobsInPlace, NoRow, TerminalJobStatuses
  <2> QED
    BY <1>1, <2>2, <2>3 DEF JobsInPlace, TypeOK
<1>9. RunningIsExecuted'
  <2> SUFFICES ASSUME NEW j \in Jobs, NEW c \in Collectors
               PROVE  run'[j][c] = "running" <=>
                          \E t \in Tasks : Serves(t, j)' /\ work'[t][c] \in Inside
    BY DEF RunningIsExecuted
  <2>1. \A t \in Tasks : Serves(t, j)' <=> Serves(t, j)
    BY <1>1 DEF Serves, Active
  <2> QED
    BY <1>1, <1>2, <1>3, <2>1 DEF RunningIsExecuted
<1> QED
  BY <1>5, <1>6, <1>7, <1>8, <1>9

LEMMA ExpireKeeps ==
    ASSUME RunnerInv, TypeOK', NEW j \in Jobs, Expire(j)
    PROVE  RunnerInv'
<1> USE DEF RunnerInv
<1>1. JobsInPlace'
  BY DEF Expire, JobsInPlace, process
<1>2. TasksStand' /\ StoppedIsStill' /\ OneTaskEach' /\ RunningIsExecuted'
  BY DEF Expire, TasksStand, StoppedIsStill, OneTaskEach, RunningIsExecuted, Serves,
         Active, process
<1> QED
  BY <1>1, <1>2

LEMMA CrashKeeps ==
    ASSUME RunnerInv, Crash
    PROVE  RunnerInv'
<1> USE DEF RunnerInv
<1>1. TypeOK'
  BY CrashTyped
<1>2. /\ ~up' /\ UNCHANGED database
      /\ \A t \in Tasks : pc'[t] = "off" /\ serving'[t] = NoJob /\ work'[t] = NoWork
  BY DEF Crash
<1>3. \A t \in Tasks, c \in Collectors : work'[t][c] \notin Inside
  BY <1>2 DEF NoWork, Inside, TerminalCollectorStatuses
<1>4. TasksStand'
  BY <1>2, <1>3 DEF TasksStand, Active
<1>5. OneTaskEach'
  BY <1>2 DEF OneTaskEach, Serves, Active
<1>6. JobsInPlace'
  BY <1>2, JobsArePositive DEF JobsInPlace, database, TypeOK
<1> QED
  BY <1>1, <1>2, <1>4, <1>5, <1>6 DEF StoppedIsStill, RunningIsExecuted

LEMMA RestartKeeps ==
    ASSUME RunnerInv, TypeOK', Restart
    PROVE  RunnerInv'
<1> USE DEF RunnerInv
<1>1. /\ ~up /\ up' /\ work' = work /\ created' = created
      /\ \A t \in Tasks : work[t] = NoWork
  BY DEF Restart, StoppedIsStill
<1>2. \A t \in Tasks, c \in Collectors : work'[t][c] \notin Inside
  BY <1>1 DEF NoWork, Inside, TerminalCollectorStatuses
<1>3. \A j \in Jobs, c \in Collectors : run'[j][c] # "running"
  BY DEF Restart, Recovered, NoRow
<1>4. \A t \in Tasks :
         \/ pc'[t] \in {"poll", "off"} /\ serving'[t] = NoJob
         \/ t \in Jobs /\ Resumable(t) /\ pc'[t] = "load" /\ serving'[t] = t
  BY WorkersAssumption DEF Restart, Tasks
<1>5. \A j \in Jobs : /\ job'[j] \in {job[j], NoRow}
                      /\ Resumable(j) => job'[j] = "running"
  BY DEF Restart, Resumable, TypeOK, TerminalJobStatuses
<1>6. expired' = {}
  BY DEF Restart, JobsInPlace
<1>7. TasksStand'
  BY <1>2, <1>4, <1>5 DEF TasksStand, Active, NoRow
<1>8. OneTaskEach'
  BY <1>4, JobsArePositive DEF OneTaskEach, Serves, Active
<1>9. JobsInPlace'
  BY <1>1, <1>5, <1>6 DEF JobsInPlace
<1>10. RunningIsExecuted'
  BY <1>2, <1>3 DEF RunningIsExecuted
<1> QED
  BY <1>1, <1>7, <1>8, <1>9, <1>10 DEF StoppedIsStill

LEMMA TaskKeeps ==
    ASSUME RunnerInv, NEW t \in Tasks, TaskStep(t)
    PROVE  RunnerInv'
<1> USE DEF RunnerInv
<1>1. TypeOK'
  BY TaskTyped
<1>2. TasksStand'
  BY <1>1, TasksStandTask
<1>3. OneTaskEach'
  BY <1>1, OneTaskEachTask
<1>4. JobsInPlace'
  BY <1>1, JobsInPlaceTask
<1>5. RunningIsExecuted'
  BY <1>2, ExecutedTask
<1>6. StoppedIsStill'
  BY StepsAreUp DEF StoppedIsStill
<1> QED
  BY <1>1, <1>2, <1>3, <1>4, <1>5, <1>6

LEMMA RunnerKeeps ==
    ASSUME RunnerInv, RunnerStep
    PROVE  RunnerInv'
<1>1. TypeOK'
  BY RunnerTyped DEF RunnerInv
<1> QED
  BY <1>1, CreateKeeps, ExpireKeeps, RestartKeeps, TaskKeeps, CollectorKeeps DEF RunnerStep

LEMMA RunnerInitially == RunnerInit => RunnerInv
<1> SUFFICES ASSUME RunnerInit PROVE RunnerInv
  OBVIOUS
<1>1. TypeOK
  BY InitTyped
<1>2. \A t \in Tasks, c \in Collectors : work[t][c] \notin Inside
  BY DEF RunnerInit, NoWork, Inside, TerminalCollectorStatuses
<1>3. TasksStand
  BY <1>2 DEF RunnerInit, TasksStand, Active
<1> QED
  BY <1>1, <1>2, <1>3
  DEF RunnerInit, RunnerInv, StoppedIsStill, OneTaskEach, JobsInPlace, RunningIsExecuted,
      Serves, Active, NoRow

(* However many worker loops compete for the queue and however often the   *)
(* process crashes: nothing but a request can give a job two tasks, or     *)
(* leave a run RUNNING that nobody executes while the process is up.       *)
THEOREM RunnerHolds == RunnerSpec => []RunnerInv
<1>1. RunnerInv /\ [RunnerNext]_runnerVars => RunnerInv'
  <2> SUFFICES ASSUME RunnerInv, [RunnerNext]_runnerVars PROVE RunnerInv'
    OBVIOUS
  <2>1. CASE UNCHANGED runnerVars
    BY <2>1
    DEF runnerVars, RunnerInv, TypeOK, StoppedIsStill, TasksStand, OneTaskEach, JobsInPlace,
        RunningIsExecuted, Serves, Active
  <2> QED
    BY <2>1, RunnerKeeps, CrashKeeps DEF RunnerNext
<1> QED
  BY <1>1, RunnerInitially, PTL DEF RunnerSpec

=============================================================================
