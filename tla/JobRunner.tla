----------------------------- MODULE JobRunner -----------------------------
(***************************************************************************)
(* The durable job runner: backend/app/jobs/runner.py, the worker loops    *)
(* and the startup sequence of backend/app/main.py, job creation           *)
(* (jobs/service.py) and the retention sweep (services/retention.py) that  *)
(* the runner calls.                                                       *)
(*                                                                         *)
(* The first group of variables is the SQLite database and survives a      *)
(* crash; the second is the memory of the one server process.  Each action *)
(* is one database transaction or one uninterrupted stretch of a coroutine *)
(* between two awaits; everything else may run in between.                 *)
(*                                                                         *)
(* Jobs are numbered in the order of created_at.  The task that resumes    *)
(* job j after a restart is named j; the other tasks are the worker loops. *)
(***************************************************************************)
EXTENDS LedgerEnums, Naturals, FiniteSets

CONSTANTS
    NumJobs,                  \* how many jobs are ever created
    Collectors,               \* the registered collector names
    Deferred,                 \* DEFERRED_UNTIL_LAST_COLLECTORS
    Unregistered,             \* names a job carries that the registry lost
    Unsupported,              \* collectors that do not support the target
    Selections,               \* the sets of sources a job may be created with
    Workers,                  \* worker loops: settings.max_concurrent_jobs
    MaxConcurrentCollectors,  \* settings.max_concurrent_collectors_per_job
    MaxCrashes,               \* bound: crashes or shutdowns in a behaviour
    Expirable,                \* bound: jobs that may outlive retention_days
    NoTask                    \* no task: an absent dictionary entry

Jobs == 1..NumJobs
NoJob == 0
Tasks == Workers \cup Jobs

ASSUME NumJobsAssumption == NumJobs \in Nat
ASSUME WorkersAssumption == Workers \cap (Jobs \cup {NoJob}) = {}
ASSUME NoTaskAssumption == NoTask \notin Tasks
ASSUME CollectorsAssumption ==
    /\ Deferred \subseteq Collectors
    /\ Unregistered \subseteq Collectors
    /\ Unsupported \subseteq Collectors
    /\ Selections \subseteq (SUBSET Collectors) \ {{}}
ASSUME BoundsAssumption ==
    /\ MaxConcurrentCollectors \in Nat \ {0}
    /\ MaxCrashes \in Nat
    /\ Expirable \subseteq Jobs

VARIABLES
    job,        \* job[j]: Job.status, or NoRow
    run,        \* run[j][c]: CollectorRun.status, or NoRow
    rows,       \* rows[j][c]: committed batches of Finding rows
    attempts,   \* attempts[j][c]: CollectorRun.attempt_count
    expired,    \* jobs whose finished_at is older than the retention window
    created     \* how many jobs have been created

VARIABLES
    up,         \* the server process is running
    crashes,    \* how often it has stopped
    pc,         \* pc[t]: where task t stands in run_job or in its worker loop
    serving,    \* serving[t]: the job t is working on
    work,       \* work[t][c]: where t's coroutine for collector c stands
    event,      \* _cancellation_events: the task whose Event is registered
    cancelSet   \* cancelSet[t]: the Event of task t's run_job is set

database == <<job, run, rows, attempts, expired, created>>
process == <<up, crashes, pc, serving, work, event, cancelSet>>
runnerVars == <<job, run, rows, attempts, expired, created,
                up, crashes, pc, serving, work, event, cancelSet>>

(* pc: "poll" and "claim" belong to the worker loop; a terminal job status *)
(* is the verdict _finalize_job has computed and not yet committed.        *)
TaskPoints ==
    {"off", "poll", "claim", "register", "load", "seed", "fail", "dispatch",
     "finalize", "sweep", "unregister", "dead"} \cup TerminalJobStatuses

(* work: a terminal collector status is the one _finish_collector is about *)
(* to commit; "over" is a coroutine that returned or raised.               *)
WorkPoints ==
    {"none", "wait", "check", "run", "save", "over"} \cup TerminalCollectorStatuses

NoWork == [c \in Collectors |-> "none"]

(* run_job(j) is in progress in task t, from the claim to the end of its   *)
(* finally block.                                                          *)
Active(t) == pc[t] \notin {"off", "poll", "claim", "dead"}

(* A variant of Holding in which a finished collector keeps its permit.    *)
Holding_Leaks(t) ==
    {c \in Collectors \ Deferred : work[t][c] \notin {"none", "wait"}}

(* The collectors of t that hold the job's semaphore.                      *)
Holding(t) ==
    {c \in Collectors \ Deferred : work[t][c] \notin {"none", "wait", "over"}}

Idle(t, c) == work[t][c] \in {"none", "over"}

TypeOK ==
    /\ job \in [Jobs -> JobStatuses \cup {NoRow}]
    /\ run \in [Jobs -> [Collectors -> CollectorStatuses \cup {NoRow}]]
    /\ rows \in [Jobs -> [Collectors -> Nat]]
    /\ attempts \in [Jobs -> [Collectors -> Nat]]
    /\ expired \subseteq Jobs
    /\ created \in 0..NumJobs
    /\ up \in BOOLEAN
    /\ crashes \in 0..MaxCrashes
    /\ pc \in [Tasks -> TaskPoints]
    /\ serving \in [Tasks -> Jobs \cup {NoJob}]
    /\ work \in [Tasks -> [Collectors -> WorkPoints]]
    /\ event \in [Jobs -> Tasks \cup {NoTask}]
    /\ cancelSet \in [Tasks -> BOOLEAN]

RunnerInit ==
    /\ job = [j \in Jobs |-> NoRow]
    /\ run = [j \in Jobs |-> [c \in Collectors |-> NoRow]]
    /\ rows = [j \in Jobs |-> [c \in Collectors |-> 0]]
    /\ attempts = [j \in Jobs |-> [c \in Collectors |-> 0]]
    /\ expired = {}
    /\ created = 0
    /\ up = TRUE
    /\ crashes = 0
    /\ pc = [t \in Tasks |-> IF t \in Workers THEN "poll" ELSE "off"]
    /\ serving = [t \in Tasks |-> NoJob]
    /\ work = [t \in Tasks |-> NoWork]
    /\ event = [j \in Jobs |-> NoTask]
    /\ cancelSet = [t \in Tasks |-> FALSE]

-----------------------------------------------------------------------------
(* Rows of the database.                                                   *)

(* A variant of Pending that takes every selected collector again.         *)
Pending_Everything(j) == {c \in Collectors : run[j][c] # NoRow}

(* The collector runs run_job picks up and find_resumable_job_ids looks    *)
(* for: QUEUED or INTERRUPTED.                                             *)
Pending(j) == {c \in Collectors : run[j][c] \in {"queued", "interrupted"}}

RunStatuses(j) == {run[j][c] : c \in {d \in Collectors : run[j][d] # NoRow}}

(* services/retention.sweep: the bulk DELETE of terminal jobs past the     *)
(* window.  The children go with them only on a connection on which        *)
(* PRAGMA foreign_keys=ON was executed; enable_wal_mode executes it on one *)
(* connection of the pool.                                                 *)
SweepRetention(cascade) ==
    LET swept == {j \in expired : job[j] \in TerminalJobStatuses} IN
    /\ job' = [j \in Jobs |-> IF j \in swept THEN NoRow ELSE job[j]]
    /\ expired' = expired \ swept
    /\ run' = [j \in Jobs |-> IF j \in swept /\ cascade
                              THEN [c \in Collectors |-> NoRow] ELSE run[j]]
    /\ rows' = [j \in Jobs |-> IF j \in swept /\ cascade
                               THEN [c \in Collectors |-> 0] ELSE rows[j]]
    /\ attempts' = [j \in Jobs |-> IF j \in swept /\ cascade
                                   THEN [c \in Collectors |-> 0] ELSE attempts[j]]
    /\ UNCHANGED created

(* create_job: one transaction inserts the job and one QUEUED run per      *)
(* selected source.                                                        *)
CreateJob(sources) ==
    /\ up
    /\ created < NumJobs
    /\ created' = created + 1
    /\ job' = [job EXCEPT ![created + 1] = "queued"]
    /\ run' = [run EXCEPT ![created + 1] =
                  [c \in Collectors |-> IF c \in sources THEN "queued" ELSE NoRow]]
    /\ UNCHANGED <<rows, attempts, expired, process>>

(* Time passes: a job that finished and that nobody works on becomes older *)
(* than retention_days.                                                    *)
Expire(j) ==
    /\ j \in Expirable \ expired
    /\ job[j] \in TerminalJobStatuses
    /\ \A t \in Tasks : serving[t] # j
    /\ expired' = expired \cup {j}
    /\ UNCHANGED <<job, run, rows, attempts, created, process>>

-----------------------------------------------------------------------------
(* The worker loop: claim_next_queued_job.  The SELECT runs outside any    *)
(* transaction; the guarded UPDATE decides.                                *)

OldestQueued(j) ==
    /\ job[j] = "queued"
    /\ \A k \in Jobs : job[k] = "queued" => j <= k

(* Nothing queued: the loop sleeps and asks again.                         *)
ClaimNothing(t) ==
    /\ t \in Workers
    /\ pc[t] = "poll"
    /\ \A j \in Jobs : job[j] # "queued"
    /\ UNCHANGED runnerVars

ClaimSelect(t, j) ==
    /\ t \in Workers
    /\ pc[t] = "poll"
    /\ OldestQueued(j)
    /\ pc' = [pc EXCEPT ![t] = "claim"]
    /\ serving' = [serving EXCEPT ![t] = j]
    /\ UNCHANGED <<database, up, crashes, work, event, cancelSet>>

(* A variant of ClaimUpdate without the status guard on the UPDATE.        *)
ClaimUpdate_Unguarded(t) ==
    /\ pc[t] = "claim"
    /\ job[serving[t]] # NoRow
    /\ job' = [job EXCEPT ![serving[t]] = "running"]
    /\ pc' = [pc EXCEPT ![t] = "register"]
    /\ UNCHANGED <<run, rows, attempts, expired, created,
                   up, crashes, serving, work, event, cancelSet>>

ClaimUpdate(t) ==
    /\ pc[t] = "claim"
    /\ job[serving[t]] = "queued"
    /\ job' = [job EXCEPT ![serving[t]] = "running"]
    /\ pc' = [pc EXCEPT ![t] = "register"]
    /\ UNCHANGED <<run, rows, attempts, expired, created,
                   up, crashes, serving, work, event, cancelSet>>

(* rowcount # 1: somebody else took or cancelled the job in between.       *)
ClaimLost(t) ==
    /\ pc[t] = "claim"
    /\ job[serving[t]] # "queued"
    /\ pc' = [pc EXCEPT ![t] = "poll"]
    /\ serving' = [serving EXCEPT ![t] = NoJob]
    /\ UNCHANGED <<database, up, crashes, work, event, cancelSet>>

-----------------------------------------------------------------------------
(* run_job.                                                                *)

(* The first statement: a fresh Event replaces whatever is registered.     *)
Register(t) ==
    /\ pc[t] = "register"
    /\ event' = [event EXCEPT ![serving[t]] = t]
    /\ cancelSet' = [cancelSet EXCEPT ![t] = FALSE]
    /\ pc' = [pc EXCEPT ![t] = "load"]
    /\ UNCHANGED <<database, up, crashes, serving, work>>

(* Read the job and its pending runs; a job that is gone ends run_job.     *)
Load(t) ==
    /\ pc[t] = "load"
    /\ IF job[serving[t]] = NoRow
       THEN /\ pc' = [pc EXCEPT ![t] = "unregister"]
            /\ UNCHANGED work
       ELSE /\ pc' = [pc EXCEPT ![t] = "seed"]
            /\ work' = [work EXCEPT ![t] =
                  [c \in Collectors |->
                      IF c \in Pending(serving[t]) THEN "wait" ELSE "none"]]
    /\ UNCHANGED <<database, up, crashes, serving, event, cancelSet>>

(* seed_deny_list_for_target resolves the target, or raises.               *)
SeedDenyList(t) ==
    /\ pc[t] = "seed"
    /\ \E next \in {"dispatch", "fail"} : pc' = [pc EXCEPT ![t] = next]
    /\ UNCHANGED <<database, up, crashes, serving, work, event, cancelSet>>

(* _fail_job_before_dispatch: the pending runs and the job become FAILED.  *)
FailJobBeforeDispatch(t) ==
    LET j == serving[t] IN
    /\ pc[t] = "fail"
    /\ run' = [run EXCEPT ![j] =
                  [c \in Collectors |->
                      IF work[t][c] = "wait" /\ run[j][c] # NoRow
                      THEN "failed" ELSE run[j][c]]]
    /\ job' = [job EXCEPT ![j] = IF @ = NoRow THEN NoRow ELSE "failed"]
    /\ expired' = expired \ {j}
    /\ pc' = [pc EXCEPT ![t] = "sweep"]
    /\ work' = [work EXCEPT ![t] = NoWork]
    /\ UNCHANGED <<rows, attempts, created, up, crashes, serving, event, cancelSet>>

-----------------------------------------------------------------------------
(* _run_one_collector, one coroutine per pending run.                      *)

(* A variant of MayStart in which the deferred collectors join the gather. *)
MayStart_NoDeferral(t, c) ==
    /\ work[t][c] = "wait"
    /\ pc[t] \in {"dispatch", "dead"}
    /\ Cardinality(Holding(t)) < MaxConcurrentCollectors

(* The gathered collectors start under the semaphore, also after a sibling *)
(* has raised; the deferred ones one by one, after the gather.             *)
MayStart(t, c) ==
    /\ work[t][c] = "wait"
    /\ IF c \in Deferred
       THEN /\ pc[t] = "dispatch"
            /\ \A d \in Collectors \ Deferred : Idle(t, d)
            /\ \A d \in Deferred : work[t][d] = "wait" \/ Idle(t, d)
       ELSE /\ pc[t] \in {"dispatch", "dead"}
            /\ Cardinality(Holding(t)) < MaxConcurrentCollectors

(* A variant of StartCollector that counts an attempt only when the run    *)
(* was queued, not when it is resumed.                                     *)
StartCollector_ResumeUncounted(t, c) ==
    LET j == serving[t] IN
    /\ MayStart(t, c)
    /\ run[j][c] # NoRow
    /\ run' = [run EXCEPT ![j][c] = "running"]
    /\ attempts' = [attempts EXCEPT ![j][c] = IF run[j][c] = "queued" THEN @ + 1 ELSE @]
    /\ work' = [work EXCEPT ![t][c] = "check"]
    /\ UNCHANGED <<job, rows, expired, created, up, crashes, pc, serving, event, cancelSet>>

(* The first transaction: RUNNING, attempt_count + 1, collector_started.   *)
StartCollector(t, c) ==
    LET j == serving[t] IN
    /\ MayStart(t, c)
    /\ run[j][c] # NoRow
    /\ run' = [run EXCEPT ![j][c] = "running"]
    /\ attempts' = [attempts EXCEPT ![j][c] = @ + 1]
    /\ work' = [work EXCEPT ![t][c] = "check"]
    /\ UNCHANGED <<job, rows, expired, created, up, crashes, pc, serving, event, cancelSet>>

(* The checks made before the collector is called, in the code's order.    *)
CheckCollector(t, c) ==
    /\ work[t][c] = "check"
    /\ work' = [work EXCEPT ![t][c] =
                   CASE c \in Unregistered -> "failed"
                     [] c \notin Unregistered /\ c \in Unsupported -> "not_applicable"
                     [] c \notin Unregistered \cup Unsupported /\ cancelSet[t] -> "failed"
                     [] OTHER -> "run"]
    /\ UNCHANGED <<database, up, crashes, pc, serving, event, cancelSet>>

(* collector.run returns findings, or raises one of the errors that the    *)
(* three except clauses turn into a terminal status.                       *)
CollectorAnswers(t, c) ==
    /\ work[t][c] = "run"
    /\ \E next \in {"save", "failed", "skipped_no_key"} :
           work' = [work EXCEPT ![t][c] = next]
    /\ UNCHANGED <<database, up, crashes, pc, serving, event, cancelSet>>

(* A variant of SaveFindings that reports DONE before it has stored rows.  *)
SaveFindings_Forgotten(t, c) ==
    /\ work[t][c] = "save"
    /\ work' = [work EXCEPT ![t][c] = "done"]
    /\ UNCHANGED <<database, up, crashes, pc, serving, event, cancelSet>>

(* The findings are inserted in a transaction of their own.                *)
SaveFindings(t, c) ==
    /\ work[t][c] = "save"
    /\ rows' = [rows EXCEPT ![serving[t]][c] = @ + 1]
    /\ work' = [work EXCEPT ![t][c] = "done"]
    /\ UNCHANGED <<job, run, attempts, expired, created,
                   up, crashes, pc, serving, event, cancelSet>>

(* _finish_collector: an UPDATE by id, which matches nothing if the run is *)
(* gone.                                                                   *)
FinishCollector(t, c) ==
    LET j == serving[t] IN
    /\ work[t][c] \in TerminalCollectorStatuses
    /\ run' = [run EXCEPT ![j][c] = IF @ = NoRow THEN NoRow ELSE work[t][c]]
    /\ work' = [work EXCEPT ![t][c] = "over"]
    /\ UNCHANGED <<job, rows, attempts, expired, created,
                   up, crashes, pc, serving, event, cancelSet>>

(* A coroutine raises out of _run_one_collector: the run it was given is   *)
(* gone (assert run is not None), or a row is inserted for a job that is   *)
(* gone, on a connection that enforces foreign keys.  gather passes the    *)
(* exception to run_job, whose finally block unregisters the Event before  *)
(* the exception ends the task; the sibling coroutines go on.              *)
CollectorRaises(t, c) ==
    /\ \/ MayStart(t, c)
       \/ work[t][c] \in {"save"} \cup TerminalCollectorStatuses
    /\ job[serving[t]] = NoRow
    /\ work' = [work EXCEPT ![t][c] = "over"]
    /\ pc' = [pc EXCEPT ![t] = "dead"]
    /\ event' = IF pc[t] = "dead" THEN event
                ELSE [event EXCEPT ![serving[t]] = NoTask]
    /\ UNCHANGED <<database, up, crashes, serving, cancelSet>>

-----------------------------------------------------------------------------
(* The end of run_job.                                                     *)

FinishDispatch(t) ==
    /\ pc[t] = "dispatch"
    /\ \A c \in Collectors : Idle(t, c)
    /\ pc' = [pc EXCEPT ![t] = "finalize"]
    /\ UNCHANGED <<database, up, crashes, serving, work, event, cancelSet>>

(* _finalize_job reads the statuses and looks at the Event ...             *)
ComputeVerdict(t) ==
    /\ pc[t] = "finalize"
    /\ pc' = [pc EXCEPT ![t] =
                 IF cancelSet[t] THEN "canceled"
                 ELSE ComputeJobStatus(RunStatuses(serving[t]))]
    /\ UNCHANGED <<database, up, crashes, serving, work, event, cancelSet>>

(* A variant of FinalizeJob that inserts the job if it is gone.            *)
FinalizeJob_Upsert(t) ==
    /\ pc[t] \in TerminalJobStatuses
    /\ job' = [job EXCEPT ![serving[t]] = pc[t]]
    /\ expired' = expired \ {serving[t]}
    /\ pc' = [pc EXCEPT ![t] = "sweep"]
    /\ UNCHANGED <<run, rows, attempts, created, up, crashes, serving, work, event, cancelSet>>

(* ... and then updates the job by id, whatever its status has become.     *)
FinalizeJob(t) ==
    /\ pc[t] \in TerminalJobStatuses
    /\ job' = [job EXCEPT ![serving[t]] = IF @ = NoRow THEN NoRow ELSE pc[t]]
    /\ expired' = expired \ {serving[t]}
    /\ pc' = [pc EXCEPT ![t] = "sweep"]
    /\ UNCHANGED <<run, rows, attempts, created, up, crashes, serving, work, event, cancelSet>>

(* The job_finished event of a job that is gone violates its foreign key.  *)
FinalizeRaises(t) ==
    /\ pc[t] \in {"fail"} \cup TerminalJobStatuses
    /\ job[serving[t]] = NoRow
    /\ pc' = [pc EXCEPT ![t] = "dead"]
    /\ event' = [event EXCEPT ![serving[t]] = NoTask]
    /\ work' = [work EXCEPT ![t] = NoWork]
    /\ UNCHANGED <<database, up, crashes, serving, cancelSet>>

Sweep(t) ==
    /\ pc[t] = "sweep"
    /\ \E cascade \in BOOLEAN : SweepRetention(cascade)
    /\ pc' = [pc EXCEPT ![t] = "unregister"]
    /\ UNCHANGED <<up, crashes, serving, work, event, cancelSet>>

(* The finally block pops the entry, whoever's Event it now is.            *)
Unregister(t) ==
    /\ pc[t] = "unregister"
    /\ event' = [event EXCEPT ![serving[t]] = NoTask]
    /\ pc' = [pc EXCEPT ![t] = IF t \in Workers THEN "poll" ELSE "off"]
    /\ serving' = [serving EXCEPT ![t] = NoJob]
    /\ work' = [work EXCEPT ![t] = NoWork]
    /\ cancelSet' = [cancelSet EXCEPT ![t] = FALSE]
    /\ UNCHANGED <<database, up, crashes>>

-----------------------------------------------------------------------------
(* The process stops: a crash, or a shutdown that cancels every task.      *)

Crash ==
    /\ up
    /\ crashes < MaxCrashes
    /\ crashes' = crashes + 1
    /\ up' = FALSE
    /\ pc' = [t \in Tasks |-> "off"]
    /\ serving' = [t \in Tasks |-> NoJob]
    /\ work' = [t \in Tasks |-> NoWork]
    /\ event' = [j \in Jobs |-> NoTask]
    /\ cancelSet' = [t \in Tasks |-> FALSE]
    /\ UNCHANGED database

(* A variant of Recovered that leaves orphaned runs RUNNING.               *)
Recovered_NotRelabelled(status) == status

(* recover_on_startup.                                                     *)
Recovered(status) == IF status = "running" THEN "interrupted" ELSE status

(* A variant of Resumable that forgets the interrupted runs.               *)
Resumable_QueuedRunsOnly(j) ==
    /\ job[j] = "running"
    /\ \E c \in Collectors : run[j][c] = "queued"

(* find_resumable_job_ids, evaluated after recovery: RUNNING jobs with a   *)
(* run that is QUEUED or was RUNNING or INTERRUPTED.                       *)
Resumable(j) ==
    /\ job[j] = "running"
    /\ \E c \in Collectors : Recovered(run[j][c]) \in {"queued", "interrupted"}

(* The lifespan startup: recover, sweep, and spawn one run_job task per    *)
(* resumable job and the worker loops.  The tasks take their first step,   *)
(* which registers their Event, before the server accepts a request.       *)
Restart ==
    LET swept == {j \in expired : job[j] \in TerminalJobStatuses} IN
    /\ ~up
    /\ up' = TRUE
    /\ \E cascade \in BOOLEAN :
          LET gone(j) == j \in swept /\ cascade IN
          /\ run' = [j \in Jobs |-> [c \in Collectors |->
                        IF gone(j) THEN NoRow ELSE Recovered(run[j][c])]]
          /\ rows' = [j \in Jobs |-> [c \in Collectors |->
                        IF gone(j) THEN 0 ELSE rows[j][c]]]
          /\ attempts' = [j \in Jobs |-> [c \in Collectors |->
                        IF gone(j) THEN 0 ELSE attempts[j][c]]]
    /\ job' = [j \in Jobs |-> IF j \in swept THEN NoRow ELSE job[j]]
    /\ expired' = expired \ swept
    /\ pc' = [t \in Tasks |-> IF t \in Workers THEN "poll"
                              ELSE IF Resumable(t) THEN "load" ELSE "off"]
    /\ serving' = [t \in Tasks |-> IF t \in Jobs /\ Resumable(t) THEN t ELSE NoJob]
    /\ event' = [j \in Jobs |-> IF Resumable(j) THEN j ELSE NoTask]
    /\ UNCHANGED <<created, crashes, work, cancelSet>>

-----------------------------------------------------------------------------
TaskStep(t) ==
    \/ ClaimNothing(t)
    \/ \E j \in Jobs : ClaimSelect(t, j)
    \/ ClaimUpdate(t)
    \/ ClaimLost(t)
    \/ Register(t)
    \/ Load(t)
    \/ SeedDenyList(t)
    \/ FailJobBeforeDispatch(t)
    \/ FinishDispatch(t)
    \/ ComputeVerdict(t)
    \/ FinalizeJob(t)
    \/ FinalizeRaises(t)
    \/ Sweep(t)
    \/ Unregister(t)

CollectorStep(t, c) ==
    \/ StartCollector(t, c)
    \/ CheckCollector(t, c)
    \/ CollectorAnswers(t, c)
    \/ SaveFindings(t, c)
    \/ FinishCollector(t, c)
    \/ CollectorRaises(t, c)

RunnerStep ==
    \/ \E sources \in Selections : CreateJob(sources)
    \/ \E j \in Jobs : Expire(j)
    \/ \E t \in Tasks : TaskStep(t)
    \/ \E t \in Tasks, c \in Collectors : CollectorStep(t, c)
    \/ Restart

RunnerNext == RunnerStep \/ Crash

RunnerSpec == RunnerInit /\ [][RunnerNext]_runnerVars

(* Every coroutine that can run is eventually scheduled by the event loop, *)
(* every provider call ends (each is under a timeout), and somebody        *)
(* restarts a server that is down.                                         *)
RunnerFairness ==
    /\ \A t \in Tasks : WF_runnerVars(TaskStep(t))
    /\ \A t \in Tasks, c \in Collectors : WF_runnerVars(CollectorStep(t, c))
    /\ WF_runnerVars(Restart)

FairRunnerSpec == RunnerSpec /\ RunnerFairness

-----------------------------------------------------------------------------
(* What a runner keeps that is alone with its database.                    *)

(* Where a coroutine stands that has made its run RUNNING and has still to *)
(* report how it ended.                                                    *)
Inside == {"check", "run", "save"} \cup TerminalCollectorStatuses

Serves(t, j) == Active(t) /\ serving[t] = j

(* A stopped process has no tasks.                                         *)
StoppedIsStill ==
    ~up => \A t \in Tasks : pc[t] = "off" /\ serving[t] = NoJob /\ work[t] = NoWork

(* Where tasks may stand: the job they work on is there, and while they    *)
(* run it nobody finds it in the queue.                                    *)
TasksStand ==
    \A t \in Tasks :
        /\ pc[t] # "dead"
        /\ pc[t] \notin {"off", "poll"} =>
               serving[t] \in Jobs /\ job[serving[t]] # NoRow
        /\ Active(t) => job[serving[t]] # "queued"
        /\ \A c \in Collectors : work[t][c] \in Inside => pc[t] = "dispatch"

OneTaskEach ==
    \A j \in Jobs : \A t, u \in Tasks : Serves(t, j) /\ Serves(u, j) => t = u

(* The rows that are there were created; a job that may be swept has ended *)
(* and is let go of.                                                       *)
JobsInPlace ==
    /\ \A j \in Jobs : job[j] # NoRow => j <= created
    /\ \A j \in expired : /\ job[j] \in TerminalJobStatuses
                          /\ \A t \in Tasks : serving[t] # j

RunningIsExecuted ==
    up => \A j \in Jobs, c \in Collectors :
              run[j][c] = "running" <=>
                  \E t \in Tasks : Serves(t, j) /\ work[t][c] \in Inside

(* With any number of worker loops, and without requests.                  *)
RunnerInv ==
    /\ TypeOK
    /\ StoppedIsStill
    /\ TasksStand
    /\ OneTaskEach
    /\ JobsInPlace
    /\ RunningIsExecuted
=============================================================================
