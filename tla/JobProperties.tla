--------------------------- MODULE JobProperties ---------------------------
(***************************************************************************)
(* What the jobs of ReconLedger may be relied on for, and what its         *)
(* documentation says they may be relied on for.  The first part holds in  *)
(* the settings the README names with each; the second part collects       *)
(* statements of the repository that the code does not keep.               *)
(***************************************************************************)
EXTENDS JobApi

Unsettled == {"queued", "running", "interrupted"}

-----------------------------------------------------------------------------
(* One dispatcher per job: no two run_job calls for the same job are ever  *)
(* in progress, so no collector of a job runs twice at once (runner.py     *)
(* is_active, claim_next_queued_job; PRD FR-01 "prevents duplicate         *)
(* execution").                                                            *)
ExclusiveDispatch ==
    \A t, u \in Tasks :
        t # u /\ Active(t) /\ Active(u) => serving[t] # serving[u]

(* Findings are committed before their collector is reported DONE, so a    *)
(* DONE collector has its rows whatever crash or retry came in between     *)
(* (runner.py 317-337).                                                    *)
NoLostEvidence ==
    \A j \in Jobs, c \in Collectors : run[j][c] = "done" => rows[j][c] > 0

(* A batch of rows is never stored without an attempt of its own: reruns   *)
(* after crashes may repeat evidence, but never more often than            *)
(* attempt_count tells the user.                                           *)
RowsWithinAttempts ==
    \A j \in Jobs, c \in Collectors :
        run[j][c] # NoRow => rows[j][c] <= attempts[j][c]

(* A collector that has succeeded is never dispatched again: neither       *)
(* recovery, resumption, retry of a sibling nor a second claim may touch   *)
(* it.                                                                     *)
DoneIsFinal ==
    [][\A j \in Jobs, c \in Collectors :
          run[j][c] = "done" => run'[j][c] \in {"done", NoRow}]_vars

(* No abandoned work: while the server is up, a RUNNING job that still has *)
(* a collector to run has a task that will run it, also after any number   *)
(* of crashes (recover_on_startup and find_resumable_job_ids together).    *)
NoAbandonedWork ==
    \A j \in Jobs :
        up /\ job[j] = "running" /\ Pending(j) # {} =>
            \E t \in Tasks : Active(t) /\ serving[t] = j

(* What a client can see: collectors are only shown with their job, so the *)
(* runs a sweep has orphaned are invisible.                                *)
VisibleRun ==
    [j \in Jobs |-> IF job[j] = NoRow THEN [c \in Collectors |-> NoRow] ELSE run[j]]

(* Seen through the API alone, the runner and the handlers behave as       *)
(* JobLifecycle promises: every change of a job or a collector status is   *)
(* one of its steps.                                                       *)
Lifecycle ==
    INSTANCE JobLifecycle
    WITH Jobs <- Jobs, Collectors <- Collectors, job <- job, run <- VisibleRun
ImplementsLifecycle == Lifecycle!LifecycleSpec

(* No verdict contradicts the collectors it is about (JobLifecycle), also  *)
(* while a retry undoes one.                                               *)
VerdictIsTrue == Lifecycle!VerdictIsTrue

(* Technology inference sees all the evidence: while a deferred collector  *)
(* is between its start and its end, every other collector of the job has  *)
(* reached a terminal state (runner.py 38-44).                             *)
DeferredSeesEverything ==
    \A t \in Tasks, c \in Deferred :
        work[t][c] \in {"check", "run", "save"} =>
            \A d \in Collectors \ Deferred :
                run[serving[t]][d] \notin Unsettled

(* A job that was deleted or swept stays gone: nothing that was on its way *)
(* when the row disappeared - a verdict, a cancellation, a retry - brings  *)
(* it back (every later write is an UPDATE by id).                         *)
DeletedStaysDeleted ==
    [][\A j \in Jobs : j <= created /\ job[j] = NoRow => job'[j] = NoRow]_vars

(* A job that waits in the queue or that a task is running is eventually   *)
(* finished or deleted, unless the server stops (again) first: no          *)
(* cancellation or retry of its collectors, and no restart before it,      *)
(* keeps it from a verdict.                                                *)
Tended(j) ==
    \/ job[j] = "queued"
    \/ job[j] = "running" /\ \E t \in Tasks : Active(t) /\ serving[t] = j

EveryJobEnds ==
    \A j \in Jobs, n \in 0..MaxCrashes :
        Tended(j) /\ crashes = n ~>
            job[j] \in TerminalJobStatuses \cup {NoRow} \/ crashes > n

(* A collector run a crash has interrupted is eventually taken to a        *)
(* terminal status (enums.py: INTERRUPTED is never left as a final state). *)
InterruptedRunsEnd ==
    \A j \in Jobs, c \in Collectors :
        run[j][c] \in {"running", "interrupted"} ~>
            run[j][c] \in TerminalCollectorStatuses \cup {NoRow}

-----------------------------------------------------------------------------
(* The inductive invariants the proofs rest on.                            *)

(* Where tasks may stand, for any number of workers.                       *)
TasksInv ==
    /\ \A t \in Tasks : pc[t] \notin {"off", "poll"} => serving[t] \in Jobs
    /\ \A t \in Tasks, c \in Collectors :
           work[t][c] \in Inside => pc[t] \in {"dispatch", "dead"}
    /\ \A t \in Tasks : serving[t] <= created
    /\ \A j \in Jobs : job[j] # NoRow => j <= created

(* A coroutine that is about to report DONE has stored its rows, or its    *)
(* run is gone.                                                            *)
EvidenceInv ==
    /\ \A t \in Tasks, c \in Collectors :
           work[t][c] = "done" =>
               rows[serving[t]][c] > 0 \/ run[serving[t]][c] = NoRow
    /\ NoLostEvidence

(* A stopped process has no task and no request left.                      *)
DownInv ==
    ~up => /\ \A t \in Tasks : pc[t] = "off" /\ work[t] = NoWork
           /\ \A r \in Requests : ~Going(r)

(* What keeps a job that a resume task runs out of reach of the worker: it *)
(* is registered, so no retry gets past is_active, so it is not QUEUED.    *)
ResumedInv ==
    \A j \in Jobs :
        /\ pc[j] \notin {"poll", "claim", "register"}
        /\ Active(j) =>
               /\ serving[j] = j
               /\ job[j] # "queued"
               /\ event[j] # NoTask
               /\ \A r \in Requests :
                      at[r] \in {"select", "commit"} /\ ask[r].kind = "retry" =>
                          ask[r].job # j

(* The inductive invariant behind ExclusiveDispatch with one worker loop,  *)
(* the default of settings.max_concurrent_jobs.                            *)
DispatchInv == TasksInv /\ DownInv /\ ResumedInv /\ ExclusiveDispatch

(* A task dies of nothing but the loss of its job, and nobody takes that   *)
(* job up after it.                                                        *)
DeadInv == \A t \in Tasks : pc[t] = "dead" => job[serving[t]] = NoRow

DeadApart ==
    \A t, u \in Tasks :
        t # u /\ pc[t] = "dead" /\ (Active(u) \/ pc[u] = "dead") => serving[t] # serving[u]

(* A coroutine that may still store has an attempt that has not stored,    *)
(* and nothing is stored ahead of a job.  With what becomes of dead tasks  *)
(* this is the inductive invariant behind RowsWithinAttempts.              *)
Storing(t, c) == work[t][c] \in {"check", "run", "save"}

AttemptLeft ==
    \A t \in Tasks, c \in Collectors :
        Storing(t, c) /\ run[serving[t]][c] # NoRow =>
            rows[serving[t]][c] < attempts[serving[t]][c]

NothingAhead == \A j \in Jobs, c \in Collectors : j > created => rows[j][c] = 0

AttemptsInv == DeadInv /\ DeadApart /\ AttemptLeft /\ NothingAhead /\ RowsWithinAttempts

(* The inductive invariant behind NoAbandonedWork: run_job does not leave  *)
(* a job RUNNING, and a retry that leaves the job as it is, since it has   *)
(* read it QUEUED, does so only while somebody runs it.                    *)
Served(j) == \E t \in Tasks : Active(t) /\ serving[t] = j

AbandonInv ==
    /\ \A t \in Tasks : pc[t] \in {"sweep", "unregister"} => job[serving[t]] # "running"
    /\ \A r \in Requests :
           at[r] \in {"check", "select", "commit"} /\ ask[r].kind = "retry" /\ seen[r] = "queued" =>
               (job[ask[r].job] = "running" => Served(ask[r].job))
    /\ NoAbandonedWork

(* How a coroutine and the row of its collector go together.               *)
Matches(place, status) ==
    /\ place = "wait" => status \in {"queued", "interrupted"}
    /\ place \in Inside => status = "running"
    /\ place \in {"none", "over"} => status \in TerminalCollectorStatuses \cup {NoRow}

Ended(j) == \A c \in Collectors : run[j][c] \in TerminalCollectorStatuses \cup {NoRow}
NoneRuns(j) == \A c \in Collectors : run[j][c] # "running"
ServedBy(t, j) == Active(t) /\ serving[t] = j

(* How far run_job has come with a job, and what the database says of it.  *)
Stage(t, j) ==
    /\ pc[t] \in {"register", "load", "seed", "fail"} => Pending(j) # {} /\ NoneRuns(j)
    /\ pc[t] \in {"seed", "fail", "dispatch"} =>
           \A c \in Collectors : Matches(work[t][c], run[j][c])
    /\ pc[t] \notin {"register", "load", "seed", "fail", "dispatch"} => Ended(j)
    /\ pc[t] \in TerminalJobStatuses =>
           pc[t] \in {"canceled", ComputeJobStatus(RunStatuses(j))}
    /\ IF pc[t] \in {"sweep", "unregister"}
       THEN job[j] \in TerminalJobStatuses
       ELSE job[j] \in {"running", "canceled"}
    /\ pc[t] # "register" => event[j] # NoTask

(* A job that nobody works on has no collector running; a queued one has   *)
(* something to run.                                                       *)
Resting(j) ==
    /\ job[j] = "queued" => Pending(j) # {}
    /\ up /\ (\A t \in Tasks : ~ServedBy(t, j)) => NoneRuns(j)

(* A job that is yet to be dispatched has a failed collector only if it    *)
(* was queued again by a retry.                                            *)
Fresh(j) ==
    (job[j] = "queued" \/ \E t \in Tasks : ServedBy(t, j) /\ pc[t] = "register") =>
        \/ \A c \in Collectors : run[j][c] # "failed"
        \/ \E r \in Requests : ask[r].kind = "retry" /\ at[r] \in Answers

Followed(j) ==
    /\ \A t \in Tasks : ServedBy(t, j) => Stage(t, j)
    /\ Resting(j)
    /\ Fresh(j)

JobsInv == \A j \in Jobs : job[j] # NoRow => Followed(j)

(* A retry was offered for a job that had ended, which stays ended until   *)
(* the retry is committed; no task works on it once is_active was asked.   *)
Offered(r) ==
    LET j == ask[r].job IN
    /\ j <= created
    /\ at[r] # "read" => seen[r] # "queued"
    /\ job[j] # NoRow =>
           /\ job[j] \in TerminalJobStatuses
           /\ run[j][ask[r].collector] = "failed"
           /\ at[r] \in {"select", "commit"} => \A t \in Tasks : ~ServedBy(t, j)

RetryInv == \A r \in Requests : Going(r) /\ ask[r].kind = "retry" => Offered(r)

OneRetry ==
    \A q, r \in Requests : ask[q].kind = "retry" /\ ask[r].kind = "retry" => q = r

(* The inductive invariant behind ImplementsLifecycle with one worker loop *)
(* and one retry, sent from the dashboard.                                 *)
ImplementsInv == JobsInv /\ DeadInv /\ RetryInv /\ OneRetry

(* The inductive invariant behind DeferredSeesEverything: of a job that is *)
(* being dispatched, what is not waiting or at work has come to its end,   *)
(* also when the job itself is gone; a deferred coroutine works alone.     *)
AtWork(t, c) == work[t][c] \notin {"none", "wait", "over"}

IdleMeansEnded ==
    \A t \in Tasks, d \in Collectors :
        pc[t] \in {"seed", "dispatch"} /\ Idle(t, d) => run[serving[t]][d] \notin Unsettled

DeferredAlone ==
    \A t \in Tasks, c \in Deferred :
        AtWork(t, c) =>
            /\ pc[t] = "dispatch"
            /\ \A d \in Collectors \ Deferred : Idle(t, d)
            /\ \A d \in Deferred \ {c} : ~AtWork(t, d)

DeferredInv == IdleMeansEnded /\ DeferredAlone

-----------------------------------------------------------------------------
(* Statements of the repository that the code does not keep.               *)

(* README: the job runner "resumes cleanly after a crash" - so a job that  *)
(* shows RUNNING while the server is up is being run by some task.         *)
RunningIsBeingRun ==
    \A j \in Jobs :
        up /\ job[j] = "running" => \E t \in Tasks : Active(t) /\ serving[t] = j

(* The worker loop "picks the job back up the same way it picks up any     *)
(* newly-created one": a queued job is eventually no longer queued.        *)
QueuedIsPickedUp ==
    \A j \in Jobs : job[j] = "queued" ~> job[j] # "queued"
=============================================================================
