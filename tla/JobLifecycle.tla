---------------------------- MODULE JobLifecycle ----------------------------
(***************************************************************************)
(* What a client of the API is promised about the jobs it reads with GET   *)
(* /api/jobs/{id}: the statuses a job and its collectors may take and the  *)
(* steps between them, with no word of tasks, Events, transactions or      *)
(* handlers.  A finished verdict is only ever given over collectors that   *)
(* have all ended, and it is the one _compute_job_status gives.            *)
(***************************************************************************)
EXTENDS LedgerEnums

CONSTANTS Jobs, Collectors

VARIABLES job, run

lifecycleVars == <<job, run>>

Waiting == {"queued", "interrupted"}
Verdicts == TerminalJobStatuses \ {"canceled"}

Statuses(j) == {run[j][c] : c \in {d \in Collectors : run[j][d] # NoRow}}
Settled(j) == Statuses(j) \subseteq TerminalCollectorStatuses

LifecycleTypeOK ==
    /\ job \in [Jobs -> JobStatuses \cup {NoRow}]
    /\ run \in [Jobs -> [Collectors -> CollectorStatuses \cup {NoRow}]]

LifecycleInit ==
    /\ job = [j \in Jobs |-> NoRow]
    /\ run = [j \in Jobs |-> [c \in Collectors |-> NoRow]]

Create(j, sources) ==
    /\ job[j] = NoRow
    /\ sources # {}
    /\ job' = [job EXCEPT ![j] = "queued"]
    /\ run' = [run EXCEPT ![j] =
                  [c \in Collectors |-> IF c \in sources THEN "queued" ELSE NoRow]]

Claim(j) ==
    /\ job[j] = "queued"
    /\ job' = [job EXCEPT ![j] = "running"]
    /\ UNCHANGED run

(* A job cancelled just as it was claimed goes on (see Cancel).            *)
Start(j, c) ==
    /\ job[j] \in {"running", "canceled"}
    /\ run[j][c] \in Waiting
    /\ run' = [run EXCEPT ![j][c] = "running"]
    /\ UNCHANGED job

Finish(j, c) ==
    /\ run[j][c] = "running"
    /\ \E status \in TerminalCollectorStatuses : run' = [run EXCEPT ![j][c] = status]
    /\ UNCHANGED job

(* The verdict.  The job may read CANCELED here: a cancellation of a       *)
(* queued job does not stop the worker that has just claimed it.           *)
Conclude(j) ==
    /\ job[j] \in {"running", "canceled"}
    /\ Settled(j)
    /\ \E verdict \in {ComputeJobStatus(Statuses(j)), "canceled"} :
           job' = [job EXCEPT ![j] = verdict]
    /\ UNCHANGED run

(* No safety boundary: everything still to be run fails, and so does the   *)
(* job.                                                                    *)
FailEarly(j) ==
    /\ job[j] \in {"running", "canceled"}
    /\ "running" \notin Statuses(j)
    /\ Statuses(j) \cap Waiting # {}
    /\ job' = [job EXCEPT ![j] = "failed"]
    /\ run' = [run EXCEPT ![j] = [c \in Collectors |->
                  IF run[j][c] \in Waiting THEN "failed" ELSE run[j][c]]]

(* A cancellation decided while the job was queued is written whatever the *)
(* job has become.                                                         *)
Cancel(j) ==
    /\ job[j] # NoRow
    /\ job' = [job EXCEPT ![j] = "canceled"]
    /\ UNCHANGED run

Retry(j, c) ==
    /\ job[j] \in {"running"} \cup TerminalJobStatuses
    /\ run[j][c] = "failed"
    /\ run' = [run EXCEPT ![j][c] = "queued"]
    /\ job' = [job EXCEPT ![j] = "queued"]

(* Jobs are deleted by a request, or swept away when they are old.         *)
Delete(gone) ==
    /\ job' = [j \in Jobs |-> IF j \in gone THEN NoRow ELSE job[j]]
    /\ run' = [j \in Jobs |-> [c \in Collectors |->
                  IF j \in gone THEN NoRow ELSE run[j][c]]]

(* A restart relabels every run the crash has orphaned and sweeps.         *)
Interrupt(gone) ==
    /\ job' = [j \in Jobs |-> IF j \in gone THEN NoRow ELSE job[j]]
    /\ run' = [j \in Jobs |-> [c \in Collectors |->
                  IF j \in gone THEN NoRow
                  ELSE IF run[j][c] = "running" THEN "interrupted" ELSE run[j][c]]]

LifecycleNext ==
    \/ \E j \in Jobs, sources \in SUBSET Collectors : Create(j, sources)
    \/ \E j \in Jobs :
          Claim(j) \/ Conclude(j) \/ FailEarly(j) \/ Cancel(j)
    \/ \E j \in Jobs, c \in Collectors : Start(j, c) \/ Finish(j, c) \/ Retry(j, c)
    \/ \E gone \in SUBSET Jobs : Delete(gone) \/ Interrupt(gone)

LifecycleSpec == LifecycleInit /\ [][LifecycleNext]_lifecycleVars

-----------------------------------------------------------------------------
TrueVerdict(j) ==
    /\ job[j] \in Verdicts => Settled(j)
    /\ job[j] = "completed" => "failed" \notin Statuses(j)
    /\ job[j] = "completed_with_warnings" => {"done", "failed"} \subseteq Statuses(j)
    /\ job[j] = "failed" => "failed" \in Statuses(j)

(* A finished verdict describes what the collectors did: no collector of a *)
(* completed or failed job is still to run, COMPLETED hides no failure,    *)
(* COMPLETED_WITH_WARNINGS has both a success and a failure, and FAILED    *)
(* has a failure (_compute_job_status over what _finalize_job reads; what  *)
(* a retry undoes, it undoes together with the verdict).                   *)
VerdictIsTrue == \A j \in Jobs : TrueVerdict(j)
=============================================================================
