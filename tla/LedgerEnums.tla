---------------------------- MODULE LedgerEnums ----------------------------
(***************************************************************************)
(* The status vocabulary shared by every part of ReconLedger               *)
(* (backend/app/models/enums.py) and the pure function that folds the      *)
(* collector statuses of a job into the status of the job                  *)
(* (backend/app/jobs/runner.py, _compute_job_status).  The values are the  *)
(* strings the code stores.                                                *)
(***************************************************************************)

TerminalJobStatuses ==
    {"completed", "completed_with_warnings", "failed", "canceled"}

JobStatuses == {"queued", "running"} \cup TerminalJobStatuses

TerminalCollectorStatuses ==
    {"done", "failed", "skipped_no_key", "not_applicable"}

CollectorStatuses ==
    {"queued", "running", "interrupted"} \cup TerminalCollectorStatuses

(* Not a row: a job or a collector run that is not in the database.        *)
NoRow == "none"

(* A variant of ComputeJobStatus that answers with a collector status.     *)
ComputeJobStatus_WrongEnum(statuses) ==
    CASE "failed" \in statuses -> "failed"
      [] OTHER                 -> "done"

(* A variant of ComputeJobStatus in which one success makes the job a      *)
(* success.                                                                *)
ComputeJobStatus_HidesFailures(statuses) ==
    CASE "done" \in statuses -> "completed"
      [] "failed" \in statuses /\ "done" \notin statuses -> "failed"
      [] OTHER -> "completed"

(* The job's verdict over the set of its collectors' statuses.             *)
ComputeJobStatus(statuses) ==
    CASE "failed" \in statuses /\ "done" \in statuses -> "completed_with_warnings"
      [] "failed" \in statuses /\ "done" \notin statuses -> "failed"
      [] OTHER -> "completed"

=============================================================================
