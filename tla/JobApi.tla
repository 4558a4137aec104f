------------------------------- MODULE JobApi -------------------------------
(***************************************************************************)
(* The job runner together with the HTTP handlers that change jobs while   *)
(* it works: cancel, retry one collector, delete (backend/app/api/jobs.py  *)
(* and JobRunner.request_cancellation).  A handler is a coroutine of the   *)
(* same process: it reads, awaits, and later writes what it decided from   *)
(* what it read.  pysqlite opens a transaction at the first write, so what *)
(* a handler has read may be out of date when it writes.                   *)
(*                                                                         *)
(* A request is used once; the set Requests bounds how many are made.      *)
(***************************************************************************)
EXTENDS JobRunner

CONSTANTS
    Requests,       \* bound: the requests made in a behaviour
    Kinds,          \* bound: the kinds of request made
    MaxRetries,     \* bound: how many of the requests are retries
    DashboardOnly   \* every retry comes from the dashboard's own button

RequestKinds == {"cancel", "retry", "delete"}

ASSUME KindsAssumption == Kinds \subseteq RequestKinds
ASSUME RetriesAssumption == MaxRetries \in Nat /\ DashboardOnly \in BOOLEAN

(* Where a request stands; the last four are answers.  "error" is a 500,   *)
(* "lost" a connection dropped because the process stopped.                *)
Answers == {"accepted", "refused", "error", "lost"}

RequestPoints ==
    {"new", "read", "write", "sweep", "lookup", "check", "select", "commit"} \cup Answers

VARIABLES
    at,       \* at[r]: where request r stands
    ask,      \* ask[r]: the kind of request, its job and its collector
    seen      \* seen[r]: the job status a retry loaded into its session

requestVars == <<at, ask, seen>>
vars == <<job, run, rows, attempts, expired, created,
          up, crashes, pc, serving, work, event, cancelSet, at, ask, seen>>

Questions == [kind : RequestKinds, job : Jobs, collector : Collectors]
NoQuestion == [kind |-> "nothing"]

Going(r) == at[r] \notin {"new"} \cup Answers

ApiTypeOK ==
    /\ TypeOK
    /\ at \in [Requests -> RequestPoints]
    /\ ask \in [Requests -> Questions \cup {NoQuestion}]
    /\ seen \in [Requests -> JobStatuses \cup {NoRow}]
    /\ \A r \in Requests : Going(r) => ask[r] \in Questions

Init ==
    /\ RunnerInit
    /\ at = [r \in Requests |-> "new"]
    /\ ask = [r \in Requests |-> NoQuestion]
    /\ seen = [r \in Requests |-> NoRow]

Goto(r, point) == at' = [at EXCEPT ![r] = point]

Asked(r, kind, point) == at[r] = point /\ ask[r].kind = kind

(* ProgressView offers a Retry button for a failed run of a job that has   *)
(* ended; any other client may ask at any time.                            *)
RetryOffered(question) ==
    DashboardOnly =>
        /\ job[question.job] \in TerminalJobStatuses
        /\ run[question.job][question.collector] = "failed"

(* A request for a job that was created; only a retry names a collector.   *)
Send(r, question) ==
    /\ up
    /\ at[r] = "new"
    /\ question.kind \in Kinds
    /\ question.job <= created
    /\ IF question.kind = "retry"
       THEN /\ RetryOffered(question)
            /\ Cardinality({q \in Requests : ask[q].kind = "retry"}) < MaxRetries
       ELSE question.collector = CHOOSE c \in Collectors : TRUE
    /\ ask' = [ask EXCEPT ![r] = question]
    /\ Goto(r, "read")
    /\ UNCHANGED <<runnerVars, seen>>

-----------------------------------------------------------------------------
(* POST cancel: request_cancellation.                                      *)

CancelRead(r) ==
    LET j == ask[r].job IN
    /\ Asked(r, "cancel", "read")
    /\ Goto(r, CASE job[j] = "queued"  -> "write"
                 [] job[j] = "running" -> "lookup"
                 [] OTHER              -> "refused")
    /\ UNCHANGED <<runnerVars, ask, seen>>

(* The flush updates the row by id, without looking at its status again; a *)
(* row that is gone is a StaleDataError.                                   *)
CancelWrite(r) ==
    LET j == ask[r].job IN
    /\ Asked(r, "cancel", "write")
    /\ IF job[j] = NoRow
       THEN /\ Goto(r, "error")
            /\ UNCHANGED <<job, expired>>
       ELSE /\ Goto(r, "sweep")
            /\ job' = [job EXCEPT ![j] = "canceled"]
            /\ expired' = expired \ {j}
    /\ UNCHANGED <<run, rows, attempts, created, process, ask, seen>>

CancelSweep(r) ==
    /\ Asked(r, "cancel", "sweep")
    /\ \E cascade \in BOOLEAN : SweepRetention(cascade)
    /\ Goto(r, "accepted")
    /\ UNCHANGED <<process, ask, seen>>

(* The Event is looked up and set after the session is closed.             *)
CancelLookup(r) ==
    LET t == event[ask[r].job] IN
    /\ Asked(r, "cancel", "lookup")
    /\ IF t = NoTask
       THEN Goto(r, "refused") /\ UNCHANGED cancelSet
       ELSE Goto(r, "accepted") /\ cancelSet' = [cancelSet EXCEPT ![t] = TRUE]
    /\ UNCHANGED <<database, up, crashes, pc, serving, work, event, ask, seen>>

-----------------------------------------------------------------------------
(* POST retry: retry_collector.                                            *)

RetryRead(r) ==
    LET j == ask[r].job IN
    /\ Asked(r, "retry", "read")
    /\ Goto(r, IF job[j] = NoRow THEN "refused" ELSE "check")
    /\ seen' = [seen EXCEPT ![r] = job[j]]
    /\ UNCHANGED <<runnerVars, ask>>

(* A variant of RetryCheck that does not ask whether the job is active.    *)
RetryCheck_NotAsked(r) ==
    /\ Asked(r, "retry", "check")
    /\ Goto(r, "select")
    /\ UNCHANGED <<runnerVars, ask, seen>>

(* is_active(job_id).                                                      *)
RetryCheck(r) ==
    /\ Asked(r, "retry", "check")
    /\ Goto(r, IF event[ask[r].job] = NoTask THEN "select" ELSE "refused")
    /\ UNCHANGED <<runnerVars, ask, seen>>

RetrySelect(r) ==
    LET q == ask[r] IN
    /\ Asked(r, "retry", "select")
    /\ Goto(r, IF run[q.job][q.collector] = "failed" THEN "commit" ELSE "refused")
    /\ UNCHANGED <<runnerVars, ask, seen>>

(* A variant of RetryCommit that leaves the job's verdict as it was.       *)
RetryCommit_RunOnly(r) ==
    LET q == ask[r] IN
    /\ Asked(r, "retry", "commit")
    /\ run[q.job][q.collector] # NoRow
    /\ Goto(r, "accepted")
    /\ run' = [run EXCEPT ![q.job][q.collector] = "queued"]
    /\ UNCHANGED <<job, expired, rows, attempts, created, process, ask, seen>>

(* The flush writes the attributes that differ from what was loaded: the   *)
(* run becomes QUEUED; the job too, unless it was QUEUED when it was read. *)
(* If a row to update is gone the transaction fails as a whole.            *)
RetryCommit(r) ==
    LET q == ask[r]
        touchesJob == seen[r] # "queued" IN
    /\ Asked(r, "retry", "commit")
    /\ IF run[q.job][q.collector] = NoRow \/ (touchesJob /\ job[q.job] = NoRow)
       THEN /\ Goto(r, "error")
            /\ UNCHANGED <<job, run, expired>>
       ELSE /\ Goto(r, "accepted")
            /\ run' = [run EXCEPT ![q.job][q.collector] = "queued"]
            /\ job' = IF touchesJob THEN [job EXCEPT ![q.job] = "queued"] ELSE job
            /\ expired' = IF touchesJob THEN expired \ {q.job} ELSE expired
    /\ UNCHANGED <<rows, attempts, created, process, ask, seen>>

-----------------------------------------------------------------------------
(* DELETE: delete_job, whatever the job is doing.                          *)

DeleteRead(r) ==
    /\ Asked(r, "delete", "read")
    /\ Goto(r, IF job[ask[r].job] = NoRow THEN "refused" ELSE "commit")
    /\ UNCHANGED <<runnerVars, ask, seen>>

(* The ORM deletes the children it has loaded, then the job.               *)
DeleteCommit(r) ==
    LET j == ask[r].job IN
    /\ Asked(r, "delete", "commit")
    /\ job' = [job EXCEPT ![j] = NoRow]
    /\ run' = [run EXCEPT ![j] = [c \in Collectors |-> NoRow]]
    /\ rows' = [rows EXCEPT ![j] = [c \in Collectors |-> 0]]
    /\ attempts' = [attempts EXCEPT ![j] = [c \in Collectors |-> 0]]
    /\ expired' = expired \ {j}
    /\ Goto(r, "accepted")
    /\ UNCHANGED <<created, process, ask, seen>>

-----------------------------------------------------------------------------
RequestStep(r) ==
    \/ CancelRead(r)
    \/ CancelWrite(r)
    \/ CancelSweep(r)
    \/ CancelLookup(r)
    \/ RetryRead(r)
    \/ RetryCheck(r)
    \/ RetrySelect(r)
    \/ RetryCommit(r)
    \/ DeleteRead(r)
    \/ DeleteCommit(r)

(* The process stops with its requests.                                    *)
Stop ==
    /\ Crash
    /\ at' = [r \in Requests |-> IF Going(r) THEN "lost" ELSE at[r]]
    /\ UNCHANGED <<ask, seen>>

Next ==
    \/ RunnerStep /\ UNCHANGED requestVars
    \/ Stop
    \/ \E r \in Requests, question \in Questions : Send(r, question)
    \/ \E r \in Requests : RequestStep(r)

Spec == Init /\ [][Next]_vars

(* Nobody is obliged to send a request, but a handler that has started is  *)
(* scheduled until it answers.                                             *)
Fairness ==
    /\ \A t \in Tasks : WF_vars(TaskStep(t) /\ UNCHANGED requestVars)
    /\ \A t \in Tasks, c \in Collectors :
           WF_vars(CollectorStep(t, c) /\ UNCHANGED requestVars)
    /\ WF_vars(Restart /\ UNCHANGED requestVars)
    /\ \A r \in Requests : WF_vars(RequestStep(r))

FairSpec == Spec /\ Fairness
=============================================================================
