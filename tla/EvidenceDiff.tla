---------------------------- MODULE EvidenceDiff ----------------------------
(***************************************************************************)
(* The comparison of two jobs of one target (backend/app/services/diff.py, *)
(* GET /api/jobs/{id}/diff) and the report on a job                        *)
(* (backend/app/api/exports.py) while the jobs are still changing: JobApi  *)
(* with the findings its collectors store, the answers of the sources, and *)
(* one request that reads what it answers with several SELECTs.            *)
(*                                                                         *)
(* A collector has at most one finding: its fingerprint stands for all of  *)
(* a collector's.  "present" and "absent" say whether it has it; the value *)
(* that tells changed from unchanged is left out.                          *)
(***************************************************************************)
EXTENDS JobProperties, Sequences

CONSTANTS
    Old, New,     \* the jobs that are compared
    Evident,      \* the collectors whose findings inference reads
    MaxChanges    \* bound: changes of what the sources publish

ASSUME ComparedAssumption == {Old, New} \subseteq Jobs /\ Old # New
ASSUME EvidentAssumption == Evident \subseteq Collectors \ Deferred
ASSUME ChangesAssumption == MaxChanges \in Nat

Compared == {Old, New}

VARIABLES
    published,   \* the collectors whose source publishes the finding
    changes,     \* how often that has changed
    fetched,     \* fetched[t]: the collectors whose coroutine holds the finding
    evidence,    \* evidence[j]: the collectors with a stored finding
    answered,    \* answered[j][c]: what c's last run for j was told, for good
    request,     \* what is asked for: a diff, or the report on a job
    reads,       \* how many SELECTs the request has made, or its answer
    statusOf,    \* statusOf[j]: the collector statuses it has read
    findingsOf   \* findingsOf[j]: the findings it has read

diffVars == <<request, reads, statusOf, findingsOf>>
evidenceVars == <<published, changes, fetched, evidence, answered>>
allVars == <<vars, evidenceVars, diffVars>>

Unknown == "unknown"
NotFound == 7
Presence == {"present", "absent", Unknown}
Requested == {"diff", "report_on_old", "report_on_new"}

DiffTypeOK ==
    /\ published \subseteq Collectors
    /\ changes \in 0..MaxChanges
    /\ fetched \in [Tasks -> SUBSET Collectors]
    /\ evidence \in [Jobs -> SUBSET Collectors]
    /\ answered \in [Jobs -> [Collectors -> Presence]]
    /\ request \in Requested
    /\ reads \in 0..NotFound
    /\ statusOf \in [Compared -> [Collectors -> CollectorStatuses \cup {NoRow}]]
    /\ findingsOf \in [Compared -> SUBSET Collectors]

DiffInit ==
    /\ Init
    /\ published \in SUBSET (Collectors \ Deferred)
    /\ changes = 0
    /\ fetched = [t \in Tasks |-> {}]
    /\ evidence = [j \in Jobs |-> {}]
    /\ answered = [j \in Jobs |-> [c \in Collectors |-> Unknown]]
    /\ request \in Requested
    /\ reads = 0
    /\ statusOf = [j \in Compared |-> [c \in Collectors |-> NoRow]]
    /\ findingsOf = [j \in Compared |-> {}]

-----------------------------------------------------------------------------
(* The jobs.  What happens to findings follows from the runner's step: a   *)
(* coroutine that gets an answer holds it until it stores it, and rows     *)
(* that are deleted take their findings along.                             *)

(* A source says what it publishes; inference finds what the stored        *)
(* evidence of its job supports.                                           *)
Found(t, c) ==
    IF c \in Deferred THEN evidence[serving[t]] \cap Evident # {} ELSE c \in published

Receives(t, c) == work[t][c] = "run" /\ work'[t][c] = "save"
Stores(t, c) == work[t][c] = "save" /\ work'[t][c] = "done"

Answered(j, c) == \E t \in Tasks : serving[t] = j /\ Receives(t, c)
Holds(j, c) == \E t \in Tasks : serving[t] = j /\ c \in fetched[t] /\ Stores(t, c)

Evidence ==
    /\ fetched' = [t \in Tasks |-> {c \in Collectors :
           /\ work'[t][c] = "save"
           /\ IF Receives(t, c) THEN Found(t, c) ELSE c \in fetched[t]}]
    /\ evidence' = [j \in Jobs |-> {c \in Collectors :
           rows'[j][c] > 0 /\ (c \in evidence[j] \/ Holds(j, c))}]
    /\ answered' = [j \in Jobs |-> [c \in Collectors |->
           IF ~Answered(j, c) THEN answered[j][c]
           ELSE IF \E t \in Tasks : serving[t] = j /\ Receives(t, c) /\ Found(t, c)
                THEN "present" ELSE "absent"]]

JobsGoOn == Next /\ Evidence /\ UNCHANGED <<published, changes, diffVars>>

(* A source publishes something new or withdraws it.                       *)
SourceChanges(c) ==
    /\ changes < MaxChanges
    /\ c \notin Deferred
    /\ changes' = changes + 1
    /\ published' = IF c \in published THEN published \ {c} ELSE published \cup {c}
    /\ UNCHANGED <<vars, fetched, evidence, answered, diffVars>>

-----------------------------------------------------------------------------
(* diff_jobs and export_job.  Each SELECT sees what is committed when it   *)
(* runs.                                                                   *)

(* A variant of ReadOrder that reads the findings before the statuses.     *)
ReadOrder_FindingsFirst ==
    CASE request = "diff" ->
            <<"new_job", "old_job", "old_findings", "new_findings",
              "old_statuses", "new_statuses">>
      [] request = "report_on_old" -> <<"old_job", "old_findings", "old_statuses">>
      [] request = "report_on_new" -> <<"new_job", "new_findings", "new_statuses">>

ReadOrder ==
    CASE request = "diff" ->
            <<"new_job", "old_job", "old_statuses", "new_statuses",
              "old_findings", "new_findings">>
      [] request = "report_on_old" -> <<"old_job", "old_statuses", "old_findings">>
      [] request = "report_on_new" -> <<"new_job", "new_statuses", "new_findings">>

NextRead(what) == reads < Len(ReadOrder) /\ ReadOrder[reads + 1] = what

ReadJob(j, what) ==
    /\ NextRead(what)
    /\ reads' = IF job[j] = NoRow THEN NotFound ELSE reads + 1
    /\ UNCHANGED <<vars, evidenceVars, request, statusOf, findingsOf>>

(* A variant of ReadStatuses that takes the job's status for its runs'.    *)
ReadStatuses_OfTheJob(j, what) ==
    /\ NextRead(what)
    /\ statusOf' = [statusOf EXCEPT ![j] = [c \in Collectors |-> job[j]]]
    /\ reads' = reads + 1
    /\ UNCHANGED <<vars, evidenceVars, request, findingsOf>>

ReadStatuses(j, what) ==
    /\ NextRead(what)
    /\ statusOf' = [statusOf EXCEPT ![j] = run[j]]
    /\ reads' = reads + 1
    /\ UNCHANGED <<vars, evidenceVars, request, findingsOf>>

ReadFindings(j, what) ==
    /\ NextRead(what)
    /\ findingsOf' = [findingsOf EXCEPT ![j] = evidence[j]]
    /\ reads' = reads + 1
    /\ UNCHANGED <<vars, evidenceVars, request, statusOf>>

DiffJobs ==
    \/ ReadJob(New, "new_job") \/ ReadJob(Old, "old_job")
    \/ ReadStatuses(Old, "old_statuses") \/ ReadStatuses(New, "new_statuses")
    \/ ReadFindings(Old, "old_findings") \/ ReadFindings(New, "new_findings")

DiffNext ==
    \/ JobsGoOn
    \/ \E c \in Collectors : SourceChanges(c)
    \/ DiffJobs

DiffSpec == DiffInit /\ [][DiffNext]_allVars

-----------------------------------------------------------------------------
(* compute_diff, over what the request has read.                           *)

CompletedInBoth(c) == \A j \in Compared : statusOf[j][c] = "done"

Missing == findingsOf[Old] \ findingsOf[New]

Removed == {c \in Missing : CompletedInBoth(c)}
Indeterminate == {c \in Missing : ~CompletedInBoth(c)}

-----------------------------------------------------------------------------
HasRead == reads = Len(ReadOrder)
Compares == request = "diff" /\ HasRead

(* A finding of a source is only reported as removed when the source has   *)
(* looked for it again and has not found it, whatever the jobs were doing  *)
(* while the six SELECTs ran: running, crashing, resuming, or - the old    *)
(* one - being swept away (diff.py: "unknown is not absent").              *)
RemovedMeansGone ==
    Compares => \A c \in Removed \ Deferred : answered[New][c] = "absent"

DiffInv == DiffTypeOK /\ RemovedMeansGone

(* A report shows what its source table promises: when it calls a source   *)
(* done that has found something, the findings are in it - although jobs   *)
(* go on, crash and resume between its SELECTs - unless the job was        *)
(* deleted in the meantime (reports.py "Source status", "Findings").       *)
ReportedJob == IF request = "report_on_old" THEN Old ELSE New

ReportShowsItsEvidence ==
    HasRead /\ request # "diff" /\ job[ReportedJob] # NoRow =>
        \A c \in Collectors \ Deferred :
            statusOf[ReportedJob][c] = "done" /\ answered[ReportedJob][c] = "present" =>
                c \in findingsOf[ReportedJob]

-----------------------------------------------------------------------------
(* The inductive invariants behind the two.                                *)

(* What a source has answered is known, and what it has found is stored.   *)
Told(j, c) ==
    /\ answered[j][c] # Unknown
    /\ answered[j][c] = "present" => c \in evidence[j]

(* The answer a coroutine holds becomes the evidence of its job before the *)
(* run is DONE.                                                            *)
AnswersInv ==
    /\ \A t \in Tasks, c \in Collectors :
           work[t][c] = "save" =>
               answered[serving[t]][c] = IF c \in fetched[t] THEN "present" ELSE "absent"
    /\ \A t \in Tasks, c \in Collectors :
           work[t][c] = "done" => run[serving[t]][c] = NoRow \/ Told(serving[t], c)
    /\ \A j \in Jobs, c \in Collectors : run[j][c] = "done" => Told(j, c)

(* The request has read the findings of j, and goes on or has answered.    *)
FindingsRead(j) ==
    IF request = "diff" THEN reads = 6 \/ (j = Old /\ reads = 5)
    ELSE j = ReportedJob /\ reads = 3

(* What the request has read as DONE is so still, or its job is gone; the  *)
(* findings it has read after that are then all that it has.               *)
ReadsInv ==
    \A j \in Compared, c \in Collectors : statusOf[j][c] = "done" =>
        /\ j <= created
        /\ job[j] # NoRow =>
               /\ run[j][c] = "done"
               /\ FindingsRead(j) /\ answered[j][c] = "present" => c \in findingsOf[j]

(* The new job stays while it is compared.                                 *)
NewJobStays ==
    /\ expired \subseteq Expirable
    /\ \A r \in Requests : Going(r) => ask[r].kind \in Kinds
    /\ request = "diff" /\ reads \in 1..6 => job[New] # NoRow /\ New <= created

-----------------------------------------------------------------------------
(* "An unqueried or failed source cannot justify a 'removed' diff result": *)
(* when a finding is removed, every source it came from has completed in   *)
(* the new job - for inferred technology, those that supported it.         *)
SourcesOf(c) == IF c \in Deferred THEN findingsOf[Old] \cap Evident ELSE {c}

UnknownIsNotAbsent ==
    Compares => \A c \in Removed : \A s \in SourcesOf(c) : CompletedInBoth(s)
=============================================================================
