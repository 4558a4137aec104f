-------------------------- MODULE LifecycleProofs --------------------------
(***************************************************************************)
(* Proofs about JobLifecycle, for every set of jobs and of collectors.     *)
(***************************************************************************)
EXTENDS JobLifecycle, TLAPS

(* The verdict is one of the four terminal statuses, none of which a       *)
(* cancellation gives.                                                     *)
LEMMA VerdictRange ==
    ASSUME NEW statuses
    PROVE  ComputeJobStatus(statuses) \in Verdicts
BY DEF ComputeJobStatus, Verdicts, TerminalJobStatuses

(* The statuses of jobs and collectors are the ones enums.py declares.     *)
THEOREM LifecycleTyped == LifecycleSpec => []LifecycleTypeOK
<1> USE DEF LifecycleTypeOK, JobStatuses, CollectorStatuses, TerminalJobStatuses,
            TerminalCollectorStatuses, Verdicts
<1>1. LifecycleInit => LifecycleTypeOK
  BY DEF LifecycleInit
<1>2. LifecycleTypeOK /\ [LifecycleNext]_lifecycleVars => LifecycleTypeOK'
  <2> SUFFICES ASSUME LifecycleTypeOK, [LifecycleNext]_lifecycleVars
               PROVE  LifecycleTypeOK'
    OBVIOUS
  <2>1. ASSUME NEW j \in Jobs, NEW sources \in SUBSET Collectors, Create(j, sources)
        PROVE  LifecycleTypeOK'
    BY <2>1 DEF Create
  <2>2. ASSUME NEW j \in Jobs, Claim(j) PROVE LifecycleTypeOK'
    BY <2>2 DEF Claim
  <2>3. ASSUME NEW j \in Jobs, Conclude(j) PROVE LifecycleTypeOK'
    BY <2>3, VerdictRange DEF Conclude
  <2>4. ASSUME NEW j \in Jobs, FailEarly(j) PROVE LifecycleTypeOK'
    BY <2>4 DEF FailEarly
  <2>5. ASSUME NEW j \in Jobs, Cancel(j) PROVE LifecycleTypeOK'
    BY <2>5 DEF Cancel
  <2>6. ASSUME NEW gone \in SUBSET Jobs, Delete(gone) PROVE LifecycleTypeOK'
    BY <2>6 DEF Delete
  <2>7. ASSUME NEW j \in Jobs, NEW c \in Collectors, Start(j, c) PROVE LifecycleTypeOK'
    BY <2>7 DEF Start
  <2>8. ASSUME NEW j \in Jobs, NEW c \in Collectors, Finish(j, c) PROVE LifecycleTypeOK'
    BY <2>8 DEF Finish
  <2>9. ASSUME NEW j \in Jobs, NEW c \in Collectors, Retry(j, c) PROVE LifecycleTypeOK'
    BY <2>9 DEF Retry
  <2>10. ASSUME NEW gone \in SUBSET Jobs, Interrupt(gone) PROVE LifecycleTypeOK'
    BY <2>10 DEF Interrupt
  <2>11. CASE UNCHANGED lifecycleVars
    BY <2>11 DEF lifecycleVars
  <2> QED
    BY <2>1, <2>2, <2>3, <2>4, <2>5, <2>6, <2>7, <2>8, <2>9, <2>10, <2>11
       DEF LifecycleNext
<1> QED
  BY <1>1, <1>2, PTL DEF LifecycleSpec

(* A job whose collectors do not change keeps its statuses, and so its     *)
(* verdict stays true if the job keeps it.                                 *)
LEMMA SameRunsSameVerdict ==
    ASSUME NEW j \in Jobs, TrueVerdict(j),
           job'[j] = job[j] \/ job'[j] \notin Verdicts,
           run'[j] = run[j]
    PROVE  TrueVerdict(j)'
<1>1. Statuses(j)' = Statuses(j)
  BY DEF Statuses
<1>2. CASE job'[j] \notin Verdicts
  BY <1>2 DEF TrueVerdict, Verdicts, TerminalJobStatuses
<1>3. CASE job'[j] = job[j]
  BY <1>1, <1>3 DEF TrueVerdict, Settled
<1> QED
  BY <1>2, <1>3

(* No collector of a job that has a verdict can start, end or be           *)
(* interrupted.                                                            *)
LEMMA VerdictMeansEnded ==
    ASSUME LifecycleTypeOK, NEW j \in Jobs, TrueVerdict(j), job[j] \in Verdicts,
           NEW c \in Collectors
    PROVE  run[j][c] \in TerminalCollectorStatuses \cup {NoRow}
BY DEF LifecycleTypeOK, TrueVerdict, Settled, Statuses

(* A finished verdict is never wrong about the collectors of its job.      *)
THEOREM VerdictsAreTrue == LifecycleSpec => []VerdictIsTrue
<1>1. LifecycleInit => VerdictIsTrue
  BY DEF LifecycleInit, VerdictIsTrue, TrueVerdict, Verdicts, TerminalJobStatuses, NoRow
<1>2. LifecycleTypeOK /\ VerdictIsTrue /\ [LifecycleNext]_lifecycleVars => VerdictIsTrue'
  <2> SUFFICES ASSUME LifecycleTypeOK, VerdictIsTrue, [LifecycleNext]_lifecycleVars,
                      NEW k \in Jobs
               PROVE  TrueVerdict(k)'
    BY DEF VerdictIsTrue
  <2>0. TrueVerdict(k)
    BY DEF VerdictIsTrue
  <2> USE <2>0
  <2>1. ASSUME NEW j \in Jobs, NEW sources \in SUBSET Collectors, Create(j, sources)
        PROVE  TrueVerdict(k)'
    <3>1. CASE j = k
      BY <2>1, <3>1 DEF Create, LifecycleTypeOK, TrueVerdict, Verdicts, TerminalJobStatuses
    <3>2. CASE j # k
      BY <2>1, <3>2, SameRunsSameVerdict DEF Create, LifecycleTypeOK
    <3> QED
      BY <3>1, <3>2
  <2>2. ASSUME NEW j \in Jobs, Claim(j) PROVE TrueVerdict(k)'
    BY <2>2, SameRunsSameVerdict DEF Claim, LifecycleTypeOK, Verdicts, TerminalJobStatuses
  <2>3. ASSUME NEW j \in Jobs, Conclude(j) PROVE TrueVerdict(k)'
    <3>1. CASE j # k
      BY <2>3, <3>1, SameRunsSameVerdict DEF Conclude, LifecycleTypeOK
    <3>2. CASE j = k
      <4>1. Statuses(k)' = Statuses(k)
        BY <2>3 DEF Conclude, Statuses
      <4>2. Settled(k)
        BY <2>3, <3>2 DEF Conclude
      <4>3. job'[k] \in {ComputeJobStatus(Statuses(k)), "canceled"}
        BY <2>3, <3>2 DEF Conclude, LifecycleTypeOK
      <4> HIDE DEF Statuses
      <4> QED
        BY <4>1, <4>2, <4>3
           DEF TrueVerdict, Settled, ComputeJobStatus, Verdicts, TerminalJobStatuses
    <3> QED
      BY <3>1, <3>2
  <2>4. ASSUME NEW j \in Jobs, FailEarly(j) PROVE TrueVerdict(k)'
    <3>1. CASE j # k
      BY <2>4, <3>1, SameRunsSameVerdict DEF FailEarly, LifecycleTypeOK
    <3>2. CASE j = k
      <4>1. job'[k] = "failed"
        BY <2>4, <3>2 DEF FailEarly, LifecycleTypeOK
      <4>2. \A c \in Collectors :
               run'[k][c] = IF run[k][c] \in Waiting THEN "failed" ELSE run[k][c]
        BY <2>4, <3>2 DEF FailEarly, LifecycleTypeOK
      <4>3. \A c \in Collectors : run[k][c] # "running"
        BY <2>4, <3>2 DEF FailEarly, Statuses, NoRow
      <4>4. \A c \in Collectors : run'[k][c] \in TerminalCollectorStatuses \cup {NoRow}
        BY <4>2, <4>3 DEF LifecycleTypeOK, CollectorStatuses, TerminalCollectorStatuses, Waiting
      <4>5. PICK c \in Collectors : run[k][c] \in Waiting
        BY <2>4, <3>2 DEF FailEarly, Statuses
      <4>6. run'[k][c] = "failed"
        BY <4>2, <4>5
      <4>7. Settled(k)'
        BY <4>4 DEF Settled, Statuses
      <4>8. "failed" \in Statuses(k)'
        BY <4>6 DEF Statuses, NoRow
      <4> QED
        BY <4>1, <4>7, <4>8 DEF TrueVerdict
    <3> QED
      BY <3>1, <3>2
  <2>5. ASSUME NEW j \in Jobs, Cancel(j) PROVE TrueVerdict(k)'
    BY <2>5, SameRunsSameVerdict DEF Cancel, LifecycleTypeOK, Verdicts
  <2>6. ASSUME NEW gone \in SUBSET Jobs, Delete(gone) PROVE TrueVerdict(k)'
    <3>1. CASE k \in gone
      BY <2>6, <3>1
         DEF Delete, LifecycleTypeOK, TrueVerdict, Verdicts, TerminalJobStatuses, NoRow
    <3>2. CASE k \notin gone
      BY <2>6, <3>2, SameRunsSameVerdict DEF Delete, LifecycleTypeOK
    <3> QED
      BY <3>1, <3>2
  <2>7. ASSUME NEW j \in Jobs, NEW c \in Collectors, Start(j, c) PROVE TrueVerdict(k)'
    <3>1. CASE j # k
      BY <2>7, <3>1, SameRunsSameVerdict DEF Start, LifecycleTypeOK
    <3>2. CASE j = k
      BY <2>7, <3>2 DEF Start, TrueVerdict, Verdicts, TerminalJobStatuses
    <3> QED
      BY <3>1, <3>2
  <2>8. ASSUME NEW j \in Jobs, NEW c \in Collectors, Finish(j, c) PROVE TrueVerdict(k)'
    <3>1. CASE j # k
      BY <2>8, <3>1, SameRunsSameVerdict DEF Finish, LifecycleTypeOK
    <3>2. CASE j = k
      <4>1. job[k] \notin Verdicts
        BY <2>8, <3>2, VerdictMeansEnded DEF Finish, TerminalCollectorStatuses, NoRow
      <4> QED
        BY <2>8, <4>1 DEF Finish, TrueVerdict, Verdicts, TerminalJobStatuses
    <3> QED
      BY <3>1, <3>2
  <2>9. ASSUME NEW j \in Jobs, NEW c \in Collectors, Retry(j, c) PROVE TrueVerdict(k)'
    <3>1. CASE j # k
      BY <2>9, <3>1, SameRunsSameVerdict DEF Retry, LifecycleTypeOK
    <3>2. CASE j = k
      BY <2>9, <3>2 DEF Retry, LifecycleTypeOK, TrueVerdict, Verdicts, TerminalJobStatuses
    <3> QED
      BY <3>1, <3>2
  <2>10. ASSUME NEW gone \in SUBSET Jobs, Interrupt(gone) PROVE TrueVerdict(k)'
    <3>1. CASE k \in gone \/ job[k] \notin Verdicts
      <4>1. job'[k] \in {NoRow, job[k]}
        BY <2>10 DEF Interrupt
      <4>2. job'[k] \notin Verdicts
        BY <2>10, <3>1, <4>1 DEF Interrupt, Verdicts, TerminalJobStatuses, NoRow
      <4> QED
        BY <4>2 DEF TrueVerdict, Verdicts, TerminalJobStatuses
    <3>2. CASE k \notin gone /\ job[k] \in Verdicts
      <4>1. \A c \in Collectors : run[k][c] # "running"
        BY <3>2, VerdictMeansEnded DEF TerminalCollectorStatuses, NoRow
      <4>2. run'[k] = run[k]
        BY <2>10, <3>2, <4>1 DEF Interrupt, LifecycleTypeOK
      <4>3. job'[k] = job[k]
        BY <2>10, <3>2 DEF Interrupt
      <4> QED
        BY <4>2, <4>3, SameRunsSameVerdict
    <3> QED
      BY <3>1, <3>2
  <2>11. CASE UNCHANGED lifecycleVars
    BY <2>11, SameRunsSameVerdict DEF lifecycleVars
  <2> QED
    BY <2>1, <2>2, <2>3, <2>4, <2>5, <2>6, <2>7, <2>8, <2>9, <2>10, <2>11
       DEF LifecycleNext
<1> QED
  BY <1>1, <1>2, LifecycleTyped, PTL DEF LifecycleSpec
=============================================================================
