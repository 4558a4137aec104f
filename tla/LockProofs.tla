----------------------------- MODULE LockProofs -----------------------------
(***************************************************************************)
(* Proofs about WorkerLock, for any number of launchers and launches: when *)
(* launches do not overlap and all processes belong to one user, at most   *)
(* one server has the lock; when PIDs are not given out again besides, a   *)
(* launch is refused only for a server.  And about Servers: then a job     *)
(* runner that is up is alone with the database, and the two launchers     *)
(* together implement the one server of JobRunner.                         *)
(***************************************************************************)
EXTENDS Servers, TLAPS

USE DEF Lives, NoPid, Pids, Starting, Holding, Stages, Goto

LEMMA LockInitially == LockInit => LockInv /\ LockNames
  BY LaunchesAssumption
  DEF LockInit, LockInv, LockNames, LockTypeOK, DistinctPids, FileNamesServer, OneServer

LEMMA LockStutter ==
    ASSUME LockInv, UNCHANGED lockVars PROVE LockInv'
  BY DEF lockVars, LockInv, LockTypeOK, DistinctPids, FileNamesServer, OneServer

(* Every action moves one process and no other.                            *)
LEMMA LockTypes ==
    ASSUME LockTypeOK, NEW l \in Launchers, LockStep(l) PROVE LockTypeOK'
  BY LaunchesAssumption
  DEF LockTypeOK, LockStep, Launch, Exists, Read, Probe, WriteFile, Serve,
      Shutdown, Release, End

LEMMA LaunchKeeps ==
    ASSUME LockInv, LockTypeOK', ~Overlap, ~External,
           ~ReusePids => LockNames,
           NEW l \in Launchers, Launch(l)
    PROVE  LockInv'
  <1>1. PICK p \in Pids :
           /\ pid' = [pid EXCEPT ![l] = p]
           /\ \A k \in Launchers : Lives(k) => pid[k] # p
    <2>1. CASE ReusePids
      BY <2>1 DEF Launch
    <2>2. CASE ~ReusePids
      <3>1. \A k \in Launchers : pid[k] \in Nat /\ pid[k] <= launches
        BY <2>2 DEF LockInv, LockTypeOK, LockNames
      <3>2. launches + 1 \in Pids /\ pid' = [pid EXCEPT ![l] = launches + 1]
        BY <2>2, LaunchesAssumption DEF Launch, LockInv, LockTypeOK
      <3>3. \A k \in Launchers : Lives(k) => pid[k] # launches + 1
        BY <3>1 DEF LockInv, LockTypeOK
      <3> QED BY <3>2, <3>3
    <2> QED BY <2>1, <2>2
  <1>2. DistinctPids'
    BY <1>1, LaunchesAssumption DEF Launch, LockInv, LockTypeOK, DistinctPids
  <1>3. (\A k, m \in Launchers : stage[k] \in Starting /\ stage[m] \in Starting => k = m)'
    BY DEF Launch, LockInv, LockTypeOK
  <1>4. FileNamesServer'
    BY <1>1 DEF Launch, LockInv, LockTypeOK, FileNamesServer
  <1>5. OneServer'
    BY DEF Launch, LockInv, LockTypeOK, OneServer
  <1> QED BY <1>2, <1>3, <1>4, <1>5 DEF LockInv

(* The probe finds the server whose PID was read.                          *)
LEMMA AcquireKeeps ==
    ASSUME LockInv, LockTypeOK', Foreign = {}, NEW l \in Launchers,
           Exists(l) \/ Read(l) \/ Probe(l) \/ WriteFile(l)
    PROVE  LockInv'
  <1>1. CASE Exists(l)
    BY <1>1 DEF Exists, LockInv, LockTypeOK, DistinctPids, FileNamesServer, OneServer
  <1>2. CASE Read(l)
    BY <1>2 DEF Read, LockInv, LockTypeOK, DistinctPids, FileNamesServer, OneServer
  <1>3. CASE Probe(l)
    <2>1. ASSUME NEW k \in Launchers, stage[k] \in Holding PROVE stage'[l] = "refused"
      BY <1>3, <2>1 DEF Probe, PidIsAlive, LockInv, LockTypeOK, FileNamesServer
    <2> QED
      BY <1>3, <2>1 DEF Probe, LockInv, LockTypeOK, DistinctPids, FileNamesServer, OneServer
  <1>4. CASE WriteFile(l)
    BY <1>4 DEF WriteFile, LockInv, LockTypeOK, DistinctPids, FileNamesServer, OneServer
  <1> QED BY <1>1, <1>2, <1>3, <1>4

LEMMA LifespanKeeps ==
    ASSUME LockInv, LockTypeOK', NEW l \in Launchers,
           Serve(l) \/ Shutdown(l) \/ Release(l) \/ End(l)
    PROVE  LockInv'
  <1>1. CASE Serve(l)
    BY <1>1 DEF Serve, LockInv, LockTypeOK, DistinctPids, FileNamesServer, OneServer
  <1>2. CASE Shutdown(l)
    BY <1>2 DEF Shutdown, LockInv, LockTypeOK, DistinctPids, FileNamesServer, OneServer
  <1>3. CASE Release(l)
    BY <1>3 DEF Release, LockInv, LockTypeOK, DistinctPids, FileNamesServer, OneServer
  <1>4. CASE End(l)
    BY <1>4 DEF End, LockInv, LockTypeOK, DistinctPids, FileNamesServer, OneServer
  <1> QED BY <1>1, <1>2, <1>3, <1>4

LEMMA LockStepKeeps ==
    ASSUME LockInv, ~Overlap, ~External, Foreign = {},
           ~ReusePids => LockNames,
           NEW l \in Launchers, LockStep(l)
    PROVE  LockInv'
  <1>1. LockTypeOK'
    BY LockTypes DEF LockInv
  <1> QED
    BY <1>1, LaunchKeeps, AcquireKeeps, LifespanKeeps DEF LockStep

LEMMA NamesKept ==
    ASSUME LockInv, LockNames, ~Overlap, ~External, ~ReusePids,
           NEW l \in Launchers, LockStep(l)
    PROVE  LockNames'
  <1> USE DEF LockNames
  <1>t. LockTypeOK'
    BY LockTypes DEF LockInv
  <1>1. CASE Launch(l)
    BY <1>1, <1>t, LaunchesAssumption DEF Launch, LockInv, LockTypeOK
  <1>2. CASE Exists(l)
    BY <1>2 DEF Exists, LockInv, LockTypeOK
  <1>3. CASE Read(l)
    BY <1>3 DEF Read, LockInv, LockTypeOK
  <1>4. CASE Probe(l)
    BY <1>4 DEF Probe, LockInv, LockTypeOK, DistinctPids
  <1>5. CASE WriteFile(l)
    BY <1>5 DEF WriteFile, LockInv, LockTypeOK, DistinctPids
  <1>6. CASE Serve(l) \/ Shutdown(l) \/ Release(l) \/ End(l)
    BY <1>6 DEF Serve, Shutdown, Release, End, LockInv, LockTypeOK, DistinctPids
  <1> QED BY <1>1, <1>2, <1>3, <1>4, <1>5, <1>6 DEF LockStep

(* Launches that do not overlap, of one user, leave at most one server     *)
(* with the lock, whatever crashes there are.                              *)
THEOREM LockHolds ==
    ASSUME ~Overlap, ~External, Foreign = {}
    PROVE  LockSpec => []LockInv
  <1>1. LockInit => LockInv /\ (~ReusePids => LockNames)
    BY LockInitially
  <1>2. LockInv /\ (~ReusePids => LockNames) /\ [LockNext]_lockVars
            => (LockInv /\ (~ReusePids => LockNames))'
    <2> SUFFICES ASSUME LockInv, ~ReusePids => LockNames, [LockNext]_lockVars
                 PROVE  LockInv' /\ (~ReusePids => LockNames')
      OBVIOUS
    <2>1. CASE UNCHANGED lockVars
      BY <2>1, LockStutter DEF lockVars, LockNames
    <2>2. CASE LockNext
      BY <2>2, LockStepKeeps, NamesKept DEF LockNext
    <2> QED BY <2>1, <2>2
  <1> QED BY <1>1, <1>2, PTL DEF LockSpec

(* When no PID is given out twice besides, a launch is refused only for a  *)
(* server that has the lock or is leaving with it.                         *)
THEOREM RefusalsHold ==
    ASSUME ~Overlap, ~External, Foreign = {}, ~ReusePids
    PROVE  LockSpec => RefusedForAServer
  <1> DEFINE Refusal ==
        \A l \in Launchers :
            stage[l] = "probe" /\ stage'[l] = "refused" =>
                \E k \in Launchers \ {l} : stage[k] \in Holding \cup {"leaving"}
  <1>1. LockInit => LockInv /\ LockNames
    BY LockInitially
  <1>2. LockInv /\ LockNames /\ [LockNext]_lockVars => (LockInv /\ LockNames)'
    <2> SUFFICES ASSUME LockInv, LockNames, [LockNext]_lockVars
                 PROVE  LockInv' /\ LockNames'
      OBVIOUS
    <2>1. CASE UNCHANGED lockVars
      BY <2>1, LockStutter DEF lockVars, LockNames
    <2>2. CASE LockNext
      BY <2>2, LockStepKeeps, NamesKept DEF LockNext
    <2> QED BY <2>1, <2>2
  <1>3. LockInv /\ LockNames /\ [LockNext]_lockVars => [Refusal]_lockVars
    <2> SUFFICES ASSUME LockInv, LockNames, LockNext,
                        NEW l \in Launchers,
                        stage[l] = "probe", stage'[l] = "refused"
                 PROVE  \E k \in Launchers \ {l} : stage[k] \in Holding \cup {"leaving"}
      OBVIOUS
    <2>1. Probe(l)
      BY DEF LockNext, LockStep, Launch, Exists, Read, Probe, WriteFile, Serve,
             Shutdown, Release, End, LockInv, LockTypeOK
    <2>2. PICK k \in Launchers : Lives(k) /\ pid[k] = holder[l]
      BY <2>1 DEF Probe, PidIsAlive, LockInv, LockTypeOK
    <2>3. stage[k] \in Holding \cup {"leaving"}
      BY <2>2 DEF LockNames
    <2> QED BY <2>3
  <1> QED BY <1>1, <1>2, <1>3, PTL DEF LockSpec, RefusedForAServer

(* A step of Servers is one of the lock or leaves it alone.                *)
LEMMA ServersMoveTheLock == ServersNext => [LockNext]_lockVars
  BY TwoLaunchers
  DEF ServersNext, LockOnly, RecoverA, RecoverB, StopA, StopB, RunA, RunB,
      LockNext, LockStep

(* Two launchers with the whole job runner behind each: the two processes  *)
(* are never both up, so nobody else changes the database a runner works   *)
(* on.                                                                     *)
THEOREM ServersAlone ==
    ASSUME ~Overlap, ~External, Foreign = {}
    PROVE  ServersSpec => []Alone
  <1>1. ServersInit => LockInit /\ ServersInv
    BY LockInitially DEF ServersInit, ServersInv, Asleep
  <1>2. [ServersNext]_serversVars => [LockNext]_lockVars
    BY ServersMoveTheLock DEF serversVars
  <1>3. ServersInv /\ LockInv' /\ [ServersNext]_serversVars => ServersInv'
    <2> SUFFICES ASSUME ServersInv, LockInv', [ServersNext]_serversVars PROVE ServersInv'
      OBVIOUS
    <2> USE TwoLaunchers DEF ServersInv
    <2>t. stage \in [Launchers -> Stages] /\ stage' \in [Launchers -> Stages]
      BY DEF LockInv, LockTypeOK
    <2>1. ASSUME NEW l \in Launchers, LockOnly(l) PROVE ServersInv'
      BY <2>1, <2>t DEF LockOnly, Launch, Exists, Read, Probe, WriteFile, Release, End,
                        memoryA, memoryB
    <2>2. CASE RecoverA
      BY <2>2, <2>t DEF RecoverA, Serve, memoryB
    <2>3. CASE RecoverB
      BY <2>3, <2>t DEF RecoverB, Serve, memoryA
    <2>4. CASE StopA
      BY <2>4, <2>t DEF StopA, Shutdown, End, A!Crash, memoryB
    <2>5. CASE StopB
      BY <2>5, <2>t DEF StopB, Shutdown, End, B!Crash, memoryA
    <2>6. CASE RunA
      BY <2>6 DEF RunA, lockVars, memoryB
    <2>7. CASE RunB
      BY <2>7 DEF RunB, lockVars, memoryA
    <2>8. CASE UNCHANGED serversVars
      BY <2>8 DEF serversVars, lockVars, memoryA, memoryB
    <2> QED
      BY <2>1, <2>2, <2>3, <2>4, <2>5, <2>6, <2>7, <2>8 DEF ServersNext
  <1>4. ServersInv => Alone
    BY TwoLaunchers DEF ServersInv, LockInv, OneServer, Alone
  <1>5. LockSpec => []LockInv
    BY LockHolds
  <1> QED BY <1>1, <1>2, <1>3, <1>4, <1>5, PTL DEF ServersSpec, LockSpec

-----------------------------------------------------------------------------
(* Each process as a runner of its own.                                    *)
RA == INSTANCE RunnerProofs WITH
        up <- upA, crashes <- crashesA, pc <- pcA, serving <- servingA,
        work <- workA, event <- eventA, cancelSet <- cancelSetA
RB == INSTANCE RunnerProofs WITH
        up <- upB, crashes <- crashesB, pc <- pcB, serving <- servingB,
        work <- workB, event <- eventB, cancelSet <- cancelSetB

(* The runner that RunnerProofs speaks of is the one of Servers.           *)
LEMMA SameWordsA ==
    /\ A!TerminalJobStatuses = RA!TerminalJobStatuses
    /\ A!TerminalCollectorStatuses = RA!TerminalCollectorStatuses
    /\ A!JobStatuses = RA!JobStatuses
    /\ A!CollectorStatuses = RA!CollectorStatuses
    /\ A!NoRow = RA!NoRow
    /\ A!NoJob = RA!NoJob
    /\ A!Jobs = RA!Jobs
    /\ A!Tasks = RA!Tasks
    /\ A!NoWork = RA!NoWork
    /\ A!TaskPoints = RA!TaskPoints
    /\ A!WorkPoints = RA!WorkPoints
    /\ A!Inside = RA!Inside
  BY DEF A!TerminalJobStatuses, RA!TerminalJobStatuses,
         A!TerminalCollectorStatuses, RA!TerminalCollectorStatuses,
         A!JobStatuses, RA!JobStatuses, A!CollectorStatuses,
         RA!CollectorStatuses, A!NoRow, RA!NoRow, A!NoJob, RA!NoJob, A!Jobs,
         RA!Jobs, A!Tasks, RA!Tasks, A!NoWork, RA!NoWork, A!TaskPoints,
         RA!TaskPoints, A!WorkPoints, RA!WorkPoints, A!Inside, RA!Inside

LEMMA SameInvA == A!RunnerInv <=> RA!RunnerInv
  BY SameWordsA DEF A!RunnerInv, RA!RunnerInv, A!TypeOK, RA!TypeOK,
         A!StoppedIsStill, RA!StoppedIsStill, A!TasksStand, RA!TasksStand,
         A!OneTaskEach, RA!OneTaskEach, A!JobsInPlace, RA!JobsInPlace,
         A!RunningIsExecuted, RA!RunningIsExecuted, A!Serves, RA!Serves,
         A!Active, RA!Active

LEMMA SameNextA == (A!RunnerInv <=> RA!RunnerInv)'
  BY SameInvA, PTL

LEMMA ConstantsA ==
    /\ NumJobs \in Nat
    /\ Workers \cap (RA!Jobs \cup {RA!NoJob}) = {}
    /\ NoTask \notin RA!Tasks
    /\ Deferred \subseteq Collectors
    /\ Unregistered \subseteq Collectors
    /\ Unsupported \subseteq Collectors
    /\ Selections \subseteq (SUBSET Collectors) \ {{}}
    /\ MaxConcurrentCollectors \in Nat \ {0}
    /\ MaxCrashes \in Nat
    /\ Expirable \subseteq RA!Jobs
  BY RunnersAssumption DEF RA!Jobs, RA!Tasks, RA!NoJob

LEMMA SameTaskA == \A t : A!TaskStep(t) <=> RA!TaskStep(t)
  BY SameWordsA DEF A!TaskStep, RA!TaskStep, A!ClaimNothing, RA!ClaimNothing,
         A!ClaimSelect, RA!ClaimSelect, A!ClaimUpdate, RA!ClaimUpdate,
         A!ClaimLost, RA!ClaimLost, A!Register, RA!Register, A!Load, RA!Load,
         A!SeedDenyList, RA!SeedDenyList, A!FailJobBeforeDispatch,
         RA!FailJobBeforeDispatch, A!FinishDispatch, RA!FinishDispatch,
         A!ComputeVerdict, RA!ComputeVerdict, A!FinalizeJob, RA!FinalizeJob,
         A!FinalizeRaises, RA!FinalizeRaises, A!Sweep, RA!Sweep, A!Unregister,
         RA!Unregister, A!OldestQueued, RA!OldestQueued, A!Pending,
         RA!Pending, A!ComputeJobStatus, RA!ComputeJobStatus, A!RunStatuses,
         RA!RunStatuses, A!SweepRetention, RA!SweepRetention, A!Idle, RA!Idle,
         A!database, RA!database, A!runnerVars, RA!runnerVars

LEMMA SameStartA == \A t, c : A!MayStart(t, c) <=> RA!MayStart(t, c)
  <1>1. \A t : A!Holding(t) = RA!Holding(t)
    BY DEF A!Holding, RA!Holding
  <1> QED
    BY <1>1 DEF A!MayStart, RA!MayStart, A!Idle, RA!Idle, A!Cardinality,
       RA!Cardinality

LEMMA SameCollectorA == \A t, c : A!CollectorStep(t, c) <=> RA!CollectorStep(t, c)
  BY SameWordsA, SameStartA DEF A!CollectorStep, RA!CollectorStep,
     A!StartCollector, RA!StartCollector, A!CheckCollector, RA!CheckCollector,
     A!CollectorAnswers, RA!CollectorAnswers, A!SaveFindings, RA!SaveFindings,
     A!FinishCollector, RA!FinishCollector, A!CollectorRaises,
     RA!CollectorRaises, A!database, RA!database

LEMMA SameRestartA == A!Restart <=> RA!Restart
  BY DEF A!Restart, RA!Restart, A!Resumable, RA!Resumable, A!Recovered,
     RA!Recovered, A!Jobs, RA!Jobs, A!Tasks, RA!Tasks, A!NoJob, RA!NoJob,
     A!NoRow, RA!NoRow, A!TerminalJobStatuses, RA!TerminalJobStatuses

LEMMA SameStepA ==
    /\ A!RunnerStep <=> RA!RunnerStep
    /\ A!Crash <=> RA!Crash
  <1>1. \A sources : A!CreateJob(sources) <=> RA!CreateJob(sources)
    BY SameWordsA DEF A!CreateJob, RA!CreateJob, A!process, RA!process
  <1>2. \A j : A!Expire(j) <=> RA!Expire(j)
    BY SameWordsA DEF A!Expire, RA!Expire, A!process, RA!process
  <1>3. A!Crash <=> RA!Crash
    BY SameWordsA DEF A!Crash, RA!Crash, A!database, RA!database
  <1> QED
    BY SameWordsA, SameTaskA, SameCollectorA, SameRestartA, <1>1, <1>2, <1>3 DEF
       A!RunnerStep, RA!RunnerStep

LEMMA SameWordsB ==
    /\ B!TerminalJobStatuses = RB!TerminalJobStatuses
    /\ B!TerminalCollectorStatuses = RB!TerminalCollectorStatuses
    /\ B!JobStatuses = RB!JobStatuses
    /\ B!CollectorStatuses = RB!CollectorStatuses
    /\ B!NoRow = RB!NoRow
    /\ B!NoJob = RB!NoJob
    /\ B!Jobs = RB!Jobs
    /\ B!Tasks = RB!Tasks
    /\ B!NoWork = RB!NoWork
    /\ B!TaskPoints = RB!TaskPoints
    /\ B!WorkPoints = RB!WorkPoints
    /\ B!Inside = RB!Inside
  BY DEF B!TerminalJobStatuses, RB!TerminalJobStatuses,
         B!TerminalCollectorStatuses, RB!TerminalCollectorStatuses,
         B!JobStatuses, RB!JobStatuses, B!CollectorStatuses,
         RB!CollectorStatuses, B!NoRow, RB!NoRow, B!NoJob, RB!NoJob, B!Jobs,
         RB!Jobs, B!Tasks, RB!Tasks, B!NoWork, RB!NoWork, B!TaskPoints,
         RB!TaskPoints, B!WorkPoints, RB!WorkPoints, B!Inside, RB!Inside

LEMMA SameInvB == B!RunnerInv <=> RB!RunnerInv
  BY SameWordsB DEF B!RunnerInv, RB!RunnerInv, B!TypeOK, RB!TypeOK,
         B!StoppedIsStill, RB!StoppedIsStill, B!TasksStand, RB!TasksStand,
         B!OneTaskEach, RB!OneTaskEach, B!JobsInPlace, RB!JobsInPlace,
         B!RunningIsExecuted, RB!RunningIsExecuted, B!Serves, RB!Serves,
         B!Active, RB!Active

LEMMA SameNextB == (B!RunnerInv <=> RB!RunnerInv)'
  BY SameInvB, PTL

LEMMA ConstantsB ==
    /\ NumJobs \in Nat
    /\ Workers \cap (RB!Jobs \cup {RB!NoJob}) = {}
    /\ NoTask \notin RB!Tasks
    /\ Deferred \subseteq Collectors
    /\ Unregistered \subseteq Collectors
    /\ Unsupported \subseteq Collectors
    /\ Selections \subseteq (SUBSET Collectors) \ {{}}
    /\ MaxConcurrentCollectors \in Nat \ {0}
    /\ MaxCrashes \in Nat
    /\ Expirable \subseteq RB!Jobs
  BY RunnersAssumption DEF RB!Jobs, RB!Tasks, RB!NoJob

LEMMA SameTaskB == \A t : B!TaskStep(t) <=> RB!TaskStep(t)
  BY SameWordsB DEF B!TaskStep, RB!TaskStep, B!ClaimNothing, RB!ClaimNothing,
         B!ClaimSelect, RB!ClaimSelect, B!ClaimUpdate, RB!ClaimUpdate,
         B!ClaimLost, RB!ClaimLost, B!Register, RB!Register, B!Load, RB!Load,
         B!SeedDenyList, RB!SeedDenyList, B!FailJobBeforeDispatch,
         RB!FailJobBeforeDispatch, B!FinishDispatch, RB!FinishDispatch,
         B!ComputeVerdict, RB!ComputeVerdict, B!FinalizeJob, RB!FinalizeJob,
         B!FinalizeRaises, RB!FinalizeRaises, B!Sweep, RB!Sweep, B!Unregister,
         RB!Unregister, B!OldestQueued, RB!OldestQueued, B!Pending,
         RB!Pending, B!ComputeJobStatus, RB!ComputeJobStatus, B!RunStatuses,
         RB!RunStatuses, B!SweepRetention, RB!SweepRetention, B!Idle, RB!Idle,
         B!database, RB!database, B!runnerVars, RB!runnerVars

LEMMA SameStartB == \A t, c : B!MayStart(t, c) <=> RB!MayStart(t, c)
  <1>1. \A t : B!Holding(t) = RB!Holding(t)
    BY DEF B!Holding, RB!Holding
  <1> QED
    BY <1>1 DEF B!MayStart, RB!MayStart, B!Idle, RB!Idle, B!Cardinality,
       RB!Cardinality

LEMMA SameCollectorB == \A t, c : B!CollectorStep(t, c) <=> RB!CollectorStep(t, c)
  BY SameWordsB, SameStartB DEF B!CollectorStep, RB!CollectorStep,
     B!StartCollector, RB!StartCollector, B!CheckCollector, RB!CheckCollector,
     B!CollectorAnswers, RB!CollectorAnswers, B!SaveFindings, RB!SaveFindings,
     B!FinishCollector, RB!FinishCollector, B!CollectorRaises,
     RB!CollectorRaises, B!database, RB!database

LEMMA SameRestartB == B!Restart <=> RB!Restart
  BY DEF B!Restart, RB!Restart, B!Resumable, RB!Resumable, B!Recovered,
     RB!Recovered, B!Jobs, RB!Jobs, B!Tasks, RB!Tasks, B!NoJob, RB!NoJob,
     B!NoRow, RB!NoRow, B!TerminalJobStatuses, RB!TerminalJobStatuses

LEMMA SameStepB ==
    /\ B!RunnerStep <=> RB!RunnerStep
    /\ B!Crash <=> RB!Crash
  <1>1. \A sources : B!CreateJob(sources) <=> RB!CreateJob(sources)
    BY SameWordsB DEF B!CreateJob, RB!CreateJob, B!process, RB!process
  <1>2. \A j : B!Expire(j) <=> RB!Expire(j)
    BY SameWordsB DEF B!Expire, RB!Expire, B!process, RB!process
  <1>3. B!Crash <=> RB!Crash
    BY SameWordsB DEF B!Crash, RB!Crash, B!database, RB!database
  <1> QED
    BY SameWordsB, SameTaskB, SameCollectorB, SameRestartB, <1>1, <1>2, <1>3 DEF
       B!RunnerStep, RB!RunnerStep

-----------------------------------------------------------------------------
(* The two runners together.                                               *)

LEMMA SameWords ==
    /\ A!TerminalJobStatuses = B!TerminalJobStatuses
    /\ A!TerminalCollectorStatuses = B!TerminalCollectorStatuses
    /\ A!JobStatuses = B!JobStatuses
    /\ A!CollectorStatuses = B!CollectorStatuses
    /\ A!NoRow = B!NoRow
    /\ A!NoJob = B!NoJob
    /\ A!Jobs = B!Jobs
    /\ A!Tasks = B!Tasks
    /\ A!NoWork = B!NoWork
    /\ A!TaskPoints = B!TaskPoints
    /\ A!WorkPoints = B!WorkPoints
    /\ A!Inside = B!Inside
  BY DEF A!TerminalJobStatuses, B!TerminalJobStatuses,
         A!TerminalCollectorStatuses, B!TerminalCollectorStatuses,
         A!JobStatuses, B!JobStatuses, A!CollectorStatuses,
         B!CollectorStatuses, A!NoRow, B!NoRow, A!NoJob, B!NoJob, A!Jobs,
         B!Jobs, A!Tasks, B!Tasks, A!NoWork, B!NoWork, A!TaskPoints,
         B!TaskPoints, A!WorkPoints, B!WorkPoints, A!Inside, B!Inside

(* While b works on the database, a, which is down, keeps what it is.           *)
LEMMA DownA ==
    ASSUME A!RunnerInv, B!RunnerInv', ~upA, UNCHANGED memoryA
    PROVE  A!RunnerInv'
  <1> USE DEF A!RunnerInv, B!RunnerInv, memoryA
  <1>1. A!TypeOK'
    BY SameWords DEF A!TypeOK, B!TypeOK
  <1>2. A!StoppedIsStill' /\ A!OneTaskEach' /\ A!RunningIsExecuted'
    BY DEF A!StoppedIsStill, A!OneTaskEach, A!RunningIsExecuted, A!Serves, A!Active
  <1>3. \A t \in A!Tasks : pcA'[t] = "off" /\ servingA'[t] = A!NoJob /\ workA'[t] = A!NoWork
    BY DEF A!StoppedIsStill
  <1>4. A!TasksStand'
    BY <1>3 DEF A!TasksStand, A!Active, A!NoWork, A!Inside, A!TerminalCollectorStatuses
  <1>5. A!JobsInPlace'
    <2>1. \A j \in A!Jobs : j # A!NoJob
      BY RunnersAssumption DEF A!Jobs, A!NoJob
    <2>2. expired' \subseteq A!Jobs
      BY <1>1 DEF A!TypeOK
    <2> QED BY <1>3, <2>1, <2>2, SameWords DEF A!JobsInPlace, B!JobsInPlace
  <1> QED BY <1>1, <1>2, <1>4, <1>5

(* While a works on the database, b, which is down, keeps what it is.           *)
LEMMA DownB ==
    ASSUME B!RunnerInv, A!RunnerInv', ~upB, UNCHANGED memoryB
    PROVE  B!RunnerInv'
  <1> USE DEF B!RunnerInv, A!RunnerInv, memoryB
  <1>1. B!TypeOK'
    BY SameWords DEF B!TypeOK, A!TypeOK
  <1>2. B!StoppedIsStill' /\ B!OneTaskEach' /\ B!RunningIsExecuted'
    BY DEF B!StoppedIsStill, B!OneTaskEach, B!RunningIsExecuted, B!Serves, B!Active
  <1>3. \A t \in B!Tasks : pcB'[t] = "off" /\ servingB'[t] = B!NoJob /\ workB'[t] = B!NoWork
    BY DEF B!StoppedIsStill
  <1>4. B!TasksStand'
    BY <1>3 DEF B!TasksStand, B!Active, B!NoWork, B!Inside, B!TerminalCollectorStatuses
  <1>5. B!JobsInPlace'
    <2>1. \A j \in B!Jobs : j # B!NoJob
      BY RunnersAssumption DEF B!Jobs, B!NoJob
    <2>2. expired' \subseteq B!Jobs
      BY <1>1 DEF B!TypeOK
    <2> QED BY <1>3, <2>1, <2>2, SameWords DEF B!JobsInPlace, A!JobsInPlace
  <1> QED BY <1>1, <1>2, <1>4, <1>5

(* Nothing that belongs to the runners changes.                            *)
LEMMA RunnersStutter ==
    ASSUME RunnersInv, UNCHANGED <<shared, memoryA, memoryB>>
    PROVE  RunnersInv'
  <1> USE DEF RunnersInv, shared, memoryA, memoryB
  <1>1. A!RunnerInv'
    BY DEF A!RunnerInv, A!TypeOK, A!StoppedIsStill, A!TasksStand, A!OneTaskEach,
           A!JobsInPlace, A!RunningIsExecuted, A!Serves, A!Active
  <1>2. B!RunnerInv'
    BY DEF B!RunnerInv, B!TypeOK, B!StoppedIsStill, B!TasksStand, B!OneTaskEach,
           B!JobsInPlace, B!RunningIsExecuted, B!Serves, B!Active
  <1> QED BY <1>1, <1>2

(* One runner keeps its own invariant, and the other is down.              *)
LEMMA RunnersKeep ==
    ASSUME RunnersInv, Alone, Alone', ServersNext
    PROVE  RunnersInv'
  <1> USE DEF RunnersInv, Alone
  <1>1. ASSUME NEW l \in Launchers, LockOnly(l) PROVE RunnersInv'
    BY <1>1, RunnersStutter DEF LockOnly
  <1>2. CASE RecoverA
    <2>1. A!RunnerInv'
      <3>1. RA!RunnerStep
        BY <1>2, SameRestartA DEF RecoverA, RA!RunnerStep
      <3> QED BY <3>1, SameInvA, SameNextA, ConstantsA, RA!RunnerKeeps
    <2>2. ~upB /\ UNCHANGED memoryB
      BY <1>2 DEF RecoverA, memoryB, A!Restart
    <2> QED BY <2>1, <2>2, DownB
  <1>4. CASE StopA
    <2>1. A!RunnerInv'
      <3>1. RA!Crash
        BY <1>4, SameStepA DEF StopA
      <3> QED BY <3>1, SameInvA, SameNextA, ConstantsA, RA!CrashKeeps
    <2>2. ~upB /\ UNCHANGED memoryB
      BY <1>4 DEF StopA, memoryB, A!Crash
    <2> QED BY <2>1, <2>2, DownB
  <1>6. CASE RunA
    <2>1. A!RunnerInv'
      <3>1. RA!RunnerStep
        BY <1>6, SameStepA DEF RunA
      <3> QED BY <3>1, SameInvA, SameNextA, ConstantsA, RA!RunnerKeeps
    <2>2. ~upB /\ UNCHANGED memoryB
      BY <1>6 DEF RunA
    <2> QED BY <2>1, <2>2, DownB
  <1>3. CASE RecoverB
    <2>1. B!RunnerInv'
      <3>1. RB!RunnerStep
        BY <1>3, SameRestartB DEF RecoverB, RB!RunnerStep
      <3> QED BY <3>1, SameInvB, SameNextB, ConstantsB, RB!RunnerKeeps
    <2>2. ~upA /\ UNCHANGED memoryA
      BY <1>3 DEF RecoverB, memoryA, B!Restart
    <2> QED BY <2>1, <2>2, DownA
  <1>5. CASE StopB
    <2>1. B!RunnerInv'
      <3>1. RB!Crash
        BY <1>5, SameStepB DEF StopB
      <3> QED BY <3>1, SameInvB, SameNextB, ConstantsB, RB!CrashKeeps
    <2>2. ~upA /\ UNCHANGED memoryA
      BY <1>5 DEF StopB, memoryA, B!Crash
    <2> QED BY <2>1, <2>2, DownA
  <1>7. CASE RunB
    <2>1. B!RunnerInv'
      <3>1. RB!RunnerStep
        BY <1>7, SameStepB DEF RunB
      <3> QED BY <3>1, SameInvB, SameNextB, ConstantsB, RB!RunnerKeeps
    <2>2. ~upA /\ UNCHANGED memoryA
      BY <1>7 DEF RunB
    <2> QED BY <2>1, <2>2, DownA
  <1> QED
    BY <1>1, <1>2, <1>3, <1>4, <1>5, <1>6, <1>7 DEF ServersNext

LEMMA RunnersInitially == ServersInit => RunnersInv
  <1> SUFFICES ASSUME ServersInit PROVE RunnersInv
    OBVIOUS
  <1> USE RunnersAssumption DEF ServersInit, Asleep
  <1>1. A!RunnerInv
    <2>1. \A t \in A!Tasks : pcA[t] = "off" /\ servingA[t] = A!NoJob /\ workA[t] = A!NoWork
      BY SameWords
    <2>2. /\ job \in [A!Jobs -> A!JobStatuses \cup {A!NoRow}]
          /\ run \in [A!Jobs -> [Collectors -> A!CollectorStatuses \cup {A!NoRow}]]
          /\ rows \in [A!Jobs -> [Collectors -> Nat]]
          /\ attempts \in [A!Jobs -> [Collectors -> Nat]]
          /\ expired = {} /\ created \in 0..NumJobs
          /\ \A j \in A!Jobs : job[j] = A!NoRow
      BY DEF NoRow, A!NoRow, A!NoJob, A!Jobs, A!Tasks, A!NoWork
    <2>3. /\ pcA \in [A!Tasks -> A!TaskPoints]
          /\ servingA \in [A!Tasks -> A!Jobs \cup {A!NoJob}]
          /\ workA \in [A!Tasks -> [Collectors -> A!WorkPoints]]
          /\ eventA \in [A!Jobs -> A!Tasks \cup {NoTask}]
          /\ cancelSetA \in [A!Tasks -> BOOLEAN]
          /\ upA = FALSE /\ crashesA \in 0..MaxCrashes
      BY DEF NoRow, A!NoRow, A!NoJob, A!Jobs, A!Tasks, A!NoWork,
             A!TaskPoints, A!WorkPoints
    <2>4. A!TypeOK
      BY <2>2, <2>3 DEF A!TypeOK
    <2>5. A!TasksStand
      BY ONLY <2>1 DEF A!TasksStand, A!Active, A!NoWork, A!Inside, A!TerminalCollectorStatuses
    <2>6. A!JobsInPlace
      BY <2>2 DEF A!JobsInPlace
    <2> QED
      BY <2>1, <2>3, <2>4, <2>5, <2>6
      DEF A!RunnerInv, A!StoppedIsStill, A!OneTaskEach, A!RunningIsExecuted, A!Serves, A!Active
  <1>2. B!RunnerInv
    <2>1. \A t \in B!Tasks : pcB[t] = "off" /\ servingB[t] = B!NoJob /\ workB[t] = B!NoWork
      BY SameWords
    <2>2. /\ job \in [B!Jobs -> B!JobStatuses \cup {B!NoRow}]
          /\ run \in [B!Jobs -> [Collectors -> B!CollectorStatuses \cup {B!NoRow}]]
          /\ rows \in [B!Jobs -> [Collectors -> Nat]]
          /\ attempts \in [B!Jobs -> [Collectors -> Nat]]
          /\ expired = {} /\ created \in 0..NumJobs
          /\ \A j \in B!Jobs : job[j] = B!NoRow
      BY DEF NoRow, A!NoRow, A!NoJob, A!Jobs, A!Tasks, A!NoWork, B!NoRow, B!NoJob, B!Jobs,
          B!Tasks, B!NoWork
    <2>3. /\ pcB \in [B!Tasks -> B!TaskPoints]
          /\ servingB \in [B!Tasks -> B!Jobs \cup {B!NoJob}]
          /\ workB \in [B!Tasks -> [Collectors -> B!WorkPoints]]
          /\ eventB \in [B!Jobs -> B!Tasks \cup {NoTask}]
          /\ cancelSetB \in [B!Tasks -> BOOLEAN]
          /\ upB = FALSE /\ crashesB \in 0..MaxCrashes
      BY DEF NoRow, A!NoRow, A!NoJob, A!Jobs, A!Tasks, A!NoWork, B!NoRow, B!NoJob, B!Jobs,
          B!Tasks, B!NoWork,
             B!TaskPoints, B!WorkPoints
    <2>4. B!TypeOK
      BY <2>2, <2>3 DEF B!TypeOK
    <2>5. B!TasksStand
      BY ONLY <2>1 DEF B!TasksStand, B!Active, B!NoWork, B!Inside, B!TerminalCollectorStatuses
    <2>6. B!JobsInPlace
      BY <2>2 DEF B!JobsInPlace
    <2> QED
      BY <2>1, <2>3, <2>4, <2>5, <2>6
      DEF B!RunnerInv, B!StoppedIsStill, B!OneTaskEach, B!RunningIsExecuted, B!Serves, B!Active
  <1> QED BY <1>1, <1>2 DEF RunnersInv

(* However the processes are launched and die, each keeps as a runner what *)
(* it would keep alone with the database.                                  *)
THEOREM RunnersHold ==
    ASSUME ~Overlap, ~External, Foreign = {}
    PROVE  ServersSpec => []RunnersInv
  <1>1. RunnersInv /\ Alone /\ Alone' /\ [ServersNext]_serversVars => RunnersInv'
    BY RunnersStutter, RunnersKeep DEF serversVars
  <1>2. ServersSpec => []Alone
    BY ServersAlone
  <1> QED BY <1>1, <1>2, RunnersInitially, PTL DEF ServersSpec

(* No job is run by two tasks, of one process or of two, whatever number   *)
(* of worker loops each of them has.                                       *)
THEOREM OneTaskAnywhere ==
    ASSUME ~Overlap, ~External, Foreign = {}
    PROVE  ServersSpec => []OneTaskPerJob
  <1>1. RunnersInv /\ Alone => OneTaskPerJob
    <2> SUFFICES ASSUME RunnersInv, Alone,
                        NEW j \in A!Jobs, NEW t \in A!Tasks, NEW u \in A!Tasks
                 PROVE  /\ ServesA(t, j) /\ ServesA(u, j) => t = u
                        /\ ServesB(t, j) /\ ServesB(u, j) => t = u
                        /\ ~(ServesA(t, j) /\ ServesB(u, j))
      BY DEF OneTaskPerJob
    <2>1. ServesA(t, j) /\ ServesA(u, j) => t = u
      BY DEF RunnersInv, A!RunnerInv, A!OneTaskEach, ServesA
    <2>2. ServesB(t, j) /\ ServesB(u, j) => t = u
      BY SameWords DEF RunnersInv, B!RunnerInv, B!OneTaskEach, ServesB
    <2>3. ServesA(t, j) => upA
      BY DEF RunnersInv, A!RunnerInv, A!StoppedIsStill, ServesA, A!Serves, A!Active
    <2>4. ServesB(u, j) => upB
      BY SameWords DEF RunnersInv, B!RunnerInv, B!StoppedIsStill, ServesB, B!Serves, B!Active
    <2> QED BY <2>1, <2>2, <2>3, <2>4 DEF Alone
  <1> QED BY <1>1, ServersAlone, RunnersHold, PTL

(* While a server is up, the runs that read RUNNING are those that some    *)
(* process executes: a startup relabels only orphans, and all of them.     *)
THEOREM RunningIsTrue ==
    ASSUME ~Overlap, ~External, Foreign = {}
    PROVE  ServersSpec => []RunningMeansExecuted
  <1>1. RunnersInv /\ Alone => RunningMeansExecuted
    <2> SUFFICES ASSUME RunnersInv, Alone, upA \/ upB,
                        NEW j \in A!Jobs, NEW c \in Collectors
                 PROVE  run[j][c] = "running" <=>
                            \E t \in A!Tasks :
                                \/ ServesA(t, j) /\ Executes(workA, t, c)
                                \/ ServesB(t, j) /\ Executes(workB, t, c)
      BY DEF RunningMeansExecuted
    <2> USE DEF RunnersInv, ServesA, ServesB, Executes
    <2>1. \A t \in A!Tasks : (~upA => ~ServesA(t, j)) /\ (~upB => ~ServesB(t, j))
      BY SameWords
      DEF A!RunnerInv, A!StoppedIsStill, A!Serves, A!Active,
          B!RunnerInv, B!StoppedIsStill, B!Serves, B!Active
    <2>2. CASE upA
      BY <2>1, <2>2 DEF Alone, A!RunnerInv, A!RunningIsExecuted
    <2>3. CASE upB
      BY <2>1, <2>3, SameWords DEF Alone, B!RunnerInv, B!RunningIsExecuted
    <2> QED BY <2>2, <2>3
  <1> QED BY <1>1, ServersAlone, RunnersHold, PTL
-----------------------------------------------------------------------------
(* The two processes as one.                                               *)

LEMMA SameWordsOne ==
    /\ One!TerminalJobStatuses = A!TerminalJobStatuses
    /\ One!TerminalCollectorStatuses = A!TerminalCollectorStatuses
    /\ One!NoRow = A!NoRow
    /\ One!NoJob = A!NoJob
    /\ One!Jobs = A!Jobs
    /\ One!Tasks = A!Tasks
    /\ One!NoWork = A!NoWork
  BY DEF A!TerminalJobStatuses, One!TerminalJobStatuses,
         A!TerminalCollectorStatuses, One!TerminalCollectorStatuses,
         A!NoRow, One!NoRow, A!NoJob, One!NoJob, A!Jobs, One!Jobs,
         A!Tasks, One!Tasks, A!NoWork, One!NoWork

(* A runner does not stop of itself.                                       *)
LEMMA TaskStaysA ==
    ASSUME NEW t, A!TaskStep(t) PROVE UNCHANGED <<upA, crashesA>>
  BY DEF A!TaskStep, A!ClaimNothing, A!ClaimSelect, A!ClaimUpdate, A!ClaimLost,
         A!Register, A!Load, A!SeedDenyList, A!FailJobBeforeDispatch, A!FinishDispatch,
         A!ComputeVerdict, A!FinalizeJob, A!FinalizeRaises, A!Sweep, A!Unregister,
         A!runnerVars

LEMMA CollectorStaysA ==
    ASSUME NEW t, NEW c, A!CollectorStep(t, c) PROVE UNCHANGED <<upA, crashesA>>
  BY DEF A!CollectorStep, A!StartCollector, A!CheckCollector, A!CollectorAnswers,
         A!SaveFindings, A!FinishCollector, A!CollectorRaises

LEMMA StaysA ==
    ASSUME upA, A!RunnerStep PROVE UNCHANGED <<upA, crashesA>>
  <1>1. \A sources \in Selections : A!CreateJob(sources) => UNCHANGED <<upA, crashesA>>
    BY DEF A!CreateJob, A!process
  <1>2. \A j \in A!Jobs : A!Expire(j) => UNCHANGED <<upA, crashesA>>
    BY DEF A!Expire, A!process
  <1>3. ~A!Restart
    BY DEF A!Restart
  <1> QED
    BY <1>1, <1>2, <1>3, TaskStaysA, CollectorStaysA DEF A!RunnerStep

(* What is seen of the one process is a's memory.                          *)
SeenA ==
    /\ upNow = upA /\ pcNow = pcA /\ servingNow = servingA /\ workNow = workA
    /\ eventNow = eventA /\ cancelSetNow = cancelSetA

LEMMA TaskSeenA ==
    ASSUME SeenA, SeenA', UNCHANGED crashesNow, NEW t, A!TaskStep(t)
    PROVE  One!TaskStep(t)
  <1> USE SameWordsOne DEF SeenA, One!TaskStep, A!database, One!database
  <1>1. CASE A!ClaimNothing(t)
    BY <1>1 DEF A!ClaimNothing, One!ClaimNothing, A!runnerVars, One!runnerVars
  <1>2. CASE \E j \in A!Jobs : A!ClaimSelect(t, j)
    BY <1>2 DEF A!ClaimSelect, One!ClaimSelect, A!OldestQueued, One!OldestQueued
  <1>3. CASE A!ClaimUpdate(t)
    BY <1>3 DEF A!ClaimUpdate, One!ClaimUpdate
  <1>4. CASE A!ClaimLost(t)
    BY <1>4 DEF A!ClaimLost, One!ClaimLost
  <1>5. CASE A!Register(t) \/ A!Unregister(t)
    BY <1>5 DEF A!Register, One!Register, A!Unregister, One!Unregister
  <1>6. CASE A!Load(t)
    BY <1>6 DEF A!Load, One!Load, A!Pending, One!Pending
  <1>7. CASE A!SeedDenyList(t)
    BY <1>7 DEF A!SeedDenyList, One!SeedDenyList
  <1>8. CASE A!FailJobBeforeDispatch(t)
    BY <1>8 DEF A!FailJobBeforeDispatch, One!FailJobBeforeDispatch
  <1>9. CASE A!FinishDispatch(t)
    BY <1>9 DEF A!FinishDispatch, One!FinishDispatch, A!Idle, One!Idle
  <1>10. CASE A!ComputeVerdict(t)
    <2>1. \A S : A!ComputeJobStatus(S) = One!ComputeJobStatus(S)
      BY DEF A!ComputeJobStatus, One!ComputeJobStatus
    <2>2. \A j : A!RunStatuses(j) = One!RunStatuses(j)
      BY DEF A!RunStatuses, One!RunStatuses
    <2> QED BY <1>10, <2>1, <2>2 DEF A!ComputeVerdict, One!ComputeVerdict
  <1>11. CASE A!FinalizeJob(t) \/ A!FinalizeRaises(t)
    BY <1>11 DEF A!FinalizeJob, One!FinalizeJob, A!FinalizeRaises, One!FinalizeRaises
  <1>12. CASE A!Sweep(t)
    <2>1. \A cascade : A!SweepRetention(cascade) <=> One!SweepRetention(cascade)
      BY DEF A!SweepRetention, One!SweepRetention
    <2> QED BY <1>12, <2>1 DEF A!Sweep, One!Sweep
  <1> QED
    BY <1>1, <1>2, <1>3, <1>4, <1>5, <1>6, <1>7, <1>8, <1>9, <1>10, <1>11, <1>12
    DEF A!TaskStep

LEMMA CollectorSeenA ==
    ASSUME SeenA, SeenA', UNCHANGED crashesNow, NEW t, NEW c, A!CollectorStep(t, c)
    PROVE  One!CollectorStep(t, c)
  <1>1. A!Holding(t) = One!Holding(t)
    BY DEF SeenA, A!Holding, One!Holding
  <1>2. A!MayStart(t, c) <=> One!MayStart(t, c)
    BY <1>1 DEF SeenA, A!MayStart, One!MayStart, A!Idle, One!Idle, A!Cardinality,
       One!Cardinality
  <1> QED
    BY SameWordsOne, <1>2 DEF SeenA, A!CollectorStep, One!CollectorStep,
     A!StartCollector, One!StartCollector, A!CheckCollector, One!CheckCollector,
     A!CollectorAnswers, One!CollectorAnswers, A!SaveFindings, One!SaveFindings,
     A!FinishCollector, One!FinishCollector, A!CollectorRaises,
     One!CollectorRaises, A!database, One!database

(* A step of a's runner is one of the one runner.                          *)
LEMMA StepSeenA ==
    ASSUME SeenA, SeenA', UNCHANGED crashesNow, upA, A!RunnerStep
    PROVE  One!RunnerStep
  <1>1. ASSUME NEW sources \in Selections, A!CreateJob(sources)
        PROVE  One!CreateJob(sources)
    BY <1>1, SameWordsOne DEF SeenA, A!CreateJob, One!CreateJob, A!process, One!process
  <1>2. ASSUME NEW j \in A!Jobs, A!Expire(j)
        PROVE  One!Expire(j)
    BY <1>2, SameWordsOne DEF SeenA, A!Expire, One!Expire, A!process, One!process
  <1>3. ASSUME NEW t \in A!Tasks, A!TaskStep(t)
        PROVE  One!TaskStep(t)
    BY <1>3, TaskSeenA
  <1>4. ASSUME NEW t \in A!Tasks, NEW c \in Collectors, A!CollectorStep(t, c)
        PROVE  One!CollectorStep(t, c)
    BY <1>4, CollectorSeenA
  <1>5. ~A!Restart
    BY DEF A!Restart
  <1> QED
    BY <1>1, <1>2, <1>3, <1>4, <1>5, SameWordsOne DEF A!RunnerStep, One!RunnerStep

LEMMA SameWordsOneB ==
    /\ One!TerminalJobStatuses = B!TerminalJobStatuses
    /\ One!TerminalCollectorStatuses = B!TerminalCollectorStatuses
    /\ One!NoRow = B!NoRow
    /\ One!NoJob = B!NoJob
    /\ One!Jobs = B!Jobs
    /\ One!Tasks = B!Tasks
    /\ One!NoWork = B!NoWork
  BY SameWords, SameWordsOne

(* A runner does not stop of itself.                                       *)
LEMMA TaskStaysB ==
    ASSUME NEW t, B!TaskStep(t) PROVE UNCHANGED <<upB, crashesB>>
  BY DEF B!TaskStep, B!ClaimNothing, B!ClaimSelect, B!ClaimUpdate, B!ClaimLost,
         B!Register, B!Load, B!SeedDenyList, B!FailJobBeforeDispatch, B!FinishDispatch,
         B!ComputeVerdict, B!FinalizeJob, B!FinalizeRaises, B!Sweep, B!Unregister,
         B!runnerVars

LEMMA CollectorStaysB ==
    ASSUME NEW t, NEW c, B!CollectorStep(t, c) PROVE UNCHANGED <<upB, crashesB>>
  BY DEF B!CollectorStep, B!StartCollector, B!CheckCollector, B!CollectorAnswers,
         B!SaveFindings, B!FinishCollector, B!CollectorRaises

LEMMA StaysB ==
    ASSUME upB, B!RunnerStep PROVE UNCHANGED <<upB, crashesB>>
  <1>1. \A sources \in Selections : B!CreateJob(sources) => UNCHANGED <<upB, crashesB>>
    BY DEF B!CreateJob, B!process
  <1>2. \A j \in B!Jobs : B!Expire(j) => UNCHANGED <<upB, crashesB>>
    BY DEF B!Expire, B!process
  <1>3. ~B!Restart
    BY DEF B!Restart
  <1> QED
    BY <1>1, <1>2, <1>3, TaskStaysB, CollectorStaysB DEF B!RunnerStep

(* What is seen of the one process is b's memory.                          *)
SeenB ==
    /\ upNow = upB /\ pcNow = pcB /\ servingNow = servingB /\ workNow = workB
    /\ eventNow = eventB /\ cancelSetNow = cancelSetB

LEMMA TaskSeenB ==
    ASSUME SeenB, SeenB', UNCHANGED crashesNow, NEW t, B!TaskStep(t)
    PROVE  One!TaskStep(t)
  <1> USE SameWordsOneB DEF SeenB, One!TaskStep, B!database, One!database
  <1>1. CASE B!ClaimNothing(t)
    BY <1>1 DEF B!ClaimNothing, One!ClaimNothing, B!runnerVars, One!runnerVars
  <1>2. CASE \E j \in B!Jobs : B!ClaimSelect(t, j)
    BY <1>2 DEF B!ClaimSelect, One!ClaimSelect, B!OldestQueued, One!OldestQueued
  <1>3. CASE B!ClaimUpdate(t)
    BY <1>3 DEF B!ClaimUpdate, One!ClaimUpdate
  <1>4. CASE B!ClaimLost(t)
    BY <1>4 DEF B!ClaimLost, One!ClaimLost
  <1>5. CASE B!Register(t) \/ B!Unregister(t)
    BY <1>5 DEF B!Register, One!Register, B!Unregister, One!Unregister
  <1>6. CASE B!Load(t)
    BY <1>6 DEF B!Load, One!Load, B!Pending, One!Pending
  <1>7. CASE B!SeedDenyList(t)
    BY <1>7 DEF B!SeedDenyList, One!SeedDenyList
  <1>8. CASE B!FailJobBeforeDispatch(t)
    BY <1>8 DEF B!FailJobBeforeDispatch, One!FailJobBeforeDispatch
  <1>9. CASE B!FinishDispatch(t)
    BY <1>9 DEF B!FinishDispatch, One!FinishDispatch, B!Idle, One!Idle
  <1>10. CASE B!ComputeVerdict(t)
    <2>1. \A S : B!ComputeJobStatus(S) = One!ComputeJobStatus(S)
      BY DEF B!ComputeJobStatus, One!ComputeJobStatus
    <2>2. \A j : B!RunStatuses(j) = One!RunStatuses(j)
      BY DEF B!RunStatuses, One!RunStatuses
    <2> QED BY <1>10, <2>1, <2>2 DEF B!ComputeVerdict, One!ComputeVerdict
  <1>11. CASE B!FinalizeJob(t) \/ B!FinalizeRaises(t)
    BY <1>11 DEF B!FinalizeJob, One!FinalizeJob, B!FinalizeRaises, One!FinalizeRaises
  <1>12. CASE B!Sweep(t)
    <2>1. \A cascade : B!SweepRetention(cascade) <=> One!SweepRetention(cascade)
      BY DEF B!SweepRetention, One!SweepRetention
    <2> QED BY <1>12, <2>1 DEF B!Sweep, One!Sweep
  <1> QED
    BY <1>1, <1>2, <1>3, <1>4, <1>5, <1>6, <1>7, <1>8, <1>9, <1>10, <1>11, <1>12
    DEF B!TaskStep

LEMMA CollectorSeenB ==
    ASSUME SeenB, SeenB', UNCHANGED crashesNow, NEW t, NEW c, B!CollectorStep(t, c)
    PROVE  One!CollectorStep(t, c)
  <1>1. B!Holding(t) = One!Holding(t)
    BY DEF SeenB, B!Holding, One!Holding
  <1>2. B!MayStart(t, c) <=> One!MayStart(t, c)
    BY <1>1 DEF SeenB, B!MayStart, One!MayStart, B!Idle, One!Idle, B!Cardinality,
       One!Cardinality
  <1> QED
    BY SameWordsOneB, <1>2 DEF SeenB, B!CollectorStep, One!CollectorStep,
     B!StartCollector, One!StartCollector, B!CheckCollector, One!CheckCollector,
     B!CollectorAnswers, One!CollectorAnswers, B!SaveFindings, One!SaveFindings,
     B!FinishCollector, One!FinishCollector, B!CollectorRaises,
     One!CollectorRaises, B!database, One!database

(* A step of b's runner is one of the one runner.                          *)
LEMMA StepSeenB ==
    ASSUME SeenB, SeenB', UNCHANGED crashesNow, upB, B!RunnerStep
    PROVE  One!RunnerStep
  <1>1. ASSUME NEW sources \in Selections, B!CreateJob(sources)
        PROVE  One!CreateJob(sources)
    BY <1>1, SameWordsOneB DEF SeenB, B!CreateJob, One!CreateJob, B!process, One!process
  <1>2. ASSUME NEW j \in B!Jobs, B!Expire(j)
        PROVE  One!Expire(j)
    BY <1>2, SameWordsOneB DEF SeenB, B!Expire, One!Expire, B!process, One!process
  <1>3. ASSUME NEW t \in B!Tasks, B!TaskStep(t)
        PROVE  One!TaskStep(t)
    BY <1>3, TaskSeenB
  <1>4. ASSUME NEW t \in B!Tasks, NEW c \in Collectors, B!CollectorStep(t, c)
        PROVE  One!CollectorStep(t, c)
    BY <1>4, CollectorSeenB
  <1>5. ~B!Restart
    BY DEF B!Restart
  <1> QED
    BY <1>1, <1>2, <1>3, <1>4, <1>5, SameWordsOneB DEF B!RunnerStep, One!RunnerStep

(* A process that is down has nothing in its memory; before the first      *)
(* start there is nothing in the database.                                 *)
DownIsEmptyA ==
    ~upA => /\ pcA = [t \in A!Tasks |-> "off"]
            /\ servingA = [t \in A!Tasks |-> A!NoJob]
            /\ workA = [t \in A!Tasks |-> A!NoWork]
            /\ eventA = [j \in A!Jobs |-> NoTask]
            /\ cancelSetA = [t \in A!Tasks |-> FALSE]

DownIsEmptyB ==
    ~upB => /\ pcB = [t \in A!Tasks |-> "off"]
            /\ servingB = [t \in A!Tasks |-> A!NoJob]
            /\ workB = [t \in A!Tasks |-> A!NoWork]
            /\ eventB = [j \in A!Jobs |-> NoTask]
            /\ cancelSetB = [t \in A!Tasks |-> FALSE]

CrashesInBounds == crashesA \in 0..MaxCrashes /\ crashesB \in 0..MaxCrashes

Fresh ==
    /\ job = [j \in A!Jobs |-> A!NoRow]
    /\ run = [j \in A!Jobs |-> [c \in Collectors |-> A!NoRow]]
    /\ rows = [j \in A!Jobs |-> [c \in Collectors |-> 0]]
    /\ attempts = [j \in A!Jobs |-> [c \in Collectors |-> 0]]
    /\ expired = {}
    /\ created = 0

AsOneInv ==
    /\ upA \in BOOLEAN /\ upB \in BOOLEAN
    /\ CrashesInBounds
    /\ DownIsEmptyA
    /\ DownIsEmptyB
    /\ Unstarted => Fresh

LEMMA AsOneInitially == ServersInit => AsOneInv
  <1> SUFFICES ASSUME ServersInit PROVE AsOneInv
    OBVIOUS
  <1> USE DEF ServersInit, Asleep
  <1>1. CrashesInBounds
    BY RunnersAssumption DEF CrashesInBounds
  <1>2. DownIsEmptyA
    BY DEF DownIsEmptyA
  <1>3. DownIsEmptyB
    BY DEF DownIsEmptyB
  <1>4. Fresh
    BY DEF Fresh, NoRow, A!NoRow
  <1> QED BY <1>1, <1>2, <1>3, <1>4 DEF AsOneInv

LEMMA AsOneStutter ==
    ASSUME AsOneInv, UNCHANGED <<shared, memoryA, memoryB>>
    PROVE  AsOneInv'
  BY DEF AsOneInv, CrashesInBounds, DownIsEmptyA, DownIsEmptyB, Fresh, Unstarted,
         shared, memoryA, memoryB

LEMMA AsOneKept ==
    ASSUME AsOneInv, Alone, ServersNext
    PROVE  AsOneInv'
  <1>m. MaxCrashes \in Nat
    BY RunnersAssumption
  <1>c. crashesA \in Nat /\ crashesB \in Nat
    BY <1>m DEF AsOneInv, CrashesInBounds
  <1>1. ASSUME NEW l \in Launchers, LockOnly(l) PROVE AsOneInv'
    BY <1>1, AsOneStutter DEF LockOnly
  <1>2. CASE RecoverA
    <2>1. ~upA /\ upA' /\ UNCHANGED crashesA /\ UNCHANGED memoryB
      BY <1>2 DEF RecoverA, A!Restart
    <2>2. upA' \in BOOLEAN
      BY <1>2 DEF RecoverA, A!Restart
    <2> QED
      BY <2>1, <2>2 DEF AsOneInv, CrashesInBounds, DownIsEmptyA, DownIsEmptyB, Unstarted, memoryB
  <1>3. CASE RecoverB
    <2>1. ~upB /\ upB' /\ UNCHANGED crashesB /\ UNCHANGED memoryA
      BY <1>3 DEF RecoverB, B!Restart
    <2>2. upB' \in BOOLEAN
      BY <1>3 DEF RecoverB, B!Restart
    <2> QED
      BY <2>1, <2>2 DEF AsOneInv, CrashesInBounds, DownIsEmptyA, DownIsEmptyB, Unstarted, memoryA
  <1>4. CASE StopA
    <2>1. /\ upA' = FALSE /\ crashesA' = crashesA + 1 /\ crashesA < MaxCrashes
          /\ UNCHANGED memoryB
      BY <1>4 DEF StopA, A!Crash
    <2>2. DownIsEmptyA'
      BY <1>4 DEF StopA, A!Crash, DownIsEmptyA
    <2>3. CrashesInBounds' /\ crashesA' + crashesB' # 0
      BY <2>1, <1>m, <1>c DEF AsOneInv, CrashesInBounds, memoryB
    <2> QED
      BY <2>1, <2>2, <2>3 DEF AsOneInv, DownIsEmptyB, Unstarted, memoryB
  <1>5. CASE StopB
    <2>1. /\ upB' = FALSE /\ crashesB' = crashesB + 1 /\ crashesB < MaxCrashes
          /\ UNCHANGED memoryA
      BY <1>5 DEF StopB, B!Crash
    <2>2. DownIsEmptyB'
      BY <1>5, SameWords DEF StopB, B!Crash, DownIsEmptyB
    <2>3. CrashesInBounds' /\ crashesA' + crashesB' # 0
      BY <2>1, <1>m, <1>c DEF AsOneInv, CrashesInBounds, memoryA
    <2> QED
      BY <2>1, <2>2, <2>3 DEF AsOneInv, DownIsEmptyA, Unstarted, memoryA
  <1>6. CASE RunA
    BY <1>6, StaysA
    DEF RunA, AsOneInv, CrashesInBounds, DownIsEmptyA, DownIsEmptyB, Unstarted, memoryB
  <1>7. CASE RunB
    BY <1>7, StaysB
    DEF RunB, AsOneInv, CrashesInBounds, DownIsEmptyA, DownIsEmptyB, Unstarted, memoryA
  <1> QED
    BY <1>1, <1>2, <1>3, <1>4, <1>5, <1>6, <1>7 DEF ServersNext

(* Who is seen.                                                            *)
LEMMA SeesA == ASSUME AsOneInv, upA, ~upB PROVE SeenA
  BY DEF AsOneInv, SeenA, Unstarted, upNow, pcNow, servingNow, workNow, eventNow, cancelSetNow

LEMMA SeesB == ASSUME AsOneInv, upB, ~upA PROVE SeenB
  BY DEF AsOneInv, SeenB, Unstarted, upNow, pcNow, servingNow, workNow, eventNow, cancelSetNow

LEMMA SeesAPrime == ASSUME AsOneInv', upA', ~upB' PROVE SeenA'
  BY DEF AsOneInv, SeenA, Unstarted, upNow, pcNow, servingNow, workNow, eventNow, cancelSetNow

LEMMA SeesBPrime == ASSUME AsOneInv', upB', ~upA' PROVE SeenB'
  BY DEF AsOneInv, SeenB, Unstarted, upNow, pcNow, servingNow, workNow, eventNow, cancelSetNow

(* Between two servers what is seen is an empty memory.                    *)
Empty ==
    /\ servingNow = [t \in A!Tasks |-> A!NoJob]
    /\ workNow = [t \in A!Tasks |-> A!NoWork]
    /\ eventNow = [j \in A!Jobs |-> NoTask]
    /\ cancelSetNow = [t \in A!Tasks |-> FALSE]

LEMMA SeesNobody == ASSUME AsOneInv, ~upA, ~upB PROVE Empty
  BY DEF AsOneInv, DownIsEmptyA, Empty, servingNow, workNow, eventNow, cancelSetNow

LEMMA SeesNobodyPrime ==
    ASSUME AsOneInv', ~upA', ~upB', ~Unstarted'
    PROVE  /\ Empty'
           /\ pcNow' = [t \in A!Tasks |-> "off"]
           /\ upNow' = FALSE
  BY DEF AsOneInv, DownIsEmptyA, Empty, Unstarted, upNow, pcNow, servingNow, workNow,
         eventNow, cancelSetNow

LEMMA OneInitially == ServersInit => One!RunnerInit
  <1> SUFFICES ASSUME ServersInit PROVE One!RunnerInit
    OBVIOUS
  <1>1. AsOneInv /\ ~upA /\ ~upB /\ Unstarted
    BY AsOneInitially DEF ServersInit, Asleep, Unstarted
  <1>2. Empty
    BY <1>1, SeesNobody
  <1>3. /\ upNow = TRUE
        /\ crashesNow = 0
        /\ pcNow = [t \in A!Tasks |-> IF t \in Workers THEN "poll" ELSE "off"]
    BY <1>1 DEF upNow, crashesNow, pcNow, ServersInit, Asleep
  <1>4. Fresh
    BY <1>1 DEF AsOneInv
  <1> QED
    BY <1>2, <1>3, <1>4, SameWordsOne DEF One!RunnerInit, Fresh, Empty

(* The first server of all starts on an empty database.                    *)
LEMMA FirstStartA ==
    ASSUME AsOneInv, AsOneInv', Alone', Unstarted, RecoverA
    PROVE  UNCHANGED One!runnerVars
  <1>1. /\ ~upA /\ ~upB /\ upA' /\ ~upB' /\ A!Restart
        /\ UNCHANGED <<crashesA, crashesB, workA, cancelSetA>>
    BY DEF Unstarted, RecoverA, A!Restart, memoryB, Alone
  <1>2. SeenA' /\ Empty /\ Fresh /\ DownIsEmptyA
    BY <1>1, SeesAPrime, SeesNobody DEF AsOneInv
  <1>3. \A j \in A!Jobs : ~A!Resumable(j)
    BY <1>2 DEF Fresh, A!Resumable, A!NoRow
  <1>4. {j \in expired : job[j] \in A!TerminalJobStatuses} = {}
    BY <1>2 DEF Fresh
  <1>5. UNCHANGED <<job, expired, created>>
    BY <1>1, <1>2, <1>4 DEF A!Restart, Fresh
  <1>6. UNCHANGED <<run, rows, attempts>>
    BY <1>1, <1>2, <1>4 DEF A!Restart, Fresh, A!Recovered, A!NoRow
  <1>7. /\ pcA' = [t \in A!Tasks |-> IF t \in Workers THEN "poll" ELSE "off"]
        /\ servingA' = [t \in A!Tasks |-> A!NoJob]
        /\ eventA' = [j \in A!Jobs |-> NoTask]
    BY <1>1, <1>3 DEF A!Restart, A!Tasks
  <1>8. UNCHANGED <<upNow, crashesNow, pcNow>>
    BY <1>1, <1>2, <1>7 DEF SeenA, upNow, crashesNow, pcNow
  <1>9. UNCHANGED <<servingNow, workNow, eventNow, cancelSetNow>>
    BY <1>1, <1>2, <1>7 DEF SeenA, Empty, DownIsEmptyA
  <1> QED
    BY <1>5, <1>6, <1>8, <1>9 DEF One!runnerVars

(* A later one finds what the last one left.                               *)
LEMMA LaterStartA ==
    ASSUME AsOneInv, AsOneInv', Alone', ~Unstarted, RecoverA
    PROVE  One!Restart
  <1>1. /\ ~upA /\ upA' /\ ~upB' /\ ~upB /\ A!Restart
        /\ UNCHANGED <<crashesA, crashesB, workA, cancelSetA>>
    BY DEF RecoverA, A!Restart, memoryB, Alone
  <1>2. SeenA' /\ Empty /\ DownIsEmptyA /\ ~upNow
    BY <1>1, SeesAPrime, SeesNobody DEF AsOneInv, upNow
  <1>3. UNCHANGED <<crashesNow, workNow, cancelSetNow>>
    BY <1>1, <1>2 DEF SeenA, Empty, DownIsEmptyA, crashesNow
  <1>4. /\ upNow' = TRUE
        /\ pcNow' = pcA' /\ servingNow' = servingA' /\ eventNow' = eventA'
    BY <1>1, <1>2 DEF SeenA, A!Restart
  <1>5. /\ \A s : A!Recovered(s) = One!Recovered(s)
        /\ \A j : A!Resumable(j) <=> One!Resumable(j)
    BY DEF A!Recovered, One!Recovered, A!Resumable, One!Resumable
  <1> QED
    BY <1>1, <1>2, <1>3, <1>4, <1>5, SameWordsOne DEF A!Restart, One!Restart

(* The end of a server is the crash of the one.                            *)
LEMMA StopSeenA ==
    ASSUME AsOneInv, AsOneInv', Alone, StopA
    PROVE  One!Crash
  <1>m. MaxCrashes \in Nat /\ crashesA \in 0..MaxCrashes /\ crashesB \in 0..MaxCrashes
    BY RunnersAssumption DEF AsOneInv, CrashesInBounds
  <1>1. /\ upA /\ ~upB /\ ~upA' /\ ~upB'
        /\ crashesA < MaxCrashes /\ crashesA' = crashesA + 1 /\ crashesB' = crashesB
        /\ UNCHANGED <<job, run, rows, attempts, expired, created>>
    BY DEF StopA, A!Crash, A!database, memoryB, Alone
  <1>2. ~Unstarted'
    BY <1>1, <1>m DEF Unstarted
  <1>3. Empty' /\ pcNow' = [t \in A!Tasks |-> "off"] /\ upNow' = FALSE
    BY <1>1, <1>2, SeesNobodyPrime
  <1>4. upNow /\ crashesNow < 2 * MaxCrashes /\ crashesNow' = crashesNow + 1
    BY <1>1, <1>m DEF upNow, crashesNow
  <1> QED
    BY <1>1, <1>3, <1>4, SameWordsOne DEF One!Crash, One!database, Empty

(* A runner at work is the one at work.                                    *)
LEMMA RunSeenA ==
    ASSUME AsOneInv, AsOneInv', Alone, RunA
    PROVE  One!RunnerStep
  <1>1. upA /\ ~upB /\ A!RunnerStep /\ UNCHANGED <<upB, crashesB>>
    BY DEF RunA, memoryB, Alone
  <1>2. UNCHANGED <<upA, crashesA>>
    BY <1>1, StaysA
  <1>3. SeenA /\ SeenA'
    BY <1>1, <1>2, SeesA, SeesAPrime
  <1>4. UNCHANGED crashesNow
    BY <1>1, <1>2 DEF crashesNow
  <1> QED BY <1>1, <1>3, <1>4, StepSeenA

(* The first server of all starts on an empty database.                    *)
LEMMA FirstStartB ==
    ASSUME AsOneInv, AsOneInv', Alone', Unstarted, RecoverB
    PROVE  UNCHANGED One!runnerVars
  <1> USE SameWords
  <1>1. /\ ~upB /\ ~upA /\ upB' /\ ~upA' /\ B!Restart
        /\ UNCHANGED <<crashesB, crashesA, workB, cancelSetB>>
    BY DEF Unstarted, RecoverB, B!Restart, memoryA, Alone
  <1>2. SeenB' /\ Empty /\ Fresh /\ DownIsEmptyB
    BY <1>1, SeesBPrime, SeesNobody DEF AsOneInv
  <1>3. \A j \in B!Jobs : ~B!Resumable(j)
    BY <1>2 DEF Fresh, B!Resumable, B!NoRow
  <1>4. {j \in expired : job[j] \in B!TerminalJobStatuses} = {}
    BY <1>2 DEF Fresh
  <1>5. UNCHANGED <<job, expired, created>>
    BY <1>1, <1>2, <1>4 DEF B!Restart, Fresh
  <1>6. UNCHANGED <<run, rows, attempts>>
    BY <1>1, <1>2, <1>4 DEF B!Restart, Fresh, B!Recovered, B!NoRow
  <1>7. /\ pcB' = [t \in B!Tasks |-> IF t \in Workers THEN "poll" ELSE "off"]
        /\ servingB' = [t \in B!Tasks |-> A!NoJob]
        /\ eventB' = [j \in B!Jobs |-> NoTask]
    BY <1>1, <1>3 DEF B!Restart, B!Tasks
  <1>8. UNCHANGED <<upNow, crashesNow, pcNow>>
    BY <1>1, <1>2, <1>7 DEF SeenB, upNow, crashesNow, pcNow
  <1>9. UNCHANGED <<servingNow, workNow, eventNow, cancelSetNow>>
    BY <1>1, <1>2, <1>7 DEF SeenB, Empty, DownIsEmptyB
  <1> QED
    BY <1>5, <1>6, <1>8, <1>9 DEF One!runnerVars

(* A later one finds what the last one left.                               *)
LEMMA LaterStartB ==
    ASSUME AsOneInv, AsOneInv', Alone', ~Unstarted, RecoverB
    PROVE  One!Restart
  <1>1. /\ ~upB /\ upB' /\ ~upA' /\ ~upA /\ B!Restart
        /\ UNCHANGED <<crashesB, crashesA, workB, cancelSetB>>
    BY DEF RecoverB, B!Restart, memoryA, Alone
  <1>2. SeenB' /\ Empty /\ DownIsEmptyB /\ ~upNow
    BY <1>1, SeesBPrime, SeesNobody DEF AsOneInv, upNow
  <1>3. UNCHANGED <<crashesNow, workNow, cancelSetNow>>
    BY <1>1, <1>2 DEF SeenB, Empty, DownIsEmptyB, crashesNow
  <1>4. /\ upNow' = TRUE
        /\ pcNow' = pcB' /\ servingNow' = servingB' /\ eventNow' = eventB'
    BY <1>1, <1>2 DEF SeenB, B!Restart
  <1>5. /\ \A s : B!Recovered(s) = One!Recovered(s)
        /\ \A j : B!Resumable(j) <=> One!Resumable(j)
    BY DEF B!Recovered, One!Recovered, B!Resumable, One!Resumable
  <1> QED
    BY <1>1, <1>2, <1>3, <1>4, <1>5, SameWordsOneB, SameWords DEF B!Restart, One!Restart

(* The end of a server is the crash of the one.                            *)
LEMMA StopSeenB ==
    ASSUME AsOneInv, AsOneInv', Alone, StopB
    PROVE  One!Crash
  <1>m. MaxCrashes \in Nat /\ crashesB \in 0..MaxCrashes /\ crashesA \in 0..MaxCrashes
    BY RunnersAssumption DEF AsOneInv, CrashesInBounds
  <1>1. /\ upB /\ ~upA /\ ~upB' /\ ~upA'
        /\ crashesB < MaxCrashes /\ crashesB' = crashesB + 1 /\ crashesA' = crashesA
        /\ UNCHANGED <<job, run, rows, attempts, expired, created>>
    BY DEF StopB, B!Crash, B!database, memoryA, Alone
  <1>2. ~Unstarted'
    BY <1>1, <1>m DEF Unstarted
  <1>3. Empty' /\ pcNow' = [t \in B!Tasks |-> "off"] /\ upNow' = FALSE
    BY <1>1, <1>2, SeesNobodyPrime, SameWords
  <1>4. upNow /\ crashesNow < 2 * MaxCrashes /\ crashesNow' = crashesNow + 1
    BY <1>1, <1>m DEF upNow, crashesNow
  <1> QED
    BY <1>1, <1>3, <1>4, SameWordsOneB, SameWords DEF One!Crash, One!database, Empty

(* A runner at work is the one at work.                                    *)
LEMMA RunSeenB ==
    ASSUME AsOneInv, AsOneInv', Alone, RunB
    PROVE  One!RunnerStep
  <1>1. upB /\ ~upA /\ B!RunnerStep /\ UNCHANGED <<upA, crashesA>>
    BY DEF RunB, memoryA, Alone
  <1>2. UNCHANGED <<upB, crashesB>>
    BY <1>1, StaysB
  <1>3. SeenB /\ SeenB'
    BY <1>1, <1>2, SeesB, SeesBPrime
  <1>4. UNCHANGED crashesNow
    BY <1>1, <1>2 DEF crashesNow
  <1> QED BY <1>1, <1>3, <1>4, StepSeenB

LEMMA StepAsOne ==
    ASSUME AsOneInv, AsOneInv', Alone, Alone', ServersNext
    PROVE  One!RunnerNext \/ UNCHANGED One!runnerVars
  <1>1. ASSUME NEW l \in Launchers, LockOnly(l) PROVE UNCHANGED One!runnerVars
    BY <1>1 DEF LockOnly, shared, memoryA, memoryB, One!runnerVars, upNow, crashesNow,
                pcNow, servingNow, workNow, eventNow, cancelSetNow, Unstarted
  <1>2. CASE RecoverA \/ RecoverB
    BY <1>2, FirstStartA, FirstStartB, LaterStartA, LaterStartB
    DEF One!RunnerNext, One!RunnerStep
  <1>3. CASE StopA \/ StopB
    BY <1>3, StopSeenA, StopSeenB DEF One!RunnerNext
  <1>4. CASE RunA \/ RunB
    BY <1>4, RunSeenA, RunSeenB DEF One!RunnerNext
  <1> QED
    BY <1>1, <1>2, <1>3, <1>4 DEF ServersNext

(* Two launchers behind the lock are, seen from the database and from      *)
(* outside, the one server of JobRunner: each step of theirs is a step of  *)
(* it or none.                                                             *)
THEOREM ServersActAsOne ==
    ASSUME ~Overlap, ~External, Foreign = {}
    PROVE  ServersSpec => ActsAsOne
  <1>1. AsOneInv /\ Alone /\ [ServersNext]_serversVars => AsOneInv'
    BY AsOneStutter, AsOneKept DEF serversVars
  <1>2. /\ AsOneInv /\ AsOneInv' /\ Alone /\ Alone' /\ [ServersNext]_serversVars
        => [One!RunnerNext]_(One!runnerVars)
    <2> SUFFICES ASSUME AsOneInv, AsOneInv', Alone, Alone', [ServersNext]_serversVars
                 PROVE  [One!RunnerNext]_(One!runnerVars)
      OBVIOUS
    <2>1. CASE ServersNext
      BY <2>1, StepAsOne
    <2>2. CASE UNCHANGED serversVars
      BY <2>2 DEF serversVars, shared, memoryA, memoryB, One!runnerVars, upNow, crashesNow,
                  pcNow, servingNow, workNow, eventNow, cancelSetNow, Unstarted
    <2> QED BY <2>1, <2>2
  <1>3. ServersInit => AsOneInv /\ One!RunnerInit
    BY AsOneInitially, OneInitially
  <1>4. ServersSpec => []Alone
    BY ServersAlone
  <1> QED BY <1>1, <1>2, <1>3, <1>4, PTL DEF ServersSpec, ActsAsOne, One!RunnerSpec
=============================================================================
