------------------------------ MODULE Servers ------------------------------
(***************************************************************************)
(* Two launchers of the server on one database: the lifespan of            *)
(* backend/app/main.py takes the lock (WorkerLock), recovers, runs the job *)
(* runner (JobRunner, one instance of its memory for each process) and     *)
(* gives the lock back.  JobRunner supposes that it is alone with the      *)
(* database; this module asks whether WorkerLock makes it so.              *)
(***************************************************************************)
EXTENDS WorkerLock, LedgerEnums

CONSTANTS
    a, b,           \* the two launchers
    NumJobs, Collectors, Deferred, Unregistered, Unsupported, Selections, Workers,
    MaxConcurrentCollectors, MaxCrashes, Expirable, NoTask  \* see JobRunner

ASSUME TwoLaunchers == Launchers = {a, b} /\ a # b
ASSUME RunnersAssumption ==     \* those of JobRunner
    /\ NumJobs \in Nat
    /\ Workers \cap (0..NumJobs) = {}
    /\ NoTask \notin Workers \cup 1..NumJobs
    /\ Deferred \subseteq Collectors
    /\ Unregistered \subseteq Collectors
    /\ Unsupported \subseteq Collectors
    /\ Selections \subseteq (SUBSET Collectors) \ {{}}
    /\ MaxConcurrentCollectors \in Nat \ {0}
    /\ MaxCrashes \in Nat
    /\ Expirable \subseteq 1..NumJobs

VARIABLES
    job, run, rows, attempts, expired, created,                       \* the database
    upA, crashesA, pcA, servingA, workA, eventA, cancelSetA,          \* a's process
    upB, crashesB, pcB, servingB, workB, eventB, cancelSetB           \* b's process

A == INSTANCE JobRunner WITH
        up <- upA, crashes <- crashesA, pc <- pcA, serving <- servingA,
        work <- workA, event <- eventA, cancelSet <- cancelSetA
B == INSTANCE JobRunner WITH
        up <- upB, crashes <- crashesB, pc <- pcB, serving <- servingB,
        work <- workB, event <- eventB, cancelSet <- cancelSetB

shared == <<job, run, rows, attempts, expired, created>>
memoryA == <<upA, crashesA, pcA, servingA, workA, eventA, cancelSetA>>
memoryB == <<upB, crashesB, pcB, servingB, workB, eventB, cancelSetB>>
serversVars == <<lockVars, shared, memoryA, memoryB>>

(* Before its lifespan has started a process has no tasks.                 *)
Asleep(up, crashes, pc, serving, work, event, cancelSet) ==
    /\ up = FALSE
    /\ crashes = 0
    /\ pc = [t \in A!Tasks |-> "off"]
    /\ serving = [t \in A!Tasks |-> A!NoJob]
    /\ work = [t \in A!Tasks |-> A!NoWork]
    /\ event = [j \in A!Jobs |-> NoTask]
    /\ cancelSet = [t \in A!Tasks |-> FALSE]

ServersInit ==
    /\ LockInit
    /\ job = [j \in A!Jobs |-> NoRow]
    /\ run = [j \in A!Jobs |-> [c \in Collectors |-> NoRow]]
    /\ rows = [j \in A!Jobs |-> [c \in Collectors |-> 0]]
    /\ attempts = [j \in A!Jobs |-> [c \in Collectors |-> 0]]
    /\ expired = {}
    /\ created = 0
    /\ Asleep(upA, crashesA, pcA, servingA, workA, eventA, cancelSetA)
    /\ Asleep(upB, crashesB, pcB, servingB, workB, eventB, cancelSetB)

(* acquire, release and the end of a process that serves no more.          *)
LockOnly(l) ==
    /\ Launch(l) \/ Exists(l) \/ Read(l) \/ Probe(l) \/ WriteFile(l) \/ Release(l)
       \/ (End(l) /\ stage[l] # "serving")
    /\ UNCHANGED <<shared, memoryA, memoryB>>

(* recover_on_startup, the sweep and the resumption, once the lock is won. *)
RecoverA == Serve(a) /\ A!Restart /\ UNCHANGED memoryB
RecoverB == Serve(b) /\ B!Restart /\ UNCHANGED memoryA

(* The tasks are cancelled, or the process dies with them.                 *)
StopA == (Shutdown(a) \/ (End(a) /\ stage[a] = "serving")) /\ A!Crash /\ UNCHANGED memoryB
StopB == (Shutdown(b) \/ (End(b) /\ stage[b] = "serving")) /\ B!Crash /\ UNCHANGED memoryA

RunA == upA /\ A!RunnerStep /\ UNCHANGED <<lockVars, memoryB>>
RunB == upB /\ B!RunnerStep /\ UNCHANGED <<lockVars, memoryA>>

ServersNext ==
    \/ \E l \in Launchers : LockOnly(l)
    \/ RecoverA \/ RecoverB
    \/ StopA \/ StopB
    \/ RunA \/ RunB

ServersSpec == ServersInit /\ [][ServersNext]_serversVars

-----------------------------------------------------------------------------
(* JobRunner supposes that its process is alone with the database: it is.  *)
Alone == ~(upA /\ upB)

(* What makes Alone inductive: who serves has the lock.                    *)
ServersInv ==
    /\ LockInv
    /\ upA => stage[a] = "serving"
    /\ upB => stage[b] = "serving"

(* The two runners, each with what it would keep alone.                    *)
RunnersInv == A!RunnerInv /\ B!RunnerInv

ServesA(t, j) == A!Serves(t, j)
ServesB(t, j) == B!Serves(t, j)

(* A job is run by one task of one server at most, whatever the processes  *)
(* and their worker loops do (runner.py claim_next_queued_job and          *)
(* is_active know nothing of another process).                             *)
OneTaskPerJob ==
    \A j \in A!Jobs : \A t, u \in A!Tasks :
        /\ ServesA(t, j) /\ ServesA(u, j) => t = u
        /\ ServesB(t, j) /\ ServesB(u, j) => t = u
        /\ ~(ServesA(t, j) /\ ServesB(u, j))

(* While a server is up, a collector run reads RUNNING exactly while a     *)
(* coroutine of it is executing it: no startup relabels a run that another *)
(* server still executes, and none forgets one that died with its server   *)
(* (runner.py recover_on_startup takes every RUNNING run for an orphan).   *)
Executes(work, t, c) == work[t][c] \in A!Inside

RunningMeansExecuted ==
    upA \/ upB =>
        \A j \in A!Jobs, c \in Collectors :
            run[j][c] = "running" <=>
                \E t \in A!Tasks :
                    \/ ServesA(t, j) /\ Executes(workA, t, c)
                    \/ ServesB(t, j) /\ Executes(workB, t, c)
-----------------------------------------------------------------------------
(* Seen from the database and from outside, there is one server: the one   *)
(* that is up, or the last one that was.  Before the first launch it is    *)
(* taken for one that has started and found nothing.                       *)
Unstarted == ~upA /\ ~upB /\ crashesA + crashesB = 0

upNow == upA \/ upB \/ Unstarted
crashesNow == crashesA + crashesB
pcNow ==
    IF Unstarted THEN [t \in A!Tasks |-> IF t \in Workers THEN "poll" ELSE "off"]
    ELSE IF upB THEN pcB ELSE pcA
servingNow == IF upB THEN servingB ELSE servingA
workNow == IF upB THEN workB ELSE workA
eventNow == IF upB THEN eventB ELSE eventA
cancelSetNow == IF upB THEN cancelSetB ELSE cancelSetA

One == INSTANCE JobRunner WITH
        MaxCrashes <- 2 * MaxCrashes,
        up <- upNow, crashes <- crashesNow, pc <- pcNow, serving <- servingNow,
        work <- workNow, event <- eventNow, cancelSet <- cancelSetNow

(* Whatever is launched, stopped and crashes, the processes together do    *)
(* what the one process of JobRunner does: nobody works on the database    *)
(* besides it, a new server goes on where the last one was when it         *)
(* stopped, and a refused one leaves no trace (jobs/worker_lock.py 50-91,  *)
(* the lifespan of main.py).                                               *)
ActsAsOne == One!RunnerSpec
=============================================================================
