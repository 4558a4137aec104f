----------------------------- MODULE WorkerLock -----------------------------
(***************************************************************************)
(* The PID file that keeps a second server from the same database          *)
(* (backend/app/jobs/worker_lock.py), and the lifespan of                  *)
(* backend/app/main.py around it.  Every access to the file is a step of   *)
(* its own, so launches, shutdowns and crashes interleave with them.       *)
(*                                                                         *)
(* A launcher is whatever starts the server (a shell, a supervisor); it    *)
(* may start it again after it has ended.                                  *)
(***************************************************************************)
EXTENDS Naturals

CONSTANTS
    Launchers,      \* who starts servers on this database
    MaxLaunches,    \* bound: launches in a behaviour
    ReusePids,      \* the system gives the PID of an ended process out again
    Overlap,        \* two launches may be under way at once
    Foreign,        \* launchers of another user: signalling their processes fails
    External        \* settings.external_worker_configured

Pids == 1..MaxLaunches
NoPid == 0          \* no file, or what is in it is not a number

ASSUME LaunchesAssumption == MaxLaunches \in Nat
ASSUME LockSettings ==
    /\ ReusePids \in BOOLEAN /\ Overlap \in BOOLEAN /\ External \in BOOLEAN
    /\ Foreign \subseteq Launchers

VARIABLES
    stage,      \* stage[l]: how far l's process has come
    pid,        \* pid[l]: its process id
    holder,     \* holder[l]: the holder_pid it has read
    lockFile,   \* the PID in the lock file, or NoPid if there is none
    launches    \* how many launches there have been

lockVars == <<stage, pid, holder, lockFile, launches>>

Starting == {"exists", "read", "probe", "write"}
Holding == {"won", "serving", "stopping"}
Stages == {"off", "refused", "leaving"} \cup Starting \cup Holding

LockTypeOK ==
    /\ stage \in [Launchers -> Stages]
    /\ pid \in [Launchers -> Pids \cup {NoPid}]
    /\ holder \in [Launchers -> Pids \cup {NoPid}]
    /\ lockFile \in Pids \cup {NoPid}
    /\ launches \in 0..MaxLaunches

LockInit ==
    /\ stage = [l \in Launchers |-> "off"]
    /\ pid = [l \in Launchers |-> NoPid]
    /\ holder = [l \in Launchers |-> NoPid]
    /\ lockFile = NoPid
    /\ launches = 0

Goto(l, there) == stage' = [stage EXCEPT ![l] = there]

Lives(l) == stage[l] # "off"

(* A process starts with a PID that no process has.                        *)
Launch(l) ==
    /\ ~Lives(l)
    /\ launches < MaxLaunches
    /\ Overlap \/ \A k \in Launchers : stage[k] \notin Starting
    /\ launches' = launches + 1
    /\ \E p \in Pids :
          /\ IF ReusePids THEN \A k \in Launchers : Lives(k) => pid[k] # p
                          ELSE p = launches + 1
          /\ pid' = [pid EXCEPT ![l] = p]
    /\ Goto(l, IF External THEN "won" ELSE "exists")
    /\ UNCHANGED <<holder, lockFile>>

-----------------------------------------------------------------------------
(* acquire.                                                                *)

Exists(l) ==
    /\ stage[l] = "exists"
    /\ Goto(l, IF lockFile # NoPid THEN "read" ELSE "write")
    /\ UNCHANGED <<pid, holder, lockFile, launches>>

(* A file that has gone in the meantime reads as no holder.                *)
Read(l) ==
    /\ stage[l] = "read"
    /\ holder' = [holder EXCEPT ![l] = lockFile]
    /\ Goto(l, "probe")
    /\ UNCHANGED <<pid, lockFile, launches>>

(* A variant of PidIsAlive that asks for a server that answers requests.   *)
PidIsAlive_Serving(l, p) ==
    \E k \in Launchers : pid[k] = p /\ stage[k] = "serving"

(* A variant of PidIsAlive that takes the file's word for it.              *)
PidIsAlive_AnyPid(l, p) == p # NoPid

(* _pid_is_alive: one's own PID is; otherwise signal 0 tells, which fails  *)
(* for a process of another user as it does for one that has ended.        *)
PidIsAlive(l, p) ==
    \E k \in Launchers :
        /\ Lives(k) /\ pid[k] = p
        /\ (k \in Foreign) = (l \in Foreign)

Probe(l) ==
    /\ stage[l] = "probe"
    /\ Goto(l, IF PidIsAlive(l, holder[l]) THEN "refused" ELSE "write")
    /\ UNCHANGED <<pid, holder, lockFile, launches>>

WriteFile(l) ==
    /\ stage[l] = "write"
    /\ lockFile' = pid[l]
    /\ Goto(l, "won")
    /\ UNCHANGED <<pid, holder, launches>>

-----------------------------------------------------------------------------
(* The lifespan: recover, serve, cancel the tasks, release.                *)

(* A variant of Serve that only logs the refusal.                          *)
Serve_RefusalLogged(l) ==
    /\ stage[l] \in {"won", "refused"}
    /\ Goto(l, "serving")
    /\ UNCHANGED <<pid, holder, lockFile, launches>>

Serve(l) ==
    /\ stage[l] = "won"
    /\ Goto(l, "serving")
    /\ UNCHANGED <<pid, holder, lockFile, launches>>

Shutdown(l) ==
    /\ stage[l] = "serving"
    /\ Goto(l, "stopping")
    /\ UNCHANGED <<pid, holder, lockFile, launches>>

(* release unlinks the file if there is one, whoever wrote it.             *)
Release(l) ==
    /\ stage[l] = "stopping"
    /\ lockFile' = IF External THEN lockFile ELSE NoPid
    /\ Goto(l, "leaving")
    /\ UNCHANGED <<pid, holder, launches>>

(* The process ends: after its release, refused, or by a crash at any      *)
(* point, which leaves the file where it is.                               *)
End(l) ==
    /\ Lives(l)
    /\ Goto(l, "off")
    /\ UNCHANGED <<pid, holder, lockFile, launches>>

LockStep(l) ==
    \/ Launch(l) \/ Exists(l) \/ Read(l) \/ Probe(l) \/ WriteFile(l)
    \/ Serve(l) \/ Shutdown(l) \/ Release(l) \/ End(l)

LockNext == \E l \in Launchers : LockStep(l)

LockSpec == LockInit /\ [][LockNext]_lockVars

-----------------------------------------------------------------------------
(* One worker process at most, from the moment it has the lock until its   *)
(* tasks are cancelled and the lock is released.                           *)
OneServer ==
    \A k, l \in Launchers : stage[k] \in Holding /\ stage[l] \in Holding => k = l

(* A launch is only ever refused for a server that has the lock, or is     *)
(* just leaving with it: the file of one that crashed refuses nobody       *)
(* (worker_lock.py _pid_is_alive).                                         *)
RefusedForAServer ==
    [][\A l \in Launchers :
          stage[l] = "probe" /\ stage'[l] = "refused" =>
              \E k \in Launchers \ {l} : stage[k] \in Holding \cup {"leaving"}]_lockVars

(* PIDs tell the processes apart.                                          *)
DistinctPids ==
    /\ \A k \in Launchers : Lives(k) => pid[k] # NoPid
    /\ \A k, l \in Launchers : Lives(k) /\ Lives(l) /\ pid[k] = pid[l] => k = l

(* The file names the server that is running, and a launch that has looked *)
(* has seen it.                                                            *)
FileNamesServer ==
    \A k \in Launchers :
        stage[k] \in Holding =>
            /\ lockFile = pid[k]
            /\ \A l \in Launchers :
                   /\ stage[l] # "write"
                   /\ stage[l] = "probe" => holder[l] = pid[k]

(* What makes OneServer inductive: one launch at a time looks at the file, *)
(* and the file does not let it past the server that is running.           *)
LockInv ==
    /\ LockTypeOK
    /\ DistinctPids
    /\ \A k, l \in Launchers : stage[k] \in Starting /\ stage[l] \in Starting => k = l
    /\ FileNamesServer
    /\ OneServer

(* The PIDs that have been written or read were given out, and their       *)
(* processes, if they live, have had the lock.                             *)
LockNames ==
    /\ \A k \in Launchers : pid[k] <= launches /\ holder[k] <= launches
    /\ lockFile <= launches
    /\ \A k \in Launchers :
           /\ Lives(k)
           /\ \/ lockFile = pid[k]
              \/ \E l \in Launchers : stage[l] = "probe" /\ holder[l] = pid[k]
           => stage[k] \in Holding \cup {"leaving"}
=============================================================================
