----------------------------- MODULE EventStream -----------------------------
(***************************************************************************)
(* The progress of one job over server-sent events: the job_events table   *)
(* (backend/app/jobs/events.py), the generator that streams it             *)
(* (backend/app/api/jobs.py, _sse_event_stream and job_events) and clients *)
(* that reconnect with Last-Event-ID.  The job itself is reduced to its    *)
(* status and to the transactions that write an event (JobRunner has the   *)
(* whole of it).                                                           *)
(*                                                                         *)
(* The generator reads the events and then the job with two statements;    *)
(* another transaction may commit in between.                              *)
(***************************************************************************)
EXTENDS LedgerEnums, Naturals, Sequences, SequencesExt

CONSTANTS
    Connections,    \* the streams that may be opened
    Followers,      \* those of clients that reconnect by themselves
    Verdicts,       \* bound: the verdicts the job may be given
    MaxEvents,      \* bound: events written for the job
    MaxRequeues,    \* bound: how often a collector of the job is retried
    MaxFaults       \* bound: connections and requests the network loses

ASSUME StreamAssumption ==
    /\ Followers \subseteq Connections
    /\ Verdicts \subseteq TerminalJobStatuses
    /\ MaxEvents \in Nat /\ MaxRequeues \in Nat /\ MaxFaults \in Nat

VARIABLES
    status,     \* Job.status, or NoRow
    log,        \* the id of the newest job_events row of the job
    requeues,   \* how often the job was requeued
    faults,     \* what the network has lost so far
    point,      \* point[k]: where the generator of connection k stands
    seen,       \* seen[k]: its seen_id
    batch,      \* batch[k]: the events it has read and not yet sent
    over,       \* over[k]: the job it has read was gone or had ended
    wire,       \* wire[k]: ids sent and not yet received
    heard       \* heard[k]: ids received, over all connections of client k

jobVars == <<status, log, requeues>>
generatorVars == <<point, seen, batch, over>>
streamVars == <<status, log, requeues, faults, point, seen, batch, over, wire, heard>>

Ids == 1..MaxEvents

(* "absent": a client that never asks; "closed": no request; "broken": the *)
(* server has returned, or the network has lost the connection, and the    *)
(* client does not know yet.                                               *)
Points == {"absent", "closed", "events", "job", "send", "broken"}

StreamTypeOK ==
    /\ status \in JobStatuses \cup {NoRow}
    /\ log \in 0..MaxEvents
    /\ requeues \in 0..MaxRequeues
    /\ faults \in 0..MaxFaults
    /\ point \in [Connections -> Points]
    /\ seen \in [Connections -> 0..MaxEvents]
    /\ batch \in [Connections -> Seq(Ids)]
    /\ over \in [Connections -> BOOLEAN]
    /\ wire \in [Connections -> Seq(Ids)]
    /\ heard \in [Connections -> Seq(Ids)]

(* The job has just been created; nobody listens yet.                      *)
StreamInit ==
    /\ status = "queued"
    /\ log = 0
    /\ requeues = 0
    /\ faults = 0
    /\ point = [k \in Connections |-> "closed"]
    /\ seen = [k \in Connections |-> 0]
    /\ batch = [k \in Connections |-> <<>>]
    /\ over = [k \in Connections |-> FALSE]
    /\ wire = [k \in Connections |-> <<>>]
    /\ heard = [k \in Connections |-> <<>>]

-----------------------------------------------------------------------------
(* The job.  SQLite has one writer at a time, so ids become visible in the *)
(* order in which emit hands them out.                                     *)

Claim ==
    /\ status = "queued"
    /\ status' = "running"
    /\ UNCHANGED <<log, requeues, faults, generatorVars, wire, heard>>

(* A task is at work on the job.  One that was requeued under its hands,   *)
(* between the claim and run_job, it finishes all the same; from here that *)
(* cannot be told from a requeued job which nobody has claimed yet.        *)
Working == status = "running" \/ (status = "queued" /\ requeues > 0)

(* collector_started and collector_finished.                               *)
Emit ==
    /\ Working
    /\ log < MaxEvents
    /\ log' = log + 1
    /\ UNCHANGED <<status, requeues, faults, generatorVars, wire, heard>>

(* The verdict and job_finished are one transaction; so are a cancellation *)
(* of a queued job and its job_finished.                                   *)
Finish(verdict) ==
    /\ Working \/ (status = "queued" /\ verdict = "canceled")
    /\ log < MaxEvents
    /\ status' = verdict
    /\ log' = log + 1
    /\ UNCHANGED <<requeues, faults, generatorVars, wire, heard>>

(* retry_collector takes any job that no task has registered for and that  *)
(* has a failed collector, whatever the job's own status: one that waits   *)
(* already, too, and one that was just claimed.  Each failure has left an  *)
(* event, and may be retried once; a completed job has none.  No event is  *)
(* written.                                                                *)
Requeued ==
    /\ status \notin {NoRow, "completed"}
    /\ requeues < log
    /\ requeues < MaxRequeues
    /\ requeues' = requeues + 1
    /\ status' = "queued"
    /\ UNCHANGED log

(* delete_job takes the events with the job.                               *)
Delete ==
    /\ status # NoRow
    /\ status' = NoRow
    /\ UNCHANGED <<log, requeues, faults, generatorVars, wire, heard>>

-----------------------------------------------------------------------------
(* The generator.                                                          *)

(* GET events, with the Last-Event-ID header the client sends (0 without). *)
Open(k, lastEventId) ==
    /\ point' = [point EXCEPT ![k] = "events"]
    /\ seen' = [seen EXCEPT ![k] = lastEventId]
    /\ batch' = [batch EXCEPT ![k] = <<>>]
    /\ over' = [over EXCEPT ![k] = FALSE]
    /\ wire' = [wire EXCEPT ![k] = <<>>]

NewEvents(k) ==
    IF status = NoRow THEN <<>> ELSE [i \in 1..(log - seen[k]) |-> seen[k] + i]

ReadEvents(k) ==
    /\ point[k] = "events"
    /\ batch' = [batch EXCEPT ![k] = NewEvents(k)]
    /\ point' = [point EXCEPT ![k] = "job"]
    /\ UNCHANGED <<jobVars, faults, seen, over, wire, heard>>

ReadJob(k) ==
    /\ point[k] = "job"
    /\ over' = [over EXCEPT ![k] = status \in TerminalJobStatuses \cup {NoRow}]
    /\ point' = [point EXCEPT ![k] = "send"]
    /\ UNCHANGED <<jobVars, faults, seen, batch, wire, heard>>

(* The generator of connection k is gone, with what it remembered.         *)
Forget(k) ==
    /\ seen' = [seen EXCEPT ![k] = 0]
    /\ batch' = [batch EXCEPT ![k] = <<>>]
    /\ over' = [over EXCEPT ![k] = FALSE]

(* A variant of SendEvents whose seen_id is the newest id there is instead *)
(* of the last one sent.                                                   *)
SendEvents_SkipsAhead(k) ==
    /\ point[k] = "send"
    /\ wire' = [wire EXCEPT ![k] = @ \o batch[k]]
    /\ \/ over[k] /\ point' = [point EXCEPT ![k] = "broken"] /\ Forget(k)
       \/ /\ ~over[k]
          /\ point' = [point EXCEPT ![k] = "events"]
          /\ seen' = [seen EXCEPT ![k] = log]
          /\ batch' = [batch EXCEPT ![k] = <<>>]
          /\ UNCHANGED over
    /\ UNCHANGED <<jobVars, faults, heard>>

(* The events are sent, seen_id becomes the last of them; then the stream  *)
(* ends or sleeps and polls again.                                         *)
SendEvents(k) ==
    /\ point[k] = "send"
    /\ wire' = [wire EXCEPT ![k] = @ \o batch[k]]
    /\ \/ over[k] /\ point' = [point EXCEPT ![k] = "broken"] /\ Forget(k)
       \/ /\ ~over[k]
          /\ point' = [point EXCEPT ![k] = "events"]
          /\ seen' = [seen EXCEPT ![k] = IF batch[k] = <<>> THEN @ ELSE Last(batch[k])]
          /\ batch' = [batch EXCEPT ![k] = <<>>]
          /\ UNCHANGED over
    /\ UNCHANGED <<jobVars, faults, heard>>

(* The network loses the connection, with what is on the wire.             *)
Drop(k) ==
    /\ point[k] \in {"events", "job", "send"}
    /\ faults < MaxFaults
    /\ faults' = faults + 1
    /\ point' = [point EXCEPT ![k] = "broken"]
    /\ wire' = [wire EXCEPT ![k] = <<>>]
    /\ Forget(k)
    /\ UNCHANGED <<jobVars, heard>>

Generate(k) == ReadEvents(k) \/ ReadJob(k) \/ SendEvents(k)

-----------------------------------------------------------------------------
(* A client that follows the stream as browsers do: after the end of a     *)
(* connection it opens another one, from the last event it has received.   *)

(* A variant of Reconnect that always asks for the events from the first.  *)
Reconnect_FromTheStart(k) ==
    /\ point[k] = "closed"
    /\ Open(k, 0)
    /\ UNCHANGED <<jobVars, faults, heard>>

Reconnect(k) ==
    /\ point[k] = "closed"
    /\ Open(k, IF heard[k] = <<>> THEN 0 ELSE Last(heard[k]))
    /\ UNCHANGED <<jobVars, faults, heard>>

Hear(k) ==
    /\ wire[k] # <<>>
    /\ heard' = [heard EXCEPT ![k] = Append(@, Head(wire[k]))]
    /\ wire' = [wire EXCEPT ![k] = Tail(@)]
    /\ UNCHANGED <<jobVars, faults, generatorVars>>

(* The end of the stream is noticed after everything on the wire.          *)
Closed(k) ==
    /\ point[k] = "broken"
    /\ wire[k] = <<>>
    /\ point' = [point EXCEPT ![k] = "closed"]
    /\ UNCHANGED <<jobVars, faults, seen, batch, over, wire, heard>>

Follow(k) == Reconnect(k) \/ Hear(k) \/ Closed(k)

JobStep ==
    \/ Claim
    \/ Emit
    \/ \E verdict \in Verdicts : Finish(verdict)
    \/ Delete

StreamNext ==
    \/ JobStep
    \/ Requeued /\ UNCHANGED <<faults, generatorVars, wire, heard>>
    \/ \E k \in Connections : Generate(k) \/ Drop(k)
    \/ \E k \in Followers : Follow(k)

StreamSpec == StreamInit /\ [][StreamNext]_streamVars

(* The event loop runs every generator, a client reads what arrives and a  *)
(* browser reconnects; the job is not obliged to go on.                    *)
FairStreamSpec ==
    /\ StreamSpec
    /\ \A k \in Connections : WF_streamVars(Generate(k))
    /\ \A k \in Followers : WF_streamVars(Follow(k))

-----------------------------------------------------------------------------
(* What a follower has received is the log from its beginning, without a   *)
(* gap, a repetition or a change of order, over any number of connections  *)
(* (job_events: "lets a client resume a dropped connection without missing *)
(* events").                                                               *)
HeardInOrder ==
    \A k \in Followers : \A i \in DOMAIN heard[k] : heard[k][i] = i

(* What makes it inductive: what is on the wire goes on where the client   *)
(* has stopped, and the generator where the wire does.                     *)
Consecutive(ids, n) == \A i \in DOMAIN ids : ids[i] = n + i

FollowerInv(k) ==
    /\ Consecutive(heard[k], 0)
    /\ Consecutive(wire[k], Len(heard[k]))
    /\ point[k] \in {"absent", "closed"} => wire[k] = <<>>
    /\ point[k] \in {"events", "job", "send"} => seen[k] = Len(heard[k]) + Len(wire[k])
    /\ point[k] \in {"job", "send"} => Consecutive(batch[k], seen[k])

(* A follower of a job that is not deleted catches up with its log again   *)
(* and again: it receives every event, also the job_finished a generator   *)
(* did not see because it was committed between its two SELECTs.           *)
HearsEverything ==
    \A k \in Followers :
        []<>(ToSet(heard[k]) = 1..log \/ status = NoRow \/ point[k] = "absent")
=============================================================================
