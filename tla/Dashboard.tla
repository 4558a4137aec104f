------------------------------ MODULE Dashboard ------------------------------
(***************************************************************************)
(* The dashboard's view of one job: the hook useJob                        *)
(* (frontend/src/features/progress/useJob.ts) over EventStream, with the   *)
(* retry of a collector in App.tsx.  A message of the stream is only a     *)
(* signal to fetch the job again; when the stream breaks the hook polls.   *)
(*                                                                         *)
(* Connection g is the EventSource of the hook's generation g: a new       *)
(* generation begins with every reconnect().  The effect's cleanup sets    *)
(* cancelled for the old one, closes its source and stops the polling, but *)
(* does not abort the requests that are under way.                         *)
(***************************************************************************)
EXTENDS EventStream

CONSTANTS
    MaxGenerations,  \* bound: generations of the hook
    MaxUnderWay,     \* bound: requests under way at a time
    InOrder          \* the network keeps the order of requests and answers

Generations == 1..MaxGenerations

ASSUME DashboardAssumption ==
    /\ Connections = Generations \cup Followers
    /\ Generations \cap Followers = {}
    /\ MaxGenerations = MaxRequeues + 1
    /\ MaxUnderWay \in Nat \ {0}
    /\ InOrder \in BOOLEAN

VARIABLES
    generation,   \* the current generation
    polling,      \* pollHandle.current: the generation that set it, or 0
    shown,        \* the status of the job in the hook's state, or NoRow
    connection,   \* connectionState
    opened,       \* the EventSource of the current generation has had onopen
    requests,     \* the requests under way, in the order they were made
    missed        \* history: the job was requeued without the hook being told

hookVars == <<generation, polling, shown, connection, opened, requests, missed>>
dashboardVars == <<status, log, requeues, faults, point, seen, batch, over,
                   wire, heard, hookVars>>

(* What asked for a fetch decides what is done with its answer.            *)
Fetches == {"load", "message", "poll"}
Waiting == "waiting"
Unreachable == "unreachable"
Answers == {Waiting, Unreachable, "accepted"} \cup JobStatuses \cup {NoRow}
RequestsMade == [kind : Fetches \cup {"retry"}, generation : Generations, answer : Answers]

DashboardTypeOK ==
    /\ StreamTypeOK
    /\ generation \in Generations
    /\ polling \in Generations \cup {0}
    /\ shown \in JobStatuses \cup {NoRow}
    /\ connection \in {"connecting", "live", "polling", "stopped"}
    /\ opened \in BOOLEAN
    /\ requests \in Seq(RequestsMade)
    /\ Len(requests) <= MaxUnderWay
    /\ missed \in BOOLEAN

Ask(kind, g) ==
    /\ Len(requests) < MaxUnderWay
    /\ requests' = Append(requests, [kind |-> kind, generation |-> g, answer |-> Waiting])

(* Another client follows the stream, and the dashboard is not open.       *)
Watched == \E k \in Followers : point[k] # "absent"

(* The dashboard opens: the first generation's effect has run.  Or else a  *)
(* client of its own follows the stream.                                   *)
DashboardInit ==
    /\ status = "queued"
    /\ log = 0
    /\ requeues = 0
    /\ faults = 0
    /\ seen = [k \in Connections |-> 0]
    /\ batch = [k \in Connections |-> <<>>]
    /\ over = [k \in Connections |-> FALSE]
    /\ wire = [k \in Connections |-> <<>>]
    /\ heard = [k \in Connections |-> <<>>]
    /\ generation = 1
    /\ polling = 0
    /\ shown = NoRow
    /\ connection = "connecting"
    /\ opened = FALSE
    /\ missed = FALSE
    /\ \/ /\ point = [k \in Connections |-> IF k \in Followers THEN "absent"
                                           ELSE IF k = 1 THEN "events" ELSE "closed"]
          /\ requests = <<[kind |-> "load", generation |-> 1, answer |-> Waiting]>>
       \/ /\ Followers # {}
          /\ point = [k \in Connections |-> "closed"]
          /\ requests = <<>>

-----------------------------------------------------------------------------
(* The EventSource.                                                        *)

CloseSource(g) ==
    /\ point' = [point EXCEPT ![g] = "closed"]
    /\ wire' = [wire EXCEPT ![g] = <<>>]
    /\ Forget(g)

OnOpen(g) ==
    /\ g = generation
    /\ point[g] # "closed"
    /\ ~opened
    /\ opened' = TRUE
    /\ connection' = "live"
    /\ UNCHANGED <<streamVars, generation, polling, shown, requests, missed>>

(* The browser announces a connection before its first message.            *)
OnMessage(g) ==
    /\ opened
    /\ point[g] # "closed"
    /\ wire[g] # <<>>
    /\ wire' = [wire EXCEPT ![g] = Tail(@)]
    /\ Ask("message", g)
    /\ UNCHANGED <<jobVars, faults, generatorVars, heard,
                   generation, polling, shown, connection, opened, missed>>

(* A variant of OnError that leaves the reconnection to the browser.       *)
OnError_NotPolling(g) ==
    /\ point[g] = "broken"
    /\ wire[g] = <<>>
    /\ CloseSource(g)
    /\ UNCHANGED <<jobVars, faults, heard, hookVars>>

(* Also the regular end of the stream is an error to an EventSource.       *)
OnError(g) ==
    /\ point[g] = "broken"
    /\ wire[g] = <<>>
    /\ CloseSource(g)
    /\ IF g = generation
       THEN polling' = g /\ connection' = "polling"
       ELSE UNCHANGED <<polling, connection>>
    /\ UNCHANGED <<jobVars, faults, heard, generation, shown, opened, requests, missed>>

(* The interval fires whether or not its last request was answered.        *)
Tick ==
    /\ polling # 0
    /\ Ask("poll", polling)
    /\ UNCHANGED <<streamVars, generation, polling, shown, connection, opened, missed>>

-----------------------------------------------------------------------------
(* Requests.                                                               *)

MayAnswer(i) ==
    /\ requests[i].answer = Waiting
    /\ InOrder => \A h \in 1..(i - 1) : requests[h].answer # Waiting

MayArrive(i) ==
    /\ requests[i].answer # Waiting
    /\ InOrder => i = 1

(* get_job reads the job's row.                                            *)
AnswerFetch(i) ==
    /\ requests[i].kind \in Fetches
    /\ MayAnswer(i)
    /\ requests' = [requests EXCEPT ![i].answer = status]
    /\ UNCHANGED <<streamVars, generation, polling, shown, connection, opened, missed>>

(* retry_collector requeues the job, or refuses: the job is gone or has a  *)
(* task, or the collector is not in a failed state any more.               *)
AnswerRetry(i) ==
    /\ requests[i].kind = "retry"
    /\ MayAnswer(i)
    /\ \/ /\ Requeued
          /\ requests' = [requests EXCEPT ![i].answer = "accepted"]
       \/ /\ requests' = [requests EXCEPT ![i].answer = Unreachable]
          /\ UNCHANGED jobVars
    /\ UNCHANGED <<faults, generatorVars, wire, heard,
                   generation, polling, shown, connection, opened, missed>>

(* The network loses a fetch, or the answer to a fetch or a retry.  A retry *)
(* that is lost on its way is a refused one to the hook.                   *)
LoseRequest(i) ==
    /\ requests[i].answer # Unreachable
    /\ requests[i].kind = "retry" => requests[i].answer = "accepted"
    /\ faults < MaxFaults
    /\ faults' = faults + 1
    /\ requests' = [requests EXCEPT ![i].answer = Unreachable]
    /\ missed' = (missed \/ requests[i].answer = "accepted")
    /\ UNCHANGED <<jobVars, generatorVars, wire, heard,
                   generation, polling, shown, connection, opened>>

(* A variant of FetchArrives that stops polling at the first answer.       *)
FetchArrives_StopsAtOnce(i) ==
    LET q == requests[i] IN
    /\ q.kind \in Fetches
    /\ MayArrive(i)
    /\ requests' = RemoveAt(requests, i)
    /\ shown' = IF q.generation = generation /\ q.answer \in JobStatuses
                THEN q.answer ELSE shown
    /\ IF q.answer \in JobStatuses /\ q.kind # "load"
       THEN /\ connection' = "stopped"
            /\ IF q.kind = "message"
               THEN CloseSource(q.generation) /\ UNCHANGED polling
               ELSE polling' = 0 /\ UNCHANGED <<generatorVars, wire>>
       ELSE UNCHANGED <<connection, polling, generatorVars, wire>>
    /\ UNCHANGED <<jobVars, faults, heard, generation, opened, missed>>

(* refetch and what its caller does with the answer.  Only setJob asks     *)
(* whether the generation was cancelled.                                   *)
FetchArrives(i) ==
    LET q == requests[i] IN
    /\ q.kind \in Fetches
    /\ MayArrive(i)
    /\ requests' = RemoveAt(requests, i)
    /\ shown' = IF q.generation = generation /\ q.answer \in JobStatuses
                THEN q.answer ELSE shown
    /\ IF q.answer \in TerminalJobStatuses /\ q.kind # "load"
       THEN /\ connection' = "stopped"
            /\ IF q.kind = "message"
               THEN CloseSource(q.generation) /\ UNCHANGED polling
               ELSE polling' = 0 /\ UNCHANGED <<generatorVars, wire>>
       ELSE UNCHANGED <<connection, polling, generatorVars, wire>>
    /\ UNCHANGED <<jobVars, faults, heard, generation, opened, missed>>

-----------------------------------------------------------------------------
(* The Retry buttons of ProgressView, and the reconnect once a request was *)
(* accepted.                                                               *)

(* There is a button for each failed collector as long as the job is shown *)
(* with a verdict.  Only the one that was pressed last is disabled, so     *)
(* that several retries may be under way (bound: with room for a fetch, or *)
(* once another one was accepted).                                         *)
Retry ==
    /\ shown \in TerminalJobStatuses \ {"completed"}
    /\ \/ Len(requests) + 1 < MaxUnderWay
       \/ \E i \in DOMAIN requests : requests[i].answer = "accepted"
    /\ Ask("retry", generation)
    /\ UNCHANGED <<streamVars, generation, polling, shown, connection, opened, missed>>

(* The cleanup of the old generation and the effect of the new one, for    *)
(* each accepted retry.                                                    *)
RetryArrives(i) ==
    /\ requests[i].kind = "retry"
    /\ MayArrive(i)
    /\ IF requests[i].answer = "accepted"
       THEN /\ generation < MaxGenerations
            /\ LET next == generation + 1 IN
               /\ generation' = next
               /\ polling' = 0
               /\ connection' = "connecting"
               /\ opened' = FALSE
               /\ requests' = Append(RemoveAt(requests, i),
                       [kind |-> "load", generation |-> next, answer |-> Waiting])
               /\ point' = [point EXCEPT ![generation] = "closed", ![next] = "events"]
               /\ wire' = [wire EXCEPT ![generation] = <<>>, ![next] = <<>>]
               /\ Forget(generation)
       ELSE /\ requests' = RemoveAt(requests, i)
            /\ UNCHANGED <<generation, polling, connection, opened, generatorVars, wire>>
    /\ UNCHANGED <<jobVars, faults, heard, shown, missed>>

-----------------------------------------------------------------------------
(* The retry of somebody else, in another window or with a client of the   *)
(* API: nothing tells the dashboard.                                       *)
OthersRetry ==
    /\ Requeued
    /\ missed' = TRUE
    /\ UNCHANGED <<faults, generatorVars, wire, heard,
                   generation, polling, shown, connection, opened, requests>>

Others ==
    \/ JobStep
    \/ \E k \in Connections : Generate(k) \/ Drop(k)
    \/ \E k \in Followers : Follow(k)

Hook(g) == OnOpen(g) \/ OnMessage(g) \/ OnError(g)

Arrives(i) == FetchArrives(i) \/ RetryArrives(i)

DashboardNext ==
    \/ Others /\ UNCHANGED hookVars
    \/ OthersRetry
    \/ \E g \in Generations : Hook(g)
    \/ Tick
    \/ Retry
    \/ \E i \in DOMAIN requests :
          AnswerFetch(i) \/ AnswerRetry(i) \/ LoseRequest(i) \/ Arrives(i)

DashboardSpec == DashboardInit /\ [][DashboardNext]_dashboardVars

Answered == \E i \in DOMAIN requests : AnswerFetch(i) \/ AnswerRetry(i)
Delivered == \E i \in DOMAIN requests : Arrives(i)

(* The server answers, answers arrive, the browser runs its callbacks and  *)
(* its timer; neither the job nor the user is obliged to do anything.      *)
FairDashboardSpec ==
    /\ DashboardSpec
    /\ \A k \in Connections : WF_dashboardVars(Generate(k) /\ UNCHANGED hookVars)
    /\ \A k \in Followers : WF_dashboardVars(Follow(k) /\ UNCHANGED hookVars)
    /\ \A g \in Generations : WF_dashboardVars(Hook(g))
    /\ WF_dashboardVars(Tick)
    /\ WF_dashboardVars(Answered)
    /\ WF_dashboardVars(Delivered)

-----------------------------------------------------------------------------
(* An open dashboard settles on the truth: once the job has its last       *)
(* verdict, that verdict is what the dashboard shows for good - over lost  *)
(* connections, lost answers, streams that end early and retries, several  *)
(* at once as well (useJob: "GET /api/jobs/{id} is always the              *)
(* authoritative source").  A dashboard that has stopped does not learn of *)
(* a retry that somebody else makes, or whose acceptance was lost.         *)
LeftBehind == connection = "stopped" /\ missed

SettlesOnTheVerdict ==
    <>[](status \in TerminalJobStatuses => shown = status \/ LeftBehind \/ Watched)

(* The dashboard says "finished" only with a verdict: never next to a job  *)
(* it shows as queued or running.  One exception is a second retry that is *)
(* asked for before the answer to the first has been loaded: then a fetch  *)
(* of the generation between them says "finished", until the load that is  *)
(* under way is answered - and for good when that is lost, or the job was  *)
(* deleted.  The other is a retry the hook was not told of.                *)
Reloading ==
    \E i \in DOMAIN requests :
        requests[i].kind = "load" /\ requests[i].generation = generation

FinishedMeansFinished ==
    connection = "stopped" =>
        \/ shown \in TerminalJobStatuses
        \/ generation > 2 /\ (Reloading \/ faults > 0 \/ status = NoRow)
        \/ missed

(* The generation that is current alone has a source or a timer.           *)
OnlyTheCurrent ==
    /\ polling \in {0, generation}
    /\ \A g \in Generations \ {generation} : point[g] = "closed"
    /\ Watched => /\ requests = <<>> /\ polling = 0 /\ shown = NoRow
                  /\ connection = "connecting" /\ point[generation] = "closed"

(* Whom request i is for, and what its answer tells of the job and of the  *)
(* network.                                                                *)
RequestInv(i) ==
    /\ requests[i].generation <= generation
    /\ requests[i].kind = "retry" =>
          requests[i].answer \in {Waiting, Unreachable, "accepted"}
    /\ requests[i].kind # "retry" =>
          /\ requests[i].answer # "accepted"
          /\ requests[i].answer = Unreachable => faults > 0
          /\ requests[i].answer = NoRow => status = NoRow

HookInv == OnlyTheCurrent /\ \A i \in DOMAIN requests : RequestInv(i)

(* The job has ended, as far as request m tells: whatever was answered     *)
(* after it, and the job itself, have a verdict or are gone, until a retry *)
(* has been accepted.                                                      *)
Ended(m) ==
    /\ \A i \in DOMAIN requests :
          i > m /\ requests[i].answer \in JobStatuses \ TerminalJobStatuses =>
              \E a \in DOMAIN requests :
                  m < a /\ a < i /\ requests[a].answer = "accepted"
    /\ (\A a \in DOMAIN requests : m < a => requests[a].answer # "accepted") =>
          status \in TerminalJobStatuses \cup {NoRow}

(* Requests are answered in their order, and those of an old generation    *)
(* stand before the load of the current one.                               *)
AnsweredInTurn ==
    \A h, i \in DOMAIN requests : h < i =>
        /\ requests[i].answer \notin {Waiting, Unreachable} => requests[h].answer # Waiting
        /\ requests[h].generation = generation => requests[i].generation = generation

OldInv(i) ==
    /\ requests[i].generation # generation =>
          Reloading /\ (~missed /\ generation = 2 => shown \in TerminalJobStatuses)
    /\ ~missed /\ requests[i].kind = "retry" /\ generation = 1 =>
          shown \in TerminalJobStatuses

(* A verdict that was read is the job's until a retry is accepted, as long *)
(* as all retries are the dashboard's own and it hears of them.            *)
VerdictInv ==
    ~missed =>
      /\ \A i \in DOMAIN requests : requests[i].answer \in TerminalJobStatuses => Ended(i)
      /\ connection = "stopped" => Ended(0)
      /\ generation = 1 /\ shown \in TerminalJobStatuses => Ended(0)

QueueInv ==
    AnsweredInTurn /\ (\A i \in DOMAIN requests : OldInv(i)) /\ VerdictInv

(* What makes the properties of the dashboard inductive.                   *)
DashboardInv ==
    /\ DashboardTypeOK
    /\ \A k \in Followers : FollowerInv(k)
    /\ HookInv
    /\ InOrder => QueueInv /\ FinishedMeansFinished
=============================================================================
