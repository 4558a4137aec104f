# A verification project for ReconLedger

ReconLedger takes a domain or an address, asks third-party sources about it
(never the target itself), stores what they say as findings, and shows and
compares the runs.  One FastAPI process holds the HTTP handlers, the job runner
and its worker loops; SQLite is the only thing that survives it; a React
dashboard follows a job over server-sent events.

This directory holds TLA+ modules of the parts in which the order of things
decides, the TLC configurations that check them, and TLAPS proofs of the core.
Paths below are relative to `backend/app/` unless they say otherwise.

## 1. Inventory

| Part | State it keeps | Operations | What is hard about it | Modelled in |
|---|---|---|---|---|
| Job runner (`jobs/runner.py`, `jobs/service.py`, `main.py`) | rows of `jobs`, `collector_runs`, `findings`; tasks; registered cancellation Events | create, claim, run a job, dispatch collectors under a semaphore, finish, give the verdict, recover and resume after a restart | each transaction is one step of several; crashes between them; several loops and resume tasks | `JobRunner` |
| Job API (`api/jobs.py`) | none of its own; reads and writes rows between awaits | cancel, retry a collector, delete | decides on what it read before the write lock | `JobApi` |
| Retention (`services/retention.py`) | deletes rows of `jobs` and `cache_entries` | sweep at startup and after every job | cascades only on a connection with the PRAGMA | `JobRunner`, `ResponseCache` |
| Progress stream (`jobs/events.py`, `api/jobs.py`) | rows of `job_events`; each generator's `seen_id` | emit, stream, resume from Last-Event-ID | two SELECTs around the commit of `job_finished`; lost connections | `EventStream` |
| Dashboard hook (`frontend/src/features/progress/useJob.ts`, `App.tsx`) | shown job, connection state, polling handle, requests under way | open, message, error, poll, retry, reconnect | overlapping fetches, fallback to polling, old generations | `Dashboard` |
| Response cache (`services/cache.py`, `collectors/caching.py`) | rows of `cache_entries` | look up, store, sweep, purge, inventory | `session.merge` is two statements; shared bootstrap files | `ResponseCache` |
| Outbound gateway (`security/gateway.py`, `jobs/deny_list.py`) | one call's attempt, hop and clock; the deny-list | seed the deny-list, get | backoff, Retry-After, redirects and the time budget against each other | `Gateway` |
| Evidence diff (`services/diff.py`, `api/diffs.py`, `api/exports.py`) | none; six SELECTs, or three for a report | compare two jobs, export one | the jobs go on while they are read | `EvidenceDiff` |
| Worker lock (`jobs/worker_lock.py`, the lifespan of `main.py`) | a PID file; each process's place in its lifespan | acquire, recover, serve, stop, release | looking, reading, probing and writing are separate steps; crashes leave the file; PIDs are given out again | `WorkerLock`, `Servers` |
| Archive collectors (`collectors/wayback.py`, `commoncrawl.py`, `archive_urls.py`) | of one run: rows, URLs, the byte budget | list crawls, ask indexes, sum up by URL, choose and fetch pages | any request may fail while others succeed; caps on rows, documents and bytes | `ArchiveCollector` |
| Other provider collectors (`collectors/*`) | none | ask a source, parse the answer | which errors are tolerated | partly, in `ResponseCache` |
| Technology inference (`collectors/technology.py`) | none | infer from stored findings | must run last | `JobRunner` (when), `EvidenceDiff` (from whom) |
| Target classification (`security/targets.py`, `frontend/src/features/launch`) | the text in the launch form | classify, normalise, preview, launch | written twice, in two languages; what is tested is not what is stored | `Targets` |
| Subdomain workspace (`services/subdomains.py`, `collectors/crtsh.py`) | none | fold certificates into findings, findings into rows | findings of interrupted runs; no order | `Subdomains` |
| Other pure functions (`security/network.py`, `services/csv_export.py`, `services/fingerprint.py`, `services/reports.py`) | none | check, render, hash | tables and wording | no |
| Search, sources, settings, other views | none | read and render | nothing that interleaves | not planned |

Interactions: handlers and worker loops are coroutines of one event loop and
meet in the database and in the runner's dictionary of Events; the runner calls
the gateway through a collector's context and the sweep after every verdict;
the stream and the diff read, with separate statements, rows that the runner is
still writing; the dashboard knows the server only through requests and the
stream.

What makes each part correct is stated by the properties of section 3.
`PROJECT.json` lists the hazards behind them, each at its line.

## 2. Modules

`LedgerEnums` has the statuses and `_compute_job_status`.

**`JobRunner`** has one action per transaction or per stretch of a coroutine
between two awaits.  Its first six variables are the database and survive
`Crash`; the others are the process.  `pc[t]` is where a task stands in
`run_job` or `_worker_loop`; `work[t][c]` is where its coroutine for one
collector stands in `_run_one_collector`; `event` and `cancelSet` are
`_cancellation_events`.  The task that resumes job `j` after a restart is named
`j`.  `rows[j][c]` counts committed batches of findings, so that evidence
stored twice and evidence lost can be told apart.  Simplifications:

- acquiring the semaphore and the first transaction are one step
  (`StartCollector`), because nothing else looks at a coroutine that holds the
  permit and has not begun; so are the two SELECTs of `Load`;
- a transaction of the runner that begins with its own UPDATE is one step;
- resume tasks register their Event in `Restart`: `create_task` runs their
  first step before the server accepts a connection;
- `DELETE` loads the children at its commit; the sweep deletes children or not
  (`cascade`), because `PRAGMA foreign_keys=ON` is executed on one connection
  of a pool (`db/session.py`);
- `Expire` stands for the passing of `retention_days`, for a job nobody is
  working on;
- duplicates in `selected_sources` are left out: a job carries a set.

**`WorkerLock`** has one action per access to the PID file, so that launches,
shutdowns and crashes of several processes interleave with them.  A launcher is
whatever starts the server, and may start it again.  Which PIDs are given out,
whether two launches may be under way at once and whose processes a launcher
may signal are CONSTANTS.  **`Servers`** composes it with two instances of
`JobRunner` over one database: `Serve` is the recovery and the resumption,
`Shutdown` and a crash end the runner's tasks.  `JobRunner` supposes that its
process is alone with the database; `ActsAsOne` says that it may: a third
instance, mapped to the memory of the process that is up, or of the last one
that was, is the abstract specification of the two.  Before the first launch
that one server is taken to have started and found nothing, so the first
recovery is a stutter, a later one its `Restart`, and the end of either process
its `Crash`.

**`JobApi`** adds the handlers, each as its reads and writes (`CancelRead`,
`CancelWrite`, ...; `RetryRead`, `RetryCheck`, `RetrySelect`, `RetryCommit`;
`DeleteRead`, `DeleteCommit`), and composes them with the runner.  A request
remembers what its session loaded, because the flush writes only what differs.

**`JobLifecycle`** is the abstract specification: what a client that reads `GET
/api/jobs/{id}` is promised about the statuses, with no word of tasks or
transactions.  `JobProperties` instantiates it with a refinement mapping: a
deleted job's runs are taken as gone with the job's row (`VisibleRun`), since
no client can see them, also where the sweep leaves them behind.  It states
everything else that is checked of the jobs, and holds the inductive
invariants.

**`EventStream`** has the log of one job's events, generators with their two
reads, a network that loses connections, and clients that reconnect.
**`Dashboard`** extends it with the hook `useJob` and the Retry buttons: a
generation per `reconnect()`, the requests under way, the polling timer, and
whether the current EventSource has announced its connection (`opened`), which
it does before its first message.  Several retries may be under way at once:
`ProgressView` disables only the row that was pressed last, and
`retry_collector` asks whether a task is registered and the run failed, never
what the job's status is (`Requeued`).  Others may retry too, at any moment
(`OthersRetry`), and the network may lose an acceptance (`LoseRequest`); the
history `missed` remembers that the hook was not told of a requeue.  The
coroutines of the job are not followed here, so `Working` lets a requeued job
emit and end also when no task has claimed it again: more than the code does.
A behaviour has the dashboard, or another client that follows the stream by
itself and reconnects with Last-Event-ID as `EventSource` does; both at once
would share nothing but the job.

**`ResponseCache`** has collector runs of three kinds (those that fail on a bad
answer, the pair of DNS resolvers, the tolerant ones), bootstrap files, and the
two statements of `session.merge` (`Select`, `Write`), next to the sweep, the
purge and the inventory.  An answer has records, has nothing, is a refusal, or
is bad.  A refusal is JSON from an error status, which the gateway returns like
any other response, or from DNS with an error code; only the collectors in
`Checking` tell it from an answer (`Takes`), the resolvers and crt.sh do not.
`dns_doh` asks in rounds: both resolvers about A and AAAA, about the rest the
second one only if the first fails.  Whatever else a request may raise is
`Unexpected` and fails the run.  Time is counted in the grain of a time to
live, hours or days, so a statement never spans a tick.  Serialisation and
credential scopes are left out.

**`Gateway`** follows one call at a time, since calls share only the deny-list,
which does not change once it is seeded.  What the world knows is kept beside:
how long each host has asked to be left alone (`notBefore`, over calls and
hops), and which addresses of the target the answers have told
(`discovered`); the code keeps neither, since
`note_additional_target_addresses` is called by nothing.  Jitter is any delay
up to the cap.  httpx is assumed to end an attempt within `AttemptTicks`; its
timeouts are per phase and per chunk and the resolver has none, so this is an
assumption about provider and resolver too.  `RateLimiter` is called by nothing
in the application and is left out.

**`EvidenceDiff`** extends the jobs with what their findings say: a source
publishes a finding or not and may change its mind, a coroutine holds the
answer until it stores it, and a request - a comparison with its six SELECTs,
or a report of one job with its three - reads, in the code's order, whatever is
committed at that moment.  `answered` is a history of
what a collector was last told.  One finding per collector stands for all.

**`ArchiveCollector`** is one run of Wayback or Common Crawl, which differ in
the errors they tolerate, the archived copy they prefer and how they know its
size.  An index answers with any sequence of rows up to the limit it was asked
for: the code never cuts an answer, so the cap on rows is the provider's to
keep, and `RowsWithinCap` shows only that the limits asked of the indexes add
up to no more.  A page is refused or has any size the request admits.  Any
other error, at an index or at a sample, ends the run and everything it has
found (`Unexpected`).  URLs are records without a query, host names are taken
as already lower-cased, and a record's length is a number (negative ones too),
something that is no number, or null.  What the rest of the system does with
the result is in `JobRunner` and `ResponseCache`; a crash loses the run as a
whole.

**`Targets`** keeps a text the way the code takes it apart: the labels between
the dots, each by what `lower()` and IDNA make of it, or an address with its
trailing zero bits, then what follows a slash, a character with a meaning of
its own, and the length at the boundaries the code has.  `ClassifyTarget` and
`ClassifyPreview` are the two implementations; the actions are the user typing.
White space around the text, which both trim, IPv6 scopes, and domains that
only exceed 253 characters once they are encoded are left out.  The server
measures a domain without its trailing dot, the model with it, so a domain of
253 characters and a dot is accepted by the code and rejected by the model.

**`Subdomains`** has the two folds that make a row: certificates into one
finding per name, by `crtsh.py`, and findings into rows.  A job may hold the
answers of several runs, because an interrupted run is repeated.  The fields
that are only shown (issuers, counts, the list of sources) are left out.

`MCJobs`, `MCServers`, `MCProgress`, `MCCache`, `MCGateway`, `MCDiff` and
`MCFunctions` hold the constants of the runs; `MCFunctions` composes the three
modules that need nothing else, so that a behaviour is a run of an archive
collector, a text being typed or a series of answers of crt.sh.  An operator
whose comment begins "A variant of" is a plausible bug in the operator after
it; `PROJECT.json` names the property that it breaks.

## 3. Runs

| Run | Instance | Shows |
|---|---|---|
| `jobs_crash` | 1 job, 3 collectors (1 deferred, 1 not registered), any selection, 1 permit, a retry, 2 crashes, fairness | no reported evidence is lost (`EvidenceInv`), reruns store no more than `attempt_count` says (`RowsWithinAttempts`), inference starts when everyone else has ended (`DeferredSeesEverything`), jobs and interrupted runs come to an end (`EveryJobEnds`, `InterruptedRunsEnd`), types |
| `jobs_requests` | 1 job, 2 collectors, 2 requests of any kind (1 retry), 1 crash, the sweep | one dispatcher (`DispatchInv`), every change of status is a step of the lifecycle (`ImplementsLifecycle`), no verdict contradicts its collectors (`VerdictIsTrue`), success is final (`DoneIsFinal`), no restart forgets work (`NoAbandonedWork`), what was deleted or swept stays so (`DeletedStaysDeleted`) |
| `servers` | 2 launchers, 2 launches that may crash anywhere, 2 jobs, 2 worker loops in each process | the two processes do together what the one server of `JobRunner` does (`ActsAsOne`), no job has two tasks (`OneTaskPerJob`), RUNNING means executed (`RunningMeansExecuted`), a launch is refused only for a server (`RefusedForAServer`) |
| `dashboard` | the dashboard or a follower, 2 verdicts, 3 events, 2 retries (its own, also at once, or somebody else's), 1 fault, 3 generations of the hook, 2 requests under way, fairness | every event is heard, once and in order (`HeardInOrder`, `HearsEverything`); the dashboard settles on the last verdict (`SettlesOnTheVerdict`) and says "finished" only with one, up to the exceptions that section 5 explains (`DashboardInv`) |
| `cache` | 2 runs, 3 kinds of collector, 2 rounds of questions, 3 instants, 1 purge | hits make no request, nothing fresh is swept, the inventory is coherent, emptiness is kept only when nobody asked had anything and somebody gave what the collector takes for an answer (`EmptyMeansNothing`) |
| `gateway` | 1 call, 3 attempts, 2 redirects, 3 hosts, 3 addresses, budget 4, fairness | requests and time are bounded, the Retry-After of a 429 is waited out before the request is repeated (`RetryAfterHonoured`), no address is contacted that is forbidden or was known as the target's when the job began (`ContactsArePermitted`), every call ends |
| `diff` | 2 jobs, 1 collector, 1 crash, sweep of the old job, 1 change of the source | what is reported as removed was looked for and not found (`DiffInv`); a report shows the findings of the sources it calls done (`ReportShowsItsEvidence`) |
| `functions` | 2 archive collectors, 1 or 2 crawls, up to 4 of 8 captures, 4 pages of 2 kinds, 4 documents, budget 3; texts of up to 4 labels of 11 kinds, or an address, with slashes and marks after up to 2; 2 certificates with up to 2 of 4 names and 2 dates, over 2 runs | rows and bytes stay within their caps (`CapsHold`), what is said of a URL is true of all its captures (`SummariesAreTrue` in `ArchiveInv`), the sample is diverse (`SampleIsDiverse`), a run that returns has sampled each page it chose, or that page was refused or had no room (`EveryPageAccountedFor`); a normalized target is its own normal form (`CanonicalIsStable`), the preview names the type of the job it launches (`PreviewTellsTheType`), rows say what the certificates say (`RowsMatchTheEvidence`) |
| `says_resumes`, `says_picked_up`, `says_unknown`, `says_denied` | the smallest that show it | statements of the repository that the code does not keep, section 5 |

Bounds.  Two crashes are one during the work and one during the recovery of the
first; three collectors are one that runs, one that waits for the permit and one
that waits for both, and in `jobs_requests` two run at once.  Two requests
suffice for every pair of handlers to interleave, and every handler writes at
most once.  In `servers`, two jobs are a claimed one and a queued one, two loops
can compete for either, and two launches are one that finds the file of the
other, alive, stopping or dead.  `MaxEvents`, `MaxRequeues` and `MaxFaults` let
a stream break and reconnect across a requeue; a second fault is in section 5.
`MaxUnderWay = 2` lets a fetch be overtaken by events and a second retry follow
the accepted first, which reaches both exceptions of `FinishedMeansFinished`; so
that retries do not take up all the room, one is only sent when a place is left
or another was accepted.  With a third request the same invariants hold.
`Rounds = 2` is a question for both resolvers and one with a fallback.  The
gateway's budget of 4 ticks is longer than an attempt (2) and shorter than the
longest Retry-After (5); MCGateway's backoffs reach their cap at the first
retry.  `says_denied` needs two calls, one to be told of an address and one to
go there.  The cache's entries live two ticks or one, and time goes up to two,
so that each kind is seen fresh and expired.  The captures of `MCFunctions`
include two spellings of one URL, a later failure after a success, a URL out of
scope, a record whose length is no number, null or negative and one without a
file; four rows let every page be a candidate once, so that one is passed over
for diversity in the first half of four documents and the second half takes a
repeat.  Four labels are what looks like an IPv4 address; two certificates are
what a fold's step can get wrong, once within an answer and once across two.

Runs set `CHECK_DEADLOCK FALSE` where all requests may be used up and the
process be down for good, or where the run that is modelled returns.

Fairness, and why the code justifies it:

- `FairSpec`: every task, coroutine and handler that can run is scheduled by
  the event loop; a collector's call ends because the gateway's call does
  (`EveryCallEnds`); somebody restarts a server that is down.  Nobody is
  obliged to create jobs, send requests or crash.
- `FairStreamSpec`, `FairDashboardSpec`: generators run, answers arrive, timers
  fire, a browser reconnects.  The job is not obliged to go on, nor the user to
  retry.
- `FairGatewaySpec`: the event loop runs and an attempt ends with a response or
  an error.

## 4. Proofs

For every number of jobs, collectors, requests and crashes:

| Theorem | Says | Rests on |
|---|---|---|
| `JobProofs!Typed` | `Spec => []ApiTypeOK` | the assumptions on the constants |
| `JobProofs!EvidenceInvariant`, `EvidenceIsKept` | a collector reported DONE has its rows | `TasksInv` (where tasks may stand), `DownInv` (a stop leaves nothing behind), `EvidenceInv` (a coroutine about to report DONE has stored) |
| `JobProofs!GoneForGood` | `DeletedStaysDeleted`, as an action property | types |
| `JobProofs!DispatchInvariant`, `OneDispatcher` | no job is run by two tasks | one worker loop (`Workers = {w}`), `ResumedInv` |
| `JobProofs!NothingAbandoned` | `Spec => []NoAbandonedWork` | one worker loop; `AbandonInv` |
| `JobProofs!RowsBounded` | `Spec => []RowsWithinAttempts` | one worker loop; `AttemptsInv` of `JobProperties` |
| `JobProofs!ImplementsInvariant`, `Implements` | `Spec => ImplementsLifecycle`: the runner, the handlers, the sweep and crashes implement the abstract lifecycle | one worker loop, one retry at most, retries of ended jobs only (`DashboardOnly`), finitely many requests; `ImplementsInv` |
| `JobProofs!VerdictsHold` | `Spec => []VerdictIsTrue` | the same |
| `JobProofs!DeferredLast` | `Spec => []DeferredSeesEverything` | the same, with `DeferredInv` |
| `JobProofs!DoneForGood` | `Spec => DoneIsFinal`, as an action property | the same, with `BusyInv` |
| `JobProofs!ReportIsWhole` | `DiffSpec => []ReportShowsItsEvidence` | the same, with `AnswersInv` and `ReadsInv` of `EvidenceDiff` |
| `JobProofs!DiffIsTrue` | unless the new job is gone, `RemovedMeansGone` | the same |
| `JobProofs!DiffHolds` | `DiffSpec => []DiffInv` | the same; nobody deletes jobs, the new one is too young for the sweep (`NewJobStays`) |
| `LifecycleProofs!LifecycleTyped`, `VerdictsAreTrue` | the abstract lifecycle keeps its types, and no verdict of it is false | that `_compute_job_status` answers `failed` or `completed_with_warnings` when a collector failed |
| `RunnerProofs!RunnerHolds` | a runner alone with its database: types, one task for a job, RUNNING means executed, for any number of loops | `RunnerInv` of `JobRunner` |
| `LockProofs!LockHolds`, `RefusalsHold` | one server has the lock, the file names it, and a launch is refused only for a server | launches one after the other, of one user, no external worker; for refusals also that PIDs are not given out again |
| `LockProofs!ServersAlone` | `ServersSpec => []Alone` | `LockHolds`; nothing of what the runners do |
| `LockProofs!ServersActAsOne` | `ServersSpec => ActsAsOne`: two launchers behind the lock implement the one server of `JobRunner` | `ServersAlone`, `AsOneInv`; the assumptions of `LockHolds` |
| `LockProofs!RunnersHold`, `OneTaskAnywhere`, `RunningIsTrue` | `OneTaskPerJob` and `RunningMeansExecuted` of two servers | `RunnersInv` of `Servers`, `ServersAlone`, `RunnerHolds` |
| `CacheProofs!CacheHolds`, `HitsAreFree`, `EntriesAreHeard`, `SweepsAreSafe` | the four safety properties of the cache, the last as an action property; `EntriesAreHeard` with refusals taken for answers where the code does | `CacheInv`, and that finitely many entries exist |
| `DashboardProofs!StreamIsHeardInOrder`, `FollowerHearsInOrder` | `HeardInOrder`, for the stream by itself and next to the dashboard | the inductive invariants of `DashboardProofs` |
| `DashboardProofs!DashboardHolds` | `DashboardSpec => []DashboardInv`, for any number of retries under way, of whomever | the same; its part `QueueInv /\ FinishedMeansFinished` for answers in order |
| `DashboardProofs!RowsAreRight` | `RowsMatchTheEvidence` for answers of any length, over any number of runs | `FoldInvariant`; `DatesAssumption` |
| `DashboardProofs!CanonicalFormsAreStable`, `PreviewIsRight` | `CanonicalIsStable` and `PreviewTellsTheType`, for texts of any number of labels | `Targets` |
| `ProviderProofs!GatewayTyped`, `BoundedRequests`, `EndsWithinBudget`, `PausesAreHonoured`, `OnlyPermitted` | the safety properties of the gateway, for every budget, delay and number of attempts and redirects; `PausesAreHonoured` of the Retry-After of a 429 and the repetition of its request | `AttemptsInv`, `RequestsInv`, `TimeInv`, `PauseInv` and `AccessInv` |
| `ProviderProofs!CapsAreKept` | the caps of the archive collectors on rows and bytes | at most as many crawls as rows; `RowsInv`, `BytesInv` |
| `ProviderProofs!SummariesHold`, `SamplesAreDiverse`, `PagesAreAccountedFor` | what an archive collector says of a URL, how it chooses its sample, and that a run either gives an account of each page or fails with nothing cached | `FoldInvariant`; `RowsAssumption` |
| `LeftFold!FoldInvariant` | what holds before a loop over a sequence and is kept by its body holds after it | induction over the length |

`NoLostEvidence` is not inductive: that a run is DONE says nothing of the
coroutine about to report it, so `EvidenceInv` adds that a coroutine at "done"
has stored its rows or that its run is gone, and `TasksInv` that a coroutine
only stands there while its task serves a job.  `ExclusiveDispatch` is not
inductive either: what keeps the worker from a job that a resume task runs is
that the job is RUNNING and cannot become QUEUED, because its Event is
registered and `is_active` turns a retry away - the parts of `ResumedInv`.
With several loops the guarded UPDATE of the claim decides as well, but a retry
may then slip between `is_active` and its commit.  Several loops are therefore
proved without requests: `RunnerInv` says of a runner alone with its database
that tasks of one job are one task, that the job of a task is there and not
QUEUED, and that a run is RUNNING exactly while a coroutine executes it.  Each
of the two processes of `Servers` is such a runner while it is up
(`RunnerHolds` is instantiated twice), and what the other does to the database
meanwhile is nothing, by `ServersAlone`; a recovery finds a database whose
former runner has stopped, which is what `RunnersInv` says of the process that
is down.  TLC checked `RunnersInv` on the instance of `servers`.

`ServersActAsOne` proves the step of `JobRunner` from each step of `Servers`.
While a process works, what is mapped is its own memory, because the other is
down (`SeenA`, `SeenB`), and its step is one of `JobRunner` action by action.
The steps that pass the database on need `AsOneInv`: a process that is down has
nothing in its memory, so nothing changes when the mapping turns from one to the
other, and before the first start there is nothing in the database.  A bound
alone differs: the one server may crash as often as the two may together.

`NoAbandonedWork` needs to know how `run_job` lets go of a job: its verdict is
written before it unregisters, and an exception ends it only when the job is
gone.  One retry leaves the status of the job alone, the one that read it
QUEUED; `AbandonInv` says that if the job is RUNNING by then, somebody runs it.
`RowsWithinAttempts` has to follow the coroutines of a task that has died too,
which go on storing: `DeadApart` says that nobody takes up the job of a dead
task, so each collector has one coroutine that can store, and `AttemptLeft` that
it has an attempt of its own.  `DeferredSeesEverything` takes from `ImplementsInv`
that no run is "running" when a job is loaded and that no retry commits while
the job is dispatched; from there on a run that is not waiting or at work has
ended, also when the job is deleted under it (`IdleMeansEnded`).  `DoneIsFinal`
turns on what a task has in hand: `BusyInv` says that whatever a coroutine is
waiting for or at, its run is not DONE.  Loading the job establishes it, and the
one step that could break it, a `FinishCollector` of another task for the same
collector, is excluded because two tasks never have the same job in hand
(`ExclusiveDispatch`, and `DeadApart` for those that have died).

A diff or a report sees the jobs at several moments.  `AnswersInv` says what it
can count on at each of them: a coroutine that saves holds the last answer of
its source, one that is about to report DONE has stored it, and a DONE run has
been told something and has the finding if that was "present".  `ReadsInv` adds
what outlives a read: what was read as DONE is DONE until its job goes
(`DoneIsFinal`), nobody asks its source again, and so the findings read after
it are the ones it had.  This is where the order of the SELECTs matters, and
where deleting the new job ends the argument - hence the condition of
`DiffIsTrue`.  TLC checked the three invariants on the instance of `diff`.

The refinement maps a step of the runner to a step of `JobLifecycle`, or to a
stutter, job by job.  That a step is allowed there depends on what the task or
request that takes it has read before: a coroutine that writes a status must
still find its run "running", a verdict must be the one that the runs have now,
a retry must find its run failed and its job ended.  `ImplementsInv` says of
each place in `run_job`, `_run_one_collector` and the handlers what is known
there, and each part of it is used by the action that leaves that place.
`VerdictIsTrue` then comes from the parts that say what a verdict was computed
from.

The lock is inductive with `LockInv`: one launch at a time looks at the file,
PIDs tell living processes apart, and while a process holds the lock, the file
has its PID and no launch is about to write.  `RefusalsHold` needs `LockNames`,
that the PID in the file or in a launch's hand belongs, if to any living
process, to one that has had the lock.

`EndsInTime` needs to know how much of the clock each stage has already used:
`TimeInv` bounds it before an attempt, during one and during a sleep.
`ContactsArePermitted` rests on `AccessInv`: until the list is seeded no
collector's call gets beyond its first check, so the list never grows under an
address that was already contacted.

`CapsHold` needs `RowsInv`, that the rows taken in and the shares of the
indexes still to be asked are together within the cap (which uses that there
are never more crawls than rows), and `BytesInv`, that the budget is overdrawn
by the slack of one record at most.

Loops.  What the archive collectors say of a URL, the sample they choose, the
rows of the subdomain workspace and the spellings of a target are results of
loops over sequences.  The library's induction theorems take a predicate as an
argument, which the provers cannot supply; `LeftFold` has the body of the loop
and its invariant as CONSTANTS instead, proves once, from the well-foundedness
of the natural numbers, that an invariant kept by the body holds at the end,
and is instantiated once for each loop.  The loop invariants are stated next to
the instances: `SummedSoFar` (the summary of each URL is that of the captures
so far), `UrlsKept`, `Diverse` (no kind of page is taken again before the
others), `RowsSoFar` and the like.

The cache is inductive with `CacheInv`: what a run is about to store is what it
has heard, under the key it has asked for, and still fresh, since no tick
passes inside a request.  The inventory is coherent because nothing expires
between its two counts that the first has not seen, which compares
cardinalities and so needs that only finitely many entries exist.

`HeardInOrder` needs what is on its way: on the wire of a connection are the
ids that follow what the client has heard, and the generator's `seen_id` is the
last of them, so whatever it sends next continues the wire, and a reconnection
starts where the hearing stopped (`FollowerInv`).  The dashboard's fetches are
a queue.  On a network that answers in order (`InOrder`) and as long as the hook
is told of every retry, a verdict in an answer is the job's verdict until a
later retry in the queue is accepted (`VerdictInv`); an answer of an old
generation is still under way only while a reload is (`OldInv`), and so
"finished" is only shown with a verdict.  The proof treats the queue by
position, any length of it with any number of retries among the requests, and
any number of generations.

Assumptions beyond the bounds of the models: a worker loop, retries from the
dashboard and finitely many requests where the table says so (section 5 has
what goes wrong without them), launches one after the other for the lock,
answers in order for the dashboard's "finished", and on the data
`DatesAssumption` (a certificate's dates are numbers) and `RowsAssumption` (an
index row has a time, and a usable one a URL among those that are sorted).

Only model-checked: liveness (`EveryJobEnds`, `InterruptedRunsEnd`,
`HearsEverything`, `SettlesOnTheVerdict`, `EveryCallEnds`), which the prover
does not do under fairness, and the four violations of section 5.

## 5. What the code does not keep

Shown by runs:

- `says_resumes` (README: the runner "resumes cleanly after a crash"): a crash
  after the last collector and before the verdict leaves a job RUNNING that
  `find_resumable_job_ids` does not find.
- `says_picked_up` (`api/jobs.py:154-158`): deleting a running job makes
  `run_job` raise, the worker loop ends, and nothing is claimed until a restart.
- `says_unknown` (`docs/PRD.md:129`, `services/diff.py:3-4`): technology
  inference is DONE whatever became of its sources, so its findings are
  reported as removed when Wayback has failed.
- `says_denied` (`docs/PRD.md:270`, `security/network.py:101`): an address of
  the target that a collector is told of is a finding and nothing else;
  `note_additional_target_addresses` (`security/gateway.py:169`) has no caller,
  and the job may still contact that address.

In the models, and allowed by what the passing runs check:

- the Retry-After of a 5xx is ignored (`gateway.py:298-300`), and that of a 429
  is forgotten when its call gives up or is redirected, although Common Crawl
  asks the same host next (`commoncrawl.py:186-187`); `docs/PRD.md:535` and
  `security/rate_limit.py:4` want it honoured.  `RetryAfterHonoured` says what is;
- an error that is no GatewayError ends an archive run with all it has found: a
  host that does not resolve, a body that cannot be decoded (`wayback.py:172`,
  `commoncrawl.py:186`, 240), a record that cannot be inflated (zlib.error,
  `commoncrawl.py:151-154`), a length of null (`commoncrawl.py:228`); the
  comments at `wayback.py:174` and `commoncrawl.py:187` say that one failure
  should not fail the whole collector.  `EveryPageAccountedFor` says that such a
  run caches nothing;
- a refusal that is JSON - an error status, a DNS error code - is kept as an
  empty answer by `dns_doh`, and crt.sh does not look at the status either; and
  Common Crawl keeps one when every index it asked was unavailable; against
  `services/cache.py:4-6` and `docs/PRD.md:282`, hence the conditions in
  `EmptyMeansNothing`;
- the dashboard is not told of a retry that somebody else makes, nor of its own
  when the acceptance is lost: `reconnect()` is not called (`App.tsx:46`), and a
  dashboard that has stopped keeps the old verdict (`LeftBehind`); if a poll or
  a message is under way then, it may say "finished" next to a job it shows as
  queued (`missed` in `FinishedMeansFinished`);
- with a second retry accepted before the first has been reloaded, a fetch of
  the generation between them may come back and set "stopped": neither the poll
  nor the message handler asks whether it is `cancelled` (`useJob.ts:74-75`,
  87-91); `FinishedMeansFinished` names what then holds.

Met while modelling, and kept out of the passing runs by their bounds:

- a crash between the commit of the findings and DONE stores the evidence
  twice (`jobs/runner.py:337`); `RowsWithinAttempts` is what remains true;
- a cancellation may be accepted after the verdict has read the Event, or find
  the job claimed and mark it CANCELED while it runs on; the interrupted runs of
  such a job are not resumed after a crash;
- two retries: the second may pass `is_active` before the first has committed,
  and commit when the first one's run has already been given a verdict
  (`api/jobs.py:162`); with two retries `VerdictIsTrue` is violated;
- two worker loops and a retry that passed `is_active` in time can run one job
  twice, and the verdict of the first may overwrite the retry; hence
  `DashboardOnly` in `jobs_requests`, where the one retry is only sent for a job
  that has ended, as a dashboard that shows the job's verdict does;
- the dashboard shows whichever answer arrives last: with `InOrder = FALSE` an
  old answer that overtakes the terminal one stays for good, against
  `useJob.ts:28-30`;
- a bootstrap list with nothing usable in it is cached for seven days before
  `run` rejects it (`collectors/commoncrawl.py:85`), against
  `services/cache.py:4-6`;
- two runs that store the same key at once: one of them fails with an
  IntegrityError although it has its findings (`Write`);
- a page passed over for diversity does not come back in the second half of an
  archive sample (`collectors/wayback.py:108-109`), so a site with fewer than
  ten kinds of documents gets one sample of each kind, not twenty documents;
- the bytes of refused samples are not counted, Common Crawl may overrun its
  budget by 1024 bytes, and each of the two archives has 5 MB of its own, where
  `docs/PRD.md:306` has "5 MB total archived content per job";
- a diff whose new job is deleted between its SELECTs reports everything as
  removed;
- two servers launched at once may both find no file (`jobs/worker_lock.py:50`):
  with `Overlap = TRUE`, `Alone` is violated, and the first to stop unlinks the
  other's file; `docs/PRD.md:531` wants a second worker refused.  With
  `ReusePids = TRUE` a launch may be refused for a process that is no server -
  or for itself, when it gets the PID of the server that crashed; a server of
  another user counts as dead, because `os.kill` raises PermissionError;
- with two faults, a poll of the old generation that is answered after
  `reconnect()` stops the polling of the new one (`useJob.ts:74` works on a
  shared reference), and the dashboard does not settle;
- a run that stored its findings, was interrupted and fails when it is repeated
  is FAILED with findings, where `services/reports.py` prints that a failed
  source "produced no evidence for this run";
- the preview blocks international domain names and a trailing dot, which the
  server accepts (`classifyPreview.ts:35`, where the comment above says
  "Advisory-only"); the attestation the user reads (`LaunchForm.tsx:10`) is not
  the text that is stored (`jobs/service.py`), against `docs/PRD.md:197`;
- by reading, not by a model: `crtsh.py:109` adds to `cert_count` for every name
  on a certificate, so a certificate for a name and its wildcard is "observed in
  2 certificate(s)"; `selected_sources` may name a source twice
  (`jobs/service.py:67`), and a retry of that source then raises.

## 6. Not modelled, and what is left

Not modelled, because nothing in it interleaves or keeps state: the rendering
of reports and CSV, redaction, search, fingerprints, the sources API, the
origin guard, settings and schema, and the views that fetch once and render.
`RateLimiter` is constructed by tests only.  The tables of special addresses,
of technology patterns and of provider fields are data; the models take what is
decided by them as given.  Windows, where `os.kill(pid, 0)` means something
else, is left out of `WorkerLock`.

Left to do, most important first:

1. Proofs: every invariant and action property of the passing runs has its
   theorem.  The jobs are proved with one worker loop; with several, what a
   retry may break (section 5) has to be said first.
2. Views that fetch by job id (`FindingsView`, `SubdomainWorkspace`): a retry
   that ends between two renders leaves the evidence of the first run shown.
3. Job creation with duplicate sources, the launch form's own request, the
   history view.
