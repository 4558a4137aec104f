------------------------------ MODULE Gateway ------------------------------
(***************************************************************************)
(* The outbound gateway of one job (security/gateway.py): the seeding of   *)
(* its deny-list by DNS-over-HTTPS or from the target itself, and get()    *)
(* with its attempts, backoff, Retry-After, redirects and time budget.     *)
(* Calls share nothing but the deny-list, which does not change once it is *)
(* seeded, so one call is followed at a time, one after the other.  Time   *)
(* passes in ticks; what the event loop can do at once is done before the  *)
(* next tick.                                                              *)
(***************************************************************************)
EXTENDS Integers, FiniteSets

CONSTANTS
    Hosts,          \* hosts that requests or redirects may name
    AllowedHosts,   \* the hosts collectors declare
    ApprovedHosts,  \* the hosts a redirect validator accepts
    DohHost,        \* dns.google
    Addresses,      \* addresses that hosts and the target resolve to
    Forbidden,      \* those is_forbidden_address gives a reason for
    MaxAttempts,    \* RetryPolicy.max_attempts
    BaseDelay,      \* base_delay_seconds, in ticks
    CapDelay,       \* cap_delay_seconds, in ticks
    Budget,         \* total_budget_seconds, in ticks
    MaxRedirects,   \* max_redirects of get
    AttemptTicks,   \* ticks after which httpx gives an attempt up
    MaxHint,        \* bound on the Retry-After values considered
    MaxCalls        \* bound on the calls of collectors

ASSUME GatewayAssumption ==
    /\ AllowedHosts \subseteq Hosts /\ ApprovedHosts \subseteq Hosts
    /\ DohHost \in Hosts
    /\ Forbidden \subseteq Addresses
    /\ MaxAttempts \in Nat \ {0}
    /\ BaseDelay \in Nat /\ CapDelay \in Nat /\ Budget \in Nat
    /\ MaxRedirects \in Nat /\ AttemptTicks \in Nat
    /\ MaxHint \in Nat /\ MaxCalls \in Nat

VARIABLES
    phase,          \* of the job: before, during and after seeding
    bootstrapping,  \* _bootstrapping
    seeded,         \* TargetDenyList._seeded
    deny,           \* TargetDenyList._addresses and _networks
    found,          \* addresses the seeding has learned so far
    call,           \* the call of get in progress
    calls,          \* calls made by collectors
    contacted,      \* where requests of collectors have gone
    notBefore,      \* ticks for which a host has asked to be left alone
    discovered      \* the target's addresses as collectors have seen them

jobVars == <<phase, bootstrapping, seeded, deny, found>>
worldVars == <<notBefore, discovered>>
vars == <<jobVars, call, calls, contacted, worldVars>>

NoHint == MaxHint + 1

Callers == {"none", "A", "AAAA", "collector"}
Results == {"none", "response", "timeout", "rate limited", "redirect rejected",
            "blocked", "unpopulated", "disallowed", "too large", "unexpected"}

(* More requests than anyone should see are all counted as one more.       *)
MostRequests == MaxAttempts * (MaxRedirects + 1)

NoCall == [by |-> "none", stage |-> "idle", host |-> DohHost, follows |-> FALSE,
           clock |-> 0, start |-> 0, flight |-> 0, attempt |-> 0, hops |-> 0,
           requests |-> 0, wait |-> 0, last |-> "none", result |-> "none"]

CallRecords ==
    [by : Callers, stage : {"idle", "loop", "sent", "sleeping", "ended"},
     host : Hosts, follows : BOOLEAN, clock : Nat, start : Nat,
     flight : 0..AttemptTicks, attempt : 0..MaxAttempts, hops : 0..MaxRedirects,
     requests : Nat, wait : Nat, last : {"none", "429", "5xx"},
     result : Results]

GatewayTypeOK ==
    /\ phase \in {"new", "seeding", "ready", "failed"}
    /\ bootstrapping \in BOOLEAN
    /\ seeded \in BOOLEAN
    /\ deny \subseteq Addresses
    /\ found \subseteq Addresses
    /\ call \in CallRecords
    /\ calls \in 0..MaxCalls
    /\ contacted \subseteq [host : Hosts, address : Addresses]
    /\ notBefore \in [Hosts -> 0..MaxHint]
    /\ discovered \subseteq Addresses

GatewayInit ==
    /\ phase = "new"
    /\ bootstrapping = FALSE
    /\ seeded = FALSE
    /\ deny = {}
    /\ found = {}
    /\ call = NoCall
    /\ calls = 0
    /\ contacted = {}
    /\ notBefore = [h \in Hosts |-> 0]
    /\ discovered = {}

(* compute_backoff_seconds: anything up to the capped exponential.         *)
Backoffs(attempt) == {delay \in 0..CapDelay : delay <= BaseDelay * 2^attempt}

(* time.monotonic() - start.                                               *)
Elapsed == call.clock - call.start

Ended(c, r) == [c EXCEPT !.stage = "ended", !.result = r]
Slept(c, delay) == [c EXCEPT !.stage = "sleeping", !.wait = delay]
Told(c, status) == [c EXCEPT !.last = status]
Hopped(c, next) == [c EXCEPT !.stage = "loop", !.host = next,
                             !.hops = @ + 1, !.attempt = 0, !.last = "none"]
Sent(c) == [c EXCEPT !.stage = "sent", !.flight = 0, !.attempt = @ + 1,
                     !.requests = IF @ > MostRequests THEN @ ELSE @ + 1]

Less(n) == IF n = 0 THEN 0 ELSE n - 1

Aged(c) == [c EXCEPT !.clock = @ + 1, !.wait = Less(@),
                     !.flight = IF c.stage = "sent" THEN @ + 1 ELSE @]

(* The Retry-After of an answer, if it has one: what its host asks for.    *)
Asks(hint) ==
    notBefore' = [notBefore EXCEPT ![call.host] = IF hint = NoHint THEN 0 ELSE hint]

-----------------------------------------------------------------------------
(* Calls.                                                                  *)

(* get up to its loop.                                                     *)
Get(by, host, follows, allowed, exempt) ==
    LET c == [NoCall EXCEPT !.by = by, !.host = host, !.follows = follows] IN
    /\ call.stage = "idle"
    /\ call' = IF ~seeded /\ ~exempt THEN Ended(c, "unpopulated")
               ELSE IF host \notin allowed THEN Ended(c, "disallowed")
               ELSE [c EXCEPT !.stage = "loop"]

(* A variant of CollectorGet without the question whether the deny-list is *)
(* there.                                                                  *)
CollectorGet_NotAsking ==
    /\ call.stage = "idle"
    /\ calls < MaxCalls
    /\ calls' = calls + 1
    /\ phase # "seeding"
    /\ \E h \in AllowedHosts, follows \in BOOLEAN :
           call' = [NoCall EXCEPT !.by = "collector", !.host = h,
                                  !.follows = follows, !.stage = "loop"]
    /\ UNCHANGED <<jobVars, contacted, worldVars>>

(* A collector calls get.  The job runner lets none run while the list is  *)
(* being seeded; at any other time get itself asks.                        *)
CollectorGet ==
    /\ calls < MaxCalls
    /\ calls' = calls + 1
    /\ phase # "seeding"
    /\ \E h \in Hosts, follows \in BOOLEAN :
           Get("collector", h, follows, AllowedHosts, bootstrapping)
    /\ UNCHANGED <<jobVars, contacted, worldVars>>

(* A variant of StartAttempt that forgets to count.                        *)
StartAttempt_Uncounted ==
    /\ call.stage = "loop"
    /\ call' = IF Elapsed > Budget THEN Ended(call, "timeout")
               ELSE [call EXCEPT !.stage = "sent", !.flight = 0]
    /\ UNCHANGED <<jobVars, calls, contacted, worldVars>>

(* The head of the retry loop, and ValidatingTransport: the host is        *)
(* resolved anew for every request, none of its addresses may be forbidden *)
(* or denied, and the first is where the request goes.                     *)
StartAttempt ==
    /\ call.stage = "loop"
    /\ \/ /\ Elapsed > Budget
          /\ call' = Ended(call, "timeout")
          /\ UNCHANGED contacted
       \/ /\ Elapsed <= Budget
          /\ \/ /\ call' = Ended(call, "unexpected")
                /\ UNCHANGED contacted
             \/ \E resolved \in SUBSET Addresses :
                   IF resolved = {} \/ resolved \cap (Forbidden \cup deny) # {}
                   THEN /\ call' = Ended(call, "blocked")
                        /\ UNCHANGED contacted
                   ELSE \E pinned \in resolved :
                      /\ call' = Sent(call)
                      /\ contacted' =
                             IF call.by = "collector"
                             THEN contacted \cup
                                    {[host |-> call.host, address |-> pinned]}
                             ELSE contacted
    /\ UNCHANGED <<jobVars, calls, worldVars>>

(* A variant of TransportError that retries once too often.                *)
TransportError_OneTooMany ==
    /\ call.stage = "sent"
    /\ IF call.attempt <= MaxAttempts
       THEN \E delay \in Backoffs(call.attempt) : call' = Slept(call, delay)
       ELSE call' = Ended(call, "timeout")
    /\ UNCHANGED <<jobVars, calls, contacted, worldVars>>

(* A timeout or another transport error.                                   *)
TransportError ==
    /\ call.stage = "sent"
    /\ IF call.attempt < MaxAttempts
       THEN \E delay \in Backoffs(call.attempt) : call' = Slept(call, delay)
       ELSE call' = Ended(call, "timeout")
    /\ UNCHANGED <<jobVars, calls, contacted, worldVars>>

(* 500, 502, 503 or 504: retried without a look at the budget, or at the   *)
(* Retry-After that the answer may bear; on the last attempt it is         *)
(* returned like any other response.                                       *)
ServerError ==
    /\ call.stage = "sent"
    /\ \E hint \in 0..NoHint : Asks(hint)
    /\ IF call.attempt < MaxAttempts
       THEN \E delay \in Backoffs(call.attempt) :
                call' = Slept(Told(call, "5xx"), delay)
       ELSE call' = Ended(call, "response")
    /\ UNCHANGED <<jobVars, calls, contacted, discovered>>

(* Any other status is returned, unless the response is too large or       *)
(* cannot be decoded, which is no GatewayError.                            *)
Response ==
    /\ call.stage = "sent"
    /\ Asks(NoHint)
    /\ \E r \in {"response", "too large", "unexpected"} : call' = Ended(call, r)
    /\ UNCHANGED <<jobVars, calls, contacted, discovered>>

(* A variant of RateLimited that pays no attention to the hint.            *)
RateLimited_OwnPace ==
    /\ call.stage = "sent"
    /\ \E hint \in 0..NoHint :
           /\ Asks(hint)
           /\ \E delay \in Backoffs(call.attempt) :
                  call' = IF call.attempt >= MaxAttempts
                          THEN Ended(call, "rate limited")
                          ELSE Slept(Told(call, "429"), delay)
    /\ UNCHANGED <<jobVars, calls, contacted, discovered>>

(* 429 with or without a valid Retry-After: waits exactly that long or as  *)
(* long as any backoff, and gives up if that would exceed the budget.      *)
RateLimited ==
    /\ call.stage = "sent"
    /\ \E hint \in 0..NoHint :
           /\ Asks(hint)
           /\ \E delay \in IF hint = NoHint THEN Backoffs(call.attempt)
                           ELSE {hint} :
                  call' = IF \/ call.attempt >= MaxAttempts
                             \/ Elapsed + delay > Budget
                          THEN Ended(call, "rate limited")
                          ELSE Slept(Told(call, "429"), delay)
    /\ UNCHANGED <<jobVars, calls, contacted, discovered>>

(* A variant of Redirected that does not count.                            *)
Redirected_Uncounted ==
    /\ call.stage = "sent"
    /\ Asks(NoHint)
    /\ \E next \in Hosts :
           call' = IF call.follows /\ next \in ApprovedHosts
                   THEN [Hopped(call, next) EXCEPT !.hops = call.hops]
                   ELSE Ended(call, "redirect rejected")
    /\ UNCHANGED <<jobVars, calls, contacted, discovered>>

(* A variant of Redirected that starts the clock again.                    *)
Redirected_NewBudget ==
    /\ call.stage = "sent"
    /\ Asks(NoHint)
    /\ \E next \in Hosts :
           call' = IF /\ call.follows
                      /\ call.hops < MaxRedirects
                      /\ next \in ApprovedHosts
                   THEN [Hopped(call, next) EXCEPT !.start = call.clock]
                   ELSE Ended(call, "redirect rejected")
    /\ UNCHANGED <<jobVars, calls, contacted, discovered>>

(* A redirect is followed if the caller has given a validator that accepts *)
(* the host and the scheme stays https; the attempts of a hop are counted  *)
(* from one again, the time is not.                                        *)
Redirected ==
    /\ call.stage = "sent"
    /\ Asks(NoHint)
    /\ \E next \in Hosts, https \in BOOLEAN :
           call' = IF /\ call.follows
                      /\ call.hops < MaxRedirects
                      /\ https
                      /\ next \in ApprovedHosts
                   THEN Hopped(call, next)
                   ELSE Ended(call, "redirect rejected")
    /\ UNCHANGED <<jobVars, calls, contacted, discovered>>

Wake ==
    /\ call.stage = "sleeping"
    /\ call.wait = 0
    /\ call' = [call EXCEPT !.stage = "loop"]
    /\ UNCHANGED <<jobVars, calls, contacted, worldVars>>

(* Time passes while the caller sleeps or an attempt is under way ...      *)
Passes == notBefore' = [h \in Hosts |-> Less(notBefore[h])]

Tick ==
    /\ \/ call.stage = "sleeping" /\ call.wait > 0
       \/ call.stage = "sent" /\ call.flight < AttemptTicks
    /\ call' = Aged(call)
    /\ Passes
    /\ UNCHANGED <<jobVars, calls, contacted, discovered>>

(* ... and between two calls.                                              *)
Idle ==
    /\ call.stage = "idle"
    /\ \E h \in Hosts : notBefore[h] > 0
    /\ Passes
    /\ UNCHANGED <<jobVars, call, calls, contacted, discovered>>

(* A collector takes the result.  A response may tell it an address of the *)
(* target that the seeding did not see; it becomes a finding and nothing   *)
(* else, since note_additional_target_addresses has no caller.             *)
Take ==
    /\ call.stage = "ended"
    /\ call.by = "collector"
    /\ call' = NoCall
    /\ \/ /\ call.result = "response"
          /\ \E seen \in Addresses : discovered' = discovered \cup {seen}
       \/ UNCHANGED discovered
    /\ UNCHANGED <<jobVars, calls, contacted, notBefore>>

-----------------------------------------------------------------------------
(* Seeding of the deny-list, before any collector.                         *)

(* An IP or CIDR target is its own deny-list.                              *)
SeedFromTarget ==
    /\ phase = "new"
    /\ call.stage = "idle"
    /\ \E target \in SUBSET Addresses \ {{}} : deny' = deny \cup target
    /\ seeded' = TRUE
    /\ phase' = "ready"
    /\ UNCHANGED <<bootstrapping, found, call, calls, contacted, worldVars>>

(* A domain is resolved through get, with _bootstrapping set meanwhile.    *)
SeedBegin ==
    /\ phase = "new"
    /\ phase' = "seeding"
    /\ bootstrapping' = TRUE
    /\ Get("A", DohHost, FALSE, {DohHost}, TRUE)
    /\ UNCHANGED <<seeded, deny, found, calls, contacted, worldVars>>

(* The answer to the A query; the AAAA query follows it at once.           *)
SeedLearn ==
    /\ call.stage = "ended" /\ call.by = "A" /\ call.result = "response"
    /\ \E addresses \in SUBSET Addresses : found' = found \cup addresses
    /\ call' = [NoCall EXCEPT !.by = "AAAA", !.stage = "loop"]
    /\ UNCHANGED <<phase, bootstrapping, seeded, deny, calls, contacted, worldVars>>

SeedEnd ==
    /\ call.stage = "ended" /\ call.by = "AAAA" /\ call.result = "response"
    /\ \E addresses \in SUBSET Addresses : deny' = deny \cup found \cup addresses
    /\ seeded' = TRUE
    /\ bootstrapping' = FALSE
    /\ phase' = "ready"
    /\ found' = {}
    /\ call' = NoCall
    /\ UNCHANGED <<calls, contacted, worldVars>>

(* One query failed, or its answer was not the JSON of a DNS answer: the   *)
(* job is failed before dispatch.                                          *)
SeedFails ==
    /\ call.stage = "ended" /\ call.by \in {"A", "AAAA"}
    /\ bootstrapping' = FALSE
    /\ phase' = "failed"
    /\ found' = {}
    /\ call' = NoCall
    /\ UNCHANGED <<seeded, deny, calls, contacted, worldVars>>

Answered == TransportError \/ ServerError \/ Response \/ RateLimited \/ Redirected

Progress == \/ StartAttempt \/ Answered \/ Wake \/ Tick
            \/ Take \/ SeedLearn \/ SeedEnd \/ SeedFails

GatewayNext == CollectorGet \/ SeedFromTarget \/ SeedBegin \/ Idle \/ Progress

GatewaySpec == GatewayInit /\ [][GatewayNext]_vars

(* The event loop runs, and httpx ends every attempt with a response or an *)
(* error.                                                                  *)
FairGatewaySpec == GatewaySpec /\ WF_vars(Progress)

-----------------------------------------------------------------------------
(* However answers, errors, rate limits and redirects follow each other, a *)
(* call makes at most max_attempts requests for each hop it may take.      *)
RequestsBounded ==
    /\ call.requests <= MaxAttempts * call.hops + call.attempt
    /\ call.requests <= MostRequests

(* The budget counts from the call's first attempt through all hops: it is *)
(* overrun by at most one attempt and the one backoff sleep that is not    *)
(* checked against it.                                                     *)
EndsInTime == call.clock <= Budget + AttemptTicks + CapDelay

(* The Retry-After of a 429 is given in full before the same request is    *)
(* repeated, or it is not repeated, whatever else befalls the call in      *)
(* between.  The other requests a host may get too early are the retry     *)
(* after a server error and the first one of another call or hop.          *)
(* (gateway.py:288, docs/PRD.md:274)                                       *)
RequestStarts == call.stage = "sent" /\ call.flight = 0

RetryAfterHonoured ==
    RequestStarts /\ call.last = "429" => notBefore[call.host] = 0

(* No collector's request, first or redirected, retried or not, has gone   *)
(* to an address that is forbidden or that the job's target was known by   *)
(* when the deny-list was seeded, nor to a host that neither the collector *)
(* nor its validator names.  (gateway.py:71)                               *)
ContactsArePermitted ==
    \A k \in contacted :
        /\ k.address \notin Forbidden \cup deny
        /\ k.host \in AllowedHosts \cup ApprovedHosts

(* Every call comes to an end.                                             *)
EveryCallEnds == call.stage # "idle" ~> call.stage = "idle"

(* What the documents promise: "Addresses discovered later in the job are  *)
(* added immediately" to those that must never be contacted.               *)
(* (network.py:101, docs/PRD.md:270)                                       *)
DiscoveredAreDenied ==
    [][\A k \in contacted' \ contacted : k.address \notin discovered]_vars
=============================================================================
