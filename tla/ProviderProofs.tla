--------------------------- MODULE ProviderProofs ---------------------------
(***************************************************************************)
(* How collectors reach their providers: the safety properties of Gateway, *)
(* for all values of its constants; and of an archive collector the caps   *)
(* on rows and bytes, the summary of each URL, the diversity of the sample *)
(* and what one failure costs, for all indexes, answers and budgets.       *)
(***************************************************************************)
EXTENDS Gateway, ArchiveCollector, SequenceTheorems, TLAPS

(* An attempt is left whenever the call may still make one.                *)
AttemptsInv ==
    call.stage \in {"loop", "sleeping"} => call.attempt < MaxAttempts

(* How much of the clock a call has used at each of its stages.            *)
TimeInv ==
    /\ call.start = 0
    /\ call.stage = "sent" => call.clock <= Budget + call.flight
    /\ call.stage = "sleeping" =>
           call.clock + call.wait <= Budget + AttemptTicks + CapDelay
    /\ EndsInTime

(* The pause a 429 has asked for is slept through before the next attempt. *)
PauseInv ==
    call.last = "429" =>
        /\ call.stage = "sleeping" => notBefore[call.host] <= call.wait
        /\ call.stage \in {"loop", "sent"} => notBefore[call.host] = 0

(* Until the deny-list is seeded no collector's call gets past its first   *)
(* question, so the list never grows under an address already contacted.   *)
AccessInv ==
    /\ seeded => phase = "ready"
    /\ bootstrapping => phase = "seeding"
    /\ call.by \in {"A", "AAAA"} => phase = "seeding"
    /\ ~seeded => contacted = {}
    /\ call.by = "collector" /\ call.stage \in {"loop", "sent", "sleeping"} =>
           seeded /\ call.host \in AllowedHosts \cup ApprovedHosts
    /\ ContactsArePermitted

-----------------------------------------------------------------------------
(* A backoff is a number of ticks, at most the cap.                        *)
LEMMA BackoffsCapped ==
    ASSUME NEW attempt
    PROVE  Backoffs(attempt) \subseteq 0..CapDelay
  BY Zenon DEF Backoffs

(* No call is a call.                                                      *)
LEMMA NoCallTyped == NoCall \in CallRecords
  BY GatewayAssumption DEF NoCall, CallRecords, Callers, Results

(* The fields of a call.                                                   *)
LEMMA Fields ==
    ASSUME NEW c \in CallRecords
    PROVE  /\ c.attempt \in 0..MaxAttempts /\ c.hops \in 0..MaxRedirects
           /\ c.clock \in Nat /\ c.start \in Nat /\ c.flight \in 0..AttemptTicks
           /\ c.requests \in Nat /\ c.wait \in Nat
           /\ c.host \in Hosts
  BY DEF CallRecords

(* What the end of a call changes.                                         *)
LEMMA EndedTyped ==
    ASSUME NEW c \in CallRecords, NEW r \in Results
    PROVE  /\ Ended(c, r) \in CallRecords
           /\ Ended(c, r).stage = "ended"
           /\ Ended(c, r).by = c.by
           /\ Ended(c, r).clock = c.clock /\ Ended(c, r).start = c.start
           /\ Ended(c, r).attempt = c.attempt /\ Ended(c, r).hops = c.hops
           /\ Ended(c, r).requests = c.requests
  BY DEF Ended, CallRecords

(* What a sleep changes.                                                   *)
LEMMA SleptTyped ==
    ASSUME NEW c \in CallRecords, NEW delay \in Nat
    PROVE  /\ Slept(c, delay) \in CallRecords
           /\ Slept(c, delay).stage = "sleeping" /\ Slept(c, delay).wait = delay
           /\ Slept(c, delay).by = c.by /\ Slept(c, delay).host = c.host
           /\ Slept(c, delay).clock = c.clock /\ Slept(c, delay).start = c.start
           /\ Slept(c, delay).attempt = c.attempt /\ Slept(c, delay).hops = c.hops
           /\ Slept(c, delay).requests = c.requests
           /\ Slept(c, delay).last = c.last
  BY DEF Slept, CallRecords

(* What an answer that is not the last one leaves behind.                  *)
LEMMA ToldTyped ==
    ASSUME NEW c \in CallRecords, NEW status \in {"429", "5xx"}
    PROVE  /\ Told(c, status) \in CallRecords
           /\ Told(c, status).last = status
           /\ Told(c, status).by = c.by /\ Told(c, status).host = c.host
           /\ Told(c, status).clock = c.clock /\ Told(c, status).start = c.start
           /\ Told(c, status).attempt = c.attempt /\ Told(c, status).hops = c.hops
           /\ Told(c, status).requests = c.requests
  BY DEF Told, CallRecords

(* What sending the next request changes.                                  *)
LEMMA SentTyped ==
    ASSUME NEW c \in CallRecords, c.attempt < MaxAttempts
    PROVE  /\ Sent(c) \in CallRecords
           /\ Sent(c).stage = "sent" /\ Sent(c).flight = 0
           /\ Sent(c).attempt = c.attempt + 1
           /\ Sent(c).requests = IF c.requests > MostRequests
                                 THEN c.requests ELSE c.requests + 1
           /\ Sent(c).by = c.by /\ Sent(c).host = c.host /\ Sent(c).clock = c.clock
           /\ Sent(c).start = c.start /\ Sent(c).hops = c.hops /\ Sent(c).last = c.last
<1> DEFINE e == [c EXCEPT !.stage = "sent", !.flight = 0]
<1> DEFINE requests == IF c.requests > MostRequests
                       THEN c.requests ELSE c.requests + 1
<1>0. 0 \in 0..AttemptTicks
  BY GatewayAssumption
<1>1. /\ e \in CallRecords
      /\ e.stage = "sent" /\ e.flight = 0 /\ e.attempt = c.attempt
      /\ e.by = c.by /\ e.host = c.host /\ e.clock = c.clock
      /\ e.start = c.start /\ e.hops = c.hops /\ e.last = c.last
  BY <1>0 DEF CallRecords
<1>2. Sent(c) = [e EXCEPT !.attempt = c.attempt + 1, !.requests = requests]
  BY Zenon DEF Sent
<1>3. c.attempt + 1 \in 0..MaxAttempts
  BY Fields, GatewayAssumption
<1>4. requests \in Nat
  BY Fields
<1>5. requests = IF c.requests > MostRequests
                 THEN c.requests ELSE c.requests + 1
  OBVIOUS
<1> HIDE DEF e, requests
<1> QED
  BY <1>1, <1>2, <1>3, <1>4, <1>5 DEF CallRecords

(* What following a redirect changes.                                      *)
LEMMA HoppedTyped ==
    ASSUME NEW c \in CallRecords, NEW next \in Hosts, c.hops < MaxRedirects
    PROVE  /\ Hopped(c, next) \in CallRecords
           /\ Hopped(c, next).stage = "loop" /\ Hopped(c, next).host = next
           /\ Hopped(c, next).hops = c.hops + 1 /\ Hopped(c, next).attempt = 0
           /\ Hopped(c, next).by = c.by /\ Hopped(c, next).clock = c.clock
           /\ Hopped(c, next).start = c.start
           /\ Hopped(c, next).requests = c.requests
           /\ Hopped(c, next).last = "none"
<1> DEFINE e == [c EXCEPT !.stage = "loop", !.host = next]
<1>1. /\ e \in CallRecords
      /\ e.stage = "loop" /\ e.host = next /\ e.hops = c.hops
      /\ e.by = c.by /\ e.clock = c.clock /\ e.start = c.start
      /\ e.requests = c.requests
  BY DEF CallRecords
<1>2. Hopped(c, next) = [e EXCEPT !.hops = c.hops + 1, !.attempt = 0, !.last = "none"]
  BY Zenon DEF Hopped
<1>3. c.hops + 1 \in 0..MaxRedirects /\ 0 \in 0..MaxAttempts
  BY Fields, GatewayAssumption
<1> HIDE DEF e
<1> QED
  BY <1>1, <1>2, <1>3 DEF CallRecords

(* What a tick changes.                                                    *)
LEMMA AgedTyped ==
    ASSUME NEW c \in CallRecords, c.stage = "sent" => c.flight < AttemptTicks
    PROVE  /\ Aged(c) \in CallRecords
           /\ Aged(c).clock = c.clock + 1 /\ Aged(c).last = c.last
           /\ Aged(c).wait = Less(c.wait)
           /\ Aged(c).flight = IF c.stage = "sent" THEN c.flight + 1 ELSE c.flight
           /\ Aged(c).stage = c.stage /\ Aged(c).by = c.by /\ Aged(c).host = c.host
           /\ Aged(c).start = c.start /\ Aged(c).attempt = c.attempt
           /\ Aged(c).hops = c.hops /\ Aged(c).requests = c.requests
<1> DEFINE flight == IF c.stage = "sent" THEN c.flight + 1 ELSE c.flight
<1> DEFINE e == [c EXCEPT !.clock = c.clock + 1]
<1>0. /\ c.clock + 1 \in Nat
      /\ Less(c.wait) \in Nat
      /\ flight \in 0..AttemptTicks
  BY Fields, GatewayAssumption DEF Less
<1>1. /\ e \in CallRecords
      /\ e.clock = c.clock + 1 /\ e.last = c.last
      /\ e.stage = c.stage /\ e.by = c.by /\ e.host = c.host
      /\ e.start = c.start /\ e.attempt = c.attempt /\ e.hops = c.hops
      /\ e.requests = c.requests
  BY <1>0 DEF CallRecords
<1>2. Aged(c) = [e EXCEPT !.wait = Less(c.wait), !.flight = flight]
  BY Zenon DEF Aged
<1>3. flight = IF c.stage = "sent" THEN c.flight + 1 ELSE c.flight
  OBVIOUS
<1> HIDE DEF e, flight
<1> QED
  BY <1>0, <1>1, <1>2, <1>3 DEF CallRecords

(* What get does before its loop.                                          *)
LEMMA GetTyped ==
    ASSUME NEW by \in Callers, NEW host \in Hosts, NEW follows \in BOOLEAN,
           NEW allowed, NEW exempt \in BOOLEAN, seeded \in BOOLEAN,
           Get(by, host, follows, allowed, exempt)
    PROVE  /\ call' \in CallRecords
           /\ call'.stage \in {"ended", "loop"}
           /\ call'.stage = "loop" => host \in allowed /\ (seeded \/ exempt)
           /\ call'.by = by /\ call'.host = host
           /\ call'.clock = 0 /\ call'.start = 0 /\ call'.attempt = 0
           /\ call'.hops = 0 /\ call'.requests = 0 /\ call'.last = "none"
<1> DEFINE c == [NoCall EXCEPT !.by = by, !.host = host, !.follows = follows]
<1>1. /\ c \in CallRecords
      /\ c.by = by /\ c.host = host
      /\ c.clock = 0 /\ c.start = 0 /\ c.attempt = 0
      /\ c.hops = 0 /\ c.requests = 0 /\ c.last = "none"
  BY NoCallTyped DEF NoCall, CallRecords
<1>2. CASE call' = [c EXCEPT !.stage = "loop"] /\ host \in allowed /\ (seeded \/ exempt)
  BY <1>1, <1>2 DEF CallRecords
<1>3. ASSUME NEW r \in {"unpopulated", "disallowed"}, call' = Ended(c, r)
      PROVE  /\ call' \in CallRecords /\ call'.stage = "ended"
             /\ call'.by = by /\ call'.host = host
             /\ call'.clock = 0 /\ call'.start = 0 /\ call'.attempt = 0
             /\ call'.hops = 0 /\ call'.requests = 0 /\ call'.last = "none"
  BY <1>1, <1>3 DEF CallRecords, Ended, Results
<1> QED
  BY <1>2, <1>3 DEF Get

-----------------------------------------------------------------------------
(* What the actions do to a call, as the invariants need it.               *)

(* What a host is heard to ask for.                                        *)
LEMMA AsksTyped ==
    ASSUME call \in CallRecords, notBefore \in [Hosts -> 0..MaxHint],
           NEW hint \in 0..NoHint, Asks(hint)
    PROVE  /\ notBefore' \in [Hosts -> 0..MaxHint]
           /\ notBefore'[call.host] = IF hint = NoHint THEN 0 ELSE hint
<1> DEFINE left == IF hint = NoHint THEN 0 ELSE hint
<1>1. left \in 0..MaxHint
  BY GatewayAssumption DEF NoHint
<1>2. call.host \in Hosts /\ notBefore' = [notBefore EXCEPT ![call.host] = left]
  BY Fields DEF Asks
<1>3. left = IF hint = NoHint THEN 0 ELSE hint
  OBVIOUS
<1> HIDE DEF left
<1> QED
  BY <1>1, <1>2, <1>3

(* Whatever the outcome of an attempt, one host has been heard or none.    *)
LEMMA AnsweredAsks ==
    ASSUME call \in CallRecords, notBefore \in [Hosts -> 0..MaxHint], Answered
    PROVE  notBefore' \in [Hosts -> 0..MaxHint]
<1>1. NoHint \in 0..NoHint
  BY GatewayAssumption DEF NoHint
<1>2. UNCHANGED notBefore \/ \E hint \in 0..NoHint : Asks(hint)
  BY <1>1 DEF Answered, TransportError, ServerError, Response, RateLimited,
              Redirected, worldVars
<1> QED
  BY <1>2, AsksTyped

(* An attempt's outcome ends the call, puts it to sleep or sends it to the *)
(* next host.                                                              *)
LEMMA AnsweredShape ==
    ASSUME call \in CallRecords, notBefore \in [Hosts -> 0..MaxHint], Answered
    PROVE  /\ UNCHANGED <<jobVars, calls, contacted, discovered>>
           /\ call.stage = "sent"
           /\ call' \in CallRecords
           /\ call'.by = call.by /\ call'.requests = call.requests
           /\ call'.clock = call.clock /\ call'.start = call.start
           /\ \/ /\ call'.stage = "ended"
                 /\ call'.attempt = call.attempt /\ call'.hops = call.hops
              \/ /\ call'.stage = "sleeping"
                 /\ call.attempt < MaxAttempts
                 /\ call'.attempt = call.attempt /\ call'.hops = call.hops
                 /\ call'.host = call.host
                 /\ call'.wait <= CapDelay \/ Elapsed + call'.wait <= Budget
                 /\ \/ call'.last = "5xx"
                    \/ call'.last = call.last /\ UNCHANGED notBefore
                    \/ notBefore'[call.host] <= call'.wait
              \/ /\ call'.stage = "loop"
                 /\ call.hops < MaxRedirects
                 /\ call'.attempt = 0 /\ call'.hops = call.hops + 1
                 /\ call'.host \in ApprovedHosts
                 /\ call'.last = "none"
<1>1. UNCHANGED <<jobVars, calls, contacted, discovered>> /\ call.stage = "sent"
  BY DEF Answered, TransportError, ServerError, Response, RateLimited, Redirected,
         worldVars
<1>3. CASE \E r \in Results : call' = Ended(call, r)
  BY <1>1, <1>3, EndedTyped
<1>4. CASE TransportError
  <2>1. CASE call.attempt < MaxAttempts
    <3>1. PICK delay \in 0..CapDelay : call' = Slept(call, delay)
      BY <1>4, <2>1, BackoffsCapped DEF TransportError
    <3>2. UNCHANGED notBefore
      BY <1>4 DEF TransportError, worldVars
    <3>3. delay \in Nat /\ delay <= CapDelay
      BY <3>1, GatewayAssumption
    <3> QED
      BY <1>1, <2>1, <3>1, <3>2, <3>3, SleptTyped
  <2>2. CASE ~(call.attempt < MaxAttempts)
    BY <1>3, <1>4, <2>2 DEF TransportError, Results
  <2> QED
    BY <2>1, <2>2
<1>5. CASE ServerError
  <2>1. CASE call.attempt < MaxAttempts
    <3> DEFINE c == Told(call, "5xx")
    <3>1. PICK delay \in 0..CapDelay : call' = Slept(c, delay)
      BY <1>5, <2>1, BackoffsCapped DEF ServerError
    <3>2. /\ c \in CallRecords /\ c.last = "5xx"
          /\ c.by = call.by /\ c.host = call.host
          /\ c.clock = call.clock /\ c.start = call.start
          /\ c.attempt = call.attempt /\ c.hops = call.hops
          /\ c.requests = call.requests
      BY ToldTyped
    <3>3. delay \in Nat /\ delay <= CapDelay
      BY <3>1, GatewayAssumption
    <3> HIDE DEF c
    <3> QED
      BY <1>1, <2>1, <3>1, <3>2, <3>3, SleptTyped
  <2>2. CASE ~(call.attempt < MaxAttempts)
    BY <1>3, <1>5, <2>2 DEF ServerError, Results
  <2> QED
    BY <2>1, <2>2
<1>6. CASE RateLimited
  <2> DEFINE c == Told(call, "429")
  <2>1. PICK hint \in 0..NoHint :
          /\ Asks(hint)
          /\ \E delay \in IF hint = NoHint THEN Backoffs(call.attempt) ELSE {hint} :
                call' = IF call.attempt >= MaxAttempts \/ Elapsed + delay > Budget
                        THEN Ended(call, "rate limited")
                        ELSE Slept(c, delay)
    BY <1>6 DEF RateLimited
  <2>2. PICK delay \in IF hint = NoHint THEN Backoffs(call.attempt) ELSE {hint} :
            call' = IF call.attempt >= MaxAttempts \/ Elapsed + delay > Budget
                    THEN Ended(call, "rate limited")
                    ELSE Slept(c, delay)
    BY <2>1
  <2>3. hint \in Nat
    BY GatewayAssumption DEF NoHint
  <2>4. delay \in Nat
    <3>1. CASE hint = NoHint
      <4>1. delay \in 0..CapDelay
        BY <2>2, <3>1, BackoffsCapped
      <4> QED
        BY <4>1, GatewayAssumption
    <3>2. CASE hint # NoHint
      BY <2>2, <2>3, <3>2
    <3> QED
      BY <3>1, <3>2
  <2>5. notBefore'[call.host] <= delay
    <3>1. notBefore'[call.host] = IF hint = NoHint THEN 0 ELSE hint
      BY <2>1, AsksTyped
    <3>2. hint # NoHint => delay = hint
      BY <2>2
    <3> HIDE DEF c
    <3> QED
      BY <2>3, <2>4, <3>1, <3>2
  <2>6. /\ c \in CallRecords
        /\ c.by = call.by /\ c.host = call.host
        /\ c.clock = call.clock /\ c.start = call.start
        /\ c.attempt = call.attempt /\ c.hops = call.hops
        /\ c.requests = call.requests
    BY ToldTyped
  <2> HIDE DEF c
  <2>7. CASE call' = Ended(call, "rate limited")
    BY <1>3, <2>7 DEF Results
  <2>8. CASE /\ ~(call.attempt >= MaxAttempts \/ Elapsed + delay > Budget)
             /\ call' = Slept(c, delay)
    <3>1. call.attempt < MaxAttempts /\ Elapsed + delay <= Budget
      BY <2>4, <2>8, Fields, GatewayAssumption DEF Elapsed
    <3>2. /\ call' \in CallRecords
          /\ call'.stage = "sleeping" /\ call'.wait = delay
          /\ call'.by = call.by /\ call'.host = call.host
          /\ call'.clock = call.clock /\ call'.start = call.start
          /\ call'.attempt = call.attempt /\ call'.hops = call.hops
          /\ call'.requests = call.requests
      BY <2>4, <2>6, <2>8, SleptTyped
    <3> QED
      BY <1>1, <2>5, <3>1, <3>2
  <2> QED
    BY <2>2, <2>7, <2>8
<1>7. CASE Redirected
  <2>1. CASE call' = Ended(call, "redirect rejected")
    BY <1>3, <2>1 DEF Results
  <2>2. ASSUME NEW next \in ApprovedHosts, call.hops < MaxRedirects,
               call' = Hopped(call, next)
        PROVE  /\ call' \in CallRecords
               /\ call'.stage = "loop" /\ call'.host = next
               /\ call'.hops = call.hops + 1 /\ call'.attempt = 0
               /\ call'.by = call.by
               /\ call'.clock = call.clock /\ call'.start = call.start
               /\ call'.requests = call.requests /\ call'.last = "none"
    BY <2>2, HoppedTyped, GatewayAssumption
  <2> QED
    BY <1>1, <1>7, <2>1, <2>2 DEF Redirected
<1>8. CASE Response
  BY <1>3, <1>8 DEF Response, Results
<1> QED
  BY <1>4, <1>5, <1>6, <1>7, <1>8 DEF Answered

(* A new request is the next attempt, and starts within the budget.        *)
LEMMA StartShape ==
    ASSUME call \in CallRecords, AttemptsInv, StartAttempt
    PROVE  /\ UNCHANGED <<jobVars, calls, worldVars>>
           /\ call.stage = "loop"
           /\ call' \in CallRecords
           /\ call'.by = call.by /\ call'.hops = call.hops
           /\ call'.clock = call.clock /\ call'.start = call.start
           /\ \/ /\ call'.stage = "ended"
                 /\ call'.attempt = call.attempt /\ call'.requests = call.requests
                 /\ UNCHANGED contacted
              \/ /\ call'.stage = "sent" /\ call'.flight = 0
                 /\ Elapsed <= Budget
                 /\ call'.host = call.host /\ call'.last = call.last
                 /\ call'.attempt = call.attempt + 1
                 /\ call'.requests = IF call.requests > MostRequests
                                     THEN call.requests ELSE call.requests + 1
                 /\ \/ UNCHANGED contacted
                    \/ /\ call.by = "collector"
                       /\ \E pinned \in Addresses \ (Forbidden \cup deny) :
                              contacted' = contacted \cup
                                  {[host |-> call.host, address |-> pinned]}
<1>1. UNCHANGED <<jobVars, calls, worldVars>> /\ call.stage = "loop"
  BY DEF StartAttempt
<1>2. ASSUME NEW r \in Results, call' = Ended(call, r), UNCHANGED contacted
      PROVE  /\ call' \in CallRecords /\ call'.stage = "ended"
             /\ call'.by = call.by /\ call'.hops = call.hops
             /\ call'.clock = call.clock /\ call'.start = call.start
             /\ call'.attempt = call.attempt /\ call'.requests = call.requests
  BY <1>2, EndedTyped
<1>4. CASE /\ Elapsed <= Budget
           /\ \E resolved \in SUBSET Addresses : \E pinned \in resolved :
                 /\ resolved \cap (Forbidden \cup deny) = {}
                 /\ call' = Sent(call)
                 /\ contacted' = IF call.by = "collector"
                                 THEN contacted \cup
                                        {[host |-> call.host, address |-> pinned]}
                                 ELSE contacted
  <2>1. PICK pinned \in Addresses \ (Forbidden \cup deny) :
          contacted' = IF call.by = "collector"
                       THEN contacted \cup {[host |-> call.host, address |-> pinned]}
                       ELSE contacted
    BY <1>4
  <2>2. call' = Sent(call) /\ call.attempt < MaxAttempts
    BY <1>1, <1>4 DEF AttemptsInv
  <2> QED
    BY <1>1, <1>4, <2>1, <2>2, SentTyped
<1>5. CASE \E r \in Results : call' = Ended(call, r) /\ UNCHANGED contacted
  BY <1>1, <1>2, <1>5
<1> QED
  BY <1>4, <1>5 DEF StartAttempt, Results

(* A tick brings a call, and what it waits for, one tick further.          *)
LEMMA TickShape ==
    ASSUME call \in CallRecords, Tick
    PROVE  /\ UNCHANGED <<jobVars, calls, contacted, discovered>> /\ Passes
           /\ call' \in CallRecords
           /\ \/ call.stage = "sleeping" /\ call.wait > 0
                 /\ call'.wait = call.wait - 1
              \/ call.stage = "sent" /\ call'.flight = call.flight + 1
           /\ call'.clock = call.clock + 1 /\ call'.last = call.last
           /\ call'.stage = call.stage /\ call'.by = call.by
           /\ call'.host = call.host /\ call'.start = call.start
           /\ call'.attempt = call.attempt /\ call'.hops = call.hops
           /\ call'.requests = call.requests
<1>1. call' = Aged(call) /\ (call.stage = "sent" => call.flight < AttemptTicks)
  BY DEF Tick
<1> QED
  BY <1>1, AgedTyped, Fields DEF Tick, Less

(* The sleep is over.                                                      *)
LEMMA WakeShape ==
    ASSUME call \in CallRecords, Wake
    PROVE  /\ UNCHANGED <<jobVars, calls, contacted, worldVars>>
           /\ call.stage = "sleeping" /\ call.wait = 0
           /\ call' \in CallRecords
           /\ call'.stage = "loop" /\ call'.by = call.by /\ call'.host = call.host
           /\ call'.clock = call.clock /\ call'.start = call.start
           /\ call'.attempt = call.attempt /\ call'.hops = call.hops
           /\ call'.requests = call.requests /\ call'.last = call.last
  BY DEF Wake, CallRecords

(* A call that has not begun has used nothing.                             *)
LEMMA FreshShape ==
    ASSUME \/ CollectorGet \/ SeedBegin
           \/ Take \/ SeedLearn \/ SeedEnd \/ SeedFails, seeded \in BOOLEAN,
           bootstrapping \in BOOLEAN
    PROVE  /\ call' \in CallRecords
           /\ call'.stage \in {"idle", "loop", "ended"}
           /\ call'.clock = 0 /\ call'.start = 0 /\ call'.attempt = 0
           /\ call'.hops = 0 /\ call'.requests = 0 /\ call'.last = "none"
<1>1. CASE CollectorGet
  BY <1>1, GetTyped DEF CollectorGet, Callers
<1>2. CASE SeedBegin
  BY <1>2, GetTyped, GatewayAssumption DEF SeedBegin, Callers
<1>3. CASE SeedLearn
  <2>1. call' = [NoCall EXCEPT !.by = "AAAA", !.stage = "loop"]
    BY <1>3 DEF SeedLearn
  <2>2. NoCall.clock = 0 /\ NoCall.start = 0 /\ NoCall.attempt = 0
        /\ NoCall.hops = 0 /\ NoCall.requests = 0 /\ NoCall.last = "none"
    BY DEF NoCall
  <2> QED
    BY <2>1, <2>2, NoCallTyped DEF CallRecords, Callers
<1>4. CASE Take \/ SeedEnd \/ SeedFails
  <2>1. call' = NoCall
    BY <1>4 DEF Take, SeedEnd, SeedFails
  <2> QED
    BY <2>1, NoCallTyped DEF NoCall
<1> QED
  BY <1>1, <1>2, <1>3, <1>4

(* Time passes for a host.                                                 *)
LEMMA PassesTyped ==
    ASSUME notBefore \in [Hosts -> 0..MaxHint], Passes
    PROVE  /\ notBefore' \in [Hosts -> 0..MaxHint]
           /\ \A h \in Hosts : notBefore'[h] = Less(notBefore[h])
  BY GatewayAssumption DEF Passes, Less

-----------------------------------------------------------------------------
(* Types.                                                                  *)

Typed == GatewayTypeOK /\ AttemptsInv

LEMMA TypedAtFirst == GatewayInit => Typed
<1> SUFFICES ASSUME GatewayInit PROVE Typed
  OBVIOUS
<1>1. call = NoCall /\ NoCall.stage = "idle"
  BY DEF GatewayInit, NoCall
<1>2. GatewayTypeOK
  <2>1. calls \in 0..MaxCalls
    BY GatewayAssumption DEF GatewayInit
  <2>2. call \in CallRecords
    BY <1>1, NoCallTyped
  <2>3. notBefore \in [Hosts -> 0..MaxHint]
    <3>1. notBefore = [h \in Hosts |-> 0] /\ 0 \in 0..MaxHint
      BY GatewayAssumption DEF GatewayInit
    <3> QED
      BY <3>1
  <2> QED
    BY <2>1, <2>2, <2>3 DEF GatewayInit, GatewayTypeOK
<1> QED
  BY <1>1, <1>2 DEF Typed, AttemptsInv

LEMMA TypedKept ==
    ASSUME Typed, [GatewayNext]_vars
    PROVE  Typed'
<1> USE DEF Typed, AttemptsInv
<1>1. CASE StartAttempt
  <2>1. call' \in CallRecords /\ AttemptsInv'
    BY <1>1, StartShape DEF GatewayTypeOK
  <2>2. \A pinned \in Addresses \ (Forbidden \cup deny) :
            [host |-> call.host, address |-> pinned] \in [host : Hosts, address : Addresses]
    BY Fields DEF GatewayTypeOK
  <2> QED
    BY <1>1, <2>1, <2>2, StartShape DEF GatewayTypeOK, jobVars, worldVars
<1>2. CASE Answered
  <2>1. call' \in CallRecords /\ AttemptsInv'
    BY <1>2, AnsweredShape, GatewayAssumption DEF GatewayTypeOK
  <2> QED
    BY <1>2, <2>1, AnsweredShape, AnsweredAsks DEF GatewayTypeOK, jobVars
<1>3. CASE Wake
  BY <1>3, WakeShape DEF GatewayTypeOK, jobVars, worldVars
<1>4. CASE Tick
  BY <1>4, TickShape, PassesTyped DEF GatewayTypeOK, jobVars
<1>5. ASSUME \/ CollectorGet \/ SeedBegin
             \/ Take \/ SeedLearn \/ SeedEnd \/ SeedFails
      PROVE  call' \in CallRecords /\ AttemptsInv'
  BY <1>5, FreshShape, GatewayAssumption DEF GatewayTypeOK
<1>6. CASE CollectorGet
  BY <1>5, <1>6, GatewayAssumption DEF GatewayTypeOK, CollectorGet, jobVars, worldVars
<1>7. CASE SeedBegin
  BY <1>5, <1>7 DEF GatewayTypeOK, SeedBegin, worldVars
<1>8. CASE Take
  BY <1>5, <1>8 DEF GatewayTypeOK, Take, jobVars
<1>9. CASE SeedLearn
  BY <1>5, <1>9 DEF GatewayTypeOK, SeedLearn, worldVars
<1>10. CASE SeedEnd
  BY <1>5, <1>10 DEF GatewayTypeOK, SeedEnd, worldVars
<1>11. CASE SeedFails
  BY <1>5, <1>11 DEF GatewayTypeOK, SeedFails, worldVars
<1>12. CASE SeedFromTarget
  BY <1>12 DEF GatewayTypeOK, SeedFromTarget, worldVars
<1>13. CASE Idle
  BY <1>13, PassesTyped DEF GatewayTypeOK, Idle, jobVars
<1>14. CASE UNCHANGED vars
  BY <1>14 DEF GatewayTypeOK, vars, jobVars, worldVars
<1> QED
  BY <1>1, <1>2, <1>3, <1>4, <1>6, <1>7, <1>8, <1>9, <1>10, <1>11, <1>12, <1>13, <1>14
  DEF GatewayNext, Progress

LEMMA AlwaysTyped == GatewaySpec => []Typed
  BY TypedAtFirst, TypedKept, PTL DEF GatewaySpec

(* Every variable of the gateway keeps to its values, whatever the hosts,  *)
(* addresses, retries and budgets.                                         *)
THEOREM GatewayTyped == GatewaySpec => []GatewayTypeOK
<1>1. Typed => GatewayTypeOK
  BY DEF Typed
<1> QED
  BY <1>1, AlwaysTyped, PTL

-----------------------------------------------------------------------------
(* Time.                                                                   *)

LEMMA TimeAtFirst == GatewayInit => TimeInv
  BY GatewayAssumption DEF GatewayInit, TimeInv, EndsInTime, NoCall

LEMMA TimeKept ==
    ASSUME Typed, TimeInv, [GatewayNext]_vars
    PROVE  TimeInv'
<1> USE GatewayAssumption DEF TimeInv, EndsInTime
<1>0. /\ call \in CallRecords /\ call' \in CallRecords /\ AttemptsInv
      /\ notBefore \in [Hosts -> 0..MaxHint]
  BY TypedKept DEF Typed, GatewayTypeOK
<1>1. CASE StartAttempt
  BY <1>0, <1>1, StartShape, Fields DEF Elapsed
<1>2. CASE Answered
  BY <1>0, <1>2, AnsweredShape, Fields DEF Elapsed
<1>3. CASE Wake
  BY <1>0, <1>3, WakeShape, Fields
<1>4. CASE Tick
  BY <1>0, <1>4, TickShape, Fields
<1>5. CASE \/ CollectorGet \/ SeedBegin
           \/ Take \/ SeedLearn \/ SeedEnd \/ SeedFails
  BY <1>5, FreshShape DEF Typed, GatewayTypeOK
<1>6. CASE SeedFromTarget \/ Idle \/ UNCHANGED vars
  BY <1>6 DEF SeedFromTarget, Idle, vars
<1> QED
  BY <1>1, <1>2, <1>3, <1>4, <1>5, <1>6 DEF GatewayNext, Progress

(* Neither retries nor redirects take a call beyond its budget by more     *)
(* than one attempt and one unchecked backoff, for any budget and cap.     *)
THEOREM EndsWithinBudget == GatewaySpec => []EndsInTime
<1>1. TimeInv => EndsInTime
  BY DEF TimeInv
<1> QED
  BY <1>1, TimeAtFirst, TimeKept, AlwaysTyped, PTL DEF GatewaySpec

-----------------------------------------------------------------------------
(* Pauses.                                                                 *)

LEMMA PauseAtFirst == GatewayInit => PauseInv
  BY DEF GatewayInit, PauseInv, NoCall

LEMMA PauseKept ==
    ASSUME Typed, PauseInv, [GatewayNext]_vars
    PROVE  PauseInv'
<1> USE DEF PauseInv
<1>0. /\ call \in CallRecords /\ call' \in CallRecords /\ AttemptsInv
      /\ notBefore \in [Hosts -> 0..MaxHint]
      /\ call.host \in Hosts /\ notBefore[call.host] \in Nat /\ call.wait \in Nat
      /\ call'.wait \in Nat
  <2>1. /\ call \in CallRecords /\ call' \in CallRecords /\ AttemptsInv
        /\ notBefore \in [Hosts -> 0..MaxHint]
    BY TypedKept DEF Typed, GatewayTypeOK
  <2> QED
    BY <2>1, Fields, GatewayAssumption
<1>1. CASE StartAttempt
  BY <1>0, <1>1, StartShape DEF worldVars
<1>2. CASE Answered
  BY <1>0, <1>2, AnsweredShape
<1>3. CASE Wake
  BY <1>0, <1>3, WakeShape DEF worldVars
<1>4. CASE Tick
  <2>1. notBefore'[call.host] = Less(notBefore[call.host])
    BY <1>0, <1>4, TickShape, PassesTyped
  <2> QED
    BY <1>0, <1>4, <2>1, TickShape DEF Less
<1>5. CASE \/ CollectorGet \/ SeedBegin
           \/ Take \/ SeedLearn \/ SeedEnd \/ SeedFails
  BY <1>5, FreshShape DEF Typed, GatewayTypeOK
<1>6. CASE SeedFromTarget \/ UNCHANGED vars
  BY <1>6 DEF SeedFromTarget, vars, worldVars
<1>7. CASE Idle
  BY <1>7 DEF Idle
<1> QED
  BY <1>1, <1>2, <1>3, <1>4, <1>5, <1>6, <1>7 DEF GatewayNext, Progress

(* The Retry-After of a 429 is slept through to its end before the request *)
(* is repeated, for every value of it and whatever other answers and       *)
(* errors the call has met.                                                *)
THEOREM PausesAreHonoured == GatewaySpec => []RetryAfterHonoured
<1>1. PauseInv => RetryAfterHonoured
  BY DEF PauseInv, RetryAfterHonoured, RequestStarts
<1> QED
  BY <1>1, PauseAtFirst, PauseKept, AlwaysTyped, PTL DEF GatewaySpec

-----------------------------------------------------------------------------
(* Requests.                                                               *)

(* Multiplication as the counts need it.                                   *)
LEMMA Products ==
    ASSUME NEW m \in Nat, NEW h \in Nat, NEW r \in Nat, h <= r
    PROVE  /\ m * (h + 1) = m * h + m
           /\ m * h <= m * r
           /\ m * h \in Nat
<1>1. PICK k \in Nat : r = h + k
  <2>1. r - h \in Nat /\ r = h + (r - h)
    OBVIOUS
  <2> QED
    BY <2>1
<1>2. m * (h + k) = m * h + m * k /\ m * k \in Nat /\ m * h \in Nat
  OBVIOUS
<1> QED
  BY <1>1, <1>2

(* The attempts of the hops taken, and those of the present one.           *)
RequestsInv == call.requests <= MaxAttempts * call.hops + call.attempt

LEMMA RequestsAtFirst == GatewayInit => RequestsInv
  BY GatewayAssumption DEF GatewayInit, RequestsInv, NoCall

LEMMA RequestsKept ==
    ASSUME Typed, RequestsInv, [GatewayNext]_vars
    PROVE  RequestsInv'
<1> USE DEF RequestsInv
<1>0. /\ call \in CallRecords /\ call' \in CallRecords /\ AttemptsInv
      /\ notBefore \in [Hosts -> 0..MaxHint]
      /\ MaxAttempts * call.hops \in Nat
      /\ MaxAttempts * (call.hops + 1) = MaxAttempts * call.hops + MaxAttempts
  <2>1. /\ call \in CallRecords /\ call' \in CallRecords /\ AttemptsInv
        /\ notBefore \in [Hosts -> 0..MaxHint]
    BY TypedKept DEF Typed, GatewayTypeOK
  <2>2. MaxAttempts \in Nat /\ call.hops \in Nat /\ call.hops <= call.hops
    BY <2>1, Fields, GatewayAssumption
  <2> QED
    BY <2>1, <2>2, Products
<1>1. CASE StartAttempt
  BY <1>0, <1>1, StartShape, Fields
<1>2. CASE Answered
  BY <1>0, <1>2, AnsweredShape, Fields, GatewayAssumption
<1>3. CASE Wake
  BY <1>0, <1>3, WakeShape
<1>4. CASE Tick
  BY <1>0, <1>4, TickShape
<1>5. CASE \/ CollectorGet \/ SeedBegin
           \/ Take \/ SeedLearn \/ SeedEnd \/ SeedFails
  BY <1>5, FreshShape, GatewayAssumption DEF Typed, GatewayTypeOK
<1>6. CASE SeedFromTarget \/ Idle \/ UNCHANGED vars
  BY <1>6 DEF SeedFromTarget, Idle, vars
<1> QED
  BY <1>1, <1>2, <1>3, <1>4, <1>5, <1>6 DEF GatewayNext, Progress

(* A call makes at most max_attempts requests for each of its hops, for    *)
(* any number of attempts and redirects allowed.                           *)
THEOREM BoundedRequests == GatewaySpec => []RequestsBounded
<1>1. ASSUME Typed, RequestsInv
      PROVE  RequestsBounded
  <2>1. /\ MaxAttempts \in Nat /\ MaxRedirects \in Nat
        /\ call.hops \in Nat /\ call.hops <= MaxRedirects
        /\ call.attempt \in Nat /\ call.attempt <= MaxAttempts
        /\ call.requests \in Nat
    BY <1>1, Fields, GatewayAssumption DEF Typed, GatewayTypeOK
  <2>2. /\ MaxAttempts * call.hops <= MaxAttempts * MaxRedirects
        /\ MaxAttempts * call.hops \in Nat
    BY <2>1, Products
  <2>3. /\ MaxAttempts * (MaxRedirects + 1) = MaxAttempts * MaxRedirects + MaxAttempts
        /\ MaxAttempts * MaxRedirects \in Nat
    <3>1. MaxRedirects <= MaxRedirects
      BY <2>1
    <3> QED
      BY <2>1, <3>1, Products
  <2> QED
    BY <1>1, <2>1, <2>2, <2>3 DEF RequestsInv, RequestsBounded, MostRequests
<1> QED
  BY <1>1, RequestsAtFirst, RequestsKept, AlwaysTyped, PTL DEF GatewaySpec

-----------------------------------------------------------------------------
(* Access.                                                                 *)

LEMMA AccessAtFirst == GatewayInit => AccessInv
  BY DEF GatewayInit, AccessInv, ContactsArePermitted, NoCall

(* A collector's new call is on its way only with a deny-list, to a host   *)
(* that collectors declare.                                                *)
LEMMA CollectorGetShape ==
    ASSUME Typed, AccessInv, CollectorGet
    PROVE  /\ call'.by = "collector"
           /\ call'.stage = "loop" => call'.host \in AllowedHosts /\ seeded
           /\ call'.stage \in {"ended", "loop"}
           /\ phase # "seeding"
           /\ UNCHANGED <<phase, bootstrapping, seeded, deny, contacted>>
<1>1. PICK h \in Hosts, follows \in BOOLEAN :
         Get("collector", h, follows, AllowedHosts, bootstrapping)
  BY DEF CollectorGet
<1>2. "collector" \in Callers /\ bootstrapping \in BOOLEAN /\ seeded \in BOOLEAN
  BY DEF Callers, Typed, GatewayTypeOK
<1>3. /\ call'.by = "collector" /\ call'.host = h
      /\ call'.stage \in {"ended", "loop"}
      /\ call'.stage = "loop" => h \in AllowedHosts /\ (seeded \/ bootstrapping)
  BY <1>1, <1>2, GetTyped
<1> QED
  BY <1>3 DEF CollectorGet, AccessInv, jobVars

LEMMA AccessKept ==
    ASSUME Typed, AccessInv, [GatewayNext]_vars
    PROVE  AccessInv'
<1>0. /\ call \in CallRecords /\ AttemptsInv /\ seeded \in BOOLEAN
      /\ notBefore \in [Hosts -> 0..MaxHint]
  BY DEF Typed, GatewayTypeOK
<1> USE DEF AccessInv, ContactsArePermitted
<1>1. CASE StartAttempt
  <2>1. UNCHANGED <<phase, bootstrapping, seeded, deny>> /\ call'.by = call.by
        /\ call.stage = "loop"
    BY <1>0, <1>1, StartShape DEF jobVars
  <2>2. CASE call'.stage = "ended" /\ UNCHANGED contacted
    BY <2>1, <2>2
  <2>3. CASE call'.stage = "sent" /\ call'.host = call.host /\ UNCHANGED contacted
    BY <2>1, <2>3
  <2>4. CASE /\ call'.stage = "sent" /\ call'.host = call.host
             /\ call.by = "collector"
             /\ \E pinned \in Addresses \ (Forbidden \cup deny) :
                    contacted' = contacted \cup {[host |-> call.host, address |-> pinned]}
    BY <2>1, <2>4
  <2> QED
    BY <1>0, <1>1, <2>2, <2>3, <2>4, StartShape
<1>2. CASE Answered
  <2>1. /\ UNCHANGED <<phase, bootstrapping, seeded, deny, contacted>>
        /\ call.stage = "sent" /\ call'.by = call.by
        /\ \/ call'.stage = "ended"
           \/ call'.stage = "sleeping" /\ call'.host = call.host
           \/ call'.stage = "loop" /\ call'.host \in ApprovedHosts
    BY <1>0, <1>2, AnsweredShape DEF jobVars
  <2> QED
    BY <2>1
<1>3. CASE Wake
  BY <1>0, <1>3, WakeShape DEF jobVars
<1>4. CASE Tick
  BY <1>0, <1>4, TickShape DEF jobVars
<1>5. CASE CollectorGet
  BY <1>5, CollectorGetShape
<1>6. CASE SeedBegin
  <2>1. "A" \in Callers /\ FALSE \in BOOLEAN /\ TRUE \in BOOLEAN /\ DohHost \in Hosts
    BY GatewayAssumption DEF Callers
  <2>2. Get("A", DohHost, FALSE, {DohHost}, TRUE)
    BY <1>6 DEF SeedBegin
  <2>3. call'.by = "A"
    BY <1>0, <2>1, <2>2, GetTyped
  <2> QED
    BY <1>6, <2>3 DEF SeedBegin
<1>7. CASE SeedFromTarget
  BY <1>7 DEF SeedFromTarget
<1>8. CASE Take \/ SeedEnd \/ SeedFails
  <2>1. call'.by = "none"
    BY <1>8 DEF Take, SeedEnd, SeedFails, NoCall
  <2> QED
    BY <1>8, <2>1 DEF Take, SeedEnd, SeedFails, jobVars
<1>9. CASE SeedLearn
  <2>1. call'.by = "AAAA"
    BY <1>9 DEF SeedLearn, NoCall
  <2> QED
    BY <1>9, <2>1 DEF SeedLearn
<1>10. CASE Idle \/ UNCHANGED vars
  BY <1>10 DEF Idle, vars, jobVars
<1> QED
  BY <1>1, <1>2, <1>3, <1>4, <1>5, <1>6, <1>7, <1>8, <1>9, <1>10
  DEF GatewayNext, Progress

(* No collector's request goes to a forbidden or denied address or to a    *)
(* host nobody named, for any hosts, addresses, and resolver.              *)
THEOREM OnlyPermitted == GatewaySpec => []ContactsArePermitted
<1>1. AccessInv => ContactsArePermitted
  BY DEF AccessInv
<1> QED
  BY <1>1, AccessAtFirst, AccessKept, AlwaysTyped, PTL DEF GatewaySpec

-----------------------------------------------------------------------------

(* What is still to come fits: no index that is pending can add more rows  *)
(* than the cap leaves for it.                                             *)
RowsInv ==
    /\ pending \in Seq(Indexes)
    /\ rows \in Seq(Indexes \X IndexRows)
    /\ limit \in Nat
    /\ Len(rows) + Len(pending) * limit <= MaxRows
    /\ pc = "index" => pending # <<>>
    /\ pc = "start" => rows = <<>> /\ pending = <<>>

(* The findings hold what the budget has lost, and the budget is overdrawn *)
(* by at most the slack.                                                   *)
BytesInv ==
    /\ provider \in Providers
    /\ remaining \in Int /\ kept \in Int
    /\ kept + remaining = ByteBudget
    /\ remaining >= IF provider = "wayback" THEN 0 ELSE -Slack

(* The smaller of two integers.                                            *)
LEMMA MinOfTwo ==
    ASSUME NEW a \in Int, NEW b \in Int
    PROVE  Min({a, b}) \in Int /\ Min({a, b}) <= a /\ Min({a, b}) <= b
<1> DEFINE m == IF a <= b THEN a ELSE b
<1>1. m \in {a, b} /\ \A y \in {a, b} : m <= y
  OBVIOUS
<1>2. \E x \in {a, b} : \A y \in {a, b} : x <= y
  BY <1>1
<1>3. Min({a, b}) \in {a, b} /\ \A y \in {a, b} : Min({a, b}) <= y
  BY <1>2 DEF Min
<1> QED
  BY <1>3

(* The larger of two integers.                                             *)
LEMMA MaxOfTwo ==
    ASSUME NEW a \in Int, NEW b \in Int
    PROVE  Max({a, b}) \in {a, b}
<1> DEFINE m == IF a <= b THEN b ELSE a
<1>1. m \in {a, b} /\ \A y \in {a, b} : m >= y
  OBVIOUS
<1>2. \E x \in {a, b} : \A y \in {a, b} : x >= y
  BY <1>1
<1> QED
  BY <1>2 DEF Max

(* The share of each of n crawls, taken n times, is within the cap as long *)
(* as there are not more crawls than rows.                                 *)
LEMMA SharesFit ==
    ASSUME NEW n \in Nat \ {0}, n <= MaxRows
    PROVE  /\ Max({1, MaxRows \div n}) \in Nat
           /\ n * Max({1, MaxRows \div n}) <= MaxRows
<1> DEFINE q == MaxRows \div n
<1>1. MaxRows \in Nat
  BY ArchiveAssumption
<1>2. q \in Int /\ n * q <= MaxRows /\ MaxRows < n * q + n
  BY <1>1
<1>3. q >= 1
  <2>1. SUFFICES ASSUME q <= 0 PROVE FALSE
    BY <1>2
  <2>2. n * q <= 0
    BY <2>1, <1>2
  <2> QED
    BY <2>2, <1>1, <1>2
<1>4. Max({1, q}) \in {1, q}
  BY <1>2, MaxOfTwo
<1> QED
  BY <1>1, <1>2, <1>3, <1>4

-----------------------------------------------------------------------------
(* Rows.                                                                   *)

(* When the coroutine takes the answer of an index off the list, the share *)
(* of that index is free for its rows.                                     *)
LEMMA IndexedKeepsRows ==
    ASSUME RowsInv, pc = "index", Indexed,
           rows' \in Seq(Indexes \X IndexRows),
           Len(rows') <= Len(rows) + limit
    PROVE  RowsInv'
<1>1. /\ pending \in Seq(Indexes) /\ pending # <<>>
      /\ pending' = Tail(pending)
  BY DEF RowsInv, Indexed
<1>2. /\ pending' \in Seq(Indexes)
      /\ Len(pending') = Len(pending) - 1
      /\ Len(pending) \in Nat /\ Len(pending) >= 1
  BY <1>1, HeadTailProperties, LenProperties, EmptySeq
<1>3. limit' = limit /\ limit \in Nat
  BY DEF RowsInv, Indexed
<1>4. Len(rows') \in Nat /\ Len(rows) \in Nat
  BY LenProperties DEF RowsInv
<1>5. Len(rows') + Len(pending') * limit' <= MaxRows
  <2>1. Len(rows) + Len(pending) * limit <= MaxRows
    BY DEF RowsInv
  <2>2. (Len(pending) - 1) * limit = Len(pending) * limit - limit
    BY <1>2, <1>3
  <2> QED
    BY <2>1, <2>2, <1>2, <1>3, <1>4, ArchiveAssumption
<1>6. pc' = "index" => pending' # <<>>
  <2>1. CASE Len(pending) > 1
    BY <2>1, <1>2, EmptySeq
  <2>2. CASE ~(Len(pending) > 1)
    BY <2>2 DEF Indexed
  <2> QED
    BY <2>1, <2>2
<1>7. pc' # "start"
  BY DEF Indexed
<1> QED
  BY <1>2, <1>3, <1>5, <1>6, <1>7 DEF RowsInv

LEMMA RowsInvariant == ArchiveSpec => []RowsInv
<1>1. ArchiveInit => RowsInv
  BY EmptySeq, ArchiveAssumption DEF ArchiveInit, RowsInv
<1>2. RowsInv /\ [ArchiveNext]_archiveVars => RowsInv'
  <2> SUFFICES ASSUME RowsInv, [ArchiveNext]_archiveVars PROVE RowsInv'
    OBVIOUS
  <2>1. CASE CacheHit
    BY <2>1 DEF CacheHit, RowsInv, indexVars
  <2>2. CASE AskWayback
    <3>1. /\ rows = <<>> /\ rows' = rows
          /\ pending' = <<"wayback">>
          /\ limit' = MaxRows /\ pc' = "index"
      BY <2>2 DEF AskWayback, RowsInv
    <3>2. pending' \in Seq(Indexes) /\ Len(pending') = 1 /\ pending' # <<>>
      BY <3>1 DEF Indexes
    <3>3. Len(rows') = 0 /\ rows' \in Seq(Indexes \X IndexRows)
      BY <3>1, EmptySeq
    <3> QED
      BY <3>1, <3>2, <3>3, ArchiveAssumption DEF RowsInv
  <2>3. CASE Bootstrap
    <3>1. rows = <<>> /\ rows' = rows
      BY <2>3 DEF Bootstrap, RowsInv
    <3>2. PICK list \in Crawls :
             \/ /\ list = <<>> /\ pc' = "failed"
                /\ UNCHANGED <<pending, limit>>
             \/ /\ list # <<>> /\ pc' = "index" /\ pending' = list
                /\ limit' = Max({1, MaxRows \div Len(list)})
      BY <2>3 DEF Bootstrap
    <3>3. CASE list = <<>>
      BY <3>1, <3>2, <3>3 DEF RowsInv
    <3>4. CASE list # <<>>
      <4>1. PICK n \in 0..Limit : list \in [1..n -> Collections]
        BY DEF Crawls, BoundedSeq, SeqOf
      <4>2. n \in Nat /\ n <= MaxRows
        BY ArchiveAssumption
      <4>3. list \in Seq(Collections) /\ Len(list) = n
        BY <4>1, <4>2
      <4>4. list \in Seq(Indexes) /\ n # 0
        BY <4>1, <4>2, <4>3, <3>4, EmptySeq DEF Indexes
      <4>5. limit' \in Nat /\ Len(pending') * limit' <= MaxRows
        BY <3>2, <3>4, <4>2, <4>3, <4>4, SharesFit
      <4>6. Len(rows') = 0 /\ rows' \in Seq(Indexes \X IndexRows)
        BY <3>1, EmptySeq
      <4>7. Len(rows') + Len(pending') * limit' <= MaxRows
        BY <3>2, <3>4, <4>2, <4>3, <4>5, <4>6, ArchiveAssumption
      <4> QED
        BY <3>2, <3>4, <4>4, <4>5, <4>6, <4>7 DEF RowsInv
    <3> QED
      BY <3>3, <3>4
  <2>4. CASE BootstrapFails
    BY <2>4 DEF BootstrapFails, GivesUp, RowsInv, indexVars
  <2>5. CASE Answer
    <3> DEFINE tagged(answer) ==
            [i \in DOMAIN answer |-> <<Head(pending), answer[i]>>]
    <3>1. PICK answer \in BoundedSeq(IndexRows, limit) : rows' = rows \o tagged(answer)
      BY <2>5 DEF Answer
    <3>2. PICK n \in 0..limit : answer \in [1..n -> IndexRows]
      BY DEF BoundedSeq, SeqOf
    <3>3. limit \in Nat /\ n \in Nat /\ n <= limit
      BY DEF RowsInv
    <3>4. Head(pending) \in Indexes
      BY <2>5, HeadTailProperties DEF Answer, RowsInv
    <3>5. /\ tagged(answer) \in Seq(Indexes \X IndexRows)
          /\ Len(tagged(answer)) = n
      BY <3>2, <3>3, <3>4
    <3>6. rows \in Seq(Indexes \X IndexRows) /\ Len(rows) \in Nat
      BY LenProperties DEF RowsInv
    <3>7. /\ rows' \in Seq(Indexes \X IndexRows)
          /\ Len(rows') = Len(rows) + n
      BY <3>1, <3>5, <3>6, ConcatProperties
    <3> QED
      BY <2>5, <3>3, <3>6, <3>7, IndexedKeepsRows DEF Answer
  <2>6. CASE Unavailable
    <3>1. CASE provider = "commoncrawl" /\ UNCHANGED rows /\ Indexed
      <4>1. Len(rows) \in Nat /\ limit \in Nat
        BY LenProperties DEF RowsInv
      <4>2. rows' \in Seq(Indexes \X IndexRows) /\ Len(rows') <= Len(rows) + limit
        BY <3>1, <4>1 DEF RowsInv
      <4> QED
        BY <2>6, <3>1, <4>2, IndexedKeepsRows DEF Unavailable, GivesUp
    <3>2. CASE pc' = "failed" /\ UNCHANGED <<pending, indexVars>>
      BY <3>2 DEF RowsInv, indexVars
    <3> QED
      BY <2>6, <3>1, <3>2 DEF Unavailable, GivesUp
  <2>7. CASE PassOver
    BY <2>7 DEF PassOver, RowsInv, indexVars
  <2>8. CASE Refused
    BY <2>8 DEF Refused, RowsInv, indexVars
  <2>9. CASE Sampled
    BY <2>9 DEF Sampled, RowsInv, indexVars
  <2>10. CASE Return
    BY <2>10 DEF Return, RowsInv, indexVars
  <2>12. CASE Unexpected
    BY <2>12 DEF Unexpected, GivesUp, RowsInv, indexVars
  <2>11. CASE UNCHANGED archiveVars
    BY <2>11 DEF archiveVars, indexVars, RowsInv
  <2> QED
    BY <2>1, <2>2, <2>3, <2>4, <2>5, <2>6, <2>7, <2>8, <2>9, <2>10, <2>11, <2>12
    DEF ArchiveNext
<1> QED
  BY <1>1, <1>2, PTL DEF ArchiveSpec

(* However many crawls are listed and whatever they answer, no more rows   *)
(* are taken in than MAX_INDEX_ROWS.                                       *)
LEMMA RowsStayWithinCap == ArchiveSpec => []RowsWithinCap
<1>1. RowsInv => RowsWithinCap
  <2> SUFFICES ASSUME RowsInv PROVE RowsWithinCap
    OBVIOUS
  <2>1. Len(rows) \in Nat /\ Len(pending) \in Nat /\ limit \in Nat
    BY LenProperties DEF RowsInv
  <2>2. Len(pending) * limit \in Nat
    BY <2>1
  <2>3. Len(rows) + Len(pending) * limit <= MaxRows /\ MaxRows \in Nat
    BY ArchiveAssumption DEF RowsInv
  <2>4. Len(rows) <= MaxRows
    BY <2>1, <2>2, <2>3
  <2> QED
    BY <2>4 DEF RowsWithinCap
<1> QED
  BY <1>1, RowsInvariant, PTL

-----------------------------------------------------------------------------
(* Bytes.                                                                  *)

(* A page that is sampled takes no more than the room left for it and the  *)
(* slack.                                                                  *)
LEMMA SampledKeepsBytes ==
    ASSUME BytesInv, Sampled, Copy.length \in Int
    PROVE  BytesInv'
<1>1. remaining \in Int /\ remaining > 0 /\ Cap \in Nat /\ Slack \in Nat
  BY ArchiveAssumption DEF Sampled, Fetching, Sampling, BytesInv
<1>2. Room \in Int /\ Room <= remaining
  BY <1>1, MinOfTwo DEF Room
<1>3. PICK size \in Smallest..Largest :
         remaining' = remaining - size /\ kept' = kept + size
  BY DEF Sampled
<1>4. size \in Int /\ size <= Largest
  BY <1>3
<1>5. provider' = provider /\ provider \in Providers
  BY DEF Sampled, BytesInv
<1>6. remaining - size >= IF provider = "wayback" THEN 0 ELSE -Slack
  <2>1. CASE provider = "wayback"
    BY <2>1, <1>1, <1>2, <1>4 DEF Largest
  <2>2. CASE provider = "commoncrawl"
    <3>1. Copy.length \in Int /\ Copy.length <= Room
      BY <2>2, <1>2 DEF Sampled, Fetching, DoesNotFit, TooLarge
    <3>2. size <= Copy.length + Slack
      BY <2>2, <1>4 DEF Largest
    <3> QED
      BY <2>2, <3>1, <3>2, <1>1, <1>2, <1>4
  <2> QED
    BY <2>1, <2>2, <1>5 DEF Providers
<1> QED
  BY <1>1, <1>3, <1>4, <1>5, <1>6 DEF BytesInv

-----------------------------------------------------------------------------
(* The loops of an archive collector, by their invariants.                 *)

(* The candidates are URLs of the index with a copy to fetch.              *)
UrlsKept(list, k, kept_) ==
    kept_ \in Seq({list[i].url : i \in {i \in 1..Len(list) : list[i].wanted}})

KeepLoop == INSTANCE LeftFold WITH Op <- Keep, Holds <- UrlsKept

(* After k candidates: as many as allowed, of different kinds in the first *)
(* half, and of every kind as long as there is room for more.              *)
Diverse(list, k, taken) ==
    /\ taken \in Seq(Urls)
    /\ \A i \in 1..Len(taken) : \E j \in 1..k : taken[i] = list[j]
    /\ Len(taken) <= MaxDocs
    /\ \A i, j \in 1..Len(taken) :
           i # j /\ i <= MaxDocs \div 2 /\ j <= MaxDocs \div 2
               => Extension(taken[i]) # Extension(taken[j])
    /\ Len(taken) < MaxDocs =>
           \A i \in 1..k : Extension(list[i]) \in Extensions(taken)

TakeLoop == INSTANCE LeftFold WITH Op <- TakeUrl, Holds <- Diverse

LEMMA CandidatesTyped ==
    ASSUME NEW by
    PROVE  Candidates(by) \in Seq({url \in Urls : url \in DOMAIN by /\ IsCandidate(by[url])})
<1> DEFINE In(url) == url \in DOMAIN by /\ IsCandidate(by[url])
           Page(url) == Extension(url) \in {"", "html", "htm"}
           Items(page) == [i \in DOMAIN UrlOrder |->
                              [url |-> UrlOrder[i],
                               wanted |-> In(UrlOrder[i]) /\ Page(UrlOrder[i]) = page]]
           S == {item \in [url : Urls, wanted : BOOLEAN] : item.wanted => In(item.url)}
           list == Items(TRUE) \o Items(FALSE)
           Wanted == {list[i].url : i \in {i \in 1..Len(list) : list[i].wanted}}
<1>1. UrlOrder \in Seq(Urls)
  BY RowsAssumption
<1>2. ASSUME NEW page \in BOOLEAN PROVE Items(page) \in Seq(S)
  <2> HIDE DEF In, Page
  <2>1. \A i \in DOMAIN UrlOrder : UrlOrder[i] \in Urls
    BY DEF Urls
  <2>2. DOMAIN UrlOrder = 1..Len(UrlOrder) /\ Len(UrlOrder) \in Nat
    BY <1>1
  <2>3. ASSUME NEW i \in 1..Len(UrlOrder) PROVE Items(page)[i] \in S
    <3> DEFINE url == UrlOrder[i]  wanted == In(url) /\ Page(url) = page
    <3>1. url \in Urls /\ Items(page)[i] = [url |-> url, wanted |-> wanted]
      BY <2>1, <2>2
    <3>2. wanted \in BOOLEAN /\ (wanted => In(url))
      BY Zenon
    <3> HIDE DEF url, wanted, Items
    <3>3. [url |-> url, wanted |-> wanted] \in [url : Urls, wanted : BOOLEAN]
      BY <3>1, <3>2
    <3> QED BY <3>1, <3>2, <3>3
  <2> QED BY <2>2, <2>3
<1>3. list \in Seq(S)
  <2> HIDE DEF Items, S
  <2> QED BY <1>2, ConcatProperties
<1>4. Candidates(by) = FoldLeft(Keep, <<>>, list)
  BY Zenon DEF Candidates
<1> HIDE DEF list
<1>5. FoldLeft(Keep, <<>>, list) = KeepLoop!Folded(<<>>, list)
  BY DEF KeepLoop!Folded, KeepLoop!FoldLeft, KeepLoop!MapThenFoldSet, KeepLoop!Max,
         FoldLeft, MapThenFoldSet, Max
<1>6. ASSUME NEW i \in 1..Len(list), NEW kept_, UrlsKept(list, i - 1, kept_)
      PROVE  UrlsKept(list, i, Keep(kept_, list[i]))
  <2>1. kept_ \in Seq(Wanted)
    BY <1>6 DEF UrlsKept
  <2>2. list[i].wanted => list[i].url \in Wanted
    OBVIOUS
  <2> HIDE DEF Wanted
  <2>3. Keep(kept_, list[i]) \in Seq(Wanted)
    BY <2>1, <2>2, AppendProperties DEF Keep
  <2> QED BY <2>3 DEF UrlsKept, Wanted
<1>7. UrlsKept(list, 0, <<>>)
  BY DEF UrlsKept
<1>8. UrlsKept(list, Len(list), KeepLoop!Folded(<<>>, list))
  <2> HIDE DEF S, Wanted
  <2> QED BY <1>3, <1>6, <1>7, KeepLoop!FoldInvariant
<1>9. Candidates(by) \in Seq(Wanted)
  BY <1>4, <1>5, <1>8 DEF UrlsKept
<1>10. Wanted \subseteq {url \in Urls : In(url)}
  <2> HIDE DEF In
  <2>1. \A i \in 1..Len(list) : list[i] \in S
    BY <1>3
  <2> QED BY <2>1
<1>11. \A list_ \in Seq(Wanted) : list_ \in Seq({url \in Urls : In(url)})
  <2> HIDE DEF Wanted, In
  <2> QED BY <1>10
<1> HIDE DEF Wanted
<1> QED BY <1>9, <1>11

LEMMA TakeKeepsDiverse ==
    ASSUME NEW list \in Seq(Urls), NEW k \in 1..Len(list), NEW taken,
           Diverse(list, k - 1, taken)
    PROVE  Diverse(list, k, TakeUrl(taken, list[k]))
<1> DEFINE url == list[k]  half == MaxDocs \div 2
<1>1. /\ url \in Urls /\ taken \in Seq(Urls) /\ Len(taken) \in Nat
      /\ MaxDocs \in Nat /\ half \in Nat /\ k \in Nat /\ Len(taken) <= MaxDocs
  BY ArchiveAssumption DEF Diverse
<1>2. CASE Len(taken) >= MaxDocs
  BY <1>1, <1>2 DEF TakeUrl, Diverse
<1>3. CASE Len(taken) < MaxDocs /\ Extension(url) \in Extensions(taken) /\ Len(taken) < half
  <2>1. TakeUrl(taken, url) = taken
    BY <1>3 DEF TakeUrl
  <2>2. \A i \in 1..k : i \in 1..(k - 1) \/ i = k
    BY <1>1
  <2> QED BY <1>3, <2>1, <2>2 DEF Diverse
<1>4. CASE /\ Len(taken) < MaxDocs
           /\ Extension(url) \notin Extensions(taken) \/ Len(taken) >= half
  <2> DEFINE more == Append(taken, url)
  <2>1. TakeUrl(taken, url) = more
    BY <1>1, <1>4 DEF TakeUrl
  <2>2. /\ more \in Seq(Urls) /\ Len(more) = Len(taken) + 1
        /\ \A i \in 1..Len(taken) : more[i] = taken[i]
        /\ more[Len(taken) + 1] = url
    BY <1>1, AppendProperties
  <2>3. DOMAIN taken = 1..Len(taken) /\ DOMAIN more = 1..(Len(taken) + 1)
    BY <1>1, <2>2
  <2> HIDE DEF more, half, url
  <2>4. \A i \in 1..Len(taken) : Extension(taken[i]) \in Extensions(taken)
    BY <2>3 DEF Extensions
  <2>5. Extensions(taken) \subseteq Extensions(more) /\ Extension(url) \in Extensions(more)
    BY <1>1, <2>2, <2>3 DEF Extensions
  <2>6. ASSUME NEW i \in 1..Len(more), NEW j \in 1..Len(more),
               i # j, i <= half, j <= half
        PROVE  Extension(more[i]) # Extension(more[j])
    <3>1. CASE i \in 1..Len(taken) /\ j \in 1..Len(taken)
      BY <2>2, <2>6, <3>1 DEF Diverse, half
    <3>2. CASE i = Len(taken) + 1 /\ j \in 1..Len(taken)
      <4>1. Extension(url) \notin Extensions(taken)
        BY <1>1, <1>4, <2>6, <3>2
      <4> QED BY <2>2, <2>4, <3>2, <4>1
    <3>3. CASE j = Len(taken) + 1 /\ i \in 1..Len(taken)
      <4>1. Extension(url) \notin Extensions(taken)
        BY <1>1, <1>4, <2>6, <3>3
      <4> QED BY <2>2, <2>4, <3>3, <4>1
    <3> QED BY <1>1, <2>2, <2>6, <3>1, <3>2, <3>3
  <2>7. ASSUME NEW i \in 1..k PROVE Extension(list[i]) \in Extensions(more)
    <3>1. CASE i = k
      BY <2>5, <3>1 DEF url
    <3>2. CASE i \in 1..(k - 1)
      BY <1>4, <2>5, <3>2 DEF Diverse
    <3> QED BY <1>1, <3>1, <3>2
  <2>8. Len(more) <= MaxDocs
    BY <1>1, <1>4, <2>2
  <2>9. ASSUME NEW i \in 1..Len(more) PROVE \E j \in 1..k : more[i] = list[j]
    <3>1. CASE i \in 1..Len(taken)
      <4>1. PICK j \in 1..(k - 1) : taken[i] = list[j]
        BY <3>1 DEF Diverse
      <4> QED BY <1>1, <2>2, <3>1, <4>1
    <3>2. CASE i = Len(taken) + 1
      BY <1>1, <2>2, <3>2 DEF url
    <3> QED BY <1>1, <2>2, <3>1, <3>2
  <2>10. Diverse(list, k, more)
    BY <2>2, <2>6, <2>7, <2>8, <2>9 DEF Diverse, half
  <2> QED BY <2>1, <2>10 DEF url
<1> QED BY <1>1, <1>2, <1>3, <1>4

(* What _select_representative returns.                                    *)
LEMMA SelectionIsDiverse ==
    ASSUME NEW by
    PROVE  Diverse(Candidates(by), Len(Candidates(by)), Selected(by))
<1> DEFINE list == Candidates(by)
<1>1. list \in Seq(Urls)
  <2> DEFINE C == {url \in Urls : url \in DOMAIN by /\ IsCandidate(by[url])}
  <2>1. list \in Seq(C) /\ C \subseteq Urls
    BY CandidatesTyped
  <2> HIDE DEF C, list
  <2> QED BY <2>1
<1>2. Selected(by) = FoldLeft(TakeUrl, <<>>, list)
  BY DEF Selected
<1> HIDE DEF list
<1>3. FoldLeft(TakeUrl, <<>>, list) = TakeLoop!Folded(<<>>, list)
  BY DEF TakeLoop!Folded, TakeLoop!FoldLeft, TakeLoop!MapThenFoldSet, TakeLoop!Max,
         FoldLeft, MapThenFoldSet, Max
<1>4. Diverse(list, 0, <<>>)
  BY ArchiveAssumption DEF Diverse
<1>5. Diverse(list, Len(list), TakeLoop!Folded(<<>>, list))
  BY <1>1, <1>4, TakeKeepsDiverse, TakeLoop!FoldInvariant
<1> QED BY <1>2, <1>3, <1>5 DEF list

-----------------------------------------------------------------------------
(* Summing up the rows.                                                    *)

(* The usable ones among the first k rows that are captures of this URL.   *)
Caught(all, k, url) ==
    {all[i] : i \in {i \in 1..k : Usable(all[i][2]) /\ Canonical(all[i][2].url) = url}}

(* What an entry says of the captures it stands for.  Unlike in            *)
(* SummaryIsTrue the bounds are spelt out, and a copy that Common Crawl    *)
(* has chosen is one it can fetch.                                         *)
SumsUp(pairs, entry) ==
    /\ pairs \subseteq Indexes \X IndexRows
    /\ \A pair \in pairs : entry.first <= pair[2].time /\ pair[2].time <= entry.last
    /\ \E pair \in pairs : entry.first = pair[2].time
    /\ \E pair \in pairs : entry.last = pair[2].time /\ entry.status = pair[2].status
    /\ entry.collections = {pair[1] : pair \in pairs}
    /\ entry.best # NoRow => \E pair \in pairs : entry.best = pair[2]
    /\ provider = "commoncrawl" /\ entry.best # NoRow => Fetchable(entry.best)
    /\ IsCandidate(entry) <=> \E pair \in pairs : Fetchable(pair[2])

(* After k rows: every URL seen has its entry.                             *)
SummedSoFar(all, k, by) ==
    /\ DOMAIN by = {url \in Urls : Caught(all, k, url) # {}}
    /\ \A url \in DOMAIN by : by[url] \in Entries /\ SumsUp(Caught(all, k, url), by[url])

RowLoop == INSTANCE LeftFold WITH Op <- AddRow, Holds <- SummedSoFar

(* The fields of an entry.                                                 *)
LEMMA EntryFields ==
    ASSUME NEW entry \in Entries
    PROVE  /\ entry.first \in Nat /\ entry.last \in Nat
           /\ entry = [first |-> entry.first, last |-> entry.last,
                       status |-> entry.status, collections |-> entry.collections,
                       best |-> entry.best]
  BY DEF Entries

LEMMA FirstEntryTyped ==
    ASSUME NEW row \in IndexRows PROVE FirstEntry(row) \in Entries
<1>1. row.time \in Nat
  BY RowsAssumption
<1>2. row.status \in {r.status : r \in IndexRows}
  OBVIOUS
<1> QED BY <1>1, <1>2 DEF FirstEntry, Entries

(* The fields of an entry after one more capture.                          *)
LEMMA SeenFields ==
    ASSUME NEW entry \in Entries, NEW index \in Indexes, NEW row \in IndexRows
    PROVE  /\ Seen(entry, index, row) \in Entries
           /\ Seen(entry, index, row).first =
                  IF row.time < entry.first THEN row.time ELSE entry.first
           /\ Seen(entry, index, row).last =
                  IF row.time > entry.last THEN row.time ELSE entry.last
           /\ Seen(entry, index, row).status =
                  IF row.time > entry.last THEN row.status ELSE entry.status
           /\ Seen(entry, index, row).collections = entry.collections \cup {index}
           /\ Seen(entry, index, row).best =
                  IF Fetchable(row) /\ (provider = "commoncrawl" => entry.best = NoRow)
                  THEN row ELSE entry.best
<1>1. row.time \in Nat /\ row.status \in {r.status : r \in IndexRows}
  BY RowsAssumption
<1>2. entry.collections \cup {index} \in SUBSET Indexes
  BY DEF Entries
<1> QED BY <1>1, <1>2 DEF Seen, Entries

LEMMA FirstSumsUp ==
    ASSUME provider \in Providers, NEW index \in Indexes, NEW row \in IndexRows
    PROVE  SumsUp({<<index, row>>}, Seen(FirstEntry(row), index, row))
<1> DEFINE first == FirstEntry(row)  entry == Seen(first, index, row)
           pairs == {<<index, row>>}
<1>1. /\ first \in Entries /\ first.first = row.time /\ first.last = row.time
      /\ first.status = row.status /\ first.collections = {}
      /\ first.best = IF provider = "wayback" THEN row ELSE NoRow
  BY FirstEntryTyped DEF FirstEntry
<1>2. row.time \in Nat /\ row # NoRow
  BY RowsAssumption
<1> HIDE DEF first
<1>3. /\ entry.first = row.time /\ entry.last = row.time /\ entry.status = row.status
      /\ entry.collections = {index}
      /\ entry.best = IF Fetchable(row) THEN row ELSE first.best
  BY <1>1, <1>2, SeenFields DEF Providers
<1> HIDE DEF entry
<1>4. pairs \subseteq Indexes \X IndexRows
  OBVIOUS
<1>5. \A pair \in pairs : pair[1] = index /\ pair[2] = row
  OBVIOUS
<1>6. <<index, row>> \in pairs
  OBVIOUS
<1> HIDE DEF pairs
<1>7. entry.collections = {pair[1] : pair \in pairs}
  BY <1>3, <1>5, <1>6
<1>8. provider = "commoncrawl" /\ entry.best # NoRow => Fetchable(entry.best)
  BY <1>1, <1>3
<1>9. IsCandidate(entry) <=> Fetchable(row)
  BY <1>1, <1>2, <1>3 DEF IsCandidate, Fetchable, Providers
<1>10. entry.best # NoRow => entry.best = row
  BY <1>1, <1>3
<1>11. SumsUp(pairs, entry)
  BY <1>2, <1>3, <1>4, <1>5, <1>6, <1>7, <1>8, <1>9, <1>10 DEF SumsUp
<1> QED BY <1>11 DEF pairs, entry, first

LEMMA NextSumsUp ==
    ASSUME provider \in Providers, NEW index \in Indexes, NEW row \in IndexRows,
           NEW pairs, NEW entry \in Entries, SumsUp(pairs, entry)
    PROVE  SumsUp(pairs \cup {<<index, row>>}, Seen(entry, index, row))
<1> DEFINE new == Seen(entry, index, row)  more == pairs \cup {<<index, row>>}
<1>1. row.time \in Nat /\ row # NoRow /\ entry.first \in Nat /\ entry.last \in Nat
  BY RowsAssumption, EntryFields
<1>2. /\ new.first = IF row.time < entry.first THEN row.time ELSE entry.first
      /\ new.last = IF row.time > entry.last THEN row.time ELSE entry.last
      /\ new.status = IF row.time > entry.last THEN row.status ELSE entry.status
      /\ new.collections = entry.collections \cup {index}
      /\ new.best = IF Fetchable(row) /\ (provider = "commoncrawl" => entry.best = NoRow)
                    THEN row ELSE entry.best
  BY SeenFields
<1> HIDE DEF new
<1>3. /\ more \subseteq Indexes \X IndexRows
      /\ \A pair \in more : pair \in pairs \/ (pair[1] = index /\ pair[2] = row)
      /\ pairs \subseteq more
      /\ \E pair \in more : pair[1] = index /\ pair[2] = row
  <2>1. <<index, row>>[1] = index /\ <<index, row>>[2] = row /\ <<index, row>> \in more
    OBVIOUS
  <2> QED BY <2>1 DEF SumsUp
<1> HIDE DEF more
<1>4. \A pair \in pairs : pair[2].time \in Nat
  BY RowsAssumption DEF SumsUp
<1>5. \A pair \in more : new.first <= pair[2].time /\ pair[2].time <= new.last
  BY <1>1, <1>2, <1>3, <1>4 DEF SumsUp
<1>6. \E pair \in more : new.first = pair[2].time
  BY <1>2, <1>3 DEF SumsUp
<1>7. \E pair \in more : new.last = pair[2].time /\ new.status = pair[2].status
  BY <1>2, <1>3 DEF SumsUp
<1>8. new.collections = {pair[1] : pair \in more}
  BY <1>2, <1>3 DEF SumsUp
<1>9. new.best # NoRow => \E pair \in more : new.best = pair[2]
  BY <1>2, <1>3 DEF SumsUp
<1>10. provider = "commoncrawl" /\ new.best # NoRow => Fetchable(new.best)
  BY <1>2 DEF SumsUp
<1>11. IsCandidate(new) <=> \E pair \in more : Fetchable(pair[2])
  <2>1. (\E pair \in more : Fetchable(pair[2]))
           <=> Fetchable(row) \/ \E pair \in pairs : Fetchable(pair[2])
    BY <1>3
  <2>2. IsCandidate(new) <=> Fetchable(row) \/ IsCandidate(entry)
    BY <1>1, <1>2 DEF IsCandidate, Fetchable, Providers, SumsUp
  <2> QED BY <2>1, <2>2 DEF SumsUp
<1>12. SumsUp(more, new)
  BY <1>3, <1>5, <1>6, <1>7, <1>8, <1>9, <1>10, <1>11 DEF SumsUp
<1> QED BY <1>12 DEF more, new

(* What one more row adds to the captures of each URL.                     *)
LEMMA CaughtGrows ==
    ASSUME NEW all, NEW k \in Nat \ {0}, NEW url
    PROVE  Caught(all, k, url) =
               IF Usable(all[k][2]) /\ Canonical(all[k][2].url) = url
               THEN Caught(all, k - 1, url) \cup {all[k]}
               ELSE Caught(all, k - 1, url)
<1>1. 1..k = 1..(k - 1) \cup {k}
  OBVIOUS
<1>2. Caught(all, k - 1, url) = {all[i] : i \in {i \in 1..(k - 1) :
          Usable(all[i][2]) /\ Canonical(all[i][2].url) = url}}
  BY DEF Caught
<1>3. Caught(all, k, url) = {all[i] : i \in {i \in 1..k :
          Usable(all[i][2]) /\ Canonical(all[i][2].url) = url}}
  BY DEF Caught
<1> QED BY <1>1, <1>2, <1>3

LEMMA AddRowSumsUp ==
    ASSUME provider \in Providers, NEW all \in Seq(Indexes \X IndexRows),
           NEW k \in 1..Len(all), NEW by, SummedSoFar(all, k - 1, by)
    PROVE  SummedSoFar(all, k, AddRow(by, all[k]))
<1> DEFINE index == all[k][1]  row == all[k][2]  url == Canonical(row.url)
<1>1. /\ all[k] \in Indexes \X IndexRows /\ k \in Nat \ {0}
      /\ index \in Indexes /\ row \in IndexRows /\ all[k] = <<index, row>>
  OBVIOUS
<1> HIDE DEF index, row
<1>2. CASE ~Usable(row)
  <2>1. AddRow(by, all[k]) = by
    BY <1>2 DEF AddRow, row
  <2>2. \A u : Caught(all, k, u) = Caught(all, k - 1, u)
    BY <1>1, <1>2, CaughtGrows DEF row
  <2> QED BY <2>1, <2>2 DEF SummedSoFar
<1>3. CASE Usable(row)
  <2> DEFINE old == IF url \in DOMAIN by THEN by[url] ELSE FirstEntry(row)
             new == Seen(old, index, row)
             after == AddRow(by, all[k])
  <2>1. url \in Urls
    BY <1>1, <1>3, RowsAssumption
  <2>2. after = With(by, url, new)
    BY <1>3 DEF AddRow, Summed, row, index
  <2>3. /\ DOMAIN after = DOMAIN by \cup {url}
        /\ after[url] = new
        /\ \A u \in DOMAIN by : u # url => after[u] = by[u]
    BY <2>2 DEF With
  <2>4. /\ Caught(all, k, url) = Caught(all, k - 1, url) \cup {<<index, row>>}
        /\ \A u : u # url => Caught(all, k, u) = Caught(all, k - 1, u)
    BY <1>1, <1>3, CaughtGrows DEF row, index
  <2>5. new \in Entries /\ SumsUp(Caught(all, k, url), new)
    <3>1. CASE url \in DOMAIN by
      <4>1. old \in Entries /\ SumsUp(Caught(all, k - 1, url), old)
        BY <3>1 DEF SummedSoFar
      <4> HIDE DEF old
      <4> QED BY <1>1, <2>4, <4>1, SeenFields, NextSumsUp
    <3>2. CASE url \notin DOMAIN by
      <4>1. old = FirstEntry(row)
        BY <3>2
      <4>2. Caught(all, k - 1, url) = {}
        BY <2>1, <3>2 DEF SummedSoFar
      <4> HIDE DEF old, url
      <4>3. Caught(all, k, url) = {<<index, row>>}
        BY <2>4, <4>2
      <4>4. new \in Entries
        BY <1>1, <4>1, SeenFields, FirstEntryTyped
      <4>5. SumsUp({<<index, row>>}, new)
        BY <1>1, <4>1, FirstSumsUp
      <4> QED BY <4>3, <4>4, <4>5
    <3> QED BY <3>1, <3>2
  <2> HIDE DEF new, after, url
  <2>6. DOMAIN after = {u \in Urls : Caught(all, k, u) # {}}
    <3>1. DOMAIN by = {u \in Urls : Caught(all, k - 1, u) # {}}
      BY DEF SummedSoFar
    <3>2. Caught(all, k, url) # {}
      BY <2>4
    <3> QED BY <2>1, <2>3, <2>4, <3>1, <3>2
  <2>7. ASSUME NEW u \in DOMAIN after
        PROVE  after[u] \in Entries /\ SumsUp(Caught(all, k, u), after[u])
    <3>1. CASE u = url
      BY <2>3, <2>5, <3>1
    <3>2. CASE u # url
      <4>1. u \in DOMAIN by /\ after[u] = by[u] /\ Caught(all, k, u) = Caught(all, k - 1, u)
        BY <2>3, <2>4, <2>7, <3>2
      <4> QED BY <4>1 DEF SummedSoFar
    <3> QED BY <3>1, <3>2
  <2>8. SummedSoFar(all, k, after)
    BY <2>6, <2>7 DEF SummedSoFar
  <2> QED BY <2>8 DEF after
<1> QED BY <1>2, <1>3

(* What _aggregate_by_url returns.                                         *)
LEMMA AggregateSumsUp ==
    ASSUME provider \in Providers, NEW all \in Seq(Indexes \X IndexRows)
    PROVE  SummedSoFar(all, Len(all), Aggregated(all))
<1>1. Aggregated(all) = RowLoop!Folded(<<>>, all)
  BY DEF Aggregated, RowLoop!Folded, RowLoop!FoldLeft, RowLoop!MapThenFoldSet, RowLoop!Max,
         FoldLeft, MapThenFoldSet, Max
<1>2. SummedSoFar(all, 0, <<>>)
  <2>1. \A url : Caught(all, 0, url) = {}
    BY DEF Caught
  <2>2. DOMAIN <<>> = {}
    OBVIOUS
  <2> QED BY <2>1, <2>2 DEF SummedSoFar
<1>3. SummedSoFar(all, Len(all), RowLoop!Folded(<<>>, all))
  BY <1>2, AddRowSumsUp, RowLoop!FoldInvariant
<1> QED BY <1>1, <1>3

(* The bounds of a set of numbers.                                         *)
LEMMA MinIs ==
    ASSUME NEW S \in SUBSET Int, NEW m \in S, \A x \in S : m <= x PROVE m = Min(S)
<1>1. \A x \in S : (\A y \in S : x <= y) => x = m
  OBVIOUS
<1> QED BY <1>1 DEF Min

LEMMA MaxIs ==
    ASSUME NEW S \in SUBSET Int, NEW m \in S, \A x \in S : m >= x PROVE m = Max(S)
<1>1. \A x \in S : (\A y \in S : x >= y) => x = m
  OBVIOUS
<1> QED BY <1>1 DEF Max

LEMMA SummingUpIsTrue ==
    ASSUME NEW pairs, NEW entry, SumsUp(pairs, entry)
    PROVE  SummaryIsTrue(pairs, entry)
<1> DEFINE captures == {pair[2] : pair \in pairs}  times == {row.time : row \in captures}
<1>1. \A pair \in pairs : pair[2] \in IndexRows /\ pair[2].time \in Nat
  BY RowsAssumption DEF SumsUp
<1>2. /\ \A pair \in pairs : pair[2] \in captures /\ pair[2].time \in times
      /\ \A row \in captures : \E pair \in pairs : row = pair[2]
      /\ \A time \in times : \E pair \in pairs : time = pair[2].time
  OBVIOUS
<1> HIDE DEF captures, times
<1>3. times \in SUBSET Int /\ entry.first \in times /\ entry.last \in times
  BY <1>1, <1>2 DEF SumsUp
<1>4. \A time \in times : entry.first <= time /\ entry.last >= time
  BY <1>1, <1>2, <1>3 DEF SumsUp
<1>5. entry.first = Min(times) /\ entry.last = Max(times)
  BY <1>3, <1>4, MinIs, MaxIs
<1>6. \E row \in captures : row.time = entry.last /\ row.status = entry.status
  BY <1>2 DEF SumsUp
<1>7. entry.best # NoRow => entry.best \in captures
  BY <1>2 DEF SumsUp
<1>8. IsCandidate(entry) <=> \E row \in captures : Fetchable(row)
  BY <1>2 DEF SumsUp
<1>9. entry.collections = {pair[1] : pair \in pairs}
  BY DEF SumsUp
<1> QED BY <1>5, <1>6, <1>7, <1>8, <1>9 DEF SummaryIsTrue, captures, times

-----------------------------------------------------------------------------
(* The samples.                                                            *)

(* A page passed over did not fit, and will not: the room only shrinks.    *)
LeftOut(url) == entries[url].best \in IndexRows /\ TooLarge(entries[url].best)

(* What is known once the rows have been summed up.                        *)
Chosen ==
    /\ SummedSoFar(rows, Len(rows), entries)
    /\ picked = Selected(entries)
    /\ samples \subseteq ToSet(picked) /\ ToSet(todo) \subseteq ToSet(picked)
    /\ \A url \in ToSet(picked) : entries[url].best \in IndexRows
    /\ \A url \in ToSet(picked) \ (samples \cup refused \cup ToSet(todo)) : LeftOut(url)

SamplesInv ==
    /\ pc \in {"start", "cached", "index", "sample", "done", "failed"}
    /\ limit <= MaxRows
    /\ kept \in Nat
    /\ DOMAIN entries \subseteq Urls /\ \A url \in DOMAIN entries : entries[url] \in Entries
    /\ picked \in Seq(Urls) /\ todo \in Seq(Urls)
    /\ samples \subseteq Urls /\ refused \subseteq Urls
    /\ stored \in {"none", "empty", "success"}
    /\ pc \in {"start", "index"} => samples = {}
    /\ pc \in {"sample", "done"} => Chosen
    /\ pc = "done" => todo = <<>> \/ remaining <= 0
    /\ stored # "none" => pc = "done"

(* The first page of those to do and the others.                           *)
LEMMA NextToDo ==
    ASSUME NEW list \in Seq(Urls), list # <<>>
    PROVE  /\ Tail(list) \in Seq(Urls) /\ Head(list) \in Urls
           /\ ToSet(list) = {Head(list)} \cup ToSet(Tail(list))
<1>1. /\ Len(list) \in Nat /\ Len(list) >= 1 /\ DOMAIN list = 1..Len(list)
      /\ Head(list) = list[1] /\ list[1] \in Urls
      /\ Tail(list) \in Seq(Urls) /\ Len(Tail(list)) = Len(list) - 1
      /\ \A i \in 1..(Len(list) - 1) : Tail(list)[i] = list[i + 1]
  BY HeadTailProperties, EmptySeq
<1>2. DOMAIN Tail(list) = 1..(Len(list) - 1)
  BY <1>1
<1>3. ASSUME NEW x \in ToSet(list) PROVE x = Head(list) \/ x \in ToSet(Tail(list))
  <2>1. PICK i \in 1..Len(list) : x = list[i]
    BY <1>1, <1>3 DEF ToSet
  <2>2. CASE i = 1
    BY <1>1, <2>1, <2>2
  <2>3. CASE i > 1
    <3>1. i - 1 \in 1..(Len(list) - 1) /\ Tail(list)[i - 1] = x
      BY <1>1, <2>1, <2>3
    <3> QED BY <1>2, <3>1 DEF ToSet
  <2> QED BY <1>1, <2>1, <2>2, <2>3
<1>4. ASSUME NEW x \in ToSet(Tail(list)) PROVE x \in ToSet(list)
  <2>1. PICK i \in 1..(Len(list) - 1) : x = Tail(list)[i]
    BY <1>2, <1>4 DEF ToSet
  <2>2. i + 1 \in 1..Len(list) /\ list[i + 1] = x
    BY <1>1, <2>1
  <2> QED BY <1>1, <2>2 DEF ToSet
<1>5. Head(list) \in ToSet(list)
  BY <1>1 DEF ToSet
<1> QED BY <1>1, <1>3, <1>4, <1>5

(* The room after a page no larger than it.                                *)
LEMMA RoomShrinks ==
    ASSUME BytesInv, remaining' \in Int, remaining' <= remaining,
           UNCHANGED <<provider, entries>>, NEW url, LeftOut(url)
    PROVE  LeftOut(url)'
<1>1. Cap \in Int /\ remaining \in Int
  BY ArchiveAssumption DEF BytesInv
<1>2. /\ \A m \in Int : m <= Min({Cap, remaining'}) => m <= Cap /\ m <= remaining'
      /\ Min({Cap, remaining'}) \in Int
  BY <1>1, MinOfTwo
<1>3. Room \in {Cap, remaining}
  <2> DEFINE m == IF Cap <= remaining THEN Cap ELSE remaining
  <2>1. m \in {Cap, remaining} /\ \A y \in {Cap, remaining} : m <= y
    BY <1>1
  <2>2. \E x \in {Cap, remaining} : \A y \in {Cap, remaining} : x <= y
    BY <2>1
  <2> QED BY <2>2 DEF Room, Min
<1>4. Room' = Min({Cap, remaining'})
  BY DEF Room
<1>5. entries[url].best.length \in Int
  BY RowsAssumption DEF LeftOut
<1> QED BY <1>1, <1>2, <1>3, <1>4, <1>5 DEF LeftOut, TooLarge

(* The pages chosen have a copy to fetch.                                  *)
LEMMA ChosenHaveACopy ==
    ASSUME NEW by, \A url \in DOMAIN by : by[url] \in Entries
    PROVE  \A url \in ToSet(Selected(by)) : by[url].best \in IndexRows
<1> DEFINE C == {url \in Urls : url \in DOMAIN by /\ IsCandidate(by[url])}
           list == Candidates(by)  taken == Selected(by)
<1>1. list \in Seq(C) /\ Diverse(list, Len(list), taken)
  BY CandidatesTyped, SelectionIsDiverse
<1>2. \A url \in C : by[url].best \in IndexRows
  BY DEF IsCandidate, Entries
<1> HIDE DEF C, list, taken
<1>3. DOMAIN taken = 1..Len(taken)
  BY <1>1 DEF Diverse
<1>4. \A i \in 1..Len(taken) : taken[i] \in C
  BY <1>1 DEF Diverse
<1>5. \A url \in ToSet(taken) : url \in C
  BY <1>3, <1>4 DEF ToSet
<1> QED BY <1>2, <1>5 DEF taken

(* When the last index has been asked, the samples are chosen from what    *)
(* all of them said.                                                       *)
LEMMA IndexedChooses ==
    ASSUME SamplesInv, BytesInv, BytesInv', RowsInv', pc = "index", Indexed
    PROVE  SamplesInv'
<1>1. /\ limit' = limit /\ kept' = kept /\ stored' = stored /\ provider' = provider
      /\ samples' = samples /\ refused' = refused /\ remaining' = remaining
      /\ samples = {}
  BY DEF Indexed, sampleVars, SamplesInv
<1>2. CASE Len(pending) > 1
  BY <1>1, <1>2 DEF Indexed, SamplesInv
<1>3. CASE ~(Len(pending) > 1)
  <2>1. /\ pc' = "sample" /\ entries' = Aggregated(rows')
        /\ picked' = Selected(entries') /\ todo' = picked'
    BY <1>3 DEF Indexed
  <2>2. rows' \in Seq(Indexes \X IndexRows) /\ provider \in Providers
    BY DEF RowsInv, BytesInv
  <2>3. SummedSoFar(rows', Len(rows'), entries')
    BY <2>1, <2>2, AggregateSumsUp
  <2>4. SummedSoFar(rows, Len(rows), entries)'
    BY <1>1, <2>3 DEF SummedSoFar, SumsUp, Fetchable
  <2>5. DOMAIN entries' \subseteq Urls /\ \A url \in DOMAIN entries' : entries'[url] \in Entries
    BY <2>3 DEF SummedSoFar
  <2>6. picked' \in Seq(Urls)
    BY <2>1, SelectionIsDiverse DEF Diverse
  <2>7. Chosen'
    BY <1>1, <2>1, <2>4, <2>5, ChosenHaveACopy DEF Chosen
  <2> QED BY <1>1, <2>1, <2>5, <2>6, <2>7 DEF SamplesInv
<1> QED BY <1>2, <1>3

(* A page is done with: it is kept or refused, or does not fit.            *)
LEMMA OneLessToDo ==
    ASSUME SamplesInv, BytesInv, Sampling, todo' = Tail(todo),
           samples' \in {samples, samples \cup {Head(todo)}},
           refused' \in {refused, refused \cup {Head(todo)}},
           Head(todo) \in samples' \cup refused' \/ LeftOut(Head(todo)),
           remaining' \in Int, remaining' <= remaining, kept' \in Nat,
           UNCHANGED <<provider, pc, limit, rows, entries, picked, stored>>
    PROVE  SamplesInv'
<1>1. /\ pc = "sample" /\ todo # <<>> /\ todo \in Seq(Urls) /\ Chosen
  BY DEF Sampling, SamplesInv
<1>2. /\ Tail(todo) \in Seq(Urls) /\ Head(todo) \in Urls
      /\ ToSet(todo) = {Head(todo)} \cup ToSet(Tail(todo))
  BY <1>1, NextToDo
<1>3. SummedSoFar(rows, Len(rows), entries)'
  BY <1>1 DEF Chosen, SummedSoFar, SumsUp, Fetchable
<1>4. picked' = Selected(entries')
  BY <1>1 DEF Chosen
<1>5. samples' \subseteq ToSet(picked') /\ ToSet(todo') \subseteq ToSet(picked')
  BY <1>1, <1>2 DEF Chosen
<1>6. ASSUME NEW url \in ToSet(picked') \ (samples' \cup refused' \cup ToSet(todo'))
      PROVE  LeftOut(url)'
  <2>1. LeftOut(url)
    BY <1>1, <1>2, <1>6 DEF Chosen
  <2> QED BY <2>1, RoomShrinks
<1>7. Chosen'
  BY <1>1, <1>3, <1>4, <1>5, <1>6 DEF Chosen
<1> QED BY <1>1, <1>2, <1>7 DEF SamplesInv

(* No step takes more content than the budget and the slack allow.         *)
LEMMA BytesStep ==
    ASSUME SamplesInv, BytesInv, [ArchiveNext]_archiveVars
    PROVE  BytesInv'
<1>1. CASE CacheHit
  BY <1>1 DEF CacheHit, BytesInv, sampleVars
<1>2. CASE AskWayback
  BY <1>2 DEF AskWayback, BytesInv, sampleVars
<1>3. CASE Bootstrap
  BY <1>3 DEF Bootstrap, BytesInv, sampleVars
<1>4. CASE BootstrapFails
  BY <1>4 DEF BootstrapFails, GivesUp, BytesInv, sampleVars
<1>5. CASE Answer
  BY <1>5 DEF Answer, Indexed, BytesInv, sampleVars
<1>6. CASE Unavailable
  BY <1>6 DEF Unavailable, GivesUp, Indexed, BytesInv, sampleVars
<1>7. CASE PassOver
  BY <1>7 DEF PassOver, BytesInv, sampleVars
<1>8. CASE Refused
  BY <1>8 DEF Refused, BytesInv
<1>9. CASE Sampled
  <2>1. todo \in Seq(Urls) /\ todo # <<>> /\ Chosen
    BY <1>9 DEF Sampled, Fetching, Sampling, SamplesInv
  <2>2. entries[Head(todo)].best \in IndexRows
    BY <2>1, NextToDo DEF Chosen
  <2> QED BY <1>9, <2>2, RowsAssumption, SampledKeepsBytes DEF Copy
<1>10. CASE Return
  BY <1>10 DEF Return, BytesInv, sampleVars
<1>11. CASE Unexpected
  BY <1>11 DEF Unexpected, GivesUp, BytesInv, sampleVars
<1>12. CASE UNCHANGED archiveVars
  BY <1>12 DEF archiveVars, sampleVars, BytesInv
<1> QED
  BY <1>1, <1>2, <1>3, <1>4, <1>5, <1>6, <1>7, <1>8, <1>9, <1>10, <1>11,
     <1>12
  DEF ArchiveNext

LEMMA AtLeastOnce ==
    ASSUME NEW a \in Nat, a >= 1, NEW b \in Nat PROVE a * b \in Nat /\ b <= a * b
<1>1. a * b = b + (a - 1) * b /\ (a - 1) * b \in Nat
  OBVIOUS
<1> QED BY <1>1

LEMMA SamplesInvariant == ArchiveSpec => [](SamplesInv /\ BytesInv)
<1>1. ArchiveInit => SamplesInv /\ BytesInv
  BY EmptySeq, ArchiveAssumption DEF ArchiveInit, SamplesInv, BytesInv, Providers
<1>2. SamplesInv /\ BytesInv /\ RowsInv /\ RowsInv' /\ [ArchiveNext]_archiveVars
         => SamplesInv' /\ BytesInv'
  <2> SUFFICES ASSUME SamplesInv, BytesInv, RowsInv, RowsInv', [ArchiveNext]_archiveVars
               PROVE  SamplesInv'
    BY BytesStep
  <2>0. BytesInv'
    BY BytesStep
  <2>1. CASE CacheHit
    BY <2>1 DEF CacheHit, SamplesInv, indexVars, sampleVars
  <2>2. CASE AskWayback
    BY <2>2, ArchiveAssumption DEF AskWayback, SamplesInv, sampleVars
  <2>3. CASE Bootstrap
    <3>1. /\ pc = "start" /\ pc' \in {"failed", "index"}
          /\ UNCHANGED <<entries, picked, todo, sampleVars, stored>>
      BY <2>3 DEF Bootstrap
    <3>2. limit' <= MaxRows
      <4>1. CASE UNCHANGED limit
        BY <4>1 DEF SamplesInv
      <4>2. CASE pc' = "index"
        <5>1. pending' \in Seq(Indexes) /\ pending' # <<>> /\ limit' \in Nat
          BY <4>2 DEF RowsInv
        <5>2. Len(pending') \in Nat /\ Len(pending') >= 1 /\ Len(rows') \in Nat
          BY <5>1, EmptySeq, LenProperties DEF RowsInv
        <5>3. Len(rows') + Len(pending') * limit' <= MaxRows
          BY DEF RowsInv
        <5> DEFINE all == Len(pending') * limit'
        <5>4. all \in Nat /\ limit' <= all
          BY <5>1, <5>2, AtLeastOnce
        <5> HIDE DEF all
        <5>5. Len(rows') + all <= MaxRows
          BY <5>3 DEF all
        <5> QED BY <5>1, <5>2, <5>4, <5>5, ArchiveAssumption
      <4> QED BY <2>3, <4>1, <4>2 DEF Bootstrap
    <3> QED BY <3>1, <3>2 DEF SamplesInv, sampleVars
  <2>4. CASE BootstrapFails
    BY <2>4 DEF BootstrapFails, GivesUp, SamplesInv, indexVars, sampleVars
  <2>5. CASE Answer
    BY <2>5, <2>0, IndexedChooses DEF Answer
  <2>6. CASE Unavailable
    <3>1. CASE Indexed
      BY <2>6, <3>1, <2>0, IndexedChooses DEF Unavailable, GivesUp
    <3>2. CASE pc' = "failed" /\ UNCHANGED <<todo, indexVars, sampleVars, stored>>
      BY <2>6, <3>2 DEF Unavailable, SamplesInv, indexVars, sampleVars
    <3> QED BY <2>6, <3>1, <3>2 DEF Unavailable, GivesUp
  <2>7. CASE PassOver
    <3>1. LeftOut(Head(todo))
      <4>1. todo \in Seq(Urls) /\ todo # <<>> /\ Chosen
        BY <2>7 DEF PassOver, Sampling, SamplesInv
      <4>2. entries[Head(todo)].best \in IndexRows
        BY <4>1, NextToDo DEF Chosen
      <4> QED BY <2>7, <4>2 DEF PassOver, DoesNotFit, Copy, LeftOut
    <3> QED
      BY <2>7, <3>1, OneLessToDo DEF PassOver, indexVars, sampleVars, SamplesInv, BytesInv
  <2>8. CASE Refused
    BY <2>8, OneLessToDo DEF Refused, Fetching, indexVars, SamplesInv, BytesInv
  <2>9. CASE Sampled
    <3>1. PICK size \in Smallest..Largest :
             remaining' = remaining - size /\ kept' = kept + size
      BY <2>9 DEF Sampled
    <3>2. size \in Int /\ size >= 0
      BY <3>1 DEF Smallest
    <3>3. /\ remaining' \in Int /\ remaining' <= remaining /\ kept' \in Nat
      BY <3>1, <3>2 DEF SamplesInv, BytesInv
    <3> QED
      BY <2>9, <3>3, OneLessToDo DEF Sampled, Fetching, indexVars
  <2>10. CASE Return
    BY <2>10 DEF Return, SamplesInv, indexVars, sampleVars, Chosen, SummedSoFar, SumsUp,
       Fetchable, LeftOut, TooLarge, Room
  <2>12. CASE Unexpected
    BY <2>12 DEF Unexpected, GivesUp, Fetching, Sampling, SamplesInv, indexVars, sampleVars
  <2>11. CASE UNCHANGED archiveVars
    BY <2>11 DEF archiveVars, SamplesInv, indexVars, sampleVars, Chosen, SummedSoFar, SumsUp,
       Fetchable, LeftOut, TooLarge, Room
  <2> QED
    BY <2>1, <2>2, <2>3, <2>4, <2>5, <2>6, <2>7, <2>8, <2>9, <2>10, <2>11, <2>12
    DEF ArchiveNext
<1> QED
  BY <1>1, <1>2, RowsInvariant, PTL DEF ArchiveSpec

LEMMA BytesInvariant == ArchiveSpec => []BytesInv
  BY SamplesInvariant, PTL

(* The archived content among the findings exceeds the budget by no more   *)
(* than what Common Crawl allows around one record, and for Wayback not at *)
(* all, whatever the sizes of the pages and whichever fail.                *)
LEMMA BytesStayWithinBudget == ArchiveSpec => []BytesWithinBudget
<1>1. BytesInv => BytesWithinBudget
  BY ArchiveAssumption DEF BytesInv, BytesWithinBudget, Providers
<1> QED
  BY <1>1, BytesInvariant, PTL

(* Both caps hold throughout a run of either collector, for every number   *)
(* of crawls, all answers and all budgets.                                 *)
THEOREM CapsAreKept == ArchiveSpec => []CapsHold
<1>1. RowsWithinCap /\ BytesWithinBudget => CapsHold
  BY DEF CapsHold
<1> QED
  BY <1>1, RowsStayWithinCap, BytesStayWithinBudget, PTL

(* What a finding says of a URL is true of all the captures reported, for  *)
(* any number of crawls and rows, in whatever order they come.             *)
THEOREM SummariesHold == ArchiveSpec => []ArchiveInv
<1>1. SamplesInv /\ BytesInv /\ RowsInv => ArchiveInv
  <2> SUFFICES ASSUME SamplesInv, BytesInv, RowsInv PROVE ArchiveInv
    OBVIOUS
  <2>1. ArchiveTypeOK
    BY ArchiveAssumption DEF SamplesInv, BytesInv, RowsInv, ArchiveTypeOK
  <2>2. ASSUME pc \in {"sample", "done"} PROVE SummariesAreTrue
    <3>1. SummedSoFar(rows, Len(rows), entries)
      BY <2>2 DEF SamplesInv, Chosen
    <3>2. DOMAIN rows = 1..Len(rows)
      BY DEF RowsInv
    <3>3. \A url : RowsOf(url) = Caught(rows, Len(rows), url)
      BY <3>2 DEF RowsOf, Caught
    <3>4. \A url \in DOMAIN entries : SummaryIsTrue(RowsOf(url), entries[url])
      BY <3>1, <3>3, SummingUpIsTrue DEF SummedSoFar
    <3>5. DOMAIN entries = {url \in Urls : RowsOf(url) # {}}
      BY <3>1, <3>3 DEF SummedSoFar
    <3> QED BY <3>4, <3>5 DEF SummariesAreTrue
  <2> QED BY <2>1, <2>2 DEF ArchiveInv, SummariesAreTrue
<1> QED
  BY <1>1, SamplesInvariant, RowsInvariant, PTL

(* The sample is as small and as diverse as its cap allows, whatever the   *)
(* captures and however many kinds of documents there are.                 *)
THEOREM SamplesAreDiverse == ArchiveSpec => []SampleIsDiverse
<1>1. SamplesInv => SampleIsDiverse
  <2> SUFFICES ASSUME SamplesInv, pc \in {"sample", "done"}
               PROVE  SampleIsDiverse
    BY DEF SampleIsDiverse
  <2> DEFINE list == Candidates(entries)  half == MaxDocs \div 2
  <2>1. Chosen
    BY DEF SamplesInv
  <2>2. Diverse(list, Len(list), picked)
    BY <2>1, SelectionIsDiverse DEF Chosen
  <2>3. list \in Seq(Urls)
    <3> DEFINE C == {url \in Urls : url \in DOMAIN entries /\ IsCandidate(entries[url])}
    <3>1. list \in Seq(C) /\ C \subseteq Urls
      BY CandidatesTyped
    <3> HIDE DEF C, list
    <3> QED BY <3>1
  <2> HIDE DEF list
  <2>4. picked \in Seq(Urls) /\ Len(picked) \in Nat /\ half \in Int
    BY <2>2, ArchiveAssumption DEF Diverse
  <2>5. ASSUME NEW i \in 1..Min({Len(picked), half}), NEW j \in 1..Min({Len(picked), half}),
               i # j
        PROVE  Extension(picked[i]) # Extension(picked[j])
    <3> HIDE DEF half
    <3>1. /\ Min({Len(picked), half}) \in Int
          /\ Min({Len(picked), half}) <= Len(picked) /\ Min({Len(picked), half}) <= half
      BY <2>4, MinOfTwo
    <3>2. i \in 1..Len(picked) /\ j \in 1..Len(picked) /\ i <= half /\ j <= half
      BY <2>4, <2>5, <3>1
    <3> QED BY <2>2, <2>5, <3>2 DEF Diverse, half
  <2>6. ASSUME Len(picked) < MaxDocs
        PROVE  Extensions(list) \subseteq Extensions(picked)
    <3>1. DOMAIN list = 1..Len(list)
      BY <2>3
    <3>2. \A i \in DOMAIN list : Extension(list[i]) \in Extensions(picked)
      BY <2>2, <2>6, <3>1 DEF Diverse
    <3> QED BY <3>2 DEF Extensions
  <2>7. samples \subseteq ToSet(picked) /\ Len(picked) <= MaxDocs
    BY <2>1, <2>2 DEF Chosen, Diverse
  <2> QED BY <2>5, <2>6, <2>7 DEF SampleIsDiverse, list
<1> QED
  BY <1>1, SamplesInvariant, PTL

(* A run that returns has gone through all the pages it chose, and one     *)
(* that an error ends has cached nothing: for all sizes and budgets,       *)
(* whichever requests fail.                                                *)
THEOREM PagesAreAccountedFor == ArchiveSpec => []EveryPageAccountedFor
<1>1. SamplesInv => EveryPageAccountedFor
  <2> SUFFICES ASSUME SamplesInv PROVE EveryPageAccountedFor
    OBVIOUS
  <2>1. ASSUME pc = "done", NEW url \in ToSet(picked) \ (samples \cup refused),
               ~(remaining <= 0)
        PROVE  TooLarge(entries[url].best)
    <3>1. Chosen /\ todo = <<>>
      BY <2>1 DEF SamplesInv
    <3>2. ToSet(todo) = {}
      BY <3>1 DEF ToSet
    <3> QED BY <2>1, <3>1, <3>2 DEF Chosen, LeftOut
  <2>2. stored # "none" => pc = "done" /\ (todo = <<>> \/ remaining <= 0)
    BY DEF SamplesInv
  <2> QED BY <2>1, <2>2 DEF EveryPageAccountedFor
<1> QED
  BY <1>1, SamplesInvariant, PTL
=============================================================================
