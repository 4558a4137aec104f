--------------------------- MODULE ResponseCache ---------------------------
(***************************************************************************)
(* The response cache (services/cache.py, collectors/caching.py) as the    *)
(* collectors use it: a lookup, an optional bootstrap document that is     *)
(* cached under a key of its own and shared by all targets, a fetch, and a *)
(* store that merges the entry with one SELECT and one INSERT or UPDATE.   *)
(* Around them: the clock, the retention sweep, the manual purge and the   *)
(* inventory shown before it.  The providers are the environment.          *)
(***************************************************************************)
EXTENDS Naturals, FiniteSets

CONSTANTS
    Collectors,     \* the collectors that cache what they find
    Bootstrapped,   \* those that first need a bootstrap document
    Checking,       \* those that look at the status of an answer
    Paired,         \* those that ask two resolvers and need one of them
    Tolerant,       \* those that go on when a request is answered badly
    BothRounds,     \* questions that are put to both resolvers
    Rounds,         \* all questions; the others go to one, or the other
    Targets,        \* what is assessed
    Runs,           \* collector runs, of any jobs, at the same time or not
    PositiveTTL,    \* ticks an entry with findings is fresh
    NegativeTTL,    \* ticks an entry without findings is fresh
    MaxTime,        \* bound on the clock
    MaxPurges       \* bound on manual purges

ASSUME CacheAssumption ==
    /\ Bootstrapped \subseteq Collectors
    /\ Checking \subseteq Collectors
    /\ Paired \subseteq Collectors
    /\ Tolerant \subseteq Collectors \ Paired
    /\ BothRounds \in Nat \ {0} /\ Rounds \in Nat /\ BothRounds <= Rounds
    /\ "bootstrap" \notin Targets
    /\ NegativeTTL \in Nat \ {0} /\ PositiveTTL \in Nat /\ MaxTime \in Nat
    /\ NegativeTTL <= PositiveTTL
    /\ MaxPurges \in Nat

VARIABLES
    now,        \* the clock
    cache,      \* the cache_entries table
    stage,      \* where a run stands
    asks,       \* the run's collector and target
    served,     \* what the run returned to the runner
    hit,        \* context.cache_hit
    heard,      \* every answer the run got from a provider
    round,      \* questions a run has put to the resolvers
    saving,     \* the entry a run is storing, and what its SELECT saw
    cutoff,     \* the sweep's now, once read, and the rows it has counted
    shown,      \* the inventory being built
    purges      \* manual purges so far

runVars == <<stage, asks, served, hit, heard, round, saving>>
vars == <<now, cache, runVars, cutoff, shown, purges>>

(* A key names the collector and either a target or the bootstrap file.    *)
Keys == Collectors \X (Targets \cup {"bootstrap"})
compute_cache_key(collector, about) == <<collector, about>>

KeyOf(r) == compute_cache_key(asks[r].collector, asks[r].target)
BootstrapKey(r) == compute_cache_key(asks[r].collector, "bootstrap")

(* Entries hold records, nothing found, or a bootstrap file that lists     *)
(* services or collections or none that could be used.                     *)
Findings == {"records", "empty"}
Bootstraps == {"usable", "unusable"}
NoEntry == [value |-> "none", due |-> 0]
Entries == [value : Findings \cup Bootstraps, due : 1..(MaxTime + PositiveTTL)]

NotAsking == [collector |-> "none", target |-> "none"]
NotSaving == [key |-> <<>>, entry |-> NoEntry, found |-> FALSE]
NotSweeping == [now |-> 0, counted |-> {}]

(* What a request may come to.  A "refusal" is JSON that answers something *)
(* else: that of an error status, which the gateway returns like any other *)
(* response, or of a DNS answer with an error code.  "bad" is an answer    *)
(* that is malformed or a failure of the gateway.                          *)
Answers == {"records", "nothing", "refusal", "bad"}
BootstrapAnswers == Bootstraps \cup {"bad"}

Stages == {"idle", "lookup", "bootstrap", "ask_bootstrap", "store_bootstrap",
           "ask", "store", "done", "failed"}

CacheTypeOK ==
    /\ now \in 0..MaxTime
    /\ cache \in [Keys -> Entries \cup {NoEntry}]
    /\ \A k \in Keys : cache[k].value \in Bootstraps <=>
           k[2] = "bootstrap" /\ cache[k] # NoEntry
    /\ stage \in [Runs -> Stages]
    /\ asks \in [Runs -> [collector : Collectors, target : Targets] \cup {NotAsking}]
    /\ served \in [Runs -> Findings \cup {"none"}]
    /\ hit \in [Runs -> BOOLEAN]
    /\ heard \in [Runs -> SUBSET (Answers \cup BootstrapAnswers)]
    /\ round \in [Runs -> 0..Rounds]
    /\ saving \in [Runs -> [key : Keys, entry : Entries, found : BOOLEAN]
                               \cup {NotSaving}]
    /\ cutoff \in [now : 0..MaxTime, counted : SUBSET Keys]
    /\ shown \in [step : {"none", "total", "all"}, now : 0..MaxTime,
                  total : Nat, expired : Nat]
    /\ purges \in 0..MaxPurges

CacheInit ==
    /\ now = 0
    /\ cache = [k \in Keys |-> NoEntry]
    /\ stage = [r \in Runs |-> "idle"]
    /\ asks = [r \in Runs |-> NotAsking]
    /\ served = [r \in Runs |-> "none"]
    /\ hit = [r \in Runs |-> FALSE]
    /\ heard = [r \in Runs |-> {}]
    /\ round = [r \in Runs |-> 0]
    /\ saving = [r \in Runs |-> NotSaving]
    /\ cutoff = NotSweeping
    /\ shown = [step |-> "none", now |-> 0, total |-> 0, expired |-> 0]
    /\ purges = 0

Fresh(k) == cache[k] # NoEntry /\ cache[k].due > now

Becomes(r, s) == stage' = [stage EXCEPT ![r] = s]

-----------------------------------------------------------------------------
(* A collector's run.                                                      *)

Begin(r) ==
    /\ stage[r] = "idle"
    /\ \E c \in Collectors, t \in Targets :
           asks' = [asks EXCEPT ![r] = [collector |-> c, target |-> t]]
    /\ Becomes(r, "lookup")
    /\ UNCHANGED <<now, cache, served, hit, heard, round, saving, cutoff, shown, purges>>

(* get_cached_findings: a hit is what the run returns.                     *)
Lookup(r) ==
    /\ stage[r] = "lookup"
    /\ IF Fresh(KeyOf(r))
       THEN /\ hit' = [hit EXCEPT ![r] = TRUE]
            /\ served' = [served EXCEPT ![r] = cache[KeyOf(r)].value]
            /\ Becomes(r, "done")
       ELSE /\ Becomes(r, IF asks[r].collector \in Bootstrapped
                          THEN "bootstrap" ELSE "ask")
            /\ UNCHANGED <<hit, served>>
    /\ UNCHANGED <<now, cache, asks, heard, round, saving, cutoff, shown, purges>>

(* A variant of LookupBootstrap that uses get_cached_findings.             *)
LookupBootstrap_MarksTheHit(r) ==
    LET b == BootstrapKey(r) IN
    /\ stage[r] = "bootstrap"
    /\ hit' = [hit EXCEPT ![r] = Fresh(b)]
    /\ Becomes(r, IF Fresh(b)
                  THEN IF cache[b].value = "usable" THEN "ask" ELSE "failed"
                  ELSE "ask_bootstrap")
    /\ UNCHANGED <<now, cache, asks, served, heard, round, saving,
                   cutoff, shown, purges>>

(* The bootstrap file is looked up without marking a hit; one that lists   *)
(* nothing to ask ends the run.                                            *)
LookupBootstrap(r) ==
    LET b == BootstrapKey(r) IN
    /\ stage[r] = "bootstrap"
    /\ Becomes(r, IF Fresh(b)
                  THEN IF cache[b].value = "usable" THEN "ask" ELSE "failed"
                  ELSE "ask_bootstrap")
    /\ UNCHANGED <<now, cache, asks, served, hit, heard, round, saving,
                   cutoff, shown, purges>>

Fails(r) == Becomes(r, "failed") /\ UNCHANGED saving

(* CacheAccess.set up to the SELECT of session.merge: the times of the     *)
(* entry are computed before it.                                           *)
Select(r, k, value, ttl) ==
    saving' = [saving EXCEPT ![r] =
        [key |-> k, entry |-> [value |-> value, due |-> now + ttl],
         found |-> cache[k] # NoEntry]]

(* Any bootstrap file of the expected form is stored, before anyone asks   *)
(* whether there is something in it to use.                                *)
AnswerBootstrap(r) ==
    /\ stage[r] = "ask_bootstrap"
    /\ \E a \in BootstrapAnswers :
           /\ heard' = [heard EXCEPT ![r] = @ \cup {a}]
           /\ IF a \in Bootstraps
              THEN /\ Select(r, BootstrapKey(r), a, PositiveTTL)
                   /\ Becomes(r, "store_bootstrap")
              ELSE Fails(r)
    /\ UNCHANGED <<now, cache, asks, served, hit, round, cutoff, shown, purges>>

(* Findings, or their absence, on their way into the cache.                *)
Keep(r, found) ==
    /\ Becomes(r, "store")
    /\ IF found THEN Select(r, KeyOf(r), "records", PositiveTTL)
                ELSE Select(r, KeyOf(r), "empty", NegativeTTL)

Hears(r, answers) ==
    /\ stage[r] = "ask"
    /\ heard' = [heard EXCEPT ![r] = @ \cup answers]
    /\ UNCHANGED <<now, cache, asks, served, hit, cutoff, shown, purges>>

(* What a collector takes for an answer.                                   *)
Takes(c) == {"records", "nothing"} \cup IF c \in Checking THEN {} ELSE {"refusal"}
Taken(r, answers) == answers \cap Takes(asks[r].collector)

(* A collector that asks one provider fails on what it does not take for   *)
(* an answer.  RDAP and RIPEstat look at its status, crt.sh only at its    *)
(* form.                                                                   *)
AnswerStrict(r) ==
    /\ asks[r].collector \notin Tolerant \cup Paired
    /\ \E a \in Answers :
           /\ Hears(r, {a})
           /\ IF Taken(r, {a}) = {} THEN Fails(r) ELSE Keep(r, a = "records")
    /\ UNCHANGED round

(* On to the next question; after the last, what was heard is kept.        *)
NextRound(r) ==
    /\ round' = [round EXCEPT ![r] = @ + 1]
    /\ IF round[r] + 1 < Rounds THEN UNCHANGED <<stage, saving>>
       ELSE Keep(r, "records" \in heard'[r])

(* A variant of AnswerPaired that takes two failures for an empty answer.  *)
AnswerPaired_TakesFailuresForNothing(r) ==
    /\ asks[r].collector \in Paired /\ round[r] < Rounds
    /\ \E a, b \in Answers : Hears(r, {a, b}) /\ NextRound(r)

(* DNS asks both resolvers for A and AAAA records, and for the rest the    *)
(* second only if the first fails.  When neither has given an answer to a  *)
(* question, the run fails.                                                *)
AnswerPaired(r) ==
    /\ asks[r].collector \in Paired /\ round[r] < Rounds
    /\ \E a, b \in Answers :
           /\ round[r] < BothRounds \/ Taken(r, {a}) = {} \/ a = b
           /\ Hears(r, {a, b})
           /\ IF Taken(r, {a, b}) = {} THEN Fails(r) /\ UNCHANGED round
              ELSE NextRound(r)

(* Common Crawl asks several collections, skips those that answer badly    *)
(* and keeps whatever it has in the end.                                   *)
AnswerTolerant(r) ==
    /\ asks[r].collector \in Tolerant
    /\ \E a, b \in Answers : Hears(r, {a, b}) /\ Keep(r, "records" \in {a, b})
    /\ UNCHANGED round

(* An error that is no GatewayError fails any run.                         *)
Unexpected(r) ==
    /\ stage[r] \in {"ask_bootstrap", "ask"}
    /\ Fails(r)
    /\ UNCHANGED <<now, cache, asks, served, hit, heard, round,
                   cutoff, shown, purges>>

(* The INSERT or UPDATE of session.merge.  A row that has appeared since   *)
(* the SELECT is an IntegrityError, one that has gone a StaleDataError;    *)
(* either fails the run.                                                   *)
Write(r) ==
    LET s == saving[r] IN
    /\ stage[r] \in {"store_bootstrap", "store"}
    /\ saving' = [saving EXCEPT ![r] = NotSaving]
    /\ IF s.found = (cache[s.key] # NoEntry)
       THEN /\ cache' = [cache EXCEPT ![s.key] = s.entry]
            /\ IF stage[r] = "store"
               THEN /\ served' = [served EXCEPT ![r] = s.entry.value]
                    /\ Becomes(r, "done")
               ELSE /\ Becomes(r, IF s.entry.value = "usable"
                                  THEN "ask" ELSE "failed")
                    /\ UNCHANGED served
       ELSE /\ Becomes(r, "failed")
            /\ UNCHANGED <<cache, served>>
    /\ UNCHANGED <<now, asks, hit, heard, round, cutoff, shown, purges>>

-----------------------------------------------------------------------------
(* The clock and the three who work on the whole table.                    *)

(* A tick is a time to live's grain, minutes at least: no statement is     *)
(* under way while it passes.                                              *)
Tick ==
    /\ now < MaxTime
    /\ \A r \in Runs : saving[r] = NotSaving
    /\ cutoff = NotSweeping
    /\ now' = now + 1
    /\ UNCHANGED <<cache, runVars, cutoff, shown, purges>>

Expired(at) == {k \in Keys : cache[k] # NoEntry /\ cache[k].due <= at}
Remove(keys) == cache' = [k \in Keys |-> IF k \in keys THEN NoEntry ELSE cache[k]]

(* sweep counts what has expired and then deletes.                         *)
SweepCount ==
    /\ cutoff = NotSweeping
    /\ Expired(now) # {}
    /\ cutoff' = [now |-> now, counted |-> Expired(now)]
    /\ UNCHANGED <<now, cache, runVars, shown, purges>>

(* A variant of SweepDelete that deletes the rows it has counted.          *)
SweepDelete_Counted ==
    /\ cutoff # NotSweeping
    /\ Remove(cutoff.counted)
    /\ cutoff' = NotSweeping
    /\ UNCHANGED <<now, runVars, shown, purges>>

(* The DELETE asks again what has expired.                                 *)
SweepDelete ==
    /\ cutoff # NotSweeping
    /\ Remove(Expired(cutoff.now))
    /\ cutoff' = NotSweeping
    /\ UNCHANGED <<now, runVars, shown, purges>>

(* purge_all.                                                              *)
Purge ==
    /\ purges < MaxPurges
    /\ purges' = purges + 1
    /\ Remove(Keys)
    /\ UNCHANGED <<now, runVars, cutoff, shown>>

Total == Cardinality({k \in Keys : cache[k] # NoEntry})

(* A variant of Inventory with its two counts in the other order.          *)
Inventory_ExpiredFirst ==
    /\ \/ /\ shown.step # "total"
          /\ shown' = [step |-> "total", now |-> now, total |-> 0,
                       expired |-> Cardinality(Expired(now))]
       \/ /\ shown.step = "total"
          /\ shown' = [shown EXCEPT !.step = "all", !.total = Total]
    /\ UNCHANGED <<now, cache, runVars, cutoff, purges>>

(* inventory counts all entries, and those expired with another statement. *)
Inventory ==
    /\ \/ /\ shown.step # "total"
          /\ shown' = [step |-> "total", now |-> now, total |-> Total,
                       expired |-> 0]
       \/ /\ shown.step = "total"
          /\ shown' = [shown EXCEPT !.step = "all",
                                    !.expired = Cardinality(Expired(shown.now))]
    /\ UNCHANGED <<now, cache, runVars, cutoff, purges>>

CacheNext ==
    \/ \E r \in Runs : \/ Begin(r) \/ Lookup(r) \/ LookupBootstrap(r)
                       \/ AnswerBootstrap(r) \/ AnswerStrict(r)
                       \/ AnswerPaired(r) \/ AnswerTolerant(r) \/ Unexpected(r)
                       \/ Write(r)
    \/ Tick \/ SweepCount \/ SweepDelete \/ Purge \/ Inventory

CacheSpec == CacheInit /\ [][CacheNext]_vars

-----------------------------------------------------------------------------
(* A run reported as served from the cache has made no request: fresh      *)
(* entries eliminate outbound calls, and nothing else counts as a hit,     *)
(* neither a cached bootstrap file nor an entry found by the store.        *)
HitMeansNoCall ==
    \A r \in Runs : hit[r] => heard[r] = {} /\ stage[r] = "done"

(* The sweep never takes an entry that a run has refreshed behind its      *)
(* back: only a purge removes what is still fresh (retention.py).          *)
OnlyExpiredGo ==
    [][\/ Purge
       \/ \A k \in Keys : cache[k] # NoEntry /\ cache'[k] = NoEntry =>
              cache[k].due <= now]_vars

(* Although its counts are separate statements, the inventory never shows  *)
(* more expired entries than entries (cache.py inventory).                 *)
InventoryCoherent == shown.step = "all" => shown.expired <= shown.total

(* Before its lookup a run has heard nothing; when it stores findings it   *)
(* has somebody's answer in hand and an empty entry only if none had any,  *)
(* under the key of what it asked, and no time has passed since it was     *)
(* given its due date.                                                     *)
RunInv(r) ==
    /\ stage[r] # "idle" => asks[r] \in [collector : Collectors, target : Targets]
    /\ stage[r] \in {"idle", "lookup"} => heard[r] = {}
    /\ hit[r] => stage[r] = "done"
    /\ "records" \in heard[r] =>
           \/ stage[r] \in {"store", "done", "failed"}
           \/ stage[r] = "ask" /\ asks[r].collector \in Paired
    /\ stage[r] \in {"store", "store_bootstrap"} <=> saving[r] # NotSaving
    /\ saving[r] # NotSaving => saving[r].entry.due > now
    /\ stage[r] = "store_bootstrap" =>
           saving[r].key = BootstrapKey(r) /\ saving[r].entry.value \in Bootstraps
    /\ stage[r] = "store" =>
           /\ saving[r].key = KeyOf(r)
           /\ saving[r].entry.value =
                  IF "records" \in heard[r] THEN "records" ELSE "empty"
           /\ asks[r].collector \notin Tolerant => Taken(r, heard[r]) # {}

(* What makes the properties of the cache inductive: besides, nothing      *)
(* expires between the two counts of the inventory that the first has not  *)
(* seen.                                                                   *)
CacheInv ==
    /\ CacheTypeOK
    /\ \A r \in Runs : RunInv(r)
    /\ cutoff.now <= now /\ shown.now <= now
    /\ shown.step = "total" => Cardinality(Expired(shown.now)) <= shown.total
    /\ InventoryCoherent

(* A run that has stored what it found under this key.                     *)
Stored(r, k) == stage[r] = "done" /\ ~hit[r] /\ KeyOf(r) = k

(* An entry with findings is somebody's fetch.  An entry without is that   *)
(* of a run to which no provider had anything to report, of however many   *)
(* it asked, and, but for Common Crawl, one of them did answer: what is    *)
(* malformed or out of reach is never kept as emptiness, nor is a refusal  *)
(* by the collectors that look at the status.                              *)
EmptyMeansNothing ==
    \A c \in Collectors, t \in Targets :
        /\ cache[<<c, t>>].value = "empty" =>
               \E r \in Runs :
                   /\ Stored(r, <<c, t>>) /\ "records" \notin heard[r]
                   /\ c \notin Tolerant => Taken(r, heard[r]) # {}
        /\ cache[<<c, t>>].value = "records" =>
               \E r \in Runs : Stored(r, <<c, t>>) /\ "records" \in heard[r]
=============================================================================
