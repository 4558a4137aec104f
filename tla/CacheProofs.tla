----------------------------- MODULE CacheProofs -----------------------------
(***************************************************************************)
(* Proofs about the response cache, for any collectors, targets and runs,  *)
(* any times to live and any number of purges: a run served from the cache *)
(* has asked nobody, the sweep takes nothing that is fresh, an entry says  *)
(* what somebody heard, and the inventory adds up.                         *)
(***************************************************************************)
EXTENDS ResponseCache, FiniteSetTheorems, TLAPS

Asked == [collector : Collectors, target : Targets]
Present == {k \in Keys : cache[k] # NoEntry}

(* Only finitely many entries exist at a time, however many keys there are.*)
FiniteCache == IsFiniteSet(Present)

Inv == CacheInv /\ FiniteCache

LEMMA KeysOfRuns ==
    ASSUME CacheInv, NEW r \in Runs, stage[r] # "idle"
    PROVE  /\ asks[r].collector \in Collectors /\ asks[r].target \in Targets
           /\ KeyOf(r) \in Keys /\ KeyOf(r)[2] # "bootstrap"
           /\ BootstrapKey(r) \in Keys /\ BootstrapKey(r)[2] = "bootstrap"
<1>1. asks[r] \in Asked
  BY DEF CacheInv, RunInv, Asked
<1> QED
  BY <1>1, CacheAssumption
  DEF Asked, KeyOf, BootstrapKey, compute_cache_key, Keys

(* A fresh entry under the key of a target holds findings.                 *)
LEMMA EntriesOfTargets ==
    ASSUME CacheTypeOK, NEW k \in Keys, k[2] # "bootstrap", cache[k] # NoEntry
    PROVE  cache[k].value \in Findings
BY DEF CacheTypeOK, Entries

(* An entry that is stored is fresh, and is no empty one.                  *)
LEMMA NewEntry ==
    ASSUME NEW value \in Findings \cup Bootstraps, now \in 0..MaxTime,
           NEW ttl \in {PositiveTTL, NegativeTTL}
    PROVE  /\ [value |-> value, due |-> now + ttl] \in Entries
           /\ [value |-> value, due |-> now + ttl] # NoEntry
           /\ now + ttl > now
BY CacheAssumption DEF Entries, NoEntry, Findings, Bootstraps

LEMMA Initially == CacheInit => Inv
<1> SUFFICES ASSUME CacheInit PROVE Inv
  OBVIOUS
<1>1. CacheTypeOK
  BY CacheAssumption
  DEF CacheInit, CacheTypeOK, NoEntry, Stages, NotAsking, NotSaving, NotSweeping,
      Bootstraps
<1>2. FiniteCache
  <2>1. Present = {}
    BY DEF CacheInit, Present
  <2> QED
    BY <2>1, FS_EmptySet DEF FiniteCache
<1>3. \A r \in Runs : RunInv(r)
  BY DEF CacheInit, RunInv
<1> QED
  BY <1>1, <1>2, <1>3, CacheAssumption
  DEF CacheInit, Inv, CacheInv, InventoryCoherent, NotSweeping
-----------------------------------------------------------------------------
(* The runs.                                                               *)

(* A run's step leaves the other runs alone.                               *)
Others(r) ==
    \A q \in Runs \ {r} :
        /\ stage'[q] = stage[q] /\ asks'[q] = asks[q] /\ hit'[q] = hit[q]
        /\ heard'[q] = heard[q] /\ saving'[q] = saving[q]

LEMMA OthersKept ==
    ASSUME CacheInv, NEW r \in Runs, Others(r), now' = now, RunInv(r)'
    PROVE  (\A q \in Runs : RunInv(q))'
<1> SUFFICES ASSUME NEW q \in Runs, q # r PROVE RunInv(q)'
  OBVIOUS
<1>1. RunInv(q)
  BY DEF CacheInv
<1>2. /\ stage'[q] = stage[q] /\ asks'[q] = asks[q] /\ hit'[q] = hit[q]
      /\ heard'[q] = heard[q] /\ saving'[q] = saving[q] /\ now' = now
  BY DEF Others
<1> QED
  BY <1>1, <1>2 DEF RunInv, Taken, KeyOf, BootstrapKey

RunStep(r) ==
    \/ Begin(r) \/ Lookup(r) \/ LookupBootstrap(r) \/ AnswerBootstrap(r)
    \/ AnswerStrict(r) \/ AnswerPaired(r) \/ AnswerTolerant(r) \/ Unexpected(r)
    \/ Write(r)

LEMMA RunStepOthers ==
    ASSUME CacheTypeOK, NEW r \in Runs, RunStep(r)
    PROVE  Others(r) /\ UNCHANGED <<now, cutoff, shown, purges>>
<1> USE DEF CacheTypeOK, Others, Becomes
<1>1. CASE Begin(r) \/ Lookup(r) \/ LookupBootstrap(r)
  BY <1>1 DEF Begin, Lookup, LookupBootstrap
<1>2. CASE AnswerBootstrap(r)
  BY <1>2 DEF AnswerBootstrap, Fails, Select
<1>3. CASE AnswerStrict(r)
  BY <1>3 DEF AnswerStrict, Hears, Fails, Keep, Select
<1>4. CASE AnswerPaired(r)
  BY <1>4 DEF AnswerPaired, NextRound, Hears, Fails, Keep, Select
<1>5. CASE AnswerTolerant(r)
  BY <1>5 DEF AnswerTolerant, Hears, Keep, Select
<1>6. CASE Write(r)
  BY <1>6 DEF Write
<1>7. CASE Unexpected(r)
  BY <1>7 DEF Unexpected, Fails
<1> QED
  BY <1>1, <1>2, <1>3, <1>4, <1>5, <1>6, <1>7 DEF RunStep

(* What is kept was heard, and it is empty only if nobody had records.     *)
LEMMA KeepKeeps ==
    ASSUME CacheInv, NEW r \in Runs, NEW answers \in SUBSET Answers, NEW found \in BOOLEAN,
           Hears(r, answers), Keep(r, found), round' \in [Runs -> 0..Rounds],
           found <=> "records" \in heard[r] \cup answers,
           asks[r].collector \notin Tolerant => Taken(r, answers) # {}
    PROVE  CacheTypeOK' /\ RunInv(r)' /\ UNCHANGED cache
<1> DEFINE value == IF found THEN "records" ELSE "empty"
           ttl == IF found THEN PositiveTTL ELSE NegativeTTL
<1>1. /\ stage[r] = "ask" /\ stage \in [Runs -> Stages]
      /\ stage' = [stage EXCEPT ![r] = "store"]
      /\ heard' = [heard EXCEPT ![r] = @ \cup answers]
      /\ saving' = [saving EXCEPT ![r] =
             [key |-> KeyOf(r), entry |-> [value |-> value, due |-> now + ttl],
              found |-> cache[KeyOf(r)] # NoEntry]]
      /\ UNCHANGED <<now, cache, asks, served, hit, cutoff, shown, purges>>
  BY DEF Hears, Keep, Becomes, Select, CacheInv, CacheTypeOK
<1>2. KeyOf(r) \in Keys
  BY <1>1, KeysOfRuns
<1>3. [value |-> value, due |-> now + ttl] \in Entries /\ now + ttl > now
  BY NewEntry DEF CacheInv, CacheTypeOK, Findings
<1>4. CacheTypeOK'
  BY <1>1, <1>2, <1>3 DEF CacheInv, CacheTypeOK, Stages
<1>5. heard'[r] = heard[r] \cup answers /\ stage'[r] = "store" /\ ~hit[r]
  BY <1>1 DEF CacheInv, CacheTypeOK, RunInv
<1>6. /\ saving'[r].key = KeyOf(r) /\ saving'[r] # NotSaving /\ saving'[r].entry.due > now
      /\ saving'[r].entry.value = value
  BY <1>1, <1>2, <1>3 DEF CacheInv, CacheTypeOK, NotSaving, NoEntry
<1>7. value = IF "records" \in heard'[r] THEN "records" ELSE "empty"
  BY <1>5
<1>8. asks[r].collector \notin Tolerant => Taken(r, heard'[r]) # {}
  BY <1>5 DEF Taken
<1> HIDE DEF value, ttl
<1>9. KeyOf(r)' = KeyOf(r) /\ Taken(r, heard[r])' = Taken(r, heard'[r])
  BY <1>1 DEF KeyOf, Taken
<1>10. RunInv(r)'
  BY <1>1, <1>5, <1>6, <1>7, <1>8, <1>9 DEF CacheInv, RunInv
<1> QED
  BY <1>1, <1>4, <1>10

LEMMA AnswersKeep ==
    ASSUME CacheInv, NEW r \in Runs,
           AnswerStrict(r) \/ AnswerPaired(r) \/ AnswerTolerant(r) \/ Unexpected(r)
    PROVE  CacheTypeOK' /\ RunInv(r)' /\ UNCHANGED cache
<1>1. ASSUME NEW answers \in SUBSET Answers, Hears(r, answers), Fails(r), UNCHANGED round
      PROVE  CacheTypeOK' /\ RunInv(r)' /\ UNCHANGED cache
  <2>1. CacheTypeOK'
    BY <1>1 DEF Hears, Fails, Becomes, CacheInv, CacheTypeOK, Stages
  <2>2. RunInv(r)'
    BY <1>1 DEF Hears, Fails, Becomes, CacheInv, CacheTypeOK, RunInv
  <2> QED
    BY <1>1, <2>1, <2>2 DEF Hears
<1>2. CASE AnswerStrict(r)
  <2>1. PICK a \in Answers :
          /\ Hears(r, {a})
          /\ IF Taken(r, {a}) = {} THEN Fails(r) ELSE Keep(r, a = "records")
    BY <1>2 DEF AnswerStrict
  <2>2. CASE Taken(r, {a}) = {}
    BY <1>1, <1>2, <2>1, <2>2 DEF AnswerStrict
  <2>3. CASE Taken(r, {a}) # {}
    <3>1. "records" \notin heard[r]
      BY <1>2, <2>1 DEF AnswerStrict, Hears, CacheInv, RunInv
    <3>2. round' \in [Runs -> 0..Rounds]
      BY <1>2 DEF AnswerStrict, CacheInv, CacheTypeOK
    <3> DEFINE found == a = "records"
    <3>3. found \in BOOLEAN /\ (found <=> "records" \in heard[r] \cup {a})
      BY <3>1
    <3>4. Keep(r, found)
      BY <2>1, <2>3
    <3> HIDE DEF found
    <3> QED
      BY <2>1, <2>3, <3>2, <3>3, <3>4, KeepKeeps
  <2> QED
    BY <2>2, <2>3
<1>3. CASE AnswerPaired(r)
  <2>1. PICK a \in Answers, b \in Answers :
          /\ Hears(r, {a, b})
          /\ IF Taken(r, {a, b}) = {} THEN Fails(r) /\ UNCHANGED round ELSE NextRound(r)
    BY <1>3 DEF AnswerPaired
  <2> DEFINE answers == {a, b}
  <2>2. answers \in SUBSET Answers
    OBVIOUS
  <2>3. Hears(r, answers) /\ asks[r].collector \in Paired /\ round[r] < Rounds
    BY <1>3, <2>1 DEF AnswerPaired
  <2>4. \/ Taken(r, answers) = {} /\ Fails(r) /\ UNCHANGED round
        \/ Taken(r, answers) # {} /\ NextRound(r)
    BY <2>1
  <2> HIDE DEF answers
  <2>5. CASE Taken(r, answers) = {} /\ Fails(r) /\ UNCHANGED round
    BY <1>1, <2>2, <2>3, <2>5
  <2>6. CASE Taken(r, answers) # {} /\ NextRound(r)
    <3>1. round[r] \in 0..Rounds /\ Rounds \in Nat
      BY CacheAssumption DEF CacheInv, CacheTypeOK
    <3>2. round' \in [Runs -> 0..Rounds]
      BY <2>3, <2>6, <3>1 DEF NextRound, CacheInv, CacheTypeOK
    <3>3. heard'[r] = heard[r] \cup answers /\ stage[r] = "ask"
      BY <2>3 DEF Hears, CacheInv, CacheTypeOK
    <3>4. CASE UNCHANGED <<stage, saving>>
      <4>1. CacheTypeOK'
        BY <2>2, <2>3, <3>2, <3>4 DEF Hears, CacheInv, CacheTypeOK
      <4>2. RunInv(r)'
        BY <2>3, <3>3, <3>4 DEF Hears, CacheInv, RunInv
      <4> QED
        BY <2>3, <4>1, <4>2 DEF Hears
    <3>5. CASE Keep(r, "records" \in heard'[r])
      <4> DEFINE found == "records" \in heard'[r]
      <4>1. found \in BOOLEAN /\ (found <=> "records" \in heard[r] \cup answers)
        BY <3>3
      <4>2. Keep(r, found)
        BY <3>5
      <4> HIDE DEF found
      <4> QED
        BY <2>2, <2>3, <2>6, <3>2, <4>1, <4>2, KeepKeeps
    <3> QED
      BY <2>6, <3>4, <3>5 DEF NextRound
  <2> QED
    BY <2>4, <2>5, <2>6
<1>4. CASE AnswerTolerant(r)
  <2>1. PICK a \in Answers, b \in Answers :
          Hears(r, {a, b}) /\ Keep(r, "records" \in {a, b})
    BY <1>4 DEF AnswerTolerant
  <2> DEFINE answers == {a, b}
             found == "records" \in answers
  <2>2. answers \in SUBSET Answers /\ found \in BOOLEAN
    OBVIOUS
  <2>3. asks[r].collector \in Tolerant /\ Hears(r, answers) /\ Keep(r, found)
    BY <1>4, <2>1 DEF AnswerTolerant
  <2>4. "records" \notin heard[r]
    BY <2>3, CacheAssumption DEF Hears, CacheInv, RunInv
  <2>5. found <=> "records" \in heard[r] \cup answers
    BY <2>4
  <2>6. round' \in [Runs -> 0..Rounds]
    BY <1>4 DEF AnswerTolerant, CacheInv, CacheTypeOK
  <2> HIDE DEF answers, found
  <2> QED
    BY <2>2, <2>3, <2>5, <2>6, KeepKeeps
<1>5. CASE Unexpected(r)
  <2>1. CacheTypeOK'
    BY <1>5 DEF Unexpected, Fails, Becomes, CacheInv, CacheTypeOK, Stages
  <2>2. RunInv(r)'
    BY <1>5 DEF Unexpected, Fails, Becomes, CacheInv, CacheTypeOK, RunInv
  <2> QED
    BY <1>5, <2>1, <2>2 DEF Unexpected
<1> QED
  BY <1>2, <1>3, <1>4, <1>5

LEMMA BootstrapsKeep ==
    ASSUME CacheInv, NEW r \in Runs, LookupBootstrap(r) \/ AnswerBootstrap(r)
    PROVE  CacheTypeOK' /\ RunInv(r)' /\ UNCHANGED cache
<1>1. CASE LookupBootstrap(r)
  <2>1. CacheTypeOK'
    BY <1>1 DEF LookupBootstrap, Becomes, CacheInv, CacheTypeOK, Stages
  <2>2. RunInv(r)'
    BY <1>1 DEF LookupBootstrap, Becomes, CacheInv, CacheTypeOK, RunInv
  <2> QED
    BY <1>1, <2>1, <2>2 DEF LookupBootstrap
<1>2. ASSUME NEW a \in Bootstraps, stage[r] = "ask_bootstrap",
             heard' = [heard EXCEPT ![r] = @ \cup {a}],
             Select(r, BootstrapKey(r), a, PositiveTTL), Becomes(r, "store_bootstrap"),
             UNCHANGED <<now, cache, asks, served, hit, round, cutoff, shown, purges>>
      PROVE  CacheTypeOK' /\ RunInv(r)' /\ UNCHANGED cache
  <2>1. BootstrapKey(r) \in Keys
    BY <1>2, KeysOfRuns
  <2>2. [value |-> a, due |-> now + PositiveTTL] \in Entries /\ now + PositiveTTL > now
    BY NewEntry DEF CacheInv, CacheTypeOK
  <2>3. CacheTypeOK'
    BY <1>2, <2>1, <2>2
    DEF Select, Becomes, CacheInv, CacheTypeOK, Stages, BootstrapAnswers
  <2>4. RunInv(r)'
    BY <1>2, <2>1, <2>2
    DEF Select, Becomes, CacheInv, CacheTypeOK, RunInv, BootstrapKey, NotSaving, NoEntry,
        Bootstraps
  <2> QED
    BY <1>2, <2>3, <2>4
<1>3. ASSUME NEW a \in BootstrapAnswers, stage[r] = "ask_bootstrap", Fails(r),
             heard' = [heard EXCEPT ![r] = @ \cup {a}],
             UNCHANGED <<now, cache, asks, served, hit, round, cutoff, shown, purges>>
      PROVE  CacheTypeOK' /\ RunInv(r)' /\ UNCHANGED cache
  <2>1. CacheTypeOK'
    BY <1>3 DEF Fails, Becomes, CacheInv, CacheTypeOK, Stages
  <2>2. RunInv(r)'
    BY <1>3 DEF Fails, Becomes, CacheInv, CacheTypeOK, RunInv, BootstrapAnswers, Bootstraps
  <2> QED
    BY <1>3, <2>1, <2>2
<1> QED
  BY <1>1, <1>2, <1>3 DEF AnswerBootstrap

LEMMA LookupKeeps ==
    ASSUME CacheInv, NEW r \in Runs, Begin(r) \/ Lookup(r)
    PROVE  CacheTypeOK' /\ RunInv(r)' /\ UNCHANGED cache
<1>1. CASE Begin(r)
  <2>1. CacheTypeOK'
    BY <1>1 DEF Begin, Becomes, CacheInv, CacheTypeOK, Stages
  <2>2. RunInv(r)'
    BY <1>1 DEF Begin, Becomes, CacheInv, CacheTypeOK, RunInv
  <2> QED
    BY <1>1, <2>1, <2>2 DEF Begin
<1>2. CASE Lookup(r)
  <2>1. Fresh(KeyOf(r)) => cache[KeyOf(r)].value \in Findings
    BY <1>2, KeysOfRuns, EntriesOfTargets DEF Lookup, Fresh, CacheInv
  <2>2. CacheTypeOK'
    BY <1>2, <2>1 DEF Lookup, Becomes, CacheInv, CacheTypeOK, Stages
  <2>3. RunInv(r)'
    BY <1>2 DEF Lookup, Becomes, CacheInv, CacheTypeOK, RunInv
  <2> QED
    BY <1>2, <2>2, <2>3 DEF Lookup
<1> QED
  BY <1>1, <1>2

(* What is being stored goes where entries of its kind go.                 *)
LEMMA StoredEntry ==
    ASSUME CacheInv, NEW r \in Runs, stage[r] \in {"store", "store_bootstrap"}
    PROVE  /\ saving[r].key \in Keys /\ saving[r].entry \in Entries
           /\ saving[r].entry # NoEntry /\ saving[r].entry.due > now
           /\ saving[r].entry.value \in Bootstraps <=> saving[r].key[2] = "bootstrap"
           /\ stage[r] = "store" => saving[r].entry.value \in Findings
<1>1. saving[r] # NotSaving /\ saving[r].entry.due > now
  BY DEF CacheInv, RunInv
<1>2. saving[r].key \in Keys /\ saving[r].entry \in Entries
  BY <1>1 DEF CacheInv, CacheTypeOK
<1>3. saving[r].entry # NoEntry
  BY <1>2, CacheAssumption DEF Entries, NoEntry, Findings, Bootstraps
<1>4. CASE stage[r] = "store"
  BY <1>1, <1>2, <1>3, <1>4, KeysOfRuns DEF CacheInv, RunInv, Findings, Bootstraps
<1>5. CASE stage[r] = "store_bootstrap"
  BY <1>1, <1>2, <1>3, <1>5, KeysOfRuns DEF CacheInv, RunInv
<1> QED
  BY <1>4, <1>5

LEMMA WriteKeeps ==
    ASSUME CacheInv, NEW r \in Runs, Write(r)
    PROVE  CacheTypeOK' /\ RunInv(r)'
<1>1. stage[r] \in {"store", "store_bootstrap"}
  BY DEF Write
<1>2. CacheTypeOK'
  BY <1>1, StoredEntry DEF Write, Becomes, CacheInv, CacheTypeOK, Stages
<1>3. RunInv(r)'
  BY <1>1, StoredEntry DEF Write, Becomes, CacheInv, CacheTypeOK, RunInv, NotSaving
<1> QED
  BY <1>2, <1>3

LEMMA RunsKeep ==
    ASSUME CacheInv, NEW r \in Runs, RunStep(r)
    PROVE  /\ CacheTypeOK' /\ (\A q \in Runs : RunInv(q))'
           /\ UNCHANGED <<now, cutoff, shown, purges>>
           /\ UNCHANGED cache \/ Write(r)
<1>1. Others(r) /\ UNCHANGED <<now, cutoff, shown, purges>>
  BY RunStepOthers DEF CacheInv
<1>2. CacheTypeOK' /\ RunInv(r)' /\ (UNCHANGED cache \/ Write(r))
  BY LookupKeeps, BootstrapsKeep, AnswersKeep, WriteKeeps DEF RunStep
<1> QED
  BY <1>1, <1>2, OthersKept

-----------------------------------------------------------------------------
(* The clock, the sweep, the purge and the inventory.                      *)

TableStep == Tick \/ SweepCount \/ SweepDelete \/ Purge \/ Inventory

LEMMA RemoveTyped ==
    ASSUME CacheTypeOK, NEW keys, Remove(keys)
    PROVE  /\ cache' \in [Keys -> Entries \cup {NoEntry}]
           /\ \A k \in Keys : cache'[k].value \in Bootstraps <=>
                  k[2] = "bootstrap" /\ cache'[k] # NoEntry
           /\ \A k \in Keys : cache'[k] = IF k \in keys THEN NoEntry ELSE cache[k]
<1>1. NoEntry.value \notin Bootstraps
  BY DEF NoEntry, Bootstraps
<1> QED
  BY <1>1 DEF CacheTypeOK, Remove

LEMMA TableKeeps ==
    ASSUME CacheInv, FiniteCache, TableStep
    PROVE  CacheTypeOK' /\ (\A r \in Runs : RunInv(r))' /\ UNCHANGED runVars
<1> USE DEF CacheInv, runVars
<1>1. CASE Tick
  <2>1. CacheTypeOK'
    BY <1>1, CacheAssumption DEF Tick, CacheTypeOK
  <2>2. \A r \in Runs : RunInv(r)'
    BY <1>1 DEF Tick, RunInv, Taken, KeyOf, BootstrapKey
  <2> QED
    BY <1>1, <2>1, <2>2 DEF Tick
<1>2. ASSUME UNCHANGED <<now, runVars>> PROVE \A r \in Runs : RunInv(r)'
  BY <1>2 DEF RunInv, Taken, KeyOf, BootstrapKey
<1>3. CASE SweepCount
  <2>1. CacheTypeOK'
    BY <1>3 DEF SweepCount, Expired, CacheTypeOK
  <2> QED
    BY <1>2, <1>3, <2>1 DEF SweepCount
<1>4. CASE SweepDelete
  <2>1. CacheTypeOK'
    BY <1>4, RemoveTyped, CacheAssumption DEF SweepDelete, NotSweeping, CacheTypeOK
  <2> QED
    BY <1>2, <1>4, <2>1 DEF SweepDelete
<1>5. CASE Purge
  <2>1. CacheTypeOK'
    BY <1>5, RemoveTyped, CacheAssumption DEF Purge, CacheTypeOK
  <2> QED
    BY <1>2, <1>5, <2>1 DEF Purge
<1>6. CASE Inventory
  <2>1. Total \in Nat
    BY FS_CardinalityType DEF FiniteCache, Present, Total
  <2>2. Cardinality(Expired(shown.now)) \in Nat
    <3>1. Expired(shown.now) \subseteq Present
      BY DEF Expired, Present
    <3> QED
      BY <3>1, FS_Subset, FS_CardinalityType DEF FiniteCache
  <2> DEFINE Shown == [step : {"none", "total", "all"}, now : 0..MaxTime,
                       total : Nat, expired : Nat]
  <2>3. shown \in Shown /\ now \in 0..MaxTime
    BY DEF CacheTypeOK
  <2>4. shown' \in Shown
    <3>1. CASE shown' = [step |-> "total", now |-> now, total |-> Total, expired |-> 0]
      BY <2>1, <2>3, <3>1
    <3>2. CASE shown' = [shown EXCEPT !.step = "all",
                                      !.expired = Cardinality(Expired(shown.now))]
      BY <2>2, <2>3, <3>2
    <3> QED
      BY <1>6, <3>1, <3>2 DEF Inventory
  <2>5. CacheTypeOK'
    BY <1>6, <2>4 DEF Inventory, CacheTypeOK
  <2> QED
    BY <1>2, <1>6, <2>5 DEF Inventory
<1> QED
  BY <1>1, <1>3, <1>4, <1>5, <1>6 DEF TableStep

(* Entries come one by one, each of them fresh; all other steps take some. *)
Shrinks(keys) == \A k \in Keys \ keys : cache'[k] \in {cache[k], NoEntry}

LEMMA TableChanges ==
    ASSUME CacheInv, FiniteCache, CacheNext
    PROVE  \E k \in SUBSET Keys :
              /\ IsFiniteSet(k) /\ Shrinks(k)
              /\ \A x \in k : cache'[x] # NoEntry /\ cache'[x].due > now
<1>1. CASE UNCHANGED cache
  <2>1. Shrinks({})
    BY <1>1 DEF Shrinks
  <2> QED
    BY <2>1, FS_EmptySet
<1>2. ASSUME NEW keys, Remove(keys)
      PROVE  Shrinks({})
  BY <1>2, RemoveTyped DEF CacheInv, Shrinks
<1>3. CASE SweepDelete \/ Purge
  <2>1. Shrinks({})
    BY <1>2, <1>3 DEF SweepDelete, Purge
  <2> QED
    BY <2>1, FS_EmptySet
<1>4. ASSUME NEW r \in Runs, Write(r), cache' # cache
      PROVE  \E k \in SUBSET Keys :
                /\ IsFiniteSet(k) /\ Shrinks(k)
                /\ \A x \in k : cache'[x] # NoEntry /\ cache'[x].due > now
  <2>1. /\ saving[r].key \in Keys /\ saving[r].entry # NoEntry
        /\ saving[r].entry.due > now
    BY <1>4, StoredEntry DEF Write
  <2>2. cache' = [cache EXCEPT ![saving[r].key] = saving[r].entry]
    BY <1>4 DEF Write
  <2>3. Shrinks({saving[r].key}) /\ cache'[saving[r].key] = saving[r].entry
    BY <2>1, <2>2 DEF CacheInv, CacheTypeOK, Shrinks
  <2>4. IsFiniteSet({saving[r].key})
    BY FS_Singleton
  <2> QED
    BY <2>1, <2>3, <2>4
<1>5. ASSUME NEW r \in Runs, RunStep(r) PROVE UNCHANGED cache \/ Write(r)
  BY <1>5, RunsKeep
<1>6. CASE Tick \/ SweepCount \/ Inventory
  BY <1>1, <1>6 DEF Tick, SweepCount, Inventory
<1> QED
  BY <1>1, <1>3, <1>4, <1>5, <1>6 DEF CacheNext, RunStep

LEMMA FiniteKept ==
    ASSUME CacheInv, FiniteCache, CacheNext
    PROVE  FiniteCache'
<1>1. PICK k \in SUBSET Keys : IsFiniteSet(k) /\ Shrinks(k)
  BY TableChanges
<1>2. IsFiniteSet(Present \cup k)
  BY <1>1, FS_Union DEF FiniteCache
<1>3. Present' \subseteq Present \cup k
  BY <1>1 DEF Present, Shrinks
<1> QED
  BY <1>2, <1>3, FS_Subset DEF FiniteCache

(* What has expired at a time that has passed only gets less.              *)
ExpiredNext(at) == {k \in Keys : cache'[k] # NoEntry /\ cache'[k].due <= at}

LEMMA ExpiredShrinks ==
    ASSUME CacheInv, CacheTypeOK', FiniteCache, CacheNext,
           NEW at \in 0..MaxTime, at <= now
    PROVE  Cardinality(ExpiredNext(at)) <= Cardinality(Expired(at))
<1>1. PICK k \in SUBSET Keys :
        Shrinks(k) /\ \A x \in k : cache'[x] # NoEntry /\ cache'[x].due > now
  BY TableChanges
<1>2. now \in Nat
  BY DEF CacheInv, CacheTypeOK
<1>3. ExpiredNext(at) \subseteq Expired(at)
  <2> SUFFICES ASSUME NEW x \in Keys, cache'[x] # NoEntry, cache'[x].due <= at
               PROVE  x \in Expired(at)
    BY DEF ExpiredNext
  <2>1. cache'[x].due \in Nat
    BY CacheAssumption DEF CacheTypeOK, Entries
  <2>2. x \notin k
    BY <1>1, <1>2, <2>1
  <2> QED
    BY <1>1, <2>2 DEF Shrinks, Expired
<1>4. IsFiniteSet(Expired(at))
  <2>1. Expired(at) \subseteq Present
    BY DEF Expired, Present
  <2> QED
    BY <2>1, FS_Subset DEF FiniteCache
<1> QED
  BY <1>3, <1>4, FS_Subset

LEMMA CountsKept ==
    ASSUME CacheInv, CacheTypeOK', FiniteCache, FiniteCache', CacheNext
    PROVE  /\ (cutoff.now <= now /\ shown.now <= now)'
           /\ (shown.step = "total" => Cardinality(Expired(shown.now)) <= shown.total)'
           /\ InventoryCoherent'
<1> USE DEF CacheInv
<1>1. /\ now \in 0..MaxTime /\ now' \in 0..MaxTime
      /\ shown.now \in 0..MaxTime /\ shown.total \in Nat
      /\ cutoff.now \in 0..MaxTime
  BY DEF CacheTypeOK
<1>2. \A at \in 0..MaxTime :
        Cardinality(Expired(at)) \in Nat /\ Cardinality(ExpiredNext(at)) \in Nat
  <2>1. \A at \in 0..MaxTime :
          Expired(at) \subseteq Present /\ ExpiredNext(at) \subseteq Present'
    BY DEF Expired, ExpiredNext, Present
  <2> QED
    BY <2>1, FS_Subset, FS_CardinalityType DEF FiniteCache
<1>3. CASE UNCHANGED shown
  <2>1. now' >= now /\ (UNCHANGED cutoff \/ cutoff' = NotSweeping \/ cutoff'.now = now)
    <3>1. CASE \E r \in Runs : RunStep(r)
      BY <1>1, <3>1, RunsKeep
    <3>2. CASE Tick \/ SweepCount \/ SweepDelete \/ Purge \/ Inventory
      BY <1>1, <3>2 DEF Tick, SweepCount, SweepDelete, Purge, Inventory
    <3> QED
      BY <3>1, <3>2 DEF CacheNext, RunStep
  <2>2. (cutoff.now <= now /\ shown.now <= now)'
    BY <1>1, <1>3, <2>1 DEF NotSweeping
  <2>3. Cardinality(ExpiredNext(shown.now)) <= Cardinality(Expired(shown.now))
    BY <1>1, ExpiredShrinks
  <2>4. Expired(shown.now)' = ExpiredNext(shown.now)
    BY <1>3 DEF Expired, ExpiredNext
  <2> QED
    BY <1>1, <1>2, <1>3, <2>2, <2>3, <2>4 DEF InventoryCoherent
<1>4. CASE Inventory
  <2>1. UNCHANGED <<now, cache, cutoff>>
    BY <1>4 DEF Inventory
  <2>2. CASE shown.step # "total"
    <3>1. shown' = [step |-> "total", now |-> now, total |-> Total, expired |-> 0]
      BY <1>4, <2>2 DEF Inventory
    <3>2. Expired(now) \subseteq Present /\ Expired(shown.now)' = Expired(now)
      BY <2>1, <3>1 DEF Expired, Present
    <3>3. Cardinality(Expired(now)) <= Total
      BY <3>2, FS_Subset DEF FiniteCache, Present, Total
    <3> QED
      BY <1>1, <2>1, <3>1, <3>2, <3>3 DEF InventoryCoherent
  <2>3. CASE shown.step = "total"
    <3>1. shown' = [shown EXCEPT !.step = "all", !.expired = Cardinality(Expired(shown.now))]
      BY <1>4, <2>3 DEF Inventory
    <3>2. /\ shown'.step = "all" /\ shown'.now = shown.now /\ shown'.total = shown.total
          /\ shown'.expired = Cardinality(Expired(shown.now))
      BY <3>1 DEF CacheTypeOK
    <3> QED
      BY <1>1, <2>1, <2>3, <3>2 DEF InventoryCoherent
  <2> QED
    BY <2>2, <2>3
<1>5. CASE \E r \in Runs : RunStep(r)
  BY <1>3, <1>5, RunsKeep
<1> QED
  BY <1>3, <1>4, <1>5
  DEF CacheNext, RunStep, Tick, SweepCount, SweepDelete, Purge

LEMMA StepKeeps == Inv /\ [CacheNext]_vars => Inv'
<1> SUFFICES ASSUME Inv, [CacheNext]_vars PROVE Inv'
  OBVIOUS
<1>1. CASE UNCHANGED vars
  BY <1>1 DEF vars, runVars, Inv, CacheInv, CacheTypeOK, RunInv, Taken, KeyOf,
     BootstrapKey, Stored, Expired, InventoryCoherent, FiniteCache, Present
<1>2. CASE CacheNext
  <2>1. CacheTypeOK' /\ (\A r \in Runs : RunInv(r))'
    BY <1>2, RunsKeep, TableKeeps DEF Inv, CacheNext, RunStep, TableStep
  <2>2. FiniteCache'
    BY <1>2, FiniteKept DEF Inv
  <2> QED
    BY <1>2, <2>1, <2>2, CountsKept DEF Inv, CacheInv
<1> QED
  BY <1>1, <1>2

-----------------------------------------------------------------------------
(* The inventory never shows more expired entries than entries, a run that *)
(* stores has heard what it stores, and everything has its type.           *)
THEOREM CacheHolds == CacheSpec => []CacheInv
<1>1. Inv => CacheInv
  BY DEF Inv
<1> QED
  BY <1>1, Initially, StepKeeps, PTL DEF CacheSpec

(* A run that has hit the cache is over, and has heard nothing.            *)
LEMMA HitsKept ==
    ASSUME CacheInv, HitMeansNoCall, [CacheNext]_vars
    PROVE  HitMeansNoCall'
<1> USE DEF HitMeansNoCall
<1>1. CASE UNCHANGED vars \/ TableStep
  BY <1>1 DEF vars, runVars, TableStep, Tick, SweepCount, SweepDelete, Purge, Inventory
<1>2. ASSUME NEW r \in Runs, RunStep(r) PROVE HitMeansNoCall'
  <2>1. Others(r) /\ CacheTypeOK
    BY <1>2, RunStepOthers DEF CacheInv
  <2>2. hit'[r] => heard'[r] = {} /\ stage'[r] = "done"
    <3>1. CASE Lookup(r)
      BY <2>1, <3>1 DEF CacheInv, RunInv, Lookup, Becomes, CacheTypeOK
    <3>2. ASSUME ~Lookup(r) PROVE hit'[r] = hit[r] /\ stage[r] # "done"
      BY <1>2, <3>2 DEF RunStep, Begin, LookupBootstrap, AnswerBootstrap, AnswerStrict,
         AnswerPaired, AnswerTolerant, Unexpected, Hears, Write
    <3> QED
      BY <3>1, <3>2
  <2> QED
    BY <2>1, <2>2 DEF Others
<1> QED
  BY <1>1, <1>2 DEF CacheNext, RunStep, TableStep

(* A run reported as served from the cache has made no request.            *)
THEOREM HitsAreFree == CacheSpec => []HitMeansNoCall
<1>1. CacheInit => HitMeansNoCall
  BY DEF CacheInit, HitMeansNoCall
<1>2. Inv /\ HitMeansNoCall /\ [CacheNext]_vars => HitMeansNoCall'
  BY HitsKept DEF Inv
<1> QED
  BY <1>1, <1>2, Initially, StepKeeps, PTL DEF CacheSpec

(* The sweep takes nothing that is fresh, whatever was stored behind its   *)
(* back.                                                                   *)
THEOREM SweepsAreSafe == CacheSpec => OnlyExpiredGo
<1> DEFINE Outlived == \A k \in Keys : cache[k] # NoEntry /\ cache'[k] = NoEntry =>
                                      cache[k].due <= now
<1>1. Inv /\ [CacheNext]_vars => [Purge \/ Outlived]_vars
  <2> SUFFICES ASSUME Inv, CacheNext, ~Purge,
                      NEW k \in Keys, cache[k] # NoEntry, cache'[k] = NoEntry
               PROVE  cache[k].due <= now
    OBVIOUS
  <2>1. ASSUME NEW r \in Runs, RunStep(r) PROVE FALSE
    <3>1. UNCHANGED cache \/ Write(r)
      BY <2>1, RunsKeep DEF Inv
    <3>2. CASE Write(r)
      BY <3>2, StoredEntry DEF Write, Inv, CacheInv, CacheTypeOK
    <3> QED
      BY <3>1, <3>2
  <2>2. CASE SweepDelete
    <3>1. k \in Expired(cutoff.now)
      BY <2>2, RemoveTyped DEF SweepDelete, Inv, CacheInv
    <3>2. cache[k].due \in Nat /\ cutoff.now \in Nat /\ now \in Nat /\ cutoff.now <= now
      BY CacheAssumption DEF Inv, CacheInv, CacheTypeOK, Entries
    <3> QED
      BY <3>1, <3>2 DEF Expired
  <2> QED
    BY <2>1, <2>2 DEF CacheNext, RunStep, Tick, SweepCount, Inventory
<1> QED
  BY <1>1, Initially, StepKeeps, PTL DEF CacheSpec, OnlyExpiredGo

-----------------------------------------------------------------------------
(* What a run that is over has stored, asked and heard is not forgotten.   *)
LEMMA HearsayKept ==
    ASSUME CacheInv, [CacheNext]_vars, NEW k, NEW r \in Runs, Stored(r, k)
    PROVE  Stored(r, k)' /\ heard'[r] = heard[r] /\ asks'[r] = asks[r]
<1>1. stage[r] = "done"
  BY DEF Stored
<1>2. CASE UNCHANGED vars \/ TableStep
  BY <1>2 DEF vars, runVars, TableStep, Tick, SweepCount, SweepDelete, Purge, Inventory,
     KeyOf, Stored
<1>3. ASSUME NEW q \in Runs, RunStep(q)
      PROVE  Others(q) /\ q # r
  <2>1. stage[q] # "done"
    BY <1>3 DEF RunStep, Begin, Lookup, LookupBootstrap, AnswerBootstrap, AnswerStrict,
       AnswerPaired, AnswerTolerant, Unexpected, Hears, Write
  <2> QED
    BY <1>1, <1>3, <2>1, RunStepOthers DEF CacheInv
<1>4. ASSUME NEW q \in Runs, RunStep(q)
      PROVE  Stored(r, k)' /\ heard'[r] = heard[r] /\ asks'[r] = asks[r]
  BY <1>3, <1>4 DEF Others, Stored, KeyOf
<1> QED
  BY <1>2, <1>4 DEF CacheNext, RunStep, TableStep

(* The run that stands behind an entry.                                    *)
Behind(r, k, value) ==
    /\ Stored(r, k)
    /\ value = "empty" =>
           /\ "records" \notin heard[r]
           /\ k[1] \notin Tolerant => Taken(r, heard[r]) # {}
    /\ value = "records" => "records" \in heard[r]

Backed(k, value) == \E r \in Runs : Behind(r, k, value)

LEMMA BackedKept ==
    ASSUME CacheInv, [CacheNext]_vars, NEW k, NEW value, Backed(k, value)
    PROVE  Backed(k, value)'
<1>1. PICK r \in Runs : Behind(r, k, value)
  BY DEF Backed
<1>2. Stored(r, k)' /\ heard'[r] = heard[r] /\ asks'[r] = asks[r]
  BY <1>1, HearsayKept DEF Behind
<1>3. Behind(r, k, value)'
  BY <1>1, <1>2 DEF Behind, Taken
<1> QED
  BY <1>3 DEF Backed

AllBacked ==
    \A c \in Collectors, t \in Targets, value \in Findings :
        cache[<<c, t>>].value = value => Backed(<<c, t>>, value)

LEMMA AllBackedKept ==
    ASSUME CacheInv, AllBacked, [CacheNext]_vars
    PROVE  AllBacked'
<1> SUFFICES ASSUME NEW c \in Collectors, NEW t \in Targets, NEW value \in Findings,
                    cache'[<<c, t>>].value = value
             PROVE  Backed(<<c, t>>, value)'
  BY DEF AllBacked
<1> DEFINE k == <<c, t>>
<1>1. k \in Keys /\ k[2] # "bootstrap" /\ k[1] = c
  BY CacheAssumption DEF Keys
<1>2. CASE cache'[k] = cache[k]
  <2>1. Backed(k, value)
    BY <1>2 DEF AllBacked
  <2> QED
    BY <2>1, BackedKept
<1>3. cache'[k] # NoEntry
  BY DEF NoEntry, Findings
<1>4. ASSUME NEW r \in Runs, Write(r), cache'[k] # cache[k]
      PROVE  Backed(k, value)'
  <2>1. /\ k = saving[r].key /\ saving[r].entry.value = value
        /\ saving[r].found = (cache[saving[r].key] # NoEntry)
    BY <1>1, <1>4 DEF Write, CacheInv, CacheTypeOK
  <2>2. stage[r] = "store"
    BY <1>1, <1>4, <2>1, KeysOfRuns DEF Write, CacheInv, RunInv
  <2>3. /\ KeyOf(r) = k /\ asks[r].collector = c /\ ~hit[r]
        /\ value = IF "records" \in heard[r] THEN "records" ELSE "empty"
        /\ c \notin Tolerant => Taken(r, heard[r]) # {}
    BY <2>1, <2>2 DEF CacheInv, RunInv, KeyOf, compute_cache_key
  <2>4. stage'[r] = "done" /\ UNCHANGED <<asks, hit, heard>>
    BY <1>4, <2>1, <2>2 DEF Write, Becomes, CacheInv, CacheTypeOK
  <2>5. Stored(r, k)'
    BY <2>3, <2>4 DEF Stored, KeyOf
  <2>6. Behind(r, k, value)'
    BY <1>1, <2>3, <2>4, <2>5 DEF Behind, Taken
  <2> QED
    BY <2>6 DEF Backed
<1>5. CASE SweepDelete \/ Purge
  BY <1>1, <1>2, <1>3, <1>5, RemoveTyped DEF SweepDelete, Purge, CacheInv
<1>6. ASSUME NEW r \in Runs, RunStep(r) PROVE UNCHANGED cache \/ Write(r)
  BY <1>6, RunsKeep
<1>7. UNCHANGED vars => cache'[k] = cache[k]
  BY DEF vars
<1> QED
  BY <1>2, <1>4, <1>5, <1>6, <1>7 DEF CacheNext, RunStep, Tick, SweepCount, Inventory

(* An entry says what its run was told: it is empty only if nobody who was *)
(* asked had anything, and not for want of an answer that the collector    *)
(* accepts, whatever the questions, the refusals and the failures.         *)
THEOREM EntriesAreHeard == CacheSpec => []EmptyMeansNothing
<1>1. CacheInit => AllBacked
  BY DEF CacheInit, AllBacked, Keys, NoEntry, Findings
<1>2. Inv /\ AllBacked /\ [CacheNext]_vars => AllBacked'
  BY AllBackedKept DEF Inv
<1>3. AllBacked => EmptyMeansNothing
  <2> SUFFICES ASSUME AllBacked, NEW c \in Collectors, NEW t \in Targets
               PROVE  /\ cache[<<c, t>>].value = "empty" => Backed(<<c, t>>, "empty")
                      /\ cache[<<c, t>>].value = "records" => Backed(<<c, t>>, "records")
    BY DEF EmptyMeansNothing, Backed, Behind
  <2> QED
    BY DEF AllBacked, Findings
<1> QED
  BY <1>1, <1>2, <1>3, Initially, StepKeeps, PTL DEF CacheSpec
=============================================================================
