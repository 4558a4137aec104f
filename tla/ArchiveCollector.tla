-------------------------- MODULE ArchiveCollector --------------------------
(***************************************************************************)
(* One run of an archive collector, collectors/wayback.py or               *)
(* collectors/commoncrawl.py: index rows are read from one or several      *)
(* indexes, summed up by URL, and a few of the archived pages are fetched  *)
(* under a budget of documents and bytes.  The two differ in which errors  *)
(* they tolerate, in which archived copy they prefer and in how they know  *)
(* the size of what they ask for.                                          *)
(***************************************************************************)
EXTENDS Integers, FiniteSets, SequencesExt

CONSTANTS
    Collections,        \* the crawls of Common Crawl
    Limit,              \* DEFAULT_COLLECTIONS_TO_QUERY
    IndexRows,          \* what an index may say of one capture
    TargetHosts,        \* the target and its subdomains
    Suffix,             \* of a path: its extension, "" for none
    UrlOrder,           \* the canonical URLs of IndexRows, sorted
    MaxRows,            \* MAX_INDEX_ROWS
    MaxDocs,            \* MAX_REPRESENTATIVE_DOCS
    ByteBudget,         \* MAX_TOTAL_SAMPLE_BYTES
    Cap,                \* PER_DOCUMENT_BYTE_CAP
    Slack,              \* what Common Crawl allows beyond a record's length
    NoUrl, NoRow        \* None for either

ASSUME ArchiveAssumption ==
    /\ Limit \in Nat \ {0} /\ MaxRows \in Nat /\ Limit <= MaxRows
    /\ MaxDocs \in Nat /\ ByteBudget \in Nat /\ Cap \in Nat /\ Slack \in Nat

VARIABLES
    provider,   \* which of the two collectors runs
    pc,         \* where its coroutine stands
    pending,    \* indexes still to be asked
    limit,      \* rows asked of each
    rows,       \* all rows received, each with the index it came from
    entries,    \* by_url
    picked,     \* what _select_representative returned
    todo,       \* the part of it not yet gone through
    remaining,  \* remaining_budget
    kept,       \* bytes of archived content in the findings
    samples,    \* URLs with a sample among the findings
    refused,    \* URLs whose sample could not be had
    stored      \* status under which the result is cached

indexVars == <<limit, rows, entries, picked>>
sampleVars == <<remaining, kept, samples, refused>>
archiveVars == <<provider, pc, pending, todo, indexVars, sampleVars, stored>>

Providers == {"wayback", "commoncrawl"}
Indexes == Collections \cup {"wayback"}

ArchiveInit ==
    /\ provider \in Providers
    /\ pc = "start"
    /\ pending = <<>> /\ limit = 0
    /\ rows = <<>> /\ entries = <<>>
    /\ picked = <<>> /\ todo = <<>>
    /\ remaining = ByteBudget /\ kept = 0
    /\ samples = {} /\ refused = {}
    /\ stored = "none"

-----------------------------------------------------------------------------
(* Index rows.  A raw URL is a record: the names of its host differ only   *)
(* in case, which the lower-casing forgets; a query is part of the path.   *)

DefaultPort(scheme) == IF scheme = "http" THEN "80" ELSE "443"

(* A variant of Canonical that keeps the fragment.                         *)
Canonical_KeepsFragment(url) ==
    IF url.scheme \notin {"http", "https"} \/ url.host = "" THEN NoUrl
    ELSE [url EXCEPT !.port = IF @ = DefaultPort(url.scheme) THEN "" ELSE @,
                     !.path = IF @ = "" THEN "/" ELSE @]

Canonical(url) ==
    IF url.scheme \notin {"http", "https"} \/ url.host = "" THEN NoUrl
    ELSE [url EXCEPT !.port = IF @ = DefaultPort(url.scheme) THEN "" ELSE @,
                     !.path = IF @ = "" THEN "/" ELSE @,
                     !.fragment = ""]

(* host_of includes a port that is not the default one, so such a URL is   *)
(* not in scope.                                                           *)
InScope(url) == url.port = "" /\ url.host \in TargetHosts

Extension(url) == Suffix[url.path]

(* A timestamp of 0 is none.                                               *)
Usable(row) ==
    /\ row.time # 0
    /\ Canonical(row.url) # NoUrl
    /\ InScope(Canonical(row.url))

(* Whether the collector would fetch this archived copy.                   *)
Fetchable(row) == row.status = "200" /\ (provider = "commoncrawl" => row.file)

FirstEntry(row) ==
    [first |-> row.time, last |-> row.time, status |-> row.status,
     collections |-> {},
     best |-> IF provider = "wayback" THEN row ELSE NoRow]

(* The latest capture decides the status shown; Wayback samples the last   *)
(* successful row of the index, Common Crawl the first.                    *)
Seen(entry, index, row) ==
    [entry EXCEPT
        !.first = IF row.time < @ THEN row.time ELSE @,
        !.last = IF row.time > @ THEN row.time ELSE @,
        !.status = IF row.time > entry.last THEN row.status ELSE @,
        !.collections = @ \cup {index},
        !.best = IF /\ Fetchable(row)
                    /\ provider = "commoncrawl" => @ = NoRow
                 THEN row ELSE @]

(* by_url with what this row adds to the entry of its URL.                 *)
With(by, url, entry) ==
    [u \in DOMAIN by \cup {url} |-> IF u = url THEN entry ELSE by[u]]

(* A variant of Summed that takes an index for sorted by time.             *)
Summed_InOrder(by, index, row) ==
    LET url == Canonical(row.url)
        entry == IF url \in DOMAIN by THEN by[url] ELSE FirstEntry(row)
    IN  With(by, url, [Seen(entry, index, row) EXCEPT !.last = row.time])

Summed(by, index, row) ==
    LET url == Canonical(row.url)
        entry == IF url \in DOMAIN by THEN by[url] ELSE FirstEntry(row)
    IN  With(by, url, Seen(entry, index, row))

(* _aggregate_by_url, a row at a time.                                     *)
AddRow(by, pair) == IF Usable(pair[2]) THEN Summed(by, pair[1], pair[2]) ELSE by

Aggregated(all) == FoldLeft(AddRow, <<>>, all)

-----------------------------------------------------------------------------
(* The choice of what to fetch.                                            *)

IsCandidate(entry) == entry.best # NoRow /\ entry.best.status = "200"

(* The URLs with a copy to fetch: pages first, then by URL.                *)
Keep(list, item) == IF item.wanted THEN Append(list, item.url) ELSE list

Candidates(by) ==
    LET In(url) == url \in DOMAIN by /\ IsCandidate(by[url])
        Page(url) == Extension(url) \in {"", "html", "htm"}
        Items(page) == [i \in DOMAIN UrlOrder |->
                           [url |-> UrlOrder[i],
                            wanted |-> In(UrlOrder[i]) /\ Page(UrlOrder[i]) = page]]
    IN  FoldLeft(Keep, <<>>, Items(TRUE) \o Items(FALSE))

Extensions(list) == {Extension(list[i]) : i \in DOMAIN list}

(* A variant of Selected that takes the candidates as they come.           *)
Selected_AsTheyCome(by) ==
    SubSeq(Candidates(by), 1, Min({MaxDocs, Len(Candidates(by))}))

(* _select_representative: in the first half an extension is taken once;   *)
(* what is passed over does not come back.                                 *)
TakeUrl(list, url) ==
    IF \/ Len(list) >= MaxDocs
       \/ /\ Extension(url) \in Extensions(list)
          /\ Len(list) < MaxDocs \div 2
    THEN list
    ELSE Append(list, url)

Selected(by) == FoldLeft(TakeUrl, <<>>, Candidates(by))

-----------------------------------------------------------------------------
(* The coroutine.                                                          *)

(* A fresh cache entry is returned as it is.                               *)
CacheHit ==
    /\ pc = "start"
    /\ pc' = "cached"
    /\ UNCHANGED <<provider, pending, todo, indexVars, sampleVars, stored>>

(* Wayback has one index.                                                  *)
AskWayback ==
    /\ pc = "start" /\ provider = "wayback"
    /\ pc' = "index"
    /\ pending' = <<"wayback">>
    /\ limit' = MaxRows
    /\ UNCHANGED <<provider, rows, entries, picked, todo, sampleVars, stored>>

(* Of the crawls listed the most recent, at most so many.                  *)
Crawls == {list \in BoundedSeq(Collections, Limit) : IsInjective(list)}

(* The crawls are listed from the cache or by the provider; the most       *)
(* recent share the rows.  A list without any fails the run.               *)
Bootstrap ==
    /\ pc = "start" /\ provider = "commoncrawl"
    /\ \E list \in Crawls :
          \/ /\ list = <<>>
             /\ pc' = "failed"
             /\ UNCHANGED <<pending, limit>>
          \/ /\ list # <<>>
             /\ pc' = "index"
             /\ pending' = list
             /\ limit' = Max({1, MaxRows \div Len(list)})
    /\ UNCHANGED <<provider, rows, entries, picked, todo, sampleVars, stored>>

(* What follows an index without an await: when it was the last, its rows  *)
(* and those before are summed up and the samples chosen.                  *)
Indexed ==
    /\ pending' = Tail(pending)
    /\ IF Len(pending) > 1
       THEN UNCHANGED <<pc, entries, picked, todo>>
       ELSE /\ pc' = "sample"
            /\ entries' = Aggregated(rows')
            /\ picked' = Selected(entries')
            /\ todo' = picked'
    /\ UNCHANGED <<provider, limit, sampleVars, stored>>

(* An index answers with at most as many rows as it was asked for.         *)
Answer ==
    /\ pc = "index"
    /\ \E answer \in BoundedSeq(IndexRows, limit) :
          rows' = rows \o [i \in DOMAIN answer |-> <<Head(pending), answer[i]>>]
    /\ Indexed

(* A variant of GivesUp that returns what it has.                          *)
GivesUp_Returns ==
    /\ pc' = "done"
    /\ stored' = IF DOMAIN entries = {} THEN "empty" ELSE "success"
    /\ UNCHANGED <<provider, pending, todo, indexVars, sampleVars>>

(* An error goes to the runner: what was found so far is lost with it.     *)
GivesUp ==
    /\ pc' = "failed"
    /\ UNCHANGED <<provider, pending, todo, indexVars, sampleVars, stored>>

(* A crawl that is unavailable or has no captures is passed over; Wayback  *)
(* has nothing else to go by, and an answer without a header fails it too. *)
Unavailable ==
    /\ pc = "index"
    /\ \/ /\ provider = "commoncrawl"
          /\ UNCHANGED rows
          /\ Indexed
       \/ /\ provider = "wayback"
          /\ GivesUp

(* The page fetched next, and the archived copy of it: the length of its   *)
(* record as int() makes it out, a "number", an "error" (none is given, or *)
(* not as a number) or "null", which is neither.                           *)
Copy == entries[Head(todo)].best
Sampling == pc = "sample" /\ todo # <<>> /\ remaining > 0
Room == Min({Cap, remaining})

(* A record whose length or offset is given as no number, or whose length  *)
(* is larger than the room left, is not asked for.  A negative length is.  *)
TooLarge(copy) ==
    /\ provider = "commoncrawl"
    /\ copy.reads = "error" \/ (copy.reads = "number" /\ copy.length > Room)

DoesNotFit == TooLarge(Copy)

PassOver ==
    /\ Sampling /\ DoesNotFit
    /\ todo' = Tail(todo)
    /\ UNCHANGED <<provider, pc, pending, indexVars, sampleVars, stored>>

(* The page is asked for.                                                  *)
Fetching ==
    /\ Sampling /\ ~DoesNotFit
    /\ provider = "commoncrawl" => Copy.reads = "number"

(* A GatewayError, another status, a record that is no archive or has no   *)
(* headers: the page is left out, what was received of it is not counted.  *)
Refused ==
    /\ Fetching
    /\ todo' = Tail(todo)
    /\ refused' = refused \cup {Head(todo)}
    /\ UNCHANGED <<provider, pc, pending, indexVars,
                   remaining, kept, samples, stored>>

(* A variant of Largest that looks at the cap of one document only.        *)
Largest_CapOnly == IF provider = "wayback" THEN Cap ELSE Copy.length + Slack

(* max_response_bytes of the request.                                      *)
Largest == IF provider = "wayback" THEN Room ELSE Copy.length + Slack

(* Nothing at all is a page, but not a record.                             *)
Smallest == IF provider = "wayback" THEN 0 ELSE 1

(* The page is received and becomes a finding.                             *)
Sampled ==
    /\ Fetching
    /\ \E size \in Smallest..Largest :
          /\ remaining' = remaining - size
          /\ kept' = kept + size
    /\ samples' = samples \cup {Head(todo)}
    /\ todo' = Tail(todo)
    /\ UNCHANGED <<provider, pc, pending, indexVars, refused, stored>>

(* The findings are cached and returned.                                   *)
Return ==
    /\ pc = "sample"
    /\ todo = <<>> \/ remaining <= 0
    /\ stored' = IF DOMAIN entries = {} THEN "empty" ELSE "success"
    /\ pc' = "done"
    /\ UNCHANGED <<provider, pending, todo, indexVars, sampleVars>>

(* What no collector catches is an error that is no GatewayError: a name   *)
(* that does not resolve, a body that cannot be decoded or inflated, a row *)
(* or a length of a type not expected.                                     *)
Unexpected ==
    /\ \/ pc = "index"
       \/ Fetching
       \/ Sampling /\ provider = "commoncrawl" /\ Copy.reads = "null"
    /\ GivesUp

(* The request for the list of crawls fails.                               *)
BootstrapFails ==
    /\ pc = "start" /\ provider = "commoncrawl"
    /\ GivesUp

ArchiveNext ==
    \/ CacheHit \/ AskWayback \/ Bootstrap \/ BootstrapFails
    \/ Answer \/ Unavailable \/ Unexpected
    \/ PassOver \/ Refused \/ Sampled \/ Return

ArchiveSpec == ArchiveInit /\ [][ArchiveNext]_archiveVars

-----------------------------------------------------------------------------
Urls == {UrlOrder[i] : i \in DOMAIN UrlOrder}

(* What an index says of a capture, as far as it is used.                  *)
ASSUME RowsAssumption ==
    /\ UrlOrder \in Seq(Urls)
    /\ NoRow \notin IndexRows
    /\ \A row \in IndexRows :
           /\ row.time \in Nat /\ row.length \in Int
           /\ row.reads \in {"number", "error", "null"}
           /\ Usable(row) => Canonical(row.url) \in Urls

Entries ==
    [first : Nat, last : Nat, status : {row.status : row \in IndexRows},
     collections : SUBSET Indexes, best : IndexRows \cup {NoRow}]

ArchiveTypeOK ==
    /\ provider \in Providers
    /\ pc \in {"start", "cached", "index", "sample", "done", "failed"}
    /\ pending \in Seq(Indexes)
    /\ limit \in 0..MaxRows
    /\ rows \in Seq(Indexes \X IndexRows)
    /\ DOMAIN entries \subseteq Urls
    /\ \A url \in DOMAIN entries : entries[url] \in Entries
    /\ picked \in Seq(Urls) /\ todo \in Seq(Urls)
    /\ remaining \in Int /\ kept \in Nat
    /\ samples \subseteq Urls /\ refused \subseteq Urls
    /\ stored \in {"none", "empty", "success"}

(* The caps of a run on rows and bytes (docs/PRD.md, FR-09), however many  *)
(* crawls answer and however their answers and pages add up: the bytes in  *)
(* the findings exceed the budget by no more than the slack that Common    *)
(* Crawl leaves around one record, and for Wayback not at all.             *)
RowsWithinCap == Len(rows) <= MaxRows
BytesWithinBudget ==
    kept <= IF provider = "wayback" THEN ByteBudget ELSE ByteBudget + Slack

CapsHold == RowsWithinCap /\ BytesWithinBudget

(* The rows of a URL.                                                      *)
RowsOf(url) == {rows[i] : i \in {i \in DOMAIN rows :
                    Usable(rows[i][2]) /\ Canonical(rows[i][2].url) = url}}

(* What a finding says of a URL is true of all the captures the indexes    *)
(* have reported, in whatever order and from whichever crawl they came:    *)
(* the span of time, the status of a latest capture, the crawls, and a     *)
(* copy to fetch if and only if one was archived successfully.             *)
SummaryIsTrue(pairs, entry) ==
    LET captures == {pair[2] : pair \in pairs}
        times == {row.time : row \in captures}
    IN  /\ entry.first = Min(times)
        /\ entry.last = Max(times)
        /\ \E row \in captures : row.time = entry.last /\ row.status = entry.status
        /\ entry.collections = {pair[1] : pair \in pairs}
        /\ entry.best # NoRow => entry.best \in captures
        /\ IsCandidate(entry) <=> \E row \in captures : Fetchable(row)

SummariesAreTrue ==
    pc \in {"sample", "done"} =>
        /\ DOMAIN entries = {url \in Urls : RowsOf(url) # {}}
        /\ \A url \in DOMAIN entries : SummaryIsTrue(RowsOf(url), entries[url])

ArchiveInv == ArchiveTypeOK /\ SummariesAreTrue

(* The sample is small and diverse: no more documents than allowed, the    *)
(* first half of them of different kinds, and as long as there is room for *)
(* more, no kind of document that could be fetched is missing.             *)
SampleIsDiverse ==
    pc \in {"sample", "done"} =>
        /\ samples \subseteq ToSet(picked) /\ Len(picked) <= MaxDocs
        /\ \A i, j \in 1..Min({Len(picked), MaxDocs \div 2}) :
               i # j => Extension(picked[i]) # Extension(picked[j])
        /\ Len(picked) < MaxDocs =>
               Extensions(Candidates(entries)) \subseteq Extensions(picked)

(* A run that returns has gone through all the pages it chose: each is     *)
(* among the findings, or was refused itself, or there was no room left    *)
(* for it; a sample that a GatewayError, a status or a broken record costs *)
(* costs no other.  A run that any other error ends, at whichever request, *)
(* has cached nothing, so that the next one does not take what it had for  *)
(* all there is.                                                           *)
EveryPageAccountedFor ==
    /\ pc = "done" =>
           \A url \in ToSet(picked) \ (samples \cup refused) :
               remaining <= 0 \/ TooLarge(entries[url].best)
    /\ stored # "none" => pc = "done" /\ (todo = <<>> \/ remaining <= 0)
=============================================================================
