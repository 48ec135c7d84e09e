----------------------------- MODULE ClusterList -----------------------------
(***************************************************************************)
(* `cluster list` over several regions: ListAllRegionsWithMeta dispatches  *)
(* one goroutine per region under a semaphore, each lists through the      *)
(* shared TTL cache and sends its result, and the collection loop adds     *)
(* them up (internal/services/cluster, internal/services/common).          *)
(***************************************************************************)
EXTENDS Integers, FiniteSets, Sequences

CONSTANTS
    ListRegions,    \* the regions as given, or the defaults: one named twice is
                    \* queried twice
    ClustersIn,     \* region -> its clusters (external)
    RegionWorkers   \* --max-concurrency

ASSUME ClusterListAssumption ==
    /\ RegionWorkers \in Nat \ {0}
    /\ ListRegions \in Seq(DOMAIN ClustersIn) /\ Len(ListRegions) > 0

VARIABLES
    listing,    \* "dispatch", "collect" or "over"
    cut,        \* the command's context is done: deadline or interrupt
    dispatched, \* regions started, in the order given
    region,     \* index of a started region -> where its goroutine stands
    sees,       \* index -> what its List returns, or FailedList
    cache,      \* cache key -> entry
    filter,     \* the --filter status=..., or "any"
    collected,  \* indexes read from the channel
    listed,     \* rows so far: <<index, cluster, status>>
    report      \* what the caller gets

listVars == <<listing, cut, dispatched, region, sees, cache, filter, collected, listed,
              report>>

FailedList == {<<"failed", "failed">>}
NoEntry == [state |-> "none", rows |-> {}]
Statuses == {"ACTIVE", "UNKNOWN"}

-----------------------------------------------------------------------------
\* Mutant: the options, and so the key, keep the whole region list.
KeyOfAll(i) == ListRegions

\* regionOptionsFor narrows the options to the region before they become the key.
Key(i) == <<ListRegions[i]>>

InFlight == {i \in 1..dispatched : region[i] # "sent"}

Dispatch ==
    /\ listing = "dispatch" /\ dispatched < Len(ListRegions)
    /\ Cardinality(InFlight) < RegionWorkers
    /\ dispatched' = dispatched + 1
    /\ region' = [region EXCEPT ![dispatched + 1] = "start"]
    /\ UNCHANGED <<listing, cut, sees, cache, filter, collected, listed, report>>

\* Dispatch ends after the last region, or anywhere once the context is done.
DispatchOver ==
    /\ listing = "dispatch" /\ (dispatched = Len(ListRegions) \/ cut)
    /\ listing' = "collect"
    /\ UNCHANGED <<cut, dispatched, region, sees, cache, filter, collected, listed, report>>

Moves(i, where) == region' = [region EXCEPT ![i] = where]
Returns(i, rows) == sees' = [sees EXCEPT ![i] = rows]

\* TTLCache.Get, under the read lock: an expired entry is deleted later, under the
\* write lock.
CacheGet(i) ==
    /\ region[i] = "start"
    /\ CASE cache[Key(i)].state = "fresh"   -> Moves(i, "send") /\ Returns(i, cache[Key(i)].rows)
         [] cache[Key(i)].state = "expired" -> Moves(i, "evict") /\ UNCHANGED sees
         [] OTHER                           -> Moves(i, "list") /\ UNCHANGED sees
    /\ UNCHANGED <<listing, cut, dispatched, cache, filter, collected, listed, report>>

\* Mutant: what was read under the read lock is still believed.
StillExpiredTrusting(i) == TRUE

StillExpired(i) == cache[Key(i)].state = "expired"

CacheEvict(i) ==
    /\ region[i] = "evict"
    /\ cache' = IF StillExpired(i) THEN [cache EXCEPT ![Key(i)] = NoEntry] ELSE cache
    /\ Moves(i, "list")
    /\ UNCHANGED <<listing, cut, dispatched, sees, filter, collected, listed, report>>

\* The pages of ListClusters: any of them may fail, and all do on a done context.
ListPages(i) ==
    /\ region[i] = "list"
    /\ \/ ~cut /\ Moves(i, "summarize") /\ UNCHANGED sees
       \/ Moves(i, "send") /\ Returns(i, FailedList)
    /\ UNCHANGED <<listing, cut, dispatched, cache, filter, collected, listed, report>>

\* A cluster whose describe fails stays in the list with status UNKNOWN; one never
\* started, which takes a done context, is missing from it.  Filters on the status
\* apply to what was read; the result is cached as it is.
Summarize(i) ==
    /\ region[i] = "summarize"
    /\ \E started \in SUBSET ClustersIn[ListRegions[i]] :
         /\ cut \/ started = ClustersIn[ListRegions[i]]
         /\ \E status \in [started -> Statuses] :
              LET rows == {<<c, status[c]>> : c \in {d \in started : filter \in {"any", status[d]}}}
              IN  /\ Returns(i, rows)
                  /\ cache' = [cache EXCEPT ![Key(i)] = [state |-> "fresh", rows |-> rows]]
    /\ Moves(i, "send")
    /\ UNCHANGED <<listing, cut, dispatched, filter, collected, listed, report>>

\* The channel has room for every region, so nobody waits to send.
Send(i) ==
    /\ region[i] = "send" /\ Moves(i, "sent")
    /\ UNCHANGED <<listing, cut, dispatched, sees, cache, filter, collected, listed, report>>

\* The collection loop reads as many results as goroutines were started.
Collect ==
    /\ listing = "collect"
    /\ \E i \in 1..dispatched \ collected :
         /\ region[i] = "sent"
         /\ collected' = collected \cup {i}
         /\ listed' = IF sees[i] = FailedList THEN listed
                      ELSE listed \cup {<<i, row[1], row[2]>> : row \in sees[i]}
    /\ UNCHANGED <<listing, cut, dispatched, region, sees, cache, filter, report>>

Failed == {i \in collected : sees[i] = FailedList}

\* Only the failure of every region is an error; the regions counted as queried are
\* all but the failed ones.
Report ==
    /\ listing = "collect" /\ collected = 1..dispatched
    /\ listing' = "over"
    /\ report' = IF Cardinality(Failed) = Len(ListRegions) /\ Len(ListRegions) > 0
                 THEN [kind |-> "error", queried |-> 0]
                 ELSE [kind |-> "clusters", queried |-> Len(ListRegions) - Cardinality(Failed)]
    /\ UNCHANGED <<cut, dispatched, region, sees, cache, filter, collected, listed>>

\* The deadline passes or the user interrupts; a cached list outlives its two minutes.
CutList ==
    /\ ~cut /\ listing # "over" /\ cut' = TRUE
    /\ UNCHANGED <<listing, dispatched, region, sees, cache, filter, collected, listed, report>>

Expire ==
    /\ listing # "over"
    /\ \E k \in DOMAIN cache : /\ cache[k].state = "fresh"
                               /\ cache' = [cache EXCEPT ![k].state = "expired"]
    /\ UNCHANGED <<listing, cut, dispatched, region, sees, filter, collected, listed, report>>

RegionStep(i) == CacheGet(i) \/ CacheEvict(i) \/ ListPages(i) \/ Summarize(i) \/ Send(i)

ListStep == \/ Dispatch \/ DispatchOver \/ Collect \/ Report
            \/ \E i \in 1..dispatched : RegionStep(i)

ClusterListInit ==
    /\ listing = "dispatch" /\ cut = FALSE /\ dispatched = 0
    /\ region = [i \in 1..Len(ListRegions) |-> "none"]
    /\ sees = [i \in 1..Len(ListRegions) |-> {}]
    /\ cache = [k \in {Key(i) : i \in 1..Len(ListRegions)} |-> NoEntry]
    /\ filter \in {"any"} \cup Statuses
    /\ collected = {} /\ listed = {}
    /\ report = [kind |-> "none", queried |-> 0]

ClusterListNext == ListStep \/ CutList \/ Expire

-----------------------------------------------------------------------------
(* Properties *)

ClusterListTypeOK ==
    /\ listing \in {"dispatch", "collect", "over"} /\ cut \in BOOLEAN
    /\ dispatched \in 0..Len(ListRegions)
    /\ \A i \in DOMAIN region :
         /\ region[i] \in {"none", "start", "evict", "list", "summarize", "send", "sent"}
         /\ region[i] = "none" <=> i > dispatched
    /\ \A k \in DOMAIN cache : cache[k].state \in {"none", "fresh", "expired"}
    /\ collected \subseteq 1..dispatched
    /\ \A row \in listed : row[1] \in collected /\ row[3] \in Statuses
    /\ report.kind \in {"none", "error", "clusters"} /\ report.queried \in 0..Len(ListRegions)

Rows(i) == {<<row[2], row[3]>> : row \in {r \in listed : r[1] = i}}

\* A listing that no deadline cut is an account of every region: an error exactly
\* when all of them failed, otherwise the count of regions that answered and, of
\* each of them, every cluster that the filter does not exclude, once and in its own
\* region, also when a goroutine was served from the cache that all regions share.
\* A cut one still shows no cluster under a foreign region (ListAllRegionsWithMeta,
\* regionOptionsFor, TTLCache).
RegionsAccounted ==
    LET answered == {i \in 1..Len(ListRegions) : sees[i] # FailedList}
    IN  /\ \A row \in listed : row[2] \in ClustersIn[ListRegions[row[1]]]
        /\ (report.kind # "none" /\ ~cut) =>
             /\ report.kind = "error" <=> answered = {}
             /\ report.queried = Cardinality(answered)
             /\ \A i \in answered :
                  /\ \A c \in ClustersIn[ListRegions[i]] :
                       Cardinality({r \in Rows(i) : r[1] = c}) <= 1
                  /\ filter = "any" => {r[1] : r \in Rows(i)} = ClustersIn[ListRegions[i]]

\* A goroutine that saw an expired entry never deletes the fresh one that another
\* goroutine has stored since (TTLCache.Get).
FreshEntriesStay ==
    [][\A k \in DOMAIN cache : cache[k].state = "fresh" => cache'[k].state # "none"]_listVars

=============================================================================
