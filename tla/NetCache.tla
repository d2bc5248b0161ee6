------------------------------- MODULE NetCache -------------------------------
(***************************************************************************)
(* kmlbase::NetCache<CacheItem> and its caller.  A call runs to its end    *)
(* in one step except Fetch, which calls the application's NetFetcher in   *)
(* the middle: FetchUrl is arbitrary code and may use the same cache       *)
(* again before it returns, so a Fetch that misses is two steps and the    *)
(* Fetches in progress form the stack calls.                               *)
(***************************************************************************)
EXTENDS NetCacheOps, Sequences

CONSTANTS
    Urls,
    Items,      \* what CacheItem::CreateFromString can return besides NULL
    MaxSaves,   \* bound on cache_count_
    MaxDepth    \* bound on the nesting of Fetch inside FetchUrl

ASSUME NullAssumption  == NULL \notin Items
ASSUME BoundAssumption == MaxSaves \in Nat /\ MaxDepth \in Nat

VARIABLES
    cache,      \* cache_map_ and cache_count_
    calls,      \* the urls of the Fetch calls waiting for FetchUrl, outermost first
    saved_at    \* history: the stamp of the last non-null Save of a url, Never
                \* if none or if the application has removed that entry itself

vars == <<cache, calls, saved_at>>

Never == -1

ItemPtr == Items \cup {NULL}

Init ==
    /\ cache = EmptyCache
    /\ calls = <<>>
    /\ saved_at = [u \in Urls |-> Never]

-----------------------------------------------------------------------------
(* Save(url, item), called directly or at the end of Fetch. *)
DoSave(u, item) ==
    /\ cache.count < MaxSaves
    /\ cache' = Save(cache, u, item)
    /\ saved_at' = IF SaveRefused(cache, u) \/ item = NULL
                     THEN saved_at
                     ELSE [saved_at EXCEPT ![u] = cache.count]

CallSave(u, item) == DoSave(u, item) /\ UNCHANGED calls

(* Fetch(url) up to the call of FetchUrl; a hit returns the cached item.   *)
FetchHit(u) == LookUp(cache, u) # NULL /\ UNCHANGED vars

FetchMiss(u) ==
    /\ LookUp(cache, u) = NULL
    /\ Len(calls) < MaxDepth
    /\ calls' = Append(calls, u)
    /\ UNCHANGED <<cache, saved_at>>

(* FetchUrl returns to the innermost Fetch: it failed, or its data made an *)
(* item, or CreateFromString rejected the data and the null item is saved. *)
Pop == calls' = SubSeq(calls, 1, Len(calls) - 1)

FetchFails ==
    /\ calls # <<>>
    /\ Pop
    /\ UNCHANGED <<cache, saved_at>>

FetchReturns(item) ==
    /\ calls # <<>>
    /\ Pop
    /\ DoSave(calls[Len(calls)], item)

CallDelete(u) ==
    /\ cache' = Delete(cache, u)
    /\ saved_at' = IF LookUp(cache, u) # NULL
                     THEN [saved_at EXCEPT ![u] = Never]
                     ELSE saved_at
    /\ UNCHANGED calls

CallRemoveOldest ==
    /\ cache' = RemoveOldest(cache)
    /\ saved_at' = [u \in Urls |->
                      IF Cached(cache) # {} /\ u = Oldest(cache) THEN Never
                                                              ELSE saved_at[u]]
    /\ UNCHANGED calls

Next ==
    \/ \E u \in Urls :
         \/ FetchHit(u)
         \/ FetchMiss(u)
         \/ CallDelete(u)
         \/ \E item \in ItemPtr : CallSave(u, item)
    \/ FetchFails
    \/ \E item \in ItemPtr : FetchReturns(item)
    \/ CallRemoveOldest

Spec == Init /\ [][Next]_vars

-----------------------------------------------------------------------------
(* The map, its counter and the stack of Fetches are well formed.          *)
TypeOK ==
    /\ IsCache(cache, Urls, ItemPtr)
    /\ cache.count <= MaxSaves
    /\ calls \in Seq(Urls)
    /\ Len(calls) <= MaxDepth
    /\ saved_at \in [Urls -> Nat \cup {Never}]

(* The cache never holds more than the number of entries it was built for, *)
(* although Save compares the size with == and Fetch may be re-entered     *)
(* between the miss and the Save (net_cache.h:162).                        *)
SizeBound == Size(cache) <= MaxSize

(* No two entries carry the same stamp and every stamp is in the past, so  *)
(* "the oldest entry" RemoveOldest looks for is unique whatever was        *)
(* deleted, evicted or overwritten before.                                 *)
StampsDistinct == StampsOk(cache)

(* The promise of a FIFO cache of MaxSize entries: an item that was saved  *)
(* is still cached while fewer than MaxSize further Saves have happened,   *)
(* unless the application removed it.  Null items (rejected data), Saves   *)
(* that overwrite a null entry, deletions that leave holes and re-entrant  *)
(* Fetches do not shorten that life.                                       *)
RecentSavesSurvive ==
    \A u \in Urls :
        saved_at[u] # Never /\ cache.count - saved_at[u] <= MaxSize =>
            LookUp(cache, u) # NULL

(* A cached item is never replaced by another one: whoever holds the       *)
(* pointer holds what the cache returns, also when two nested Fetches of   *)
(* one url both create an item.                                            *)
StableEntry ==
    [][\A u \in Urls :
         LookUp(cache, u) # NULL /\ LookUp(cache', u) # NULL =>
             LookUp(cache', u) = LookUp(cache, u)]_vars

-----------------------------------------------------------------------------
(* What the cache promises, without stamps: FifoStore.                     *)
content == [u \in Cached(cache) |-> cache.map[u].item]

before == {p \in Cached(cache) \X Cached(cache) :
              cache.map[p[1]].stamp < cache.map[p[2]].stamp}

Fifo == INSTANCE FifoStore WITH
          content <- content, before <- before,
          Urls <- Urls, Items <- Items, MaxSize <- MaxSize, NULL <- NULL

(* Every call on the cache is a call on a first-in first-out store: the    *)
(* entry that makes room is always the one stored first.                   *)
ImplementsFifo == Fifo!Spec
=============================================================================
