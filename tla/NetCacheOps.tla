----------------------------- MODULE NetCacheOps -----------------------------
(***************************************************************************)
(* The data structure inside kmlbase::NetCache (src/src/kml/base/          *)
(* net_cache.h): a map from URL to (item, stamp) and the counter the       *)
(* stamps are drawn from.  The operators are the methods of the class as   *)
(* functions from a cache value to a cache value; NetCache gives them a    *)
(* caller, KmlCache uses three instances of them.                          *)
(***************************************************************************)
EXTENDS Integers, FiniteSets, Functions

CONSTANTS
    MaxSize,   \* max_size_, the constructor's argument
    NULL       \* the null CacheItemPtr

ASSUME MaxSizeAssumption == MaxSize \in Nat

(* NetCache::NetCache *)
EmptyCache == [map |-> [u \in {} |-> NULL], count |-> 0]

Cached(c) == DOMAIN c.map

Size(c) == Cardinality(Cached(c))

(* A url mapped to a null item looks exactly like an absent one. *)
LookUp(c, u) == IF u \in Cached(c) THEN c.map[u].item ELSE NULL

(* Slip: the comparison of net_cache.h:196 the other way round. *)
SlipNewest(c, u) ==
    /\ u \in Cached(c)
    /\ \A v \in Cached(c) : c.map[u].stamp >= c.map[v].stamp

(* The code keeps the first of the smallest stamps it meets; stamps are    *)
(* distinct (StampsDistinct of NetCache), so there is only one.            *)
IsOldest(c, u) ==
    /\ u \in Cached(c)
    /\ \A v \in Cached(c) : c.map[u].stamp <= c.map[v].stamp

Oldest(c) == CHOOSE u \in Cached(c) : IsOldest(c, u)

Without(c, u) == [map |-> Restrict(c.map, Cached(c) \ {u}), count |-> c.count]

RemoveOldest(c) == IF Cached(c) = {} THEN c ELSE Without(c, Oldest(c))

Delete(c, u) == IF LookUp(c, u) # NULL THEN Without(c, u) ELSE c

(* The definitions named Slip... are plausible mistakes in the method that *)
(* follows them, kept to see that the properties tell them from the code;  *)
(* no specification uses them.  Here: no eviction, or one entry early.     *)
SlipNoRoom(c) == c
SlipEarlyRoom(c) == IF Size(c) + 1 >= MaxSize THEN RemoveOldest(c) ELSE c

(* Save makes room when the map is exactly full, then stamps the entry.    *)
MakeRoom(c) == IF Size(c) = MaxSize THEN RemoveOldest(c) ELSE c

Entered(c, u, item, stamp) ==
    [v \in Cached(c) \cup {u} |->
        IF v = u THEN [item |-> item, stamp |-> stamp] ELSE c.map[v]]

(* Slip: --cache_count_ for cache_count_++.                                *)
SlipStampBefore(c, u, item) ==
    [map |-> Entered(c, u, item, c.count - 1), count |-> c.count + 1]

Stamped(c, u, item) ==
    [map |-> Entered(c, u, item, c.count), count |-> c.count + 1]

(* Slip: the test for an existing item is missing. *)
SlipNeverRefused(c, u) == FALSE

SaveRefused(c, u) == LookUp(c, u) # NULL

(* Slip: insert first, make room afterwards. *)
SlipRoomAfter(c, u, item) ==
    IF SaveRefused(c, u) THEN c ELSE MakeRoom(Stamped(c, u, item))

Save(c, u, item) ==
    IF SaveRefused(c, u) THEN c ELSE Stamped(MakeRoom(c), u, item)

-----------------------------------------------------------------------------
CacheEntry(I) == [item : I, stamp : Nat]

IsCache(c, U, I) ==
    /\ c = [map |-> c.map, count |-> c.count]
    /\ c.count \in Nat
    /\ Cached(c) \subseteq U /\ IsFiniteSet(Cached(c))
    /\ c.map \in [Cached(c) -> CacheEntry(I)]

StampsOk(c) ==
    \A u \in Cached(c) :
        /\ c.map[u].stamp < c.count
        /\ \A v \in Cached(c) : c.map[u].stamp = c.map[v].stamp => u = v
=============================================================================
