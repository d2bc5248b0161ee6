---------------------------- MODULE NetCache_proofs ----------------------------
(***************************************************************************)
(* NetCache is correct for every set of urls and items and every size:     *)
(* types, the size bound, the first-in first-out life of an entry, the     *)
(* stability of its item, and that it implements FifoStore.                *)
(***************************************************************************)
EXTENDS NetCache, FiniteSetTheorems, TLAPS

(* The methods of NetCache as functions on cache values: what each keeps,  *)
(* how many entries it leaves, how old the entry is that Save evicts.      *)

(* A nonempty set of natural numbers has a smallest element.               *)
LEMMA SmallestNat ==
    ASSUME NEW T \in SUBSET Nat, T # {}
    PROVE  \E m \in T : \A n \in T : m <= n
<1> DEFINE R == OpToRel(<, Nat)
<1>1. \E m \in T : \A n \in T : ~ (<<n, m>> \in R)
  BY NatLessThanWellFounded, WFMin
<1>2. \A m, n \in T : ~ (<<n, m>> \in R) => m <= n
  BY DEF OpToRel
<1> QED BY <1>1, <1>2

(* RemoveOldest finds an entry: the map is finite and its stamps are       *)
(* numbers, so the loop's minimum exists.                                  *)
LEMMA OldestExists ==
    ASSUME NEW U, NEW I, NEW c, IsCache(c, U, I), Cached(c) # {}
    PROVE  IsOldest(c, Oldest(c)) /\ Oldest(c) \in Cached(c)
<1> DEFINE T == {c.map[u].stamp : u \in Cached(c)}
<1>1. T \in SUBSET Nat /\ T # {}
  BY DEF IsCache, CacheEntry
<1>2. PICK m \in T : \A n \in T : m <= n
  BY <1>1, SmallestNat
<1>3. PICK u \in Cached(c) : c.map[u].stamp = m
  OBVIOUS
<1>4. IsOldest(c, u)
  BY <1>2, <1>3 DEF IsOldest
<1> QED BY <1>3, <1>4 DEF Oldest

(* Distinct stamps below the counter: the oldest of n entries is at least  *)
(* n Saves old (the pigeonhole behind RecentSavesSurvive).                 *)
LEMMA OldestIsOld ==
    ASSUME NEW U, NEW I, NEW c, IsCache(c, U, I), StampsOk(c), Cached(c) # {}
    PROVE  Size(c) <= c.count - c.map[Oldest(c)].stamp
<1> DEFINE m == c.map[Oldest(c)].stamp
           J == m .. (c.count - 1)
           f == [u \in Cached(c) |-> c.map[u].stamp]
<1>1. IsOldest(c, Oldest(c)) /\ Oldest(c) \in Cached(c)
  BY OldestExists
<1>2. m \in Nat /\ c.count \in Nat /\ m < c.count
  BY <1>1 DEF IsCache, CacheEntry, StampsOk
<1>3. f \in [Cached(c) -> J]
  <2>1. ASSUME NEW u \in Cached(c) PROVE c.map[u].stamp \in J
    BY <1>1, <1>2 DEF IsOldest, StampsOk, IsCache, CacheEntry
  <2> QED BY <2>1
<1>4. f \in Injection(Cached(c), J)
  BY <1>3 DEF Injection, IsInjective, StampsOk
<1>5. IsFiniteSet(J) /\ Cardinality(J) = c.count - m
  <2> DEFINE top == c.count - 1
  <2>1. m \in Int /\ top \in Int /\ m <= top /\ top - m + 1 = c.count - m
    BY <1>2
  <2>2. J = m .. top
    OBVIOUS
  <2> HIDE DEF m, top, J
  <2>3. IsFiniteSet(m .. top) /\ Cardinality(m .. top) = top - m + 1
    BY <2>1, FS_Interval
  <2> QED BY <2>1, <2>2, <2>3
<1>6. Cardinality(Cached(c)) <= Cardinality(J)
  BY <1>4, <1>5, FS_Injection
<1> QED BY <1>5, <1>6 DEF Size

(* Removing an entry keeps a cache a cache and its stamps distinct.        *)
LEMMA WithoutIsCache ==
    ASSUME NEW U, NEW I, NEW c, NEW u, IsCache(c, U, I), StampsOk(c)
    PROVE  /\ IsCache(Without(c, u), U, I)
           /\ StampsOk(Without(c, u))
           /\ Cached(Without(c, u)) = Cached(c) \ {u}
           /\ \A v \in Cached(c) \ {u} : Without(c, u).map[v] = c.map[v]
           /\ Without(c, u).count = c.count
<1>1. /\ Cached(Without(c, u)) = Cached(c) \ {u}
      /\ \A v \in Cached(c) \ {u} : Without(c, u).map[v] = c.map[v]
      /\ Without(c, u).count = c.count
      /\ Without(c, u) = [map |-> Without(c, u).map, count |-> Without(c, u).count]
  BY DEF Without, Cached, Restrict
<1>2. Without(c, u).map \in [Cached(c) \ {u} -> CacheEntry(I)]
  BY <1>1 DEF Without, IsCache, Restrict
<1>3. IsFiniteSet(Cached(c) \ {u})
  BY FS_RemoveElement DEF IsCache
<1>4. IsCache(Without(c, u), U, I)
  BY <1>1, <1>2, <1>3 DEF IsCache
<1>5. StampsOk(Without(c, u))
  BY <1>1 DEF StampsOk
<1> QED BY <1>1, <1>4, <1>5

(* Removing a cached entry makes the cache one smaller.                    *)
LEMMA WithoutSize ==
    ASSUME NEW c, NEW u \in Cached(c), IsFiniteSet(Cached(c))
    PROVE  Size(Without(c, u)) = Size(c) - 1
<1>1. Cached(Without(c, u)) = Cached(c) \ {u}
  BY DEF Without, Cached, Restrict
<1> DEFINE S == Cached(c)
<1>2. Cardinality(S \ {u}) = Cardinality(S) - 1
  <2> HIDE DEF S
  <2> QED BY FS_RemoveElement DEF S
<1> QED BY <1>1, <1>2 DEF Size

(* Stamping an entry does the same, and the new stamp is the newest.       *)
LEMMA StampedIsCache ==
    ASSUME NEW U, NEW I, NEW c, NEW u \in U, NEW i \in I,
           IsCache(c, U, I), StampsOk(c)
    PROVE  /\ IsCache(Stamped(c, u, i), U, I)
           /\ StampsOk(Stamped(c, u, i))
           /\ Cached(Stamped(c, u, i)) = Cached(c) \cup {u}
           /\ \A v \in Cached(c) \ {u} : Stamped(c, u, i).map[v] = c.map[v]
           /\ Stamped(c, u, i).map[u] = [item |-> i, stamp |-> c.count]
           /\ Stamped(c, u, i).count = c.count + 1
<1> DEFINE d == Stamped(c, u, i)
<1>1. /\ Cached(d) = Cached(c) \cup {u}
      /\ \A v \in Cached(c) \ {u} : d.map[v] = c.map[v]
      /\ d.map[u] = [item |-> i, stamp |-> c.count]
      /\ d.count = c.count + 1
      /\ d = [map |-> d.map, count |-> d.count]
  BY DEF Stamped, Entered, Cached
<1>2. d.map \in [Cached(c) \cup {u} -> CacheEntry(I)]
  BY DEF Stamped, Entered, IsCache, CacheEntry
<1>3. IsFiniteSet(Cached(c) \cup {u})
  BY FS_AddElement DEF IsCache
<1>4. IsCache(d, U, I)
  BY <1>1, <1>2, <1>3 DEF IsCache
<1>5. StampsOk(d)
  <2> SUFFICES ASSUME NEW v \in Cached(d), NEW w \in Cached(d)
               PROVE  /\ d.map[v].stamp < d.count
                      /\ d.map[v].stamp = d.map[w].stamp => v = w
    BY DEF StampsOk
  <2>1. \A x \in Cached(c) : c.map[x].stamp \in Nat /\ c.map[x].stamp < c.count
    BY DEF StampsOk, IsCache, CacheEntry
  <2>2. c.count \in Nat
    BY DEF IsCache
  <2> QED BY <1>1, <2>1, <2>2 DEF StampsOk
<1> QED BY <1>1, <1>4, <1>5

(* Stamping adds at most one entry.                                        *)
LEMMA StampedSize ==
    ASSUME NEW c, NEW u, NEW i, IsFiniteSet(Cached(c))
    PROVE  Size(Stamped(c, u, i)) <= Size(c) + 1
<1>1. Cached(Stamped(c, u, i)) = Cached(c) \cup {u}
  BY DEF Stamped, Entered, Cached
<1>2. Cardinality(Cached(c)) \in Nat
  BY FS_CardinalityType
<1> DEFINE S == Cached(c)
<1>3. Cardinality(S \cup {u}) = IF u \in S THEN Cardinality(S) ELSE Cardinality(S) + 1
  <2> HIDE DEF S
  <2> QED BY FS_AddElement DEF S
<1>4. Cardinality(S \cup {u}) <= Cardinality(S) + 1
  BY <1>2, <1>3
<1> QED BY <1>1, <1>4 DEF Size

(* MakeRoom touches no entry but the one it removes.                       *)
LEMMA MakeRoomKeeps ==
    ASSUME NEW c
    PROVE  /\ Cached(MakeRoom(c)) \subseteq Cached(c)
           /\ \A v \in Cached(MakeRoom(c)) : MakeRoom(c).map[v] = c.map[v]
  BY DEF MakeRoom, RemoveOldest, Without, Cached, Restrict

(* MakeRoom leaves one slot free when the cache has any.                   *)
LEMMA MakeRoomIsCache ==
    ASSUME NEW U, NEW I, NEW c, IsCache(c, U, I), StampsOk(c)
    PROVE  /\ IsCache(MakeRoom(c), U, I)
           /\ StampsOk(MakeRoom(c))
           /\ MakeRoom(c).count = c.count
           /\ Cached(MakeRoom(c)) \subseteq Cached(c)
           /\ \A v \in Cached(MakeRoom(c)) : MakeRoom(c).map[v] = c.map[v]
           /\ Size(c) <= MaxSize /\ MaxSize > 0 => Size(MakeRoom(c)) < MaxSize
<1>1. Size(c) \in Nat /\ (Size(c) = 0 <=> Cached(c) = {})
  BY FS_CardinalityType, FS_EmptySet DEF IsCache, Size
<1>2. CASE Size(c) = MaxSize /\ Cached(c) # {}
  <2>1. MakeRoom(c) = Without(c, Oldest(c)) /\ Oldest(c) \in Cached(c)
    BY <1>2, OldestExists DEF MakeRoom, RemoveOldest
  <2>2. Size(MakeRoom(c)) = Size(c) - 1
    BY <2>1, WithoutSize DEF IsCache
  <2> QED BY <1>1, <1>2, <2>1, <2>2, WithoutIsCache, MaxSizeAssumption
<1>3. CASE ~ (Size(c) = MaxSize /\ Cached(c) # {})
  <2>1. MakeRoom(c) = c
    BY <1>3 DEF MakeRoom, RemoveOldest
  <2> QED BY <1>1, <1>3, <2>1, MaxSizeAssumption
<1> QED BY <1>2, <1>3

(* Save keeps a cache a cache and within its size, for every MaxSize but 0. *)
LEMMA SaveIsCache ==
    ASSUME NEW U, NEW I, NEW c, NEW u \in U, NEW i \in I,
           IsCache(c, U, I), StampsOk(c)
    PROVE  /\ IsCache(Save(c, u, i), U, I)
           /\ StampsOk(Save(c, u, i))
           /\ Size(c) <= MaxSize /\ MaxSize > 0 => Size(Save(c, u, i)) <= MaxSize
<1>1. CASE SaveRefused(c, u)
  BY <1>1 DEF Save
<1>2. CASE ~ SaveRefused(c, u)
  <2> DEFINE d == MakeRoom(c)
  <2>1. Save(c, u, i) = Stamped(d, u, i)
    BY <1>2 DEF Save
  <2>2. /\ IsCache(d, U, I)
        /\ StampsOk(d)
        /\ Size(c) <= MaxSize /\ MaxSize > 0 => Size(d) < MaxSize
    BY MakeRoomIsCache
  <2>3. Size(d) \in Nat
    BY <2>2, FS_CardinalityType DEF IsCache, Size
  <2> HIDE DEF d
  <2>4. IsCache(Stamped(d, u, i), U, I) /\ StampsOk(Stamped(d, u, i))
    BY <2>2, StampedIsCache
  <2>5. Size(Stamped(d, u, i)) <= Size(d) + 1 /\ Size(Stamped(d, u, i)) \in Nat
    BY <2>2, <2>4, StampedSize, FS_CardinalityType DEF IsCache, Size
  <2> QED BY <2>1, <2>2, <2>3, <2>4, <2>5, MaxSizeAssumption
<1> QED BY <1>1, <1>2
-----------------------------------------------------------------------------
(* RecentSavesSurvive is not inductive: that the item is there says        *)
(* nothing of its stamp, and it is the stamp that keeps it from being      *)
(* evicted too early.                                                      *)
RecentStamps ==
    \A u \in Urls :
        saved_at[u] # Never =>
            /\ saved_at[u] < cache.count
            /\ cache.count - saved_at[u] <= MaxSize =>
                  /\ u \in Cached(cache)
                  /\ cache.map[u].stamp = saved_at[u]
                  /\ cache.map[u].item # NULL

Inv == TypeOK /\ StampsDistinct /\ RecentStamps

-----------------------------------------------------------------------------
LEMMA InitInv == Init => Inv
<1> SUFFICES ASSUME Init PROVE Inv
  OBVIOUS
<1>1. Cached(cache) = {} /\ cache.map \in [Cached(cache) -> CacheEntry(ItemPtr)]
  BY DEF Init, EmptyCache, Cached
<1>2. IsCache(cache, Urls, ItemPtr)
  BY <1>1, FS_EmptySet DEF Init, EmptyCache, IsCache
<1>3. TypeOK
  BY <1>2, BoundAssumption DEF TypeOK, Init, EmptyCache, Never
<1>4. StampsDistinct
  BY <1>1 DEF StampsDistinct, StampsOk
<1>5. RecentStamps
  BY DEF RecentStamps, Init
<1> QED BY <1>3, <1>4, <1>5 DEF Inv

(* Save, from a call or at the end of a Fetch.                             *)
LEMMA DoSaveInv ==
    ASSUME Inv, NEW u \in Urls, NEW i \in ItemPtr, DoSave(u, i)
    PROVE  /\ IsCache(cache', Urls, ItemPtr)
           /\ cache'.count <= MaxSaves
           /\ saved_at' \in [Urls -> Nat \cup {Never}]
           /\ StampsDistinct'
           /\ RecentStamps'
<1> USE DEF Inv, TypeOK
<1>0. IsCache(cache, Urls, ItemPtr) /\ StampsOk(cache)
  BY DEF StampsDistinct
<1>1. IsCache(cache', Urls, ItemPtr) /\ StampsDistinct'
  BY <1>0, SaveIsCache DEF DoSave, StampsDistinct
<1>2. saved_at' \in [Urls -> Nat \cup {Never}]
  BY DEF DoSave, IsCache
<1>3. CASE SaveRefused(cache, u)
  <2>1. cache' = cache /\ saved_at' = saved_at
    BY <1>3 DEF DoSave, Save
  <2> QED BY <1>1, <1>2, <2>1 DEF RecentStamps
<1>4. CASE ~ SaveRefused(cache, u)
  <2> DEFINE room == MakeRoom(cache)
  <2>1. cache' = Stamped(room, u, i)
    BY <1>4 DEF DoSave, Save
  <2>2. /\ IsCache(room, Urls, ItemPtr) /\ StampsOk(room)
        /\ room.count = cache.count
        /\ Cached(room) \subseteq Cached(cache)
        /\ \A v \in Cached(room) : room.map[v] = cache.map[v]
    BY ONLY <1>0, MakeRoomIsCache
  <2>3. /\ Cached(cache') = Cached(room) \cup {u}
        /\ \A v \in Cached(room) \ {u} : cache'.map[v] = cache.map[v]
        /\ cache'.map[u] = [item |-> i, stamp |-> cache.count]
        /\ cache'.count = cache.count + 1
    <3> HIDE DEF room
    <3> QED BY <2>1, <2>2, StampedIsCache
  <2>4. cache.count \in Nat /\ cache.count < MaxSaves
    BY DEF DoSave, IsCache
  <2>5. cache'.count <= MaxSaves
    BY <2>3, <2>4, BoundAssumption
  <2>6. ASSUME NEW v \in Cached(cache), v \notin Cached(room)
        PROVE  MaxSize <= cache.count - cache.map[v].stamp
    <3>1. Cached(cache) # {} /\ Size(cache) = MaxSize /\ room = Without(cache, Oldest(cache))
      BY <2>6 DEF MakeRoom, RemoveOldest
    <3>2. Cached(room) = Cached(cache) \ {Oldest(cache)}
      <4>1. Cached(Without(cache, Oldest(cache))) = Cached(cache) \ {Oldest(cache)}
        BY DEF Without, Cached, Restrict
      <4> QED BY <3>1, <4>1
    <3>3. v = Oldest(cache)
      BY <2>6, <3>2
    <3> QED BY <1>0, <3>1, <3>3, OldestIsOld
  <2>7. RecentStamps'
    <3> SUFFICES ASSUME NEW v \in Urls, saved_at'[v] # Never
                 PROVE  /\ saved_at'[v] < cache'.count
                        /\ cache'.count - saved_at'[v] <= MaxSize =>
                             /\ v \in Cached(cache')
                             /\ cache'.map[v].stamp = saved_at'[v]
                             /\ cache'.map[v].item # NULL
      BY DEF RecentStamps
    <3>1. CASE v = u /\ i # NULL
      BY <1>4, <2>3, <2>4, <3>1 DEF DoSave
    <3>2. CASE ~ (v = u /\ i # NULL)
      <4>1. saved_at'[v] = saved_at[v] /\ saved_at[v] \in Nat
        BY <3>2 DEF DoSave
      <4>2. saved_at[v] < cache.count
        BY <4>1 DEF RecentStamps
      <4>3. ASSUME cache'.count - saved_at'[v] <= MaxSize
            PROVE  /\ v \in Cached(room) \ {u}
                   /\ cache.map[v].stamp = saved_at[v]
                   /\ cache.map[v].item # NULL
        <5>1. cache.count - saved_at[v] < MaxSize
          BY <2>3, <2>4, <4>1, <4>3, MaxSizeAssumption
        <5>2. /\ v \in Cached(cache)
              /\ cache.map[v].stamp = saved_at[v]
              /\ cache.map[v].item # NULL
          BY <4>1, <5>1, <2>4, MaxSizeAssumption DEF RecentStamps
        <5>3. v # u
          BY <5>2, <1>4 DEF SaveRefused, LookUp
        <5>4. v \in Cached(room)
          BY <2>4, <2>6, <4>1, <5>1, <5>2, MaxSizeAssumption
        <5> QED BY <5>2, <5>3, <5>4
      <4> QED BY <2>3, <2>4, <4>1, <4>2, <4>3
    <3> QED BY <3>1, <3>2
  <2> QED BY <1>1, <1>2, <2>5, <2>7
<1> QED BY <1>3, <1>4

(* Delete or RemoveOldest takes an entry out and its history with it.      *)
LEMMA RemovedInv ==
    ASSUME Inv, NEW u \in Urls,
           cache' = Without(cache, u),
           saved_at' = [saved_at EXCEPT ![u] = Never],
           calls' = calls
    PROVE  Inv'
<1> USE DEF Inv, TypeOK
<1>0. IsCache(cache, Urls, ItemPtr) /\ StampsOk(cache)
  BY DEF StampsDistinct
<1>1. IsCache(cache', Urls, ItemPtr) /\ StampsOk(cache')
  BY <1>0, WithoutIsCache
<1>2. /\ Cached(cache') = Cached(cache) \ {u}
      /\ \A v \in Cached(cache) \ {u} : cache'.map[v] = cache.map[v]
      /\ cache'.count = cache.count
  BY DEF Without, Cached, Restrict
<1>3. TypeOK'
  BY <1>1, <1>2
<1>4. RecentStamps'
  <2> SUFFICES ASSUME NEW v \in Urls, saved_at'[v] # Never
               PROVE  /\ saved_at'[v] < cache'.count
                      /\ cache'.count - saved_at'[v] <= MaxSize =>
                           /\ v \in Cached(cache')
                           /\ cache'.map[v].stamp = saved_at'[v]
                           /\ cache'.map[v].item # NULL
    BY DEF RecentStamps
  <2>1. v # u /\ saved_at'[v] = saved_at[v]
    OBVIOUS
  <2> QED BY <1>2, <2>1 DEF RecentStamps
<1> QED BY <1>1, <1>3, <1>4 DEF StampsDistinct

LEMMA DeleteInv ==
    ASSUME Inv, NEW u \in Urls, CallDelete(u)
    PROVE  Inv'
<1> USE DEF Inv, TypeOK
<1>0. IsCache(cache, Urls, ItemPtr) /\ StampsOk(cache)
  BY DEF StampsDistinct
<1>1. CASE LookUp(cache, u) = NULL
  <2>1. UNCHANGED vars
    BY <1>1 DEF CallDelete, Delete, vars
  <2> QED BY <2>1 DEF StampsDistinct, RecentStamps, vars
<1>2. CASE LookUp(cache, u) # NULL
  <2>1. /\ cache' = Without(cache, u)
        /\ saved_at' = [saved_at EXCEPT ![u] = Never]
        /\ calls' = calls
    BY <1>2 DEF CallDelete, Delete
  <2> QED BY <1>0, <2>1, RemovedInv
<1> QED BY <1>1, <1>2

LEMMA RemoveOldestInv ==
    ASSUME Inv, CallRemoveOldest
    PROVE  Inv'
<1> USE DEF Inv, TypeOK
<1>0. IsCache(cache, Urls, ItemPtr) /\ StampsOk(cache)
  BY DEF StampsDistinct
<1>1. CASE Cached(cache) = {}
  <2>1. UNCHANGED vars
    BY <1>1 DEF CallRemoveOldest, RemoveOldest, vars
  <2> QED BY <2>1 DEF StampsDistinct, RecentStamps, vars
<1>2. CASE Cached(cache) # {}
  <2>1. /\ cache' = Without(cache, Oldest(cache))
        /\ saved_at' = [u \in Urls |-> IF u = Oldest(cache) THEN Never ELSE saved_at[u]]
        /\ calls' = calls
    BY <1>2 DEF CallRemoveOldest, RemoveOldest
  <2>2. Oldest(cache) \in Urls
    BY <1>0, <1>2, OldestExists DEF IsCache
  <2>3. saved_at' = [saved_at EXCEPT ![Oldest(cache)] = Never]
    BY <2>1, <2>2
  <2> QED BY <2>1, <2>2, <2>3, RemovedInv
<1> QED BY <1>1, <1>2

LEMMA NextInv == Inv /\ [Next]_vars => Inv'
<1> SUFFICES ASSUME Inv, [Next]_vars PROVE Inv'
  OBVIOUS
<1> USE DEF Inv, TypeOK
<1>1. ASSUME NEW u \in Urls, FetchHit(u) PROVE Inv'
  BY <1>1 DEF FetchHit, vars, StampsDistinct, RecentStamps
<1>2. ASSUME NEW u \in Urls, FetchMiss(u) PROVE Inv'
  BY <1>2, BoundAssumption DEF FetchMiss, StampsDistinct, RecentStamps
<1>3. ASSUME NEW u \in Urls, CallDelete(u) PROVE Inv'
  BY <1>3, DeleteInv
<1>4. ASSUME NEW u \in Urls, NEW item \in ItemPtr, CallSave(u, item) PROVE Inv'
  BY <1>4, DoSaveInv DEF CallSave
<1>5. ASSUME calls # <<>>, Pop
      PROVE  calls' \in Seq(Urls) /\ Len(calls') <= MaxDepth /\ calls[Len(calls)] \in Urls
  BY <1>5, BoundAssumption DEF Pop
<1>6. CASE FetchFails
  BY <1>5, <1>6 DEF FetchFails, StampsDistinct, RecentStamps
<1>7. ASSUME NEW item \in ItemPtr, FetchReturns(item) PROVE Inv'
  BY <1>5, <1>7, DoSaveInv DEF FetchReturns
<1>8. CASE CallRemoveOldest
  BY <1>8, RemoveOldestInv
<1>9. CASE UNCHANGED vars
  BY <1>9 DEF vars, StampsDistinct, RecentStamps
<1> QED BY <1>1, <1>2, <1>3, <1>4, <1>6, <1>7, <1>8, <1>9 DEF Next

(* The inductive invariant.                                                *)
THEOREM InvHolds == Spec => []Inv
<1> QED BY InitInv, NextInv, PTL DEF Spec

(* The map, its counter and the stack of Fetches stay well formed.         *)
THEOREM TypeCorrect == Spec => []TypeOK
<1>1. Inv => TypeOK
  BY DEF Inv
<1> QED BY <1>1, InvHolds, PTL

(* Stamps stay distinct, so the oldest entry of net_cache.h:193-199 is one. *)
THEOREM StampsStayDistinct == Spec => []StampsDistinct
<1>1. Inv => StampsDistinct
  BY DEF Inv
<1> QED BY <1>1, InvHolds, PTL

(* Every item lives for MaxSize Saves, for every MaxSize.                  *)
THEOREM RecentSavesLive == Spec => []RecentSavesSurvive
<1>1. Inv => RecentSavesSurvive
  BY DEF Inv, TypeOK, RecentStamps, RecentSavesSurvive, LookUp
<1> QED BY <1>1, InvHolds, PTL

-----------------------------------------------------------------------------
LEMMA SaveBound ==
    ASSUME MaxSize > 0, Inv, SizeBound, NEW u \in Urls, NEW i \in ItemPtr, DoSave(u, i)
    PROVE  SizeBound'
<1>1. IsCache(cache, Urls, ItemPtr) /\ StampsOk(cache)
  BY DEF Inv, TypeOK, StampsDistinct
<1> QED BY <1>1, SaveIsCache DEF SizeBound, DoSave

LEMMA RemoveBound ==
    ASSUME Inv, SizeBound, NEW u \in Cached(cache), cache' = Without(cache, u)
    PROVE  SizeBound'
<1>1. IsFiniteSet(Cached(cache))
  BY DEF Inv, TypeOK, IsCache
<1>2. Size(cache') = Size(cache) - 1 /\ Size(cache) \in Nat
  BY <1>1, WithoutSize, FS_CardinalityType DEF Size
<1> QED BY <1>2, MaxSizeAssumption DEF SizeBound

LEMMA NextBound ==
    ASSUME MaxSize > 0, Inv, SizeBound, [Next]_vars
    PROVE  SizeBound'
<1>1. ASSUME NEW u \in Urls, FetchHit(u) \/ FetchMiss(u) PROVE SizeBound'
  BY <1>1 DEF FetchHit, FetchMiss, vars, SizeBound
<1>2. ASSUME NEW u \in Urls, CallDelete(u) PROVE SizeBound'
  <2>1. CASE LookUp(cache, u) # NULL
    <3>1. u \in Cached(cache) /\ cache' = Without(cache, u)
      BY <1>2, <2>1 DEF LookUp, CallDelete, Delete
    <3> QED BY <3>1, RemoveBound
  <2>2. CASE LookUp(cache, u) = NULL
    BY <1>2, <2>2 DEF CallDelete, Delete, SizeBound
  <2> QED BY <2>1, <2>2
<1>3. ASSUME NEW u \in Urls, NEW item \in ItemPtr, CallSave(u, item) PROVE SizeBound'
  BY <1>3, SaveBound DEF CallSave
<1>4. CASE FetchFails
  BY <1>4 DEF FetchFails, SizeBound
<1>5. ASSUME NEW item \in ItemPtr, FetchReturns(item) PROVE SizeBound'
  <2>1. calls[Len(calls)] \in Urls
    BY <1>5 DEF FetchReturns, Inv, TypeOK
  <2> QED BY <1>5, <2>1, SaveBound DEF FetchReturns
<1>6. CASE CallRemoveOldest
  <2>1. CASE Cached(cache) # {}
    <3>1. Oldest(cache) \in Cached(cache)
      BY <2>1, OldestExists DEF Inv, TypeOK
    <3>2. cache' = Without(cache, Oldest(cache))
      BY <1>6, <2>1 DEF CallRemoveOldest, RemoveOldest
    <3> QED BY <3>1, <3>2, RemoveBound
  <2>2. CASE Cached(cache) = {}
    BY <1>6, <2>2 DEF CallRemoveOldest, RemoveOldest, SizeBound
  <2> QED BY <2>1, <2>2
<1>7. CASE UNCHANGED vars
  BY <1>7 DEF vars, SizeBound
<1> QED BY <1>1, <1>2, <1>3, <1>4, <1>5, <1>6, <1>7 DEF Next

(* A cache built for at least one entry never holds more than its size.    *)
(* With MaxSize = 0 the size is 1 after the first Save and is never again  *)
(* equal to MaxSize, so nothing is evicted any more (net_cache.h:162).     *)
THEOREM SizeBounded == MaxSize > 0 => (Spec => []SizeBound)
<1> SUFFICES ASSUME MaxSize > 0 PROVE Spec => []SizeBound
  OBVIOUS
<1>1. Init => SizeBound
  BY FS_EmptySet, MaxSizeAssumption DEF Init, EmptyCache, SizeBound, Size, Cached
<1>2. Inv /\ SizeBound /\ [Next]_vars => SizeBound'
  BY NextBound
<1> QED BY <1>1, <1>2, InvHolds, PTL DEF Spec

-----------------------------------------------------------------------------
(* An entry can leave the cache, but its item is never exchanged: a second *)
(* Save of the same url is refused while the first item is cached.         *)
LEMMA SaveKeepsItem ==
    ASSUME Inv, NEW u \in Urls, NEW i \in ItemPtr, DoSave(u, i),
           NEW v \in Urls, LookUp(cache, v) # NULL, LookUp(cache', v) # NULL
    PROVE  LookUp(cache', v) = LookUp(cache, v)
<1>0. IsCache(cache, Urls, ItemPtr) /\ StampsOk(cache)
  BY DEF Inv, TypeOK, StampsDistinct
<1>1. CASE SaveRefused(cache, u)
  BY <1>1 DEF DoSave, Save
<1>2. CASE ~ SaveRefused(cache, u)
  <2> DEFINE room == MakeRoom(cache)
  <2>1. cache' = Stamped(room, u, i)
    BY <1>2 DEF DoSave, Save
  <2>2. /\ Cached(room) \subseteq Cached(cache)
        /\ \A w \in Cached(room) : room.map[w] = cache.map[w]
    BY MakeRoomKeeps
  <2>3. v # u
    BY <1>2 DEF SaveRefused
  <2>4. v \in Cached(cache') => v \in Cached(room) /\ cache'.map[v] = room.map[v]
    BY <2>1, <2>3 DEF Stamped, Entered, Cached
  <2> HIDE DEF room
  <2> QED BY <2>2, <2>4 DEF LookUp
<1> QED BY <1>1, <1>2

THEOREM ItemsAreStable == Spec => StableEntry
<1>1. ASSUME NEW u, NEW v PROVE LookUp(Without(cache, u), v) # NULL =>
                                  LookUp(Without(cache, u), v) = LookUp(cache, v)
  BY DEF LookUp, Without, Cached, Restrict
<1>2. ASSUME Inv, [Next]_vars, NEW v \in Urls,
             LookUp(cache, v) # NULL, LookUp(cache', v) # NULL
      PROVE  LookUp(cache', v) = LookUp(cache, v)
  <2>1. CASE cache' = cache
    BY <2>1
  <2>2. ASSUME NEW u \in Urls, NEW i \in ItemPtr, DoSave(u, i)
        PROVE  LookUp(cache', v) = LookUp(cache, v)
    BY <1>2, <2>2, SaveKeepsItem
  <2>3. ASSUME NEW u, cache' = Without(cache, u)
        PROVE  LookUp(cache', v) = LookUp(cache, v)
    BY <1>1, <1>2, <2>3
  <2>4. calls # <<>> => calls[Len(calls)] \in Urls
    BY <1>2 DEF Inv, TypeOK
  <2> QED BY <1>2, <2>1, <2>2, <2>3, <2>4 DEF Next, vars, FetchHit, FetchMiss, FetchFails,
        CallDelete, Delete, CallSave, FetchReturns, CallRemoveOldest, RemoveOldest
<1>3. Inv /\ [Next]_vars =>
        [\A u \in Urls : LookUp(cache, u) # NULL /\ LookUp(cache', u) # NULL =>
                            LookUp(cache', u) = LookUp(cache, u)]_vars
  BY <1>2
<1> QED BY <1>3, InvHolds, PTL DEF Spec, StableEntry

----------------------------------------------------------------------------
(* NetCache implements FifoStore for every set of urls and items and every *)
(* size: the clock inside the entries can be forgotten, the order of the   *)
(* stamps is the order in which the entries were stored.                   *)

(* The mapping of NetCache (content, before) for any cache value.          *)
ContentOf(c) == [u \in Cached(c) |-> c.map[u].item]

BeforeOf(c) == {p \in Cached(c) \X Cached(c) : c.map[p[1]].stamp < c.map[p[2]].stamp}

(* FifoStore counts its entries the same way.                              *)
LEMMA SameCardinality == \A S : Fifo!Cardinality(S) = Cardinality(S)
  BY DEF Fifo!Cardinality, Fifo!IsFiniteSet, Cardinality, IsFiniteSet

LEMMA Mapping ==
    /\ content = ContentOf(cache) /\ before = BeforeOf(cache)
    /\ content' = ContentOf(cache') /\ before' = BeforeOf(cache')
    /\ DOMAIN content = Cached(cache)
    /\ \A u \in Cached(cache) : content[u] = cache.map[u].item
  BY DEF content, before, ContentOf, BeforeOf

(* Taking an entry out leaves the others as they were, in their order.     *)
LEMMA WithoutKeeps ==
    ASSUME NEW c, NEW u, NEW S, S = Cached(c) \ {u}
    PROVE  /\ ContentOf(Without(c, u)) = [v \in S |-> ContentOf(c)[v]]
           /\ BeforeOf(Without(c, u)) = BeforeOf(c) \cap (S \X S)
<1> DEFINE d == Without(c, u)
<1>1. Cached(d) = S /\ \A v \in S : d.map[v] = c.map[v]
  BY DEF Without, Cached, Restrict
<1> HIDE DEF d
<1>2. ContentOf(d) = [v \in S |-> ContentOf(c)[v]]
  BY <1>1 DEF ContentOf
<1>3. BeforeOf(d) = BeforeOf(c) \cap (S \X S)
  BY <1>1 DEF BeforeOf
<1> QED BY <1>2, <1>3 DEF d

(* The same with an entry for u put last, as PutLast of FifoStore does.    *)
ContentPut(c, u, i) ==
    [v \in Cached(c) \cup {u} |-> IF v = u THEN i ELSE ContentOf(c)[v]]

BeforePut(c, u) ==
    (BeforeOf(c) \cap ((Cached(c) \ {u}) \X (Cached(c) \ {u})))
        \cup {<<v, u>> : v \in Cached(c) \ {u}}

(* A stamped entry comes after all the others, which keep their order.     *)
LEMMA StampedIsLast ==
    ASSUME NEW U, NEW I, NEW c, NEW u \in U, NEW i \in I,
           IsCache(c, U, I), StampsOk(c)
    PROVE  /\ ContentOf(Stamped(c, u, i)) = ContentPut(c, u, i)
           /\ BeforeOf(Stamped(c, u, i)) = BeforePut(c, u)
<1> DEFINE d == Stamped(c, u, i)
           T == Cached(c) \ {u}
<1>1. /\ Cached(d) = T \cup {u}
      /\ \A v \in T : d.map[v] = c.map[v]
      /\ d.map[u] = [item |-> i, stamp |-> c.count]
  BY StampedIsCache
<1>2. c.count \in Nat /\ \A v \in T : c.map[v].stamp \in Nat /\ c.map[v].stamp < c.count
  BY DEF IsCache, CacheEntry, StampsOk
<1>3. Cached(c) \cup {u} = T \cup {u}
  OBVIOUS
<1> HIDE DEF d
<1>4. ContentOf(d) = [v \in Cached(c) \cup {u} |-> IF v = u THEN i ELSE ContentOf(c)[v]]
  BY <1>1, <1>3 DEF ContentOf
<1>5. ASSUME NEW p \in (T \cup {u}) \X (T \cup {u})
      PROVE  d.map[p[1]].stamp < d.map[p[2]].stamp <=>
                \/ p \in T \X T /\ c.map[p[1]].stamp < c.map[p[2]].stamp
                \/ p \in {<<v, u>> : v \in T}
  <2>1. CASE p[1] = u
    BY <1>1, <1>2, <2>1
  <2>2. CASE p[1] \in T /\ p[2] = u
    BY <1>1, <1>2, <2>2
  <2>3. CASE p[1] \in T /\ p[2] \in T
    BY <1>1, <1>2, <2>3
  <2> QED BY <2>1, <2>2, <2>3
<1>6. BeforeOf(d) = (BeforeOf(c) \cap (T \X T)) \cup {<<v, u>> : v \in T}
  BY <1>1, <1>5 DEF BeforeOf
<1> QED BY <1>4, <1>6 DEF d, ContentPut, BeforePut

(* Stamps are distinct, so the entry with the smallest was stored first.   *)
LEMMA OldestIsFirst ==
    ASSUME Inv, Cached(cache) # {}
    PROVE  Oldest(cache) \in Cached(cache) /\ Fifo!IsFirst(Oldest(cache))
<1>1. IsCache(cache, Urls, ItemPtr) /\ StampsOk(cache)
  BY DEF Inv, TypeOK, StampsDistinct
<1>2. IsOldest(cache, Oldest(cache)) /\ Oldest(cache) \in Cached(cache)
  BY <1>1, OldestExists
<1>3. ASSUME NEW v \in Cached(cache) \ {Oldest(cache)}
      PROVE  cache.map[Oldest(cache)].stamp < cache.map[v].stamp
  BY <1>1, <1>2 DEF IsOldest, StampsOk, IsCache, CacheEntry
<1>4. \A v \in Cached(cache) \ {Oldest(cache)} : <<Oldest(cache), v>> \in before
  BY <1>2, <1>3 DEF before
<1> QED BY <1>2, <1>4, Mapping DEF Fifo!IsFirst, Fifo!Stored

-----------------------------------------------------------------------------
LEMMA RemovedIsKeep ==
    ASSUME NEW u, cache' = Without(cache, u)
    PROVE  Fifo!Keep(Fifo!Stored \ {u})
<1> DEFINE S == Cached(cache) \ {u}
<1>1. /\ ContentOf(cache') = [v \in S |-> ContentOf(cache)[v]]
      /\ BeforeOf(cache') = BeforeOf(cache) \cap (S \X S)
  <2>1. S = Cached(cache) \ {u}
    OBVIOUS
  <2> HIDE DEF S
  <2> QED BY <2>1, WithoutKeeps
<1>2. S = Fifo!Stored \ {u}
  BY Mapping DEF Fifo!Stored
<1> HIDE DEF S
<1>3. Fifo!Keep(S)
  BY <1>1, Mapping DEF Fifo!Keep
<1> QED BY <1>2, <1>3

LEMMA SaveRefines ==
    ASSUME Inv, NEW u \in Urls, NEW i \in ItemPtr, DoSave(u, i)
    PROVE  Fifo!Put(u, i) \/ UNCHANGED <<content, before>>
<1>0. IsCache(cache, Urls, ItemPtr) /\ StampsOk(cache)
  BY DEF Inv, TypeOK, StampsDistinct
<1>1. CASE SaveRefused(cache, u)
  <2>1. cache' = cache
    BY <1>1 DEF DoSave, Save
  <2> QED BY <2>1, Mapping
<1>2. CASE ~ SaveRefused(cache, u)
  <2> DEFINE room == MakeRoom(cache)
             S == Cached(room)
  <2>1. cache' = Stamped(room, u, i)
    BY <1>2 DEF DoSave, Save
  <2>2. IsCache(room, Urls, ItemPtr) /\ StampsOk(room)
    BY <1>0, MakeRoomIsCache
  <2>3. Fifo!Free(u)
    BY <1>2, Mapping DEF SaveRefused, LookUp, Fifo!Free, Fifo!Stored
  <2>4. /\ ContentOf(cache') = [v \in S \cup {u} |-> IF v = u THEN i ELSE ContentOf(room)[v]]
        /\ BeforeOf(cache') = (BeforeOf(room) \cap ((S \ {u}) \X (S \ {u})))
                                 \cup {<<v, u>> : v \in S \ {u}}
    <3> HIDE DEF room
    <3>1. ContentOf(cache') = ContentPut(room, u, i) /\ BeforeOf(cache') = BeforePut(room, u)
      BY <2>1, <2>2, StampedIsLast
    <3> QED BY <3>1 DEF ContentPut, BeforePut
  <2>5. CASE Size(cache) = MaxSize /\ Cached(cache) # {}
    <3> DEFINE first == Oldest(cache)
    <3>1. room = Without(cache, first) /\ first \in Cached(cache) /\ Fifo!IsFirst(first)
      BY <2>5, OldestIsFirst DEF MakeRoom, RemoveOldest
    <3>2. /\ S = Cached(cache) \ {first}
          /\ ContentOf(room) = [v \in S |-> ContentOf(cache)[v]]
          /\ BeforeOf(room) = BeforeOf(cache) \cap (S \X S)
      <4>1. Cached(Without(cache, first)) = Cached(cache) \ {first}
        BY DEF Without, Cached, Restrict
      <4>2. S = Cached(cache) \ {first}
        BY <3>1, <4>1
      <4> HIDE DEF S, first, room
      <4> QED BY <3>1, <4>2, WithoutKeeps
    <3> HIDE DEF first, room
    <3>3. content' = [v \in S \cup {u} |-> IF v = u THEN i ELSE content[v]]
      BY <2>4, <3>2, Mapping
    <3>4. before' = (before \cap ((S \ {u}) \X (S \ {u}))) \cup {<<v, u>> : v \in S \ {u}}
      <4>1. BeforeOf(room) \cap ((S \ {u}) \X (S \ {u}))
              = BeforeOf(cache) \cap ((S \ {u}) \X (S \ {u}))
        BY <3>2
      <4> QED BY <2>4, <4>1, Mapping
    <3>5. Fifo!PutLast(S, u, i)
      BY <3>3, <3>4 DEF Fifo!PutLast
    <3>6. Fifo!Cardinality(Fifo!Stored) = MaxSize
      BY <2>5, Mapping, SameCardinality DEF Fifo!Stored, Size
    <3>7. first \in Fifo!Stored /\ Fifo!PutLast(Fifo!Stored \ {first}, u, i)
      <4>1. S = Fifo!Stored \ {first}
        BY <3>2, Mapping DEF Fifo!Stored
      <4> QED BY <3>1, <3>5, <4>1, Mapping DEF Fifo!Stored
    <3> QED BY <2>3, <3>1, <3>6, <3>7, Zenon DEF Fifo!Put
  <2>6. CASE ~ (Size(cache) = MaxSize /\ Cached(cache) # {})
    <3>1. room = cache
      BY <2>6 DEF MakeRoom, RemoveOldest
    <3>2. Fifo!PutLast(Fifo!Stored, u, i)
      BY <2>4, <3>1, Mapping DEF Fifo!PutLast, Fifo!Stored
    <3> QED BY <2>3, <2>6, <3>2, Mapping, SameCardinality DEF Fifo!Put, Fifo!Stored, Size
  <2> QED BY <2>5, <2>6
<1> QED BY <1>1, <1>2

LEMMA DeleteRefines ==
    ASSUME NEW u \in Urls, CallDelete(u)
    PROVE  Fifo!Forget(u) \/ UNCHANGED <<content, before>>
<1>1. CASE LookUp(cache, u) = NULL
  BY <1>1, Mapping DEF CallDelete, Delete
<1>2. CASE LookUp(cache, u) # NULL
  <2>1. cache' = Without(cache, u) /\ u \in Cached(cache) /\ cache.map[u].item # NULL
    BY <1>2 DEF CallDelete, Delete, LookUp
  <2> QED BY <2>1, RemovedIsKeep, Mapping DEF Fifo!Forget, Fifo!Stored
<1> QED BY <1>1, <1>2

LEMMA RemoveOldestRefines ==
    ASSUME Inv, CallRemoveOldest
    PROVE  Fifo!ForgetFirst \/ UNCHANGED <<content, before>>
<1>1. CASE Cached(cache) = {}
  BY <1>1, Mapping DEF CallRemoveOldest, RemoveOldest
<1>2. CASE Cached(cache) # {}
  <2>1. cache' = Without(cache, Oldest(cache))
    BY <1>2 DEF CallRemoveOldest, RemoveOldest
  <2> QED BY <1>2, <2>1, OldestIsFirst, RemovedIsKeep, Mapping
          DEF Fifo!ForgetFirst, Fifo!Stored
<1> QED BY <1>1, <1>2

LEMMA NextRefines == Inv /\ [Next]_vars => [Fifo!FNext]_Fifo!fvars
<1> SUFFICES ASSUME Inv, [Next]_vars PROVE Fifo!FNext \/ UNCHANGED <<content, before>>
  BY DEF Fifo!fvars
<1>1. ASSUME NEW u \in Urls, FetchHit(u) \/ FetchMiss(u) PROVE UNCHANGED <<content, before>>
  BY <1>1, Mapping DEF FetchHit, FetchMiss, vars
<1>2. ASSUME NEW u \in Urls, CallDelete(u) PROVE Fifo!FNext \/ UNCHANGED <<content, before>>
  BY <1>2, DeleteRefines DEF Fifo!FNext
<1>3. ASSUME NEW u \in Urls, NEW item \in ItemPtr, DoSave(u, item)
      PROVE  Fifo!FNext \/ UNCHANGED <<content, before>>
  BY <1>3, SaveRefines DEF Fifo!FNext, ItemPtr
<1>4. CASE FetchFails
  BY <1>4, Mapping DEF FetchFails
<1>5. ASSUME NEW item \in ItemPtr, FetchReturns(item)
      PROVE  Fifo!FNext \/ UNCHANGED <<content, before>>
  <2>1. calls[Len(calls)] \in Urls
    BY <1>5 DEF FetchReturns, Inv, TypeOK
  <2> QED BY <1>3, <1>5, <2>1 DEF FetchReturns
<1>6. CASE CallRemoveOldest
  BY <1>6, RemoveOldestRefines DEF Fifo!FNext
<1>7. CASE UNCHANGED vars
  BY <1>7, Mapping DEF vars
<1> QED BY <1>1, <1>2, <1>3, <1>4, <1>5, <1>6, <1>7 DEF Next, CallSave

LEMMA InitRefines == Init => Fifo!FInit
<1> SUFFICES ASSUME Init PROVE Fifo!FInit
  OBVIOUS
<1>1. Cached(cache) = {}
  BY DEF Init, EmptyCache, Cached
<1> QED BY <1>1 DEF Fifo!FInit, content, before

(* Every behaviour of the cache, nested Fetches, rejected data, deletions  *)
(* and evictions included, is one of the first-in first-out store.         *)
THEOREM CacheIsFifo == Spec => ImplementsFifo
<1> QED BY InitRefines, NextRefines, InvHolds, PTL DEF Spec, ImplementsFifo, Fifo!Spec
=============================================================================
