---------------------- MODULE UpdatePromise_proofs ----------------------
(***************************************************************************)
(* No mix of Updates and calls of a client puts an element in two places:  *)
(* the trees that are cloned into the heap are trees of new elements, and  *)
(* only an element without a parent is ever given one.                     *)
(*                                                                         *)
(* On top of that, KmlFileUpdate keeps UpdatePromise: every operation of   *)
(* an Update, and every call of a client, does to the tree that is seen    *)
(* from the root what the promise says of it.  And a parent_ dangles only  *)
(* below what was dropped.                                                 *)
(***************************************************************************)
EXTENDS KmlFileUpdate, SequenceTheorems, FiniteSetTheorems, WellFoundedInduction, TLAPS

(* A nonempty set of natural numbers has a smallest element.               *)
LEMMA SmallestNat ==
    ASSUME NEW T \in SUBSET Nat, T # {}
    PROVE  \E m \in T : \A n \in T : m <= n
<1> DEFINE R == OpToRel(<, Nat)
<1>1. \E m \in T : \A n \in T : ~ (<<n, m>> \in R)
  BY NatLessThanWellFounded, WFMin
<1>2. \A m, n \in T : ~ (<<n, m>> \in R) => m <= n
  BY DEF OpToRel
<1> QED BY <1>1, <1>2

(* OneHome of any heap, with its type.                                     *)
Good(h) ==
  /\ h \in Seq(Nodes)
  /\ \A p \in 1..Len(h) : \A k \in 1..Len(h[p].kids) :
       /\ h[p].kids[k] \in 1..Len(h) /\ h[h[p].kids[k]].parent = p
       /\ \A l \in 1..Len(h[p].kids) : h[p].kids[l] = h[p].kids[k] => l = k

LEMMA NodeType ==
    ASSUME NEW e \in Nodes PROVE e.kids \in Seq(Nat) /\ e.parent \in Nat
BY DEF Nodes

LEMMA GoodType ==
    ASSUME NEW h, Good(h)
    PROVE  /\ h \in Seq(Nodes) /\ Len(h) \in Nat /\ DOMAIN h = 1..Len(h)
           /\ \A p \in 1..Len(h) :
                /\ h[p] \in Nodes /\ h[p].parent \in Nat /\ h[p].kids \in Seq(Nat)
                /\ Len(h[p].kids) \in Nat /\ DOMAIN h[p].kids = 1..Len(h[p].kids)
<1>1. h \in Seq(Nodes)
  BY DEF Good
<1>2. Len(h) \in Nat /\ DOMAIN h = 1..Len(h) /\ \A p \in 1..Len(h) : h[p] \in Nodes
  BY <1>1
<1>3. \A p \in 1..Len(h) : h[p].parent \in Nat /\ h[p].kids \in Seq(Nat)
  BY <1>2, NodeType
<1>4. \A p \in 1..Len(h) :
        Len(h[p].kids) \in Nat /\ DOMAIN h[p].kids = 1..Len(h[p].kids)
  BY <1>3
<1> QED BY <1>1, <1>2, <1>3, <1>4

LEMMA GoodIsOneHome == ASSUME Good(heap) PROVE OneHome
<1> SUFFICES ASSUME NEW p \in DOMAIN heap, NEW k \in DOMAIN heap[p].kids
             PROVE  LET o == heap[p].kids[k] IN
                      /\ o \in Objects /\ heap[o].parent = p
                      /\ \A l \in DOMAIN heap[p].kids : heap[p].kids[l] = o => l = k
  BY DEF OneHome, Objects
<1>1. p \in 1..Len(heap) /\ k \in 1..Len(heap[p].kids)
  BY GoodType
<1>2. /\ heap[p].kids[k] \in 1..Len(heap) /\ heap[heap[p].kids[k]].parent = p
      /\ \A l \in 1..Len(heap[p].kids) : heap[p].kids[l] = heap[p].kids[k] => l = k
  BY <1>1 DEF Good
<1>3. DOMAIN heap = 1..Len(heap) /\ DOMAIN heap[p].kids = 1..Len(heap[p].kids)
  BY <1>1, GoodType
<1> QED BY <1>2, <1>3 DEF Objects

LEMMA TreeIsGood == ASSUME NEW t, IsTree(t) PROVE Good(t) /\ t[1] \in Nodes /\ Len(t) \in Nat \ {0}
<1>1. t \in Seq(Nodes) /\ t # << >>
  BY DEF IsTree
<1>2. Len(t) \in Nat \ {0} /\ DOMAIN t = 1..Len(t) /\ t[1] \in Nodes
  BY <1>1
<1>3. ASSUME NEW p \in 1..Len(t), NEW k \in 1..Len(t[p].kids)
      PROVE  /\ t[p].kids[k] \in 1..Len(t) /\ t[t[p].kids[k]].parent = p
             /\ \A l \in 1..Len(t[p].kids) : t[p].kids[l] = t[p].kids[k] => l = k
  <2>0. t[p] \in Nodes
    BY <1>1
  <2>1. t[p].kids \in Seq(Nat)
    BY <2>0, NodeType
  <2>2. DOMAIN t[p].kids = 1..Len(t[p].kids)
    BY <2>1
  <2>3. t[p].kids[k] \in (p + 1)..Len(t) /\ t[t[p].kids[k]].parent = p
    BY <1>2, <2>2 DEF IsTree
  <2>4. \A l \in 1..Len(t[p].kids) : t[p].kids[l] = t[p].kids[k] => l = k
    BY <1>2, <2>2 DEF IsTree
  <2> QED BY <2>3, <2>4
<1> QED BY <1>1, <1>2, <1>3 DEF Good

(* Changing anything but the parent and the kids of an element.            *)
LEMMA RelabelGood ==
    ASSUME NEW h, Good(h), NEW o \in 1..Len(h), NEW e \in Nodes,
           e.parent = h[o].parent, e.kids = h[o].kids
    PROVE  Good([h EXCEPT ![o] = e]) /\ Len([h EXCEPT ![o] = e]) = Len(h)
<1> DEFINE g == [h EXCEPT ![o] = e]
<1>1. g \in Seq(Nodes) /\ Len(g) = Len(h)
  BY GoodType
<1>2. \A p \in 1..Len(h) : g[p].parent = h[p].parent /\ g[p].kids = h[p].kids
  BY GoodType
<1> QED BY <1>1, <1>2 DEF Good

LEMMA RemoveAtProperties ==
    ASSUME NEW s \in Seq(Nat), NEW k \in 1..Len(s)
    PROVE  /\ RemoveAt(s, k) \in Seq(Nat) /\ Len(RemoveAt(s, k)) = Len(s) - 1
           /\ \A j \in 1..(Len(s) - 1) : RemoveAt(s, k)[j] = IF j < k THEN s[j] ELSE s[j + 1]
<1> DEFINE a == SubSeq(s, 1, k - 1)
           b == SubSeq(s, k + 1, Len(s))
<1>1. Len(s) \in Nat /\ k \in Int /\ \A i \in 1..Len(s) : s[i] \in Nat
  BY ElementOfSeq
<1>2. /\ a \in Seq(Nat) /\ Len(a) = k - 1
      /\ \A j \in 1..(k - 1) : a[j] = s[j]
  <2>1. k - 1 \in Int /\ \A i \in 1..(k - 1) : s[i] \in Nat
    BY <1>1
  <2>2. /\ a \in Seq(Nat) /\ Len(a) = IF 1 <= k - 1 THEN k - 1 - 1 + 1 ELSE 0
        /\ \A j \in 1..(k - 1 - 1 + 1) : a[j] = s[1 + j - 1]
    BY <2>1, SubSeqProperties
  <2> QED BY <1>1, <2>2
<1>3. /\ b \in Seq(Nat) /\ Len(b) = Len(s) - k
      /\ \A j \in 1..(Len(s) - k) : b[j] = s[k + j]
  <2>1. k + 1 \in Int /\ Len(s) \in Int /\ \A i \in (k + 1)..Len(s) : s[i] \in Nat
    BY <1>1
  <2>2. /\ b \in Seq(Nat) /\ Len(b) = IF k + 1 <= Len(s) THEN Len(s) - (k + 1) + 1 ELSE 0
        /\ \A j \in 1..(Len(s) - (k + 1) + 1) : b[j] = s[k + 1 + j - 1]
    BY <2>1, SubSeqProperties
  <2> QED BY <1>1, <2>2
<1> HIDE DEF a, b
<1>4. /\ a \o b \in Seq(Nat) /\ Len(a \o b) = Len(a) + Len(b)
      /\ \A i \in 1..(Len(a) + Len(b)) : (a \o b)[i] = IF i <= Len(a) THEN a[i] ELSE b[i - Len(a)]
  BY <1>2, <1>3, ConcatProperties
<1>5. ASSUME NEW j \in 1..(Len(s) - 1)
      PROVE  (a \o b)[j] = IF j < k THEN s[j] ELSE s[j + 1]
  <2>1. CASE j < k
    BY <1>1, <1>2, <1>3, <1>4, <2>1
  <2>2. CASE ~(j < k)
    <3>0. Len(a) + Len(b) = Len(s) - 1 /\ ~(j <= Len(a))
      BY <1>1, <1>2, <1>3, <2>2
    <3>1. (a \o b)[j] = b[j - (k - 1)]
      BY <1>2, <1>4, <3>0
    <3>3. j - (k - 1) \in 1..(Len(s) - k)
      BY <1>1, <2>2
    <3>2. k + (j - (k - 1)) = j + 1
      BY <1>1
    <3> QED BY <1>3, <2>2, <3>1, <3>2, <3>3
  <2> QED BY <2>1, <2>2
<1>6. Len(a \o b) = Len(s) - 1
  BY <1>1, <1>2, <1>3, <1>4
<1>7. RemoveAt(s, k) = a \o b
  BY DEF RemoveAt, a, b
<1> QED BY <1>4, <1>5, <1>6, <1>7

(* Taking the k-th child of c out of its array.                            *)
LEMMA EraseGood ==
    ASSUME NEW h, Good(h), NEW c \in 1..Len(h), NEW k \in 1..Len(h[c].kids)
    PROVE  Good(Erase(h, c, k)) /\ Len(Erase(h, c, k)) = Len(h)
<1> DEFINE s == h[c].kids
           r == RemoveAt(s, k)
           g == Erase(h, c, k)
<1>1. s \in Seq(Nat) /\ h[c] \in Nodes
  BY GoodType
<1>2. /\ r \in Seq(Nat) /\ Len(r) = Len(s) - 1
      /\ \A j \in 1..Len(r) : r[j] = IF j < k THEN s[j] ELSE s[j + 1]
  BY <1>1, RemoveAtProperties
<1>3. /\ [h[c] EXCEPT !.kids = r] \in Nodes
      /\ [h[c] EXCEPT !.kids = r].kids = r /\ [h[c] EXCEPT !.kids = r].parent = h[c].parent
  BY <1>1, <1>2 DEF Nodes
<1>4. g = [h EXCEPT ![c] = [h[c] EXCEPT !.kids = r]]
  BY GoodType DEF Erase
<1>5. g \in Seq(Nodes) /\ Len(g) = Len(h)
  BY <1>3, <1>4, GoodType
<1>6. \A p \in 1..Len(h) :
        g[p].parent = h[p].parent /\ g[p].kids = IF p = c THEN r ELSE h[p].kids
  BY <1>3, <1>4, GoodType
<1> HIDE DEF r
<1>7. ASSUME NEW j \in 1..Len(r)
      PROVE  /\ r[j] \in 1..Len(h) /\ h[r[j]].parent = c
             /\ \A l \in 1..Len(r) : r[l] = r[j] => l = j
  <2> DEFINE At(i) == IF i < k THEN i ELSE i + 1
  <2>1. Len(s) \in Nat
    BY <1>1
  <2>2. ASSUME NEW i \in 1..Len(r)
        PROVE  /\ At(i) \in 1..Len(s) /\ r[i] = s[At(i)]
               /\ r[i] \in 1..Len(h) /\ h[r[i]].parent = c
    <3>0. i \in Nat /\ k \in Nat /\ i >= 1 /\ i <= Len(s) - 1
      BY <1>2, <2>1
    <3>1. At(i) \in 1..Len(s) /\ r[i] = s[At(i)]
      BY <1>2, <2>1, <3>0
    <3> QED BY <3>1 DEF Good
  <2>4. ASSUME NEW l \in 1..Len(r), r[l] = r[j] PROVE l = j
    <3>1. s[At(l)] = s[At(j)] /\ At(l) \in 1..Len(s) /\ At(j) \in 1..Len(s)
      BY <2>2, <2>4
    <3>2. At(l) = At(j)
      BY <3>1 DEF Good
    <3> QED BY <1>2, <2>1, <3>2
  <2> QED BY <2>2, <2>4
<1> HIDE DEF g
<1>8. ASSUME NEW p \in 1..Len(g), NEW i \in 1..Len(g[p].kids)
      PROVE  /\ g[p].kids[i] \in 1..Len(g) /\ g[g[p].kids[i]].parent = p
             /\ \A l \in 1..Len(g[p].kids) : g[p].kids[l] = g[p].kids[i] => l = i
  <2>1. CASE p = c
    BY <1>5, <1>6, <1>7, <2>1
  <2>2. CASE p # c
    <3>1. p \in 1..Len(h) /\ g[p].kids = h[p].kids
      BY <1>5, <1>6, <2>2
    <3>2. /\ h[p].kids[i] \in 1..Len(h) /\ h[h[p].kids[i]].parent = p
          /\ \A l \in 1..Len(h[p].kids) : h[p].kids[l] = h[p].kids[i] => l = i
      BY <3>1 DEF Good
    <3> QED BY <1>5, <1>6, <3>1, <3>2
  <2> QED BY <2>1, <2>2
<1>9. Good(g) /\ Len(g) = Len(h)
  BY <1>5, <1>8 DEF Good
<1> QED BY <1>9 DEF g

(* An element without a parent stands nowhere, so it may be given one.     *)
LEMMA AddElementGood ==
    ASSUME NEW h, Good(h), NEW p \in 1..Len(h), NEW o \in 1..Len(h)
    PROVE  Good(AddElement(h, p, o)) /\ Len(AddElement(h, p, o)) = Len(h)
<1>1. CASE ~MayAdopt(h, o)
  BY <1>1 DEF AddElement
<1>2. CASE MayAdopt(h, o)
  <2> DEFINE s == h[p].kids
             r == IF h[p].kind = "Folder" THEN Append(s, o) ELSE <<o>>
             e == [h[o] EXCEPT !.parent = p]
             a == [h EXCEPT ![o] = e]
             f == [a[p] EXCEPT !.kids = r]
             g == [a EXCEPT ![p] = f]
  <2>1. h[o] \in Nodes /\ s \in Seq(Nat) /\ o \in Nat /\ p \in Nat \ {0}
    BY GoodType
  <2>2. r \in Seq(Nat)
    BY <2>1
  <2> HIDE DEF r
  <2>3. e \in Nodes /\ e.parent = p /\ e.kids = h[o].kids
    BY <2>1 DEF Nodes
  <2> HIDE DEF e
  <2>31. a \in Seq(Nodes) /\ Len(a) = Len(h) /\ a[p] \in Nodes
    BY <2>3, GoodType
  <2>32. \A q \in 1..Len(h) :
           a[q].kids = h[q].kids /\ a[q].parent = IF q = o THEN p ELSE h[q].parent
    BY <2>3, GoodType
  <2>33. a[p].kids = s
    BY <2>32
  <2>4. AddElement(h, p, o) = g
    BY <1>2, <2>1, <2>33, GoodType DEF AddElement, e, r
  <2> HIDE DEF a
  <2>34. f \in Nodes /\ f.parent = a[p].parent /\ f.kids = r
    BY <2>2, <2>31 DEF Nodes
  <2> HIDE DEF f
  <2>5. g \in Seq(Nodes) /\ Len(g) = Len(h)
    BY <2>31, <2>34
  <2>6. \A q \in 1..Len(h) :
          /\ g[q].parent = IF q = o THEN p ELSE h[q].parent
          /\ g[q].kids = IF q = p THEN r ELSE h[q].kids
    <3> TAKE q \in 1..Len(h)
    <3>1. g[q] = IF q = p THEN f ELSE a[q]
      BY <2>31
    <3> QED BY <2>32, <2>34, <3>1
  <2> HIDE DEF g
  <2>7. \A q \in 1..Len(h) : \A k \in 1..Len(h[q].kids) : h[q].kids[k] # o
    <3> SUFFICES ASSUME NEW q \in 1..Len(h), NEW k \in 1..Len(h[q].kids), h[q].kids[k] = o
                 PROVE  FALSE
      OBVIOUS
    <3>1. h[o].parent = q
      BY DEF Good
    <3>2. h[o].parent = 0
      BY <1>2 DEF MayAdopt
    <3> QED BY <3>1, <3>2
  <2>8. ASSUME NEW k \in 1..Len(r)
        PROVE  /\ r[k] \in 1..Len(h) /\ (r[k] = o \/ h[r[k]].parent = p)
               /\ \A l \in 1..Len(r) : r[l] = r[k] => l = k
    <3>1. CASE h[p].kind = "Folder"
      <4>1. /\ Len(r) = Len(s) + 1 /\ r[Len(s) + 1] = o /\ Len(s) \in Nat
            /\ \A i \in 1..Len(s) : r[i] = s[i]
        BY <2>1, <3>1, AppendProperties DEF r
      <4>2. \A i \in 1..Len(s) : r[i] # o
        BY <2>7, <4>1
      <4>3. CASE k = Len(s) + 1
        <5>1. r[k] = o /\ o \in 1..Len(h)
          BY <4>1, <4>3
        <5>2. ASSUME NEW l \in 1..Len(r), r[l] = r[k] PROVE l = k
          <6>1. ~(l \in 1..Len(s))
            BY <4>2, <5>1, <5>2
          <6> QED BY <4>1, <4>3, <6>1
        <5> QED BY <5>1, <5>2
      <4>4. CASE k \in 1..Len(s)
        <5>1. /\ s[k] \in 1..Len(h) /\ h[s[k]].parent = p
              /\ \A l \in 1..Len(s) : s[l] = s[k] => l = k
          BY <4>4 DEF Good
        <5>2. r[k] = s[k]
          BY <4>1, <4>4
        <5>3. ASSUME NEW l \in 1..Len(r), r[l] = r[k] PROVE l = k
          <6>1. l \in 1..Len(s)
            <7>1. l # Len(s) + 1
              BY <4>1, <4>2, <4>4, <5>3
            <7> QED BY <4>1, <7>1
          <6>2. s[l] = s[k]
            BY <4>1, <5>2, <5>3, <6>1
          <6> QED BY <5>1, <6>1, <6>2
        <5> QED BY <5>1, <5>2, <5>3
      <4> QED BY <4>1, <4>3, <4>4
    <3>2. CASE h[p].kind # "Folder"
      <4>1. r = <<o>>
        BY <3>2 DEF r
      <4>2. Len(r) = 1 /\ r[1] = o
        BY <4>1
      <4> QED BY <4>2
    <3> QED BY <3>1, <3>2
  <2>9. ASSUME NEW q \in 1..Len(g), NEW k \in 1..Len(g[q].kids)
        PROVE  /\ g[q].kids[k] \in 1..Len(g) /\ g[g[q].kids[k]].parent = q
               /\ \A l \in 1..Len(g[q].kids) : g[q].kids[l] = g[q].kids[k] => l = k
    <3>1. CASE q = p
      <4>1. g[q].kids = r
        BY <2>5, <2>6, <3>1
      <4>2. k \in 1..Len(r)
        BY <4>1
      <4>3. /\ r[k] \in 1..Len(h) /\ (r[k] = o \/ h[r[k]].parent = p)
            /\ \A l \in 1..Len(r) : r[l] = r[k] => l = k
        BY <2>8, <4>2
      <4>4. g[r[k]].parent = p
        BY <2>6, <4>3
      <4> QED BY <2>5, <3>1, <4>1, <4>3, <4>4
    <3>2. CASE q # p
      <4>1. q \in 1..Len(h) /\ g[q].kids = h[q].kids
        BY <2>5, <2>6, <3>2
      <4>2. /\ h[q].kids[k] \in 1..Len(h) /\ h[h[q].kids[k]].parent = q /\ h[q].kids[k] # o
            /\ \A l \in 1..Len(h[q].kids) : h[q].kids[l] = h[q].kids[k] => l = k
        BY <2>7, <4>1 DEF Good
      <4> QED BY <2>5, <2>6, <4>1, <4>2
    <3> QED BY <3>1, <3>2
  <2>10. Good(g) /\ Len(g) = Len(h)
    BY <2>5, <2>9 DEF Good
  <2> QED BY <2>4, <2>10
<1> QED BY <1>1, <1>2

(* The new elements d of a heap, none of which stands outside d.           *)
GoodAfter(d, n) ==
  /\ d \in Seq(Nodes)
  /\ \A j \in 1..Len(d) : \A i \in 1..Len(d[j].kids) :
       /\ d[j].kids[i] \in (n + 1)..(n + Len(d)) /\ d[d[j].kids[i] - n].parent = n + j
       /\ \A l \in 1..Len(d[j].kids) : d[j].kids[l] = d[j].kids[i] => l = i

LEMMA ExtendGood ==
    ASSUME NEW h, Good(h), NEW d, GoodAfter(d, Len(h))
    PROVE  /\ Good(h \o d) /\ Len(h \o d) = Len(h) + Len(d)
           /\ \A j \in 1..Len(d) : (h \o d)[Len(h) + j] = d[j]
           /\ \A j \in 1..Len(h) : (h \o d)[j] = h[j]
<1> DEFINE g == h \o d
           n == Len(h)
<1>1. h \in Seq(Nodes) /\ d \in Seq(Nodes) /\ n \in Nat /\ Len(d) \in Nat
  BY GoodType, LenProperties DEF GoodAfter
<1>2. /\ g \in Seq(Nodes) /\ Len(g) = n + Len(d)
      /\ \A i \in 1..(n + Len(d)) : g[i] = IF i <= n THEN h[i] ELSE d[i - n]
  BY <1>1, ConcatProperties
<1> HIDE DEF g
<1>3. \A j \in 1..Len(d) : g[n + j] = d[j]
  <2> TAKE j \in 1..Len(d)
  <2>1. n + j \in 1..(n + Len(d)) /\ ~(n + j <= n) /\ (n + j) - n = j
    BY <1>1
  <2> QED BY <1>2, <2>1
<1>4. \A j \in 1..n : g[j] = h[j]
  BY <1>1, <1>2
<1> HIDE DEF n
<1>5. ASSUME NEW p \in 1..Len(g), NEW k \in 1..Len(g[p].kids)
      PROVE  /\ g[p].kids[k] \in 1..Len(g) /\ g[g[p].kids[k]].parent = p
             /\ \A l \in 1..Len(g[p].kids) : g[p].kids[l] = g[p].kids[k] => l = k
  <2>1. CASE p \in 1..n
    <3>1. g[p].kids = h[p].kids
      BY <1>4, <2>1
    <3>2. /\ h[p].kids[k] \in 1..n /\ h[h[p].kids[k]].parent = p
          /\ \A l \in 1..Len(h[p].kids) : h[p].kids[l] = h[p].kids[k] => l = k
      BY <2>1, <3>1 DEF Good, n
    <3> QED BY <1>1, <1>2, <1>4, <3>1, <3>2
  <2>2. CASE ~(p \in 1..n)
    <3> DEFINE j == p - n
    <3>1. j \in 1..Len(d) /\ p = n + j
      BY <1>1, <1>2, <2>2
    <3>2. g[p].kids = d[j].kids
      BY <1>3, <3>1
    <3>3. /\ d[j].kids[k] \in (n + 1)..(n + Len(d)) /\ d[d[j].kids[k] - n].parent = n + j
          /\ \A l \in 1..Len(d[j].kids) : d[j].kids[l] = d[j].kids[k] => l = k
      BY <3>1, <3>2 DEF GoodAfter, n
    <3>4. d[j].kids[k] - n \in 1..Len(d) /\ n + (d[j].kids[k] - n) = d[j].kids[k]
      <4>1. \A x \in (n + 1)..(n + Len(d)) : x - n \in 1..Len(d) /\ n + (x - n) = x
        BY <1>1
      <4> QED BY <3>3, <4>1
    <3>5. g[d[j].kids[k]] = d[d[j].kids[k] - n]
      BY <1>3, <3>4
    <3> QED BY <1>1, <1>2, <3>1, <3>2, <3>3, <3>5, SMTT(40)
  <2> QED BY <2>1, <2>2
<1>6. Good(g)
  BY <1>2, <1>5 DEF Good
<1> QED BY <1>2, <1>3, <1>4, <1>6 DEF g, n

LEMMA LastBelowProperties ==
    ASSUME NEW t, IsTree(t), NEW k \in 1..Len(t)
    PROVE  /\ LastBelow(t, k) \in k..Len(t) /\ IsLastBelow(t, k, LastBelow(t, k))
           /\ LastBelow(t, k) \in Nat /\ k \in Nat /\ Len(t) \in Nat
<1>1. Len(t) \in Nat /\ DOMAIN t = 1..Len(t)
  BY TreeIsGood, LenProperties DEF IsTree
<1>2. \E l \in k..Len(t) : IsLastBelow(t, k, l)
  BY <1>1 DEF IsTree
<1>3. LastBelow(t, k) \in k..Len(t) /\ IsLastBelow(t, k, LastBelow(t, k))
  BY <1>2 DEF LastBelow
<1> QED BY <1>1, <1>3

(* A child of a node below k is below k.                                   *)
LEMMA KidsBelow ==
    ASSUME NEW t, IsTree(t), NEW k \in 1..Len(t), NEW m \in k..LastBelow(t, k),
           NEW i \in 1..Len(t[m].kids)
    PROVE  /\ m \in 1..Len(t) /\ t[m].kids[i] \in (m + 1)..LastBelow(t, k)
           /\ t[t[m].kids[i]].parent = m
           /\ \A l \in 1..Len(t[m].kids) : t[m].kids[l] = t[m].kids[i] => l = i
<1> DEFINE L == LastBelow(t, k)
           j == t[m].kids[i]
<1>1. /\ L \in k..Len(t) /\ IsLastBelow(t, k, L)
      /\ L \in Nat /\ k \in Nat /\ Len(t) \in Nat
  BY LastBelowProperties
<1> HIDE DEF L
<1>2. m \in 1..Len(t) /\ m \in k..L /\ t[m] \in Nodes
  <2>1. m \in k..L
    BY DEF L
  <2>2. m \in 1..Len(t)
    BY <1>1, <2>1
  <2> QED BY <2>1, <2>2 DEF IsTree
<1>3. DOMAIN t = 1..Len(t) /\ DOMAIN t[m].kids = 1..Len(t[m].kids)
  <2>1. t[m].kids \in Seq(Nat)
    BY <1>2, NodeType
  <2> QED BY <2>1 DEF IsTree
<1>4. /\ j \in (m + 1)..Len(t) /\ t[j].parent = m
      /\ \A n \in (m + 1)..j : t[n].parent >= m
      /\ \A l \in 1..Len(t[m].kids) : t[m].kids[l] = j => l = i
  BY <1>2, <1>3 DEF IsTree
<1> HIDE DEF j
<1>5. j <= L
  <2> SUFFICES ASSUME ~(j <= L) PROVE FALSE
    OBVIOUS
  <2>1. L + 1 \in (m + 1)..j /\ L < Len(t)
    BY <1>1, <1>2, <1>4
  <2>2. t[L + 1].parent >= m /\ t[L + 1].parent < k
    BY <1>1, <1>4, <2>1 DEF IsLastBelow
  <2>3. t[L + 1] \in Nodes
    BY <1>1, <2>1 DEF IsTree
  <2>4. t[L + 1].parent \in Nat
    BY <2>3, NodeType
  <2> QED BY <1>1, <1>2, <2>2, <2>4
<1>6. j \in (m + 1)..L
  BY <1>1, <1>2, <1>4, <1>5
<1> QED BY <1>2, <1>4, <1>6 DEF j, L

LEMMA FunctionIsSeq ==
    ASSUME NEW S, NEW m \in Nat, NEW f, f = [i \in 1..m |-> f[i]], \A i \in 1..m : f[i] \in S
    PROVE  f \in Seq(S) /\ Len(f) = m
BY SMT

(* A clone is made of new elements.                                        *)
LEMMA CloneGood ==
    ASSUME NEW t, IsTree(t), NEW k \in 1..Len(t), NEW n \in Nat
    PROVE  GoodAfter(Clone(t, k, n), n) /\ Len(Clone(t, k, n)) >= 1
<1> DEFINE L == LastBelow(t, k)
           d == Clone(t, k, n)
           m == L - k + 1
           Par(j) == IF j = 1 THEN 0 ELSE n + t[k + j - 1].parent - k + 1
           Kid(j) == [i \in DOMAIN t[k + j - 1].kids |-> n + t[k + j - 1].kids[i] - k + 1]
           Copy(j) == [t[k + j - 1] EXCEPT !.parent = Par(j), !.kids = Kid(j)]
<1>1. L \in k..Len(t) /\ L \in Nat /\ k \in Nat /\ Len(t) \in Nat /\ IsLastBelow(t, k, L)
  BY LastBelowProperties
<1>2. m \in Nat /\ m >= 1
  BY <1>1
<1>3. d = [j \in 1..m |-> Copy(j)]
  BY DEF Clone
<1> HIDE DEF L, d
<1>4. ASSUME NEW j \in 1..m
      PROVE  /\ Copy(j) \in Nodes /\ Copy(j).parent = Par(j) /\ Copy(j).kids = Kid(j)
             /\ Len(Kid(j)) = Len(t[k + j - 1].kids)
             /\ \A i \in 1..Len(Kid(j)) : Kid(j)[i] = n + t[k + j - 1].kids[i] - k + 1
  <2> DEFINE q == k + j - 1
  <2>1. q \in k..L /\ q \in 1..Len(t) /\ q \in Nat
    BY <1>1
  <2>2. t[q] \in Nodes
    BY <2>1 DEF IsTree
  <2>3. t[q].kids \in Seq(Nat) /\ t[q].parent \in Nat
    BY <2>2, NodeType
  <2>4. \A i \in 1..Len(t[q].kids) : t[q].kids[i] \in (q + 1)..L
    BY <2>1, KidsBelow DEF L
  <2> HIDE DEF q
  <2>5. DOMAIN t[q].kids = 1..Len(t[q].kids) /\ Len(t[q].kids) \in Nat
    BY <2>3
  <2>6. \A i \in 1..Len(t[q].kids) : n + t[q].kids[i] - k + 1 \in Nat
    BY <1>1, <2>1, <2>4
  <2>8. Kid(j) = [i \in 1..Len(t[q].kids) |-> n + t[q].kids[i] - k + 1]
    BY <2>5 DEF q
  <2>9. Kid(j) \in Seq(Nat) /\ Len(Kid(j)) = Len(t[q].kids)
    <3> HIDE DEF Kid
    <3>1. /\ Kid(j) = [i \in 1..Len(t[q].kids) |-> Kid(j)[i]]
          /\ \A i \in 1..Len(t[q].kids) : Kid(j)[i] \in Nat
      BY <2>6, <2>8
    <3> QED BY <2>5, <3>1, FunctionIsSeq
  <2>10. Par(j) \in Nat
    <3>1. CASE j = 1
      BY <3>1
    <3>2. CASE j # 1
      <4>1. q \in (k + 1)..L
        BY <1>1, <2>1, <3>2 DEF q
      <4>2. t[q].parent >= k
        BY <1>1, <4>1 DEF IsLastBelow
      <4> QED BY <1>1, <2>3, <3>2, <4>2 DEF q
    <3> QED BY <3>1, <3>2
  <2> HIDE DEF Par, Kid
  <2>11. Copy(j) \in Nodes /\ Copy(j).parent = Par(j) /\ Copy(j).kids = Kid(j)
    BY <2>2, <2>9, <2>10 DEF Nodes, q
  <2>12. \A i \in 1..Len(Kid(j)) : Kid(j)[i] = n + t[q].kids[i] - k + 1
    BY <2>5, <2>8, <2>9
  <2> QED BY <2>9, <2>11, <2>12 DEF q
<1> HIDE DEF Copy, Kid
<1> HIDE DEF m
<1>5. d \in Seq(Nodes) /\ Len(d) = m /\ \A j \in 1..m : d[j] = Copy(j)
  <2>1. d = [j \in 1..m |-> d[j]] /\ \A j \in 1..m : d[j] = Copy(j)
    BY <1>3
  <2>2. \A j \in 1..m : d[j] \in Nodes
    BY <1>4, <2>1
  <2> QED BY <1>2, <2>1, <2>2, FunctionIsSeq
<1>6. ASSUME NEW j \in 1..Len(d), NEW i \in 1..Len(d[j].kids)
      PROVE  /\ d[j].kids[i] \in (n + 1)..(n + Len(d)) /\ d[d[j].kids[i] - n].parent = n + j
             /\ \A l \in 1..Len(d[j].kids) : d[j].kids[l] = d[j].kids[i] => l = i
  <2> DEFINE q == k + j - 1
             c == t[q].kids[i]
  <2>0. j \in 1..m /\ d[j] = Copy(j) /\ q \in k..L /\ q \in Nat
    BY <1>1, <1>2, <1>5 DEF m
  <2>1. /\ Len(d[j].kids) = Len(t[q].kids)
        /\ \A l \in 1..Len(d[j].kids) : d[j].kids[l] = n + t[q].kids[l] - k + 1
    <3>1. d[j].kids = Kid(j)
      BY <1>4, <2>0
    <3> QED BY <1>4, <2>0, <3>1
  <2>2. q = k + j - 1
    OBVIOUS
  <2> HIDE DEF q
  <2>3. \A l \in 1..Len(t[q].kids) : t[q].kids[l] \in (q + 1)..L
    BY <2>0, KidsBelow DEF L
  <2>4. t[c].parent = q /\ \A l \in 1..Len(t[q].kids) : t[q].kids[l] = c => l = i
    <3>1. i \in 1..Len(t[q].kids)
      BY <2>1
    <3> QED BY <2>0, <3>1, KidsBelow DEF L
  <2>5. c \in (q + 1)..L /\ d[j].kids[i] = n + c - k + 1
    BY <2>1, <2>3
  <2> HIDE DEF c
  <2>6. c - k + 1 \in 2..m /\ d[j].kids[i] - n = c - k + 1 /\ k + (c - k + 1) - 1 = c
    <3>1. c - k + 1 \in 2..m /\ (n + c - k + 1) - n = c - k + 1 /\ k + (c - k + 1) - 1 = c
      BY <1>1, <2>0, <2>5 DEF m
    <3> QED BY <2>5, <3>1
  <2>7. d[c - k + 1].parent = n + t[c].parent - k + 1
    <3> DEFINE x == c - k + 1
    <3>1. x \in 1..m /\ x # 1 /\ k + x - 1 = c
      BY <1>2, <2>6
    <3> HIDE DEF x
    <3>2. d[x].parent = Par(x)
      BY <1>4, <1>5, <3>1
    <3>3. d[x].parent = n + t[c].parent - k + 1
      BY <3>1, <3>2
    <3> QED BY <3>3 DEF x
  <2>8. n + t[c].parent - k + 1 = n + j
    BY <1>1, <2>0, <2>2, <2>4
  <2>9. ASSUME NEW l \in 1..Len(d[j].kids), d[j].kids[l] = d[j].kids[i] PROVE l = i
    <3>0. l \in 1..Len(t[q].kids)
      BY <2>1
    <3> DEFINE b == t[q].kids[l]
    <3>1. n + b - k + 1 = n + c - k + 1 /\ b \in (q + 1)..L
      BY <2>1, <2>3, <2>5, <2>9, <3>0
    <3> HIDE DEF b
    <3>2. b = c
      BY <1>1, <2>0, <2>5, <3>1
    <3> QED BY <2>4, <3>0, <3>2 DEF b
  <2>10. d[j].kids[i] \in (n + 1)..(n + Len(d))
    <3>1. n + c - k + 1 \in (n + 1)..(n + m)
      BY <1>1, <2>0, <2>5, <2>6 DEF m
    <3> QED BY <1>5, <2>5, <3>1
  <2>11. d[d[j].kids[i] - n].parent = n + j
    BY <2>6, <2>7, <2>8
  <2> QED BY <2>9, <2>10, <2>11
<1>7. GoodAfter(d, n) /\ Len(d) >= 1
  BY <1>2, <1>5, <1>6 DEF GoodAfter, m
<1> QED BY <1>7 DEF d

LEMMA AddCloneGood ==
    ASSUME NEW h, Good(h), NEW p \in 1..Len(h), NEW t, IsTree(t), NEW k \in 1..Len(t)
    PROVE  Good(AddClone(h, p, t, k)) /\ Len(AddClone(h, p, t, k)) >= Len(h)
<1> DEFINE d == Clone(t, k, Len(h))
           g == h \o d
<1>1. Len(h) \in Nat
  BY GoodType
<1>2. GoodAfter(d, Len(h)) /\ Len(d) >= 1
  BY <1>1, CloneGood
<1>3. Len(d) \in Nat
  BY <1>2, LenProperties DEF GoodAfter
<1>4. Good(g) /\ Len(g) = Len(h) + Len(d)
  BY <1>2, ExtendGood
<1> HIDE DEF g, d
<1>5. p \in 1..Len(g) /\ Len(h) + 1 \in 1..Len(g) /\ Len(g) >= Len(h)
  BY <1>1, <1>2, <1>3, <1>4
<1>6. Good(AddElement(g, p, Len(h) + 1)) /\ Len(AddElement(g, p, Len(h) + 1)) = Len(g)
  BY <1>4, <1>5, AddElementGood
<1> QED BY <1>5, <1>6 DEF AddClone, g, d

(* Shifting the numbers of an array.                                       *)
LEMMA ShiftedKids ==
    ASSUME NEW s \in Seq(Nat), NEW n \in Nat
    PROVE  /\ [i \in DOMAIN s |-> n + s[i]] \in Seq(Nat)
           /\ Len([i \in DOMAIN s |-> n + s[i]]) = Len(s)
           /\ \A i \in 1..Len(s) : [j \in DOMAIN s |-> n + s[j]][i] = n + s[i]
<1> DEFINE f == [i \in DOMAIN s |-> n + s[i]]
<1>1. DOMAIN s = 1..Len(s) /\ Len(s) \in Nat
  OBVIOUS
<1>2. \A i \in 1..Len(s) : f[i] = n + s[i] /\ f[i] \in Nat
  BY <1>1
<1>3. f = [i \in 1..Len(s) |-> f[i]]
  BY <1>1
<1> HIDE DEF f
<1>4. f \in Seq(Nat) /\ Len(f) = Len(s)
  BY <1>1, <1>2, <1>3, FunctionIsSeq
<1> QED BY <1>2, <1>4 DEF f

LEMMA ShiftInjective ==
    ASSUME NEW n \in Nat, NEW m \in Nat, NEW a \in 2..m, NEW b \in 2..m, n + a = n + b
    PROVE  a = b
OBVIOUS

LEMMA Concatenated ==
    ASSUME NEW S, NEW u \in Seq(S), NEW v \in Seq(S)
    PROVE  /\ u \o v \in Seq(S) /\ Len(u \o v) = Len(u) + Len(v)
           /\ Len(u) \in Nat /\ Len(v) \in Nat
           /\ \A i \in 1..(Len(u) + Len(v)) :
                (u \o v)[i] = IF i <= Len(u) THEN u[i] ELSE v[i - Len(u)]
BY ConcatProperties, LenProperties

(* The copies of a container's features hang below the target, at the end. *)
LEMMA CopyFeaturesGood ==
    ASSUME NEW h, Good(h), NEW c \in 1..Len(h), NEW t, IsTree(t)
    PROVE  Good(CopyFeatures(h, c, t)) /\ Len(CopyFeatures(h, c, t)) >= Len(h)
<1> DEFINE n == Len(h) - 1
           m == Len(t) - 1
           s == h[c].kids
           r == [i \in DOMAIN t[1].kids |-> n + t[1].kids[i]]
           Par(j) == IF t[j + 1].parent = 1 THEN c ELSE n + t[j + 1].parent
           Kid(j) == [i \in DOMAIN t[j + 1].kids |-> n + t[j + 1].kids[i]]
           Copy(j) == [t[j + 1] EXCEPT !.parent = Par(j), !.kids = Kid(j)]
           d == [j \in 1..m |-> Copy(j)]
           e == [h[c] EXCEPT !.kids = s \o r]
           f == [h EXCEPT ![c] = e]
           g == f \o d
<1>0. g = CopyFeatures(h, c, t)
  BY DEF CopyFeatures
<1>1. /\ Len(h) \in Nat /\ n \in Nat /\ c \in Nat /\ h[c] \in Nodes /\ s \in Seq(Nat)
      /\ Len(t) \in Nat /\ m \in Nat
  BY GoodType, TreeIsGood
<1>2. \A q \in 1..Len(t) : t[q] \in Nodes /\ t[q].parent \in Nat /\ t[q].kids \in Seq(Nat)
  BY TreeIsGood, GoodType
<1>3. \A q \in 1..Len(t) : \A i \in 1..Len(t[q].kids) :
        /\ t[q].kids[i] \in (q + 1)..Len(t) /\ t[t[q].kids[i]].parent = q
        /\ \A l \in 1..Len(t[q].kids) : t[q].kids[l] = t[q].kids[i] => l = i
  <2> TAKE q \in 1..Len(t)
  <2> TAKE i \in 1..Len(t[q].kids)
  <2>1. LastBelow(t, q) \in q..Len(t) /\ q \in q..LastBelow(t, q) /\ LastBelow(t, q) \in Nat
    BY LastBelowProperties
  <2>2. /\ t[q].kids[i] \in (q + 1)..LastBelow(t, q) /\ t[t[q].kids[i]].parent = q
        /\ \A l \in 1..Len(t[q].kids) : t[q].kids[l] = t[q].kids[i] => l = i
    BY <2>1, KidsBelow
  <2>3. (q + 1)..LastBelow(t, q) \subseteq (q + 1)..Len(t)
    BY <1>1, <2>1
  <2> QED BY <2>2, <2>3
<1>4. 1 \in 1..Len(t) /\ \A j \in 1..m : j + 1 \in 1..Len(t) /\ j \in Nat
  BY <1>1
<1>5. r \in Seq(Nat) /\ Len(r) = Len(t[1].kids) /\ \A i \in 1..Len(r) : r[i] = n + t[1].kids[i]
  BY <1>1, <1>2, <1>4, ShiftedKids
<1>6. \A j \in 1..m :
        /\ Kid(j) \in Seq(Nat) /\ Len(Kid(j)) = Len(t[j + 1].kids)
        /\ \A i \in 1..Len(Kid(j)) : Kid(j)[i] = n + t[j + 1].kids[i]
  BY <1>1, <1>2, <1>4, ShiftedKids
<1> HIDE DEF r, Kid
<1>7. \A j \in 1..m : Copy(j) \in Nodes /\ Copy(j).parent = Par(j) /\ Copy(j).kids = Kid(j)
  <2> TAKE j \in 1..m
  <2>1. Par(j) \in Nat /\ t[j + 1] \in Nodes
    BY <1>1, <1>2, <1>4
  <2> HIDE DEF Par
  <2> QED BY <1>6, <2>1 DEF Nodes
<1> HIDE DEF Copy, m
<1>8. d \in Seq(Nodes) /\ Len(d) = m /\ \A j \in 1..m : d[j] = Copy(j)
  <2>1. d = [j \in 1..m |-> d[j]] /\ \A j \in 1..m : d[j] = Copy(j)
    OBVIOUS
  <2> HIDE DEF d
  <2> QED BY <1>1, <1>7, <2>1, FunctionIsSeq
<1> HIDE DEF d
<1>9. /\ s \o r \in Seq(Nat) /\ Len(s \o r) = Len(s) + Len(r) /\ Len(s) \in Nat /\ Len(r) \in Nat
      /\ \A i \in 1..(Len(s) + Len(r)) : (s \o r)[i] = IF i <= Len(s) THEN s[i] ELSE r[i - Len(s)]
  <2> HIDE DEF s
  <2>1. s \in Seq(Nat) /\ r \in Seq(Nat)
    BY <1>1, <1>5
  <2> QED BY <2>1, Concatenated
<1>10. e \in Nodes /\ e.parent = h[c].parent /\ e.kids = s \o r
  BY <1>1, <1>9 DEF Nodes
<1> HIDE DEF e
<1>11. /\ f \in Seq(Nodes) /\ Len(f) = Len(h)
       /\ \A q \in 1..Len(h) : f[q] = IF q = c THEN e ELSE h[q]
  BY <1>10, GoodType
<1> HIDE DEF f
<1>12. /\ g \in Seq(Nodes) /\ Len(g) = Len(h) + m
       /\ \A q \in 1..(Len(h) + m) : g[q] = IF q <= Len(h) THEN f[q] ELSE d[q - Len(h)]
  <2>1. /\ f \o d \in Seq(Nodes) /\ Len(f \o d) = Len(f) + Len(d)
        /\ \A q \in 1..(Len(f) + Len(d)) : (f \o d)[q] = IF q <= Len(f) THEN f[q] ELSE d[q - Len(f)]
    <3>1. f \in Seq(Nodes) /\ d \in Seq(Nodes)
      BY <1>8, <1>11
    <3> QED BY <3>1, Concatenated
  <2>2. Len(f) = Len(h) /\ Len(d) = m
    BY <1>8, <1>11
  <2> QED BY <2>1, <2>2
<1> HIDE DEF g
<1>13. \A q \in 1..Len(h) :
         g[q].parent = h[q].parent /\ g[q].kids = IF q = c THEN s \o r ELSE h[q].kids
  <2> TAKE q \in 1..Len(h)
  <2>1. q \in 1..(Len(h) + m) /\ q <= Len(h)
    BY <1>1
  <2> QED BY <1>10, <1>11, <1>12, <2>1
<1>14. \A j \in 1..m : g[Len(h) + j] = Copy(j)
  <2> TAKE j \in 1..m
  <2>1. Len(h) + j \in 1..(Len(h) + m) /\ ~(Len(h) + j <= Len(h)) /\ (Len(h) + j) - Len(h) = j
    BY <1>1
  <2> QED BY <1>8, <1>12, <2>1
(* The copy of node x of the tree is element n + x of the heap.            *)
<1>15. ASSUME NEW x \in 2..Len(t)
       PROVE  /\ n + x \in (Len(h) + 1)..Len(g)
              /\ g[n + x].parent = IF t[x].parent = 1 THEN c ELSE n + t[x].parent
  <2>1. x - 1 \in 1..m /\ Len(h) + (x - 1) = n + x /\ (x - 1) + 1 = x
    BY <1>1 DEF m
  <2>2. g[n + x] = Copy(x - 1) /\ Copy(x - 1).parent = Par(x - 1)
    BY <1>7, <1>14, <2>1
  <2>3. n + x \in (Len(h) + 1)..Len(g)
    BY <1>1, <1>12, <2>1
  <2> QED BY <2>1, <2>2, <2>3
<1> DEFINE Fine(q, i) == /\ g[q].kids[i] \in 1..Len(g) /\ g[g[q].kids[i]].parent = q
                         /\ \A l \in 1..Len(g[q].kids) : g[q].kids[l] = g[q].kids[i] => l = i
<1>16. ASSUME NEW q \in 1..Len(h), q # c, NEW i \in 1..Len(g[q].kids) PROVE Fine(q, i)
  <2>1. g[q].kids = h[q].kids
    BY <1>13, <1>16
  <2>2. /\ h[q].kids[i] \in 1..Len(h) /\ h[h[q].kids[i]].parent = q
        /\ \A l \in 1..Len(h[q].kids) : h[q].kids[l] = h[q].kids[i] => l = i
    BY <2>1 DEF Good
  <2>3. 1..Len(h) \subseteq 1..Len(g)
    BY <1>1, <1>12
  <2> QED BY <1>13, <2>1, <2>2, <2>3
<1>17. ASSUME NEW i \in 1..Len(g[c].kids) PROVE Fine(c, i)
  <2> DEFINE v == s \o r
  <2>1. g[c].kids = v
    BY <1>13
  <2>2. \A l \in 1..Len(v) : l <= Len(s) =>
          /\ l \in 1..Len(s) /\ v[l] = s[l] /\ v[l] \in 1..Len(h) /\ g[v[l]].parent = c
    <3> TAKE l \in 1..Len(v)
    <3> HAVE l <= Len(s)
    <3>1. l \in 1..Len(s) /\ v[l] = s[l]
      BY <1>9
    <3>2. s[l] \in 1..Len(h) /\ h[s[l]].parent = c
      BY <3>1 DEF Good
    <3> QED BY <1>13, <3>1, <3>2
  <2>3. \A l \in 1..Len(v) : ~(l <= Len(s)) =>
          /\ l - Len(s) \in 1..Len(t[1].kids) /\ v[l] = n + t[1].kids[l - Len(s)]
          /\ v[l] \in (Len(h) + 1)..Len(g) /\ g[v[l]].parent = c
    <3> TAKE l \in 1..Len(v)
    <3> HAVE ~(l <= Len(s))
    <3> DEFINE k == l - Len(s)
    <3>1. k \in 1..Len(r) /\ v[l] = r[k]
      BY <1>9
    <3> HIDE DEF k
    <3>2. k \in 1..Len(t[1].kids) /\ v[l] = n + t[1].kids[k]
      BY <1>5, <3>1
    <3>3. t[1].kids[k] \in 2..Len(t) /\ t[t[1].kids[k]].parent = 1
      BY <1>3, <1>4, <3>2
    <3>4. v[l] \in (Len(h) + 1)..Len(g) /\ g[v[l]].parent = c
      BY <1>15, <3>2, <3>3
    <3> QED BY <3>2, <3>4 DEF k
  <2> HIDE DEF v
  <2>4. ASSUME NEW l \in 1..Len(v), NEW k \in 1..Len(v), v[l] = v[k] PROVE l = k
    <3>0. Len(v) \in Nat
      BY <1>9 DEF v
    <3>1. CASE l <= Len(s) /\ k <= Len(s)
      BY <2>2, <2>4, <3>1 DEF Good
    <3>2. CASE l <= Len(s) /\ ~(k <= Len(s))
      <4>1. v[l] \in 1..Len(h) /\ v[l] \in (Len(h) + 1)..Len(g)
        BY <2>2, <2>3, <2>4, <3>2
      <4> QED BY <1>1, <4>1
    <3>3. CASE ~(l <= Len(s)) /\ k <= Len(s)
      <4>1. v[k] \in 1..Len(h) /\ v[k] \in (Len(h) + 1)..Len(g)
        BY <2>2, <2>3, <2>4, <3>3
      <4> QED BY <1>1, <4>1
    <3>4. CASE ~(l <= Len(s)) /\ ~(k <= Len(s))
      <4> DEFINE a == l - Len(s)
                 b == k - Len(s)
      <4>1. /\ a \in 1..Len(t[1].kids) /\ b \in 1..Len(t[1].kids)
            /\ n + t[1].kids[a] = n + t[1].kids[b]
        BY <2>3, <2>4, <3>4
      <4> HIDE DEF a, b
      <4>2. t[1].kids[a] \in 2..Len(t) /\ t[1].kids[b] \in 2..Len(t)
        BY <1>3, <1>4, <4>1, SMTT(40)
      <4>3. t[1].kids[a] = t[1].kids[b]
        BY <1>1, <4>1, <4>2, ShiftInjective
      <4>4. a = b
        BY <1>3, <1>4, <4>1, <4>3
      <4> QED BY <1>9, <3>0, <4>4 DEF a, b
    <3> QED BY <3>1, <3>2, <3>3, <3>4
  <2>5. v[i] \in 1..Len(g) /\ g[v[i]].parent = c
    <3>1. i \in 1..Len(v)
      BY <2>1
    <3>2. 1..Len(h) \subseteq 1..Len(g) /\ (Len(h) + 1)..Len(g) \subseteq 1..Len(g)
      BY <1>1, <1>12
    <3> QED BY <2>2, <2>3, <3>1, <3>2
  <2> QED BY <2>1, <2>4, <2>5
<1>18. ASSUME NEW q \in (Len(h) + 1)..Len(g), NEW i \in 1..Len(g[q].kids) PROVE Fine(q, i)
  <2> DEFINE j == q - Len(h)
             x == j + 1
  <2>1. j \in 1..m /\ Len(h) + j = q /\ x \in 2..Len(t) /\ n + x = q
    BY <1>1, <1>12 DEF m
  <2>2. g[q].kids = Kid(j)
    BY <1>7, <1>14, <2>1
  <2>3. /\ Len(g[q].kids) = Len(t[x].kids)
        /\ \A l \in 1..Len(g[q].kids) : g[q].kids[l] = n + t[x].kids[l]
    BY <1>6, <2>1, <2>2
  <2> HIDE DEF j, x
  <2>4. x \in 1..Len(t)
    BY <1>1, <2>1
  <2>5. \A l \in 1..Len(t[x].kids) : t[x].kids[l] \in 2..Len(t) /\ t[t[x].kids[l]].parent = x
    <3> TAKE l \in 1..Len(t[x].kids)
    <3>1. t[x].kids[l] \in (x + 1)..Len(t) /\ t[t[x].kids[l]].parent = x
      BY <1>3, <2>4
    <3>2. (x + 1)..Len(t) \subseteq 2..Len(t)
      BY <1>1, <2>1
    <3> QED BY <3>1, <3>2
  <2>6. g[q].kids[i] \in 1..Len(g) /\ g[g[q].kids[i]].parent = q
    <3>1. /\ g[q].kids[i] = n + t[x].kids[i]
          /\ t[x].kids[i] \in 2..Len(t) /\ t[t[x].kids[i]].parent = x /\ x # 1
      BY <1>1, <2>1, <2>3, <2>5
    <3>2. /\ n + t[x].kids[i] \in (Len(h) + 1)..Len(g)
          /\ g[n + t[x].kids[i]].parent = n + x
      BY <1>15, <3>1
    <3>3. (Len(h) + 1)..Len(g) \subseteq 1..Len(g)
      BY <1>1
    <3> QED BY <2>1, <3>1, <3>2, <3>3
  <2>7. ASSUME NEW l \in 1..Len(g[q].kids), g[q].kids[l] = g[q].kids[i] PROVE l = i
    <3>1. /\ n + t[x].kids[l] = n + t[x].kids[i]
          /\ t[x].kids[l] \in 2..Len(t) /\ t[x].kids[i] \in 2..Len(t)
      BY <2>3, <2>5, <2>7
    <3>2. t[x].kids[l] = t[x].kids[i]
      BY <1>1, <3>1, ShiftInjective
    <3> QED BY <1>3, <2>3, <2>4, <3>2
  <2> QED BY <2>6, <2>7
<1>19. \A q \in 1..Len(g) : \A i \in 1..Len(g[q].kids) : Fine(q, i)
  <2> TAKE q \in 1..Len(g)
  <2>1. q \in 1..Len(h) \/ q \in (Len(h) + 1)..Len(g)
    BY <1>1, <1>12
  <2> HIDE DEF Fine
  <2> QED BY <1>16, <1>17, <1>18, <2>1
<1>20. Good(g) /\ Len(g) >= Len(h)
  BY <1>1, <1>12, <1>19 DEF Good
<1> QED BY <1>0, <1>20

-----------------------------------------------------------------------------
(* What is reached.  The least set with the roots that has the children of *)
(* its elements; t may be a heap, or the tree that is seen of one.         *)
Closed(t, S) == \A o \in S : Range(t[o].kids) \subseteq S

IsClosure(t, roots, S) ==
  /\ roots \subseteq S /\ Closed(t, S)
  /\ \A T : roots \subseteq T /\ Closed(t, T) => S \subseteq T

Spread(t, s) == s \cup UNION {Range(t[o].kids) : o \in s}

SpreadsUpTo(t, roots, n, f) ==
  f = [k \in 0..n |-> IF k = 0 THEN roots ELSE Spread(t, f[k - 1])]

LEMMA SpreadExists ==
    ASSUME NEW t, NEW roots, NEW n \in Nat
    PROVE  \E f : SpreadsUpTo(t, roots, n, f)
<1> DEFINE Is(f, m) == SpreadsUpTo(t, roots, m, f)
           T == {m \in Nat : ~ \E f : Is(f, m)}
<1> SUFFICES T = {}
  OBVIOUS
<1> SUFFICES ASSUME T # {} PROVE FALSE
  OBVIOUS
<1>1. PICK m \in T : \A i \in T : m <= i
  BY SmallestNat
<1>2. CASE m = 0
  <2> DEFINE f == [k \in 0..0 |-> roots]
  <2>1. Is(f, 0)
    BY DEF SpreadsUpTo
  <2> QED BY <1>1, <1>2, <2>1
<1>3. CASE m # 0
  <2>0. m \in Nat
    OBVIOUS
  <2>1. m - 1 \in Nat /\ m - 1 \notin T
    <3> HIDE DEF T
    <3> QED BY <1>1, <1>3, <2>0
  <2>2. PICK f : Is(f, m - 1)
    BY <2>1
  <2> DEFINE last == Spread(t, f[m - 1])
             g == [k \in 0..m |-> IF k = m THEN last ELSE f[k]]
  <2>3. ASSUME NEW k \in 0..m
        PROVE  g[k] = IF k = 0 THEN roots ELSE Spread(t, g[k - 1])
    <3>1. CASE k = m
      <4>1. g[k] = last /\ g[k - 1] = f[m - 1]
        BY <1>1, <1>3, <3>1
      <4> QED BY <1>3, <3>1, <4>1
    <3>2. CASE k # m
      <4>1. k \in 0..(m - 1) /\ g[k] = f[k]
        BY <1>1, <3>2
      <4>2. k # 0 => k - 1 \in 0..m /\ k - 1 # m
        BY <1>1
      <4>3. k # 0 => g[k - 1] = f[k - 1]
        BY <4>2
      <4>4. f[k] = IF k = 0 THEN roots ELSE Spread(t, f[k - 1])
        BY <2>2, <4>1 DEF SpreadsUpTo
      <4> HIDE DEF g
      <4> QED BY <4>1, <4>3, <4>4
    <3> QED BY <3>1, <3>2
  <2>4. g = [k \in 0..m |-> g[k]]
    OBVIOUS
  <2> HIDE DEF g
  <2>5. Is(g, m)
    BY <2>3, <2>4 DEF SpreadsUpTo
  <2> QED BY <1>1, <2>5
<1> QED BY <1>2, <1>3

(* A step that adds nothing has reached the end, one that does makes the   *)
(* set larger: after as many as there are elements it is closed.           *)
LEMMA SpreadCloses ==
    ASSUME NEW t, NEW D, IsFiniteSet(D), NEW n \in Nat, n = Cardinality(D), Closed(t, D),
           NEW roots \in SUBSET D, NEW f, SpreadsUpTo(t, roots, n, f)
    PROVE  IsClosure(t, roots, f[n]) /\ f[n] \subseteq D
<1>1. \A k \in 0..n : f[k] = IF k = 0 THEN roots ELSE Spread(t, f[k - 1])
  BY DEF SpreadsUpTo
<1>2. f[0] = roots /\ \A k \in 1..n : f[k] = Spread(t, f[k - 1]) /\ k - 1 \in 0..n
  <2>1. 0 \in 0..n /\ \A k \in 1..n : k \in 0..n /\ k # 0 /\ k - 1 \in 0..n
    OBVIOUS
  <2> QED BY <1>1, <2>1
<1> DEFINE P(k) == /\ roots \subseteq f[k] /\ f[k] \subseteq D
                   /\ \A T : roots \subseteq T /\ Closed(t, T) => f[k] \subseteq T
                   /\ Closed(t, f[k]) \/ Cardinality(f[k]) >= k
           Bad == {k \in 0..n : ~ P(k)}
<1>3. P(0)
  <2>1. IsFiniteSet(roots) /\ Cardinality(roots) \in Nat
    BY FS_Subset, FS_CardinalityType
  <2> QED BY <1>2, <2>1
<1>4. ASSUME NEW k \in 1..n, P(k - 1) PROVE P(k)
  <2> DEFINE s == f[k - 1]
             u == f[k]
  <2>1. u = s \cup UNION {Range(t[o].kids) : o \in s}
    BY <1>2 DEF Spread
  <2>2. /\ roots \subseteq s /\ s \subseteq D
        /\ \A T : roots \subseteq T /\ Closed(t, T) => s \subseteq T
        /\ Closed(t, s) \/ Cardinality(s) >= k - 1
    BY <1>4
  <2> HIDE DEF s, u
  <2>3. roots \subseteq u /\ u \subseteq D
    BY <2>1, <2>2 DEF Closed
  <2>4. \A T : roots \subseteq T /\ Closed(t, T) => u \subseteq T
    BY <2>1, <2>2 DEF Closed
  <2>5. CASE Closed(t, s)
    <3>1. u = s
      BY <2>1, <2>5 DEF Closed
    <3> QED BY <2>3, <2>4, <2>5, <3>1 DEF u
  <2>6. CASE ~ Closed(t, s)
    <3>1. PICK o \in s : ~ (Range(t[o].kids) \subseteq s)
      BY <2>6 DEF Closed
    <3>2. PICK x \in u : x \notin s
      BY <2>1, <3>1
    <3>3. IsFiniteSet(u) /\ IsFiniteSet(s) /\ s \subseteq u \ {x}
      BY <2>1, <2>2, <2>3, <3>2, FS_Subset
    <3>4. /\ IsFiniteSet(u \ {x}) /\ Cardinality(u \ {x}) = Cardinality(u) - 1
      BY <3>2, <3>3, FS_RemoveElement
    <3>5. Cardinality(s) <= Cardinality(u \ {x})
      BY <3>3, <3>4, FS_Subset
    <3>6. Cardinality(s) \in Nat /\ Cardinality(u) \in Nat
      BY <3>3, FS_CardinalityType
    <3>7. Cardinality(u) >= k
      BY <2>2, <2>6, <3>4, <3>5, <3>6
    <3> QED BY <2>3, <2>4, <3>7 DEF u
  <2> QED BY <2>5, <2>6
<1> HIDE DEF P
<1>5. Bad = {}
  <2> SUFFICES ASSUME Bad # {} PROVE FALSE
    OBVIOUS
  <2>1. PICK k \in Bad : \A i \in Bad : k <= i
    <3>1. Bad \in SUBSET Nat
      OBVIOUS
    <3> HIDE DEF Bad
    <3> QED BY <3>1, SmallestNat
  <2>2. k \in 0..n /\ ~ P(k)
    BY <2>1
  <2>3. k # 0
    BY <1>3, <2>2
  <2>4. k \in 1..n /\ k - 1 \in 0..n
    BY <2>2, <2>3
  <2>5. ~ P(k - 1)
    BY <1>4, <2>2, <2>4
  <2>6. k - 1 \in Bad
    BY <2>4, <2>5
  <2> HIDE DEF Bad
  <2>7. k <= k - 1
    BY <2>1, <2>6
  <2> QED BY <2>2, <2>7
<1>6. P(n)
  BY <1>5
<1>7. Closed(t, f[n])
  <2>1. CASE Cardinality(f[n]) >= n
    <3>1. IsFiniteSet(f[n]) /\ Cardinality(f[n]) \in Nat /\ f[n] \subseteq D
      BY <1>6, FS_Subset, FS_CardinalityType DEF P
    <3>2. Cardinality(f[n]) <= n
      BY <1>6, FS_Subset DEF P
    <3>3. f[n] = D
      BY <2>1, <3>1, <3>2, FS_Subset
    <3> QED BY <3>3
  <2> QED BY <1>6, <2>1 DEF P
<1> QED BY <1>6, <1>7 DEF P, IsClosure

LEMMA ClosureIsOne ==
    ASSUME NEW t, NEW roots, NEW S, NEW T, IsClosure(t, roots, S), IsClosure(t, roots, T)
    PROVE  S = T
BY DEF IsClosure

(* The heap's elements have children in the heap.                          *)
LEMMA ReachedIsClosure ==
    ASSUME NEW h, Good(h), NEW roots \in SUBSET (1..Len(h))
    PROVE  IsClosure(h, roots, Reached(h, roots)) /\ Reached(h, roots) \subseteq 1..Len(h)
<1> DEFINE n == Len(h)
           Is(f) == SpreadsUpTo(h, roots, n, f)
           reached == CHOOSE f : Is(f)
<1>1. n \in Nat /\ DOMAIN h = 1..n
  BY GoodType
<1>2. Is(reached)
  BY <1>1, SpreadExists
<1>3. Reached(h, roots) = reached[n]
  BY DEF Reached, SpreadsUpTo, Spread
<1> HIDE DEF reached
<1>4. Closed(h, 1..n)
  <2> SUFFICES ASSUME NEW o \in 1..n, NEW x \in Range(h[o].kids) PROVE x \in 1..n
    BY DEF Closed
  <2>1. PICK k \in DOMAIN h[o].kids : x = h[o].kids[k]
    BY DEF Range
  <2>2. k \in 1..Len(h[o].kids)
    BY <2>1, GoodType
  <2> QED BY <2>1, <2>2 DEF Good
<1>5. IsFiniteSet(1..n) /\ Cardinality(1..n) = n
  <2>1. 1 \in Int /\ n \in Int /\ (1 > n => n = 0) /\ n - 1 + 1 = n
    BY <1>1
  <2> HIDE DEF n
  <2>2. /\ IsFiniteSet(1..n)
        /\ Cardinality(1..n) = IF 1 > n THEN 0 ELSE n - 1 + 1
    BY <2>1, FS_Interval
  <2> QED BY <2>1, <2>2
<1>6. IsClosure(h, roots, reached[n]) /\ reached[n] \subseteq 1..n
  BY <1>1, <1>2, <1>4, <1>5, SpreadCloses
<1> QED BY <1>3, <1>6

-----------------------------------------------------------------------------
(* A merge knows its source and, for every node it came by, the element it *)
(* was merged into and the children that one had.                          *)
WorkGood(w, n) ==
  \/ w = Idle
  \/ /\ w = [src |-> w.src, into |-> w.into, seen |-> w.seen]
     /\ w.src \in Changes
     /\ w.into \in Seq(0..n) /\ w.seen \in Seq(Seq(1..n))
     /\ Len(w.into) = Len(w.seen) /\ Len(w.into) >= 1

IInv ==
  /\ Good(heap) /\ Len(heap) >= 1
  /\ \A i \in DOMAIN idMap : idMap[i] \in 1..Len(heap)
  /\ held \cup dropped \subseteq 1..Len(heap)
  /\ WorkGood(work, Len(heap))

LEMMA WorkGrows ==
    ASSUME NEW w, NEW m \in Nat, NEW n \in Nat, m <= n, WorkGood(w, m)
    PROVE  WorkGood(w, n)
<1>1. 0..m \subseteq 0..n /\ 1..m \subseteq 1..n
  OBVIOUS
<1>2. Seq(0..m) \subseteq Seq(0..n) /\ Seq(1..m) \subseteq Seq(1..n)
  BY <1>1, SeqMonotonic
<1>3. Seq(Seq(1..m)) \subseteq Seq(Seq(1..n))
  BY <1>2, SeqMonotonic
<1> QED BY <1>2, <1>3 DEF WorkGood

(* Steps that leave the map and the merge alone.                           *)
LEMMA HeapGrows ==
    ASSUME IInv, Good(heap'), Len(heap') >= Len(heap), UNCHANGED <<idMap, work>>,
           held' \cup dropped' \subseteq held \cup dropped \cup 1..Len(heap')
    PROVE  IInv'
<1>1. Len(heap) \in Nat /\ Len(heap') \in Nat
  BY GoodType DEF IInv
<1>0. held' \cup dropped' \subseteq 1..Len(heap')
  <2>1. 1..Len(heap) \subseteq 1..Len(heap')
    BY <1>1
  <2> QED BY <2>1 DEF IInv
<1>2. WorkGood(work, Len(heap'))
  BY <1>1, WorkGrows DEF IInv
<1>3. \A i \in DOMAIN idMap : idMap[i] \in 1..Len(heap')
  BY <1>1 DEF IInv
<1> QED BY <1>0, <1>1, <1>2, <1>3 DEF IInv

LEMMA KidsKnown ==
    ASSUME NEW h, Good(h), NEW o \in 1..Len(h)
    PROVE  h[o].kids \in Seq(1..Len(h))
<1> DEFINE s == h[o].kids
<1>1. s \in Seq(Nat) /\ Len(s) \in Nat
  BY GoodType
<1>2. s = [i \in 1..Len(s) |-> s[i]] /\ \A i \in 1..Len(s) : s[i] \in 1..Len(h)
  BY <1>1 DEF Good
<1> HIDE DEF s
<1>3. s \in Seq(1..Len(h))
  BY <1>1, <1>2, FunctionIsSeq
<1> QED BY <1>3 DEF s

LEMMA MergeFieldsGood ==
    ASSUME NEW h, Good(h), NEW o \in 1..Len(h), NEW node \in Nodes
    PROVE  /\ Good([h EXCEPT ![o] = MergeFields(@, node)])
           /\ Len([h EXCEPT ![o] = MergeFields(@, node)]) = Len(h)
<1> DEFINE e == MergeFields(h[o], node)
<1>1. h[o] \in Nodes /\ h \in Seq(Nodes)
  BY GoodType
<1>2. e \in Nodes /\ e.parent = h[o].parent /\ e.kids = h[o].kids
  BY <1>1 DEF MergeFields, Nodes
<1> HIDE DEF e
<1>3. Good([h EXCEPT ![o] = e]) /\ Len([h EXCEPT ![o] = e]) = Len(h)
  BY <1>1, <1>2, RelabelGood
<1> QED BY <1>3 DEF e

LEMMA SetKidsEmptyGood ==
    ASSUME NEW h, Good(h), NEW p
    PROVE  /\ Good([h EXCEPT ![p].kids = << >>])
           /\ Len([h EXCEPT ![p].kids = << >>]) = Len(h)
<1> DEFINE g == [h EXCEPT ![p].kids = << >>]
           e == [h[p] EXCEPT !.kids = << >>]
<1>1. CASE p \in 1..Len(h)
  <2>1. h[p] \in Nodes /\ h \in Seq(Nodes) /\ Len(h) \in Nat
    BY <1>1, GoodType
  <2>2. e \in Nodes /\ e.parent = h[p].parent /\ e.kids = << >>
    <3>1. << >> \in Seq(Nat)
      OBVIOUS
    <3> DEFINE none == << >>
    <3> HIDE DEF none
    <3>2. /\ none \in Seq(Nat) => [h[p] EXCEPT !.kids = none] \in Nodes
          /\ [h[p] EXCEPT !.kids = none].parent = h[p].parent
          /\ [h[p] EXCEPT !.kids = none].kids = none
      BY <2>1 DEF Nodes
    <3> QED BY <3>1, <3>2 DEF none
  <2>3. g = [h EXCEPT ![p] = e]
    OBVIOUS
  <2> HIDE DEF e
  <2>4. /\ g \in Seq(Nodes) /\ Len(g) = Len(h)
        /\ \A q \in 1..Len(h) : g[q] = IF q = p THEN e ELSE h[q]
    BY <1>1, <2>1, <2>2, <2>3
  <2> HIDE DEF g
  <2>5. \A q \in 1..Len(h) : /\ g[q].parent = h[q].parent
                             /\ g[q].kids = IF q = p THEN << >> ELSE h[q].kids
    BY <2>2, <2>4
  <2>6. \A q \in 1..Len(g) : \A k \in 1..Len(g[q].kids) :
          q \in 1..Len(h) /\ k \in 1..Len(h[q].kids) /\ g[q].kids = h[q].kids
    BY <2>4, <2>5
  <2> QED BY <2>4, <2>5, <2>6 DEF Good, g
<1>2. CASE ~(p \in 1..Len(h))
  <2>1. h \in Seq(Nodes) /\ DOMAIN h = 1..Len(h)
    BY GoodType
  <2>2. g = h
    BY <1>2, <2>1
  <2> QED BY <2>2
<1> QED BY <1>1, <1>2

(* The map that is made when the file is read gives an element of that id. *)
LEMMA MapAtFirst ==
    ASSUME Init, NEW i \in DOMAIN idMap
    PROVE  idMap[i] \in 1..Len(heap) /\ heap[idMap[i]].id = i /\ i # NoId
<1> DEFINE S == {k \in DOMAIN heap : heap[k].id = i}
           T == {Len(heap) - k : k \in S}
<1>1. IsTree(heap)
  BY TreesAssumption DEF Init
<1>2. Good(heap) /\ Len(heap) \in Nat \ {0} /\ DOMAIN heap = 1..Len(heap)
  BY <1>1, TreeIsGood, GoodType
<1>3. /\ i # NoId
      /\ idMap[i] = CHOOSE k \in DOMAIN heap :
                     heap[k].id = i /\ \A l \in (k + 1)..Len(heap) : heap[l].id # i
  BY DEF Init, MapIds
<1>4. S # {}
  BY DEF Init, MapIds
<1>5. T \in SUBSET Nat /\ T # {}
  BY <1>2, <1>4
<1>6. PICK k \in S : \A l \in S : Len(heap) - k <= Len(heap) - l
  <2>1. PICK n \in T : \A l \in T : n <= l
    BY <1>5, SmallestNat
  <2> QED BY <2>1
<1>7. k \in DOMAIN heap /\ heap[k].id = i /\ \A l \in (k + 1)..Len(heap) : heap[l].id # i
  BY <1>2, <1>6
<1> HIDE DEF S, T
<1>8. idMap[i] \in DOMAIN heap /\ heap[idMap[i]].id = i
  BY <1>3, <1>7
<1> QED BY <1>2, <1>3, <1>8

LEMMA InitIInv == Init => IInv
<1> SUFFICES ASSUME Init PROVE IInv
  OBVIOUS
<1>1. IsTree(heap)
  BY TreesAssumption DEF Init
<1>2. Good(heap) /\ Len(heap) \in Nat \ {0} /\ DOMAIN heap = 1..Len(heap)
  BY <1>1, TreeIsGood, GoodType
<1>3. ASSUME NEW i \in DOMAIN idMap PROVE idMap[i] \in 1..Len(heap)
  BY MapAtFirst
<1>4. WorkGood(work, Len(heap))
  BY DEF Init, WorkGood
<1>5. held \cup dropped \subseteq 1..Len(heap)
  BY DEF Init
<1> QED BY <1>2, <1>3, <1>4, <1>5 DEF IInv

LEMMA ChangeIInv == ASSUME IInv, NEW src \in Changes, NEW map, Change(src, map) PROVE IInv'
<1> DEFINE i == GetTargetId(map, src[1].targetId)
           o == idMap[i]
<1>1. CASE ~(i \in DOMAIN idMap)
  <2>1. UNCHANGED <<heap, idMap, held, dropped, work>>
    BY <1>1 DEF Change
  <2> QED BY <2>1 DEF IInv
<1>2. CASE i \in DOMAIN idMap
  <2>1. src[1] \in Nodes /\ o \in 1..Len(heap) /\ Good(heap) /\ Len(heap) \in Nat
    BY <1>2, TreesAssumption, TreeIsGood, GoodType DEF IInv
  <2>2. /\ heap' = [heap EXCEPT ![o] = MergeFields(@, src[1])]
        /\ work' = [src |-> src, into |-> <<o>>, seen |-> <<heap[o].kids>>]
        /\ idMap' = idMap /\ held' = held /\ dropped' = dropped
    BY <1>2 DEF Change
  <2>3. Good(heap') /\ Len(heap') = Len(heap)
    BY <2>1, <2>2, MergeFieldsGood
  <2>4. heap[o].kids \in Seq(1..Len(heap))
    BY <2>1, KidsKnown
  <2>5. /\ <<o>> \in Seq(0..Len(heap)) /\ <<heap[o].kids>> \in Seq(Seq(1..Len(heap)))
        /\ Len(<<o>>) = 1 /\ Len(<<heap[o].kids>>) = 1
    <3> DEFINE n == Len(heap)
               s == heap[o].kids
    <3>1. o \in 0..n /\ s \in Seq(1..n)
      BY <2>1, <2>4
    <3> HIDE DEF n, s, o
    <3>2. <<o>> \in Seq(0..n) /\ <<s>> \in Seq(Seq(1..n)) /\ Len(<<o>>) = 1 /\ Len(<<s>>) = 1
      BY <3>1
    <3> QED BY <3>2 DEF n, s
  <2>6. WorkGood(work', Len(heap))
    BY <2>2, <2>5 DEF WorkGood
  <2> QED BY <2>2, <2>3, <2>6 DEF IInv
<1> QED BY <1>1, <1>2

(* One more node of a merge.                                               *)
LEMMA VisitedGood ==
    ASSUME IInv, work # Idle, NEW o \in 0..Len(heap), Visited(o)
    PROVE  WorkGood(work', Len(heap))
<1> DEFINE s == IF o = 0 THEN << >> ELSE heap[o].kids
           n == Len(heap)
<1>1. /\ work = [src |-> work.src, into |-> work.into, seen |-> work.seen]
      /\ work.src \in Changes
      /\ work.into \in Seq(0..n) /\ work.seen \in Seq(Seq(1..n))
      /\ Len(work.into) = Len(work.seen) /\ Len(work.into) \in Nat /\ Len(work.into) >= 1
      /\ Good(heap) /\ n \in Nat
  BY GoodType, LenProperties DEF IInv, WorkGood
<1>2. s \in Seq(1..n)
  <2>1. CASE o = 0
    BY <2>1
  <2>2. CASE o # 0
    <3>1. o \in 1..Len(heap)
      BY <1>1, <2>2
    <3> QED BY <1>1, <2>2, <3>1, KidsKnown
  <2> QED BY <2>1, <2>2
<1>3. work' = [src |-> work.src, into |-> Append(work.into, o), seen |-> Append(work.seen, s)]
  BY <1>1 DEF Visited
<1> HIDE DEF s, n
<1>4. /\ Append(work.into, o) \in Seq(0..n) /\ Len(Append(work.into, o)) = Len(work.into) + 1
      /\ Append(work.seen, s) \in Seq(Seq(1..n)) /\ Len(Append(work.seen, s)) = Len(work.seen) + 1
  BY <1>1, <1>2, AppendProperties DEF n
<1> QED BY <1>1, <1>3, <1>4 DEF WorkGood, n

LEMMA MergeElementsIInv == ASSUME IInv, MergeElements PROVE IInv'
<1> DEFINE node == work.src[Node]
           p == node.parent
           n == Len(heap)
           kids == work.seen[p]
           same == Matches(kids, node.kind)
           k == CHOOSE k \in same : \A l \in same : k <= l
<1>1. /\ work # Idle /\ Node <= Len(work.src)
      /\ idMap' = idMap /\ held' = held /\ dropped' = dropped
      /\ \/ Visited(0) /\ UNCHANGED heap
         \/ /\ Into # 0 /\ same # {} /\ Visited(kids[k])
            /\ heap' = [heap EXCEPT ![kids[k]] = MergeFields(@, node)]
         \/ /\ Into # 0 /\ Visited(0)
            /\ heap' = AddClone(heap, Into, work.src, Node)
  BY DEF MergeElements
<1>2. /\ work.src \in Changes /\ IsTree(work.src)
      /\ work.into \in Seq(0..n) /\ work.seen \in Seq(Seq(1..n))
      /\ Len(work.into) = Len(work.seen) /\ Len(work.into) >= 1 /\ Good(heap) /\ n \in Nat
  BY <1>1, GoodType, TreesAssumption DEF IInv, WorkGood
<1>3. Len(work.into) \in Nat /\ Len(work.src) \in Nat
  BY <1>2, LenProperties, TreeIsGood
<1>4. Node \in 2..Len(work.src) /\ Node \in 1..Len(work.src) /\ Node - 1 = Len(work.into)
  <2> DEFINE a == Len(work.into)
             b == Len(work.src)
  <2>1. a \in Nat /\ b \in Nat /\ a >= 1 /\ Node = a + 1 /\ Node <= b
    BY <1>1, <1>2, <1>3 DEF Node
  <2> HIDE DEF a, b
  <2>2. Node \in 2..b /\ Node \in 1..b /\ Node - 1 = a
    BY <2>1
  <2> QED BY <2>2 DEF a, b
<1>5. node \in Nodes
  BY <1>2, <1>4, TreeIsGood, GoodType
<1>6. p \in 1..(Node - 1)
  BY <1>2, <1>4 DEF IsTree
<1> HIDE DEF node, p
<1>7. Into \in 0..n /\ kids \in Seq(1..n)
  <2>1. p \in 1..Len(work.into) /\ p \in 1..Len(work.seen)
    BY <1>2, <1>4, <1>6
  <2>2. work.into[p] \in 0..n /\ work.seen[p] \in Seq(1..n)
    BY <1>2, <2>1, ElementOfSeq
  <2> QED BY <2>2 DEF Into, p, node
<1> HIDE DEF kids
<1>8. 0 \in 0..n
  BY <1>2
<1>9. CASE Visited(0) /\ UNCHANGED heap
  <2>1. WorkGood(work', n)
    BY <1>1, <1>8, <1>9, VisitedGood
  <2> QED BY <1>1, <1>9, <2>1 DEF IInv
<1>10. CASE /\ Into # 0 /\ same # {} /\ Visited(kids[k])
            /\ heap' = [heap EXCEPT ![kids[k]] = MergeFields(@, node)]
  <2>1. same \in SUBSET Nat /\ same \subseteq DOMAIN kids
    BY <1>7 DEF Matches
  <2>2. \E m \in same : \A l \in same : m <= l
    BY <1>10, <2>1, SmallestNat
  <2>3. k \in DOMAIN kids
    <3> HIDE DEF same
    <3>1. k \in same
      BY <2>2
    <3> QED BY <2>1, <3>1
  <2> HIDE DEF k
  <2>4. kids[k] \in 1..n /\ kids[k] \in 0..n
    BY <1>7, <2>3
  <2>5. Good(heap') /\ Len(heap') = n
    BY <1>2, <1>5, <1>10, <2>4, MergeFieldsGood
  <2>6. WorkGood(work', n)
    BY <1>1, <1>10, <2>4, VisitedGood
  <2> QED BY <1>1, <2>5, <2>6 DEF IInv
<1>11. CASE /\ Into # 0 /\ Visited(0)
            /\ heap' = AddClone(heap, Into, work.src, Node)
  <2>1. Into \in 1..n
    BY <1>2, <1>7, <1>11
  <2>2. Good(heap') /\ Len(heap') >= n
    BY <1>2, <1>4, <1>11, <2>1, AddCloneGood
  <2>3. WorkGood(work', n)
    BY <1>1, <1>8, <1>11, VisitedGood
  <2>4. Len(heap') \in Nat
    BY <2>2, GoodType
  <2>5. WorkGood(work', Len(heap'))
    BY <1>2, <2>2, <2>3, <2>4, WorkGrows
  <2>6. \A i \in DOMAIN idMap : idMap[i] \in 1..Len(heap')
    BY <1>2, <2>2, <2>4 DEF IInv
  <2>7. Len(heap') >= 1
    BY <1>2, <2>2, <2>4 DEF IInv
  <2>8. held \cup dropped \subseteq 1..Len(heap')
    <3>1. 1..n \subseteq 1..Len(heap')
      BY <1>2, <2>2, <2>4
    <3> QED BY <3>1 DEF IInv
  <2> QED BY <1>1, <2>2, <2>5, <2>6, <2>7, <2>8 DEF IInv
<1> QED BY <1>1, <1>9, <1>10, <1>11 DEF node, kids, p

LEMMA MergeEndsIInv == ASSUME IInv, MergeEnds PROVE IInv'
<1> DEFINE o == work.into[1]
           e == [heap[o] EXCEPT !.targetId = NoId]
<1>1. /\ Good(heap) /\ heap \in Seq(Nodes) /\ Len(heap) \in Nat
      /\ idMap' = idMap /\ work' = Idle /\ held' = held /\ dropped' = dropped
  BY GoodType DEF IInv, MergeEnds
<1>2. heap' = [heap EXCEPT ![o] = e]
  BY DEF MergeEnds
<1>3. CASE o \in 1..Len(heap)
  <2>1. heap[o] \in Nodes
    BY <1>1, <1>3
  <2>2. e \in Nodes /\ e.parent = heap[o].parent /\ e.kids = heap[o].kids
    BY <2>1 DEF Nodes
  <2> HIDE DEF e, o
  <2>3. Good(heap') /\ Len(heap') = Len(heap)
    BY <1>1, <1>2, <1>3, <2>2, RelabelGood
  <2> QED BY <1>1, <2>3 DEF IInv, WorkGood
<1>4. CASE ~(o \in 1..Len(heap))
  <2>1. heap' = heap
    BY <1>1, <1>2, <1>4
  <2> QED BY <1>1, <2>1 DEF IInv, WorkGood
<1> QED BY <1>3, <1>4

LEMMA CreateIInv == ASSUME IInv, NEW src \in Containers, NEW map, Create(src, map) PROVE IInv'
<1> DEFINE i == GetTargetId(map, src[1].targetId)
<1>1. /\ UNCHANGED <<idMap, held, dropped, work>> /\ Good(heap) /\ IsTree(src)
      /\ \/ heap' = heap
         \/ i \in DOMAIN idMap /\ heap' = CopyFeatures(heap, idMap[i], src)
  BY TreesAssumption DEF IInv, Create
<1>2. CASE heap' = heap
  BY <1>1, <1>2 DEF IInv
<1>3. CASE i \in DOMAIN idMap /\ heap' = CopyFeatures(heap, idMap[i], src)
  <2>1. idMap[i] \in 1..Len(heap)
    BY <1>3 DEF IInv
  <2>2. Good(heap') /\ Len(heap') >= Len(heap)
    BY <1>1, <1>3, <2>1, CopyFeaturesGood
  <2> QED BY <1>1, <2>2, HeapGrows
<1> QED BY <1>1, <1>2, <1>3

(* Only what was in an array is dropped.                                   *)
LEMMA DropsKnown ==
    ASSUME IInv, Len(heap') = Len(heap), Drops
    PROVE  dropped' \subseteq dropped \cup 1..Len(heap')
<1> SUFFICES ASSUME NEW p \in DOMAIN heap, NEW o \in Range(heap[p].kids)
             PROVE  o \in 1..Len(heap)
  BY DEF Drops, Objects
<1>1. Good(heap)
  BY DEF IInv
<1>2. PICK k \in DOMAIN heap[p].kids : o = heap[p].kids[k]
  BY DEF Range
<1>3. p \in 1..Len(heap) /\ k \in 1..Len(heap[p].kids)
  BY <1>1, <1>2, GoodType
<1> QED BY <1>1, <1>2, <1>3 DEF Good

(* Out of an array of any element, or of none.                             *)
LEMMA EraseAnyGood ==
    ASSUME NEW h, Good(h), NEW c, NEW k \in DOMAIN h[c].kids
    PROVE  Good(Erase(h, c, k)) /\ Len(Erase(h, c, k)) = Len(h)
<1>1. CASE c \in 1..Len(h)
  <2>1. k \in 1..Len(h[c].kids)
    BY <1>1, GoodType
  <2> QED BY <1>1, <2>1, EraseGood
<1>2. CASE ~(c \in 1..Len(h))
  <2>1. h \in Seq(Nodes) /\ DOMAIN h = 1..Len(h)
    BY GoodType
  <2>2. Erase(h, c, k) = h
    BY <1>2, <2>1 DEF Erase
  <2> QED BY <2>2
<1> QED BY <1>1, <1>2

LEMMA DeleteIInv == ASSUME IInv, NEW t, NEW map, Delete(t, map) PROVE IInv'
<1> DEFINE i == GetTargetId(map, t)
           p == heap[idMap[i]].parent
<1>1. /\ heap' = DeleteFeatureById(i) /\ UNCHANGED <<idMap, held, work>> /\ Drops
      /\ Good(heap) /\ Len(heap) \in Nat
  BY GoodType DEF IInv, Delete, MapAfterDelete
<1> HIDE DEF i
<1>2. \/ heap' = heap
      \/ heap' = [heap EXCEPT ![p].kids = << >>]
      \/ /\ FirstWithId(p, i) # {}
         /\ heap' = Erase(heap, p, CHOOSE k \in FirstWithId(p, i) : TRUE)
  BY <1>1 DEF DeleteFeatureById
<1> HIDE DEF p
<1>3. Good(heap') /\ Len(heap') = Len(heap)
  <2>1. CASE heap' = heap
    BY <1>1, <2>1
  <2>2. CASE heap' = [heap EXCEPT ![p].kids = << >>]
    <3>1. /\ Good([heap EXCEPT ![p].kids = << >>])
          /\ Len([heap EXCEPT ![p].kids = << >>]) = Len(heap)
      BY <1>1, SetKidsEmptyGood
    <3> QED BY <2>2, <3>1
  <2>3. CASE /\ FirstWithId(p, i) # {}
             /\ heap' = Erase(heap, p, CHOOSE k \in FirstWithId(p, i) : TRUE)
    <3>1. PICK k : k \in FirstWithId(p, i) /\ heap' = Erase(heap, p, k)
      BY <2>3
    <3>2. k \in DOMAIN heap[p].kids
      BY <3>1 DEF FirstWithId
    <3> QED BY <1>1, <3>1, <3>2, EraseAnyGood
  <2> QED BY <1>2, <2>1, <2>2, <2>3
<1>4. held' \cup dropped' \subseteq held \cup dropped \cup 1..Len(heap')
  BY <1>1, <1>3, DropsKnown
<1> QED BY <1>1, <1>3, <1>4, HeapGrows

LEMMA NewFeatureIInv == ASSUME IInv, NEW t \in NewFeatures, NewFeature(t) PROVE IInv'
<1> DEFINE d == Clone(t, 1, Len(heap))
<1>1. /\ heap' = heap \o d /\ UNCHANGED <<idMap, work, dropped>>
      /\ held' = held \cup {Len(heap) + 1}
      /\ Good(heap) /\ Len(heap) \in Nat /\ IsTree(t) /\ 1 \in 1..Len(t)
  BY GoodType, TreesAssumption, TreeIsGood DEF IInv, NewFeature
<1>2. GoodAfter(d, Len(heap)) /\ Len(d) >= 1
  BY <1>1, CloneGood
<1> HIDE DEF d
<1>3. Len(d) \in Nat
  BY <1>2, LenProperties DEF GoodAfter
<1>4. Good(heap') /\ Len(heap') = Len(heap) + Len(d)
  BY <1>1, <1>2, ExtendGood
<1>5. Len(heap) + 1 \in 1..Len(heap')
  BY <1>1, <1>2, <1>3, <1>4
<1>6. held' \cup dropped' \subseteq held \cup dropped \cup 1..Len(heap')
  BY <1>1, <1>5
<1> QED BY <1>1, <1>3, <1>4, <1>6, HeapGrows

LEMMA AddFeatureIInv == ASSUME IInv, NEW c \in Objects, NEW o \in Objects, AddFeature(c, o) PROVE IInv'
<1>1. /\ heap' = AddElement(heap, c, o) /\ UNCHANGED <<idMap, held, dropped, work>>
      /\ Good(heap) /\ Len(heap) \in Nat /\ c \in 1..Len(heap) /\ o \in 1..Len(heap)
  BY GoodType DEF IInv, AddFeature, Objects
<1>2. Good(heap') /\ Len(heap') = Len(heap)
  BY <1>1, AddElementGood
<1> QED BY <1>1, <1>2, HeapGrows

LEMMA DeleteFeatureAtIInv ==
    ASSUME IInv, NEW c \in Objects, NEW k, DeleteFeatureAt(c, k) PROVE IInv'
<1>1. /\ heap' = Erase(heap, c, k) /\ UNCHANGED <<idMap, work>> /\ k \in DOMAIN heap[c].kids
      /\ Good(heap) /\ Len(heap) \in Nat /\ Drops
      /\ held' = held \/ held' = held \cup {heap[c].kids[k]}
  BY GoodType DEF IInv, DeleteFeatureAt
<1>2. Good(heap') /\ Len(heap') = Len(heap)
  BY <1>1, EraseAnyGood
<1>3. heap[c].kids[k] \in 1..Len(heap)
  <2>1. c \in 1..Len(heap) /\ k \in 1..Len(heap[c].kids)
    BY <1>1, GoodType DEF Objects
  <2> QED BY <1>1, <2>1 DEF Good
<1>4. held' \cup dropped' \subseteq held \cup dropped \cup 1..Len(heap')
  BY <1>1, <1>2, <1>3, DropsKnown
<1> QED BY <1>1, <1>2, <1>4, HeapGrows

LEMMA RangeInSet ==
    ASSUME NEW S, NEW s \in Seq(S) PROVE Range(s) \subseteq S
<1>1. DOMAIN s = 1..Len(s) /\ \A i \in 1..Len(s) : s[i] \in S
  BY ElementOfSeq
<1> QED BY <1>1 DEF Range

(* The program has pointers to elements, and so to what is reached.        *)
LEMMA LiveKnown ==
    ASSUME IInv PROVE IsClosure(heap, Pointers \cup (Range(work.into) \ {0})
                                       \cup UNION {Range(s) : s \in Range(work.seen)}, Live)
                      /\ Live \subseteq 1..Len(heap)
<1> DEFINE n == Len(heap)
           S == Pointers \cup (Range(work.into) \ {0})
                  \cup UNION {Range(s) : s \in Range(work.seen)}
<1>1. Good(heap) /\ n \in Nat /\ n >= 1
  BY GoodType DEF IInv
<1>2. Pointers \subseteq 1..n
  <2>1. 1 \in 1..n
    BY <1>1
  <2> QED BY <2>1 DEF Pointers, IInv, Range, Root
<1>3. work.into \in Seq(0..n) /\ work.seen \in Seq(Seq(1..n))
  <2>1. CASE work = Idle
    BY <2>1 DEF Idle
  <2>2. CASE work # Idle
    BY <2>2 DEF IInv, WorkGood
  <2> QED BY <2>1, <2>2
<1> HIDE DEF n
<1>4. Range(work.into) \ {0} \subseteq 1..n
  <2>1. Range(work.into) \subseteq 0..n
    BY <1>3, RangeInSet
  <2> QED BY <1>1, <2>1
<1>5. UNION {Range(s) : s \in Range(work.seen)} \subseteq 1..n
  <2>1. Range(work.seen) \subseteq Seq(1..n)
    BY <1>3, RangeInSet
  <2>2. \A s \in Seq(1..n) : Range(s) \subseteq 1..n
    BY RangeInSet
  <2> QED BY <2>1, <2>2
<1>6. S \in SUBSET (1..n)
  BY <1>2, <1>4, <1>5
<1> HIDE DEF S
<1>7. IsClosure(heap, S, Reached(heap, S)) /\ Reached(heap, S) \subseteq 1..n
  BY <1>1, <1>6, ReachedIsClosure DEF n
<1> QED BY <1>7 DEF Live, S, n

LEMMA NextIInv == IInv /\ [Next]_vars => IInv'
<1> SUFFICES ASSUME IInv, [Next]_vars PROVE IInv'
  OBVIOUS
<1>1. CASE UNCHANGED vars
  BY <1>1 DEF IInv, vars
<1>2. CASE \E map \in Maps : \E src \in Changes : Change(src, map)
  BY <1>2, ChangeIInv
<1>3. CASE \E map \in Maps : \E src \in Containers : Create(src, map)
  BY <1>3, CreateIInv
<1>4. CASE \E map \in Maps : \E t \in Ids : Delete(t, map)
  BY <1>4, DeleteIInv
<1>5. CASE MergeElements \/ MergeEnds
  BY <1>5, MergeElementsIInv, MergeEndsIInv
<1>6. CASE \E t \in NewFeatures : NewFeature(t)
  BY <1>6, NewFeatureIInv
<1>0. Live \subseteq Objects
  BY LiveKnown, GoodType DEF IInv, Objects
<1>7. CASE \E c, o \in Live : AddFeature(c, o)
  BY <1>0, <1>7, AddFeatureIInv
<1>8. CASE \E c \in Live : \E k \in DOMAIN heap[c].kids : DeleteFeatureAt(c, k)
  BY <1>0, <1>8, DeleteFeatureAtIInv
<1> QED BY <1>1, <1>2, <1>3, <1>4, <1>5, <1>6, <1>7, <1>8 DEF Next

(* OneHome for every document, every Update and every client: an element   *)
(* never stands in two arrays, nor twice in one, because SetParent lets    *)
(* only one that has no parent in, and clones are new.                     *)
THEOREM OneHomeAlways == Spec => []OneHome
<1>1. IInv => OneHome
  BY GoodIsOneHome DEF IInv
<1> QED BY <1>1, InitIInv, NextIInv, PTL DEF Spec

-----------------------------------------------------------------------------
(* What is seen from the root, and UpdatePromise.                          *)

IsGeometry(kind) == kind \in {"Point", "LineString"}

(* The schema, of the elements of a heap: every parent takes what it is    *)
(* the parent of, but for a Folder has one child at most, and nothing is   *)
(* ever made below the root if it is a kml.                                *)
Schemed(h) ==
  /\ h[Root].parent = 0
  /\ \A o \in 1..Len(h) : h[o].parent # 0 =>
       h[o].parent \in 1..Len(h) /\ Takes(h[h[o].parent].kind, h[o].kind)
  /\ \A o \in 1..Len(h) : /\ h[o].kind # "Folder" => Len(h[o].kids) <= 1
                          /\ h[o].kind = "kml" => o = Root
  /\ \A x, y \in 1..Len(h) :
       h[Root].kind = "kml" /\ h[x].parent = Root /\ h[y].parent = Root => x = y

(* What it means for what a step gave a parent, or made.                   *)
Placed(h, o) ==
  /\ h[o].parent \in 1..Len(h) /\ h[h[o].parent].kind # "kml"
  /\ Takes(h[h[o].parent].kind, h[o].kind)

LEMMA SchemedAfter ==
    ASSUME NEW h, Good(h), Len(h) >= 1, Schemed(h),
           NEW g, Good(g), Len(g) >= Len(h),
           \A o \in 1..Len(h) :
             /\ g[o].kind = h[o].kind
             /\ g[o].parent = h[o].parent \/ (o # Root /\ Placed(g, o)),
           \A o \in (Len(h) + 1)..Len(g) : g[o].kind # "kml" /\ (g[o].parent = 0 \/ Placed(g, o)),
           \A o \in 1..Len(g) : g[o].kind # "Folder" => Len(g[o].kids) <= 1
    PROVE  Schemed(g)
<1>1. /\ Len(h) \in Nat /\ Len(g) \in Nat
      /\ \A o \in 1..Len(g) : o \in 1..Len(h) \/ o \in (Len(h) + 1)..Len(g)
      /\ 1..Len(h) \subseteq 1..Len(g) /\ Root \in 1..Len(h)
  BY GoodType DEF Root
<1>2. g[Root].parent = 0 /\ g[Root].kind = h[Root].kind
  BY <1>1 DEF Schemed
<1>3. ASSUME NEW o \in 1..Len(g), g[o].parent # 0, ~ Placed(g, o)
      PROVE  /\ o \in 1..Len(h) /\ h[o].parent = g[o].parent /\ h[o].kind = g[o].kind
             /\ h[o].parent \in 1..Len(h) /\ Takes(h[h[o].parent].kind, h[o].kind)
  <2>1. o \in 1..Len(h) /\ h[o].parent = g[o].parent
    BY <1>1, <1>3
  <2> QED BY <1>3, <2>1 DEF Schemed
<1>4. ASSUME NEW o \in 1..Len(g), g[o].parent # 0
      PROVE  g[o].parent \in 1..Len(g) /\ Takes(g[g[o].parent].kind, g[o].kind)
  <2>1. CASE Placed(g, o)
    BY <2>1 DEF Placed
  <2>2. CASE ~ Placed(g, o)
    <3>1. /\ o \in 1..Len(h) /\ h[o].parent = g[o].parent /\ h[o].kind = g[o].kind
          /\ h[o].parent \in 1..Len(h) /\ Takes(h[h[o].parent].kind, h[o].kind)
      BY <1>3, <1>4, <2>2
    <3> QED BY <1>1, <3>1
  <2> QED BY <2>1, <2>2
<1>5. \A o \in 1..Len(g) : g[o].kind = "kml" => o = Root
  BY <1>1 DEF Schemed
<1>6. ASSUME NEW x \in 1..Len(g), NEW y \in 1..Len(g),
             g[Root].kind = "kml", g[x].parent = Root, g[y].parent = Root
      PROVE  x = y
  <2>1. ~ Placed(g, x) /\ ~ Placed(g, y) /\ g[x].parent # 0 /\ g[y].parent # 0
    BY <1>6 DEF Placed, Root
  <2>2. /\ x \in 1..Len(h) /\ h[x].parent = g[x].parent
        /\ y \in 1..Len(h) /\ h[y].parent = g[y].parent
    BY <1>3, <2>1
  <2> QED BY <1>2, <1>6, <2>2 DEF Schemed
<1> QED BY <1>2, <1>4, <1>5, <1>6 DEF Schemed

(* A geometry is no one's parent.                                          *)
LEMMA GeometryAlone ==
    ASSUME NEW h, Good(h), Schemed(h), NEW o \in 1..Len(h), IsGeometry(h[o].kind)
    PROVE  Range(h[o].kids) = {}
<1> SUFFICES ASSUME NEW k \in DOMAIN h[o].kids PROVE FALSE
  BY DEF Range
<1> DEFINE x == h[o].kids[k]
<1>1. k \in 1..Len(h[o].kids) /\ o # 0
  BY GoodType
<1>2. x \in 1..Len(h) /\ h[x].parent = o
  BY <1>1 DEF Good
<1> HIDE DEF x
<1>3. Takes(h[o].kind, h[x].kind)
  BY <1>1, <1>2 DEF Schemed
<1> QED BY <1>3 DEF Takes, IsGeometry

(* A child knows its parent.                                               *)
LEMMA KidHasParent ==
    ASSUME NEW h, Good(h), NEW p \in 1..Len(h), NEW x \in Range(h[p].kids)
    PROVE  x \in 1..Len(h) /\ h[x].parent = p
<1>1. PICK k \in DOMAIN h[p].kids : x = h[p].kids[k]
  BY DEF Range
<1>2. k \in 1..Len(h[p].kids)
  BY GoodType
<1> QED BY <1>1, <1>2 DEF Good

-----------------------------------------------------------------------------
(* What stays reached: children that stay below their parents or are       *)
(* pointed at, geometries, which have nothing below them, apart.           *)
LEMMA StaysReached ==
    ASSUME NEW h, Good(h), Schemed(h), NEW g, Good(g), Len(g) >= Len(h),
           NEW R \in SUBSET (1..Len(h)), NEW S \in SUBSET (1..Len(g)), R \subseteq S,
           \A p \in 1..Len(h) : \A y \in Range(h[p].kids) :
             y \in Range(g[p].kids) \/ y \in S \/ IsGeometry(h[y].kind)
    PROVE  \A o \in Reached(h, R) : o \in Reached(g, S) \/ IsGeometry(h[o].kind)
<1> DEFINE A == Reached(g, S)
           T == {o \in 1..Len(h) : o \in A \/ IsGeometry(h[o].kind)}
<1>1. IsClosure(h, R, Reached(h, R)) /\ Reached(h, R) \subseteq 1..Len(h)
  BY ReachedIsClosure
<1>2. S \subseteq A /\ Closed(g, A)
  BY ReachedIsClosure DEF IsClosure
<1> HIDE DEF A
<1>3. R \subseteq T
  BY <1>2
<1>4. Closed(h, T)
  <2> SUFFICES ASSUME NEW p \in T, NEW y \in Range(h[p].kids) PROVE y \in T
    BY DEF Closed
  <2>1. p \in 1..Len(h) /\ y \in 1..Len(h)
    BY KidHasParent
  <2>2. p \in A
    BY <2>1, GeometryAlone
  <2>3. y \in Range(g[p].kids) \/ y \in S \/ IsGeometry(h[y].kind)
    BY <2>1
  <2>4. y \in A \/ IsGeometry(h[y].kind)
    BY <1>2, <2>2, <2>3 DEF Closed
  <2> QED BY <2>1, <2>4
<1>5. Reached(h, R) \subseteq T
  BY <1>1, <1>3, <1>4 DEF IsClosure
<1> QED BY <1>5 DEF A

(* Every element but geometries is reached from the pointers, or was       *)
(* dropped with what it stands below.                                      *)
Kept(h, R) == \A o \in 1..Len(h) : o \in Reached(h, R) \/ IsGeometry(h[o].kind)

(* What is new is pointed at, or stands below an earlier element.          *)
LEMMA NewAreKept ==
    ASSUME NEW g, Good(g), Schemed(g), NEW S \in SUBSET (1..Len(g)),
           \A o \in 1..Len(g) :
             \/ o \in Reached(g, S) \/ IsGeometry(g[o].kind)
             \/ g[o].parent \in 1..(o - 1) /\ o \in Range(g[g[o].parent].kids)
    PROVE  Kept(g, S)
<1> DEFINE Fine(o) == o \in Reached(g, S) \/ IsGeometry(g[o].kind)
           Bad == {o \in 1..Len(g) : ~ Fine(o)}
<1>1. Closed(g, Reached(g, S)) /\ Len(g) \in Nat
  BY ReachedIsClosure, GoodType DEF IsClosure
<1>2. Bad = {}
  <2> SUFFICES ASSUME Bad # {} PROVE FALSE
    OBVIOUS
  <2>1. PICK o \in Bad : \A i \in Bad : o <= i
    <3>1. Bad \in SUBSET Nat
      OBVIOUS
    <3> HIDE DEF Bad
    <3> QED BY <3>1, SmallestNat
  <2>2. o \in 1..Len(g) /\ ~ Fine(o)
    BY <2>1
  <2> DEFINE p == g[o].parent
  <2>3. p \in 1..(o - 1) /\ o \in Range(g[p].kids)
    BY <2>2
  <2>4. p \in 1..Len(g) /\ p < o /\ p # 0
    BY <1>1, <2>2, <2>3
  <2>5. p \notin Bad
    <3> HIDE DEF Bad, p
    <3>1. ~ (o <= p)
      BY <2>2, <2>3, <2>4
    <3> QED BY <2>1, <3>1
  <2>6. Fine(p)
    BY <2>4, <2>5
  <2>7. Takes(g[p].kind, g[o].kind)
    BY <2>2, <2>4 DEF Schemed
  <2>8. p \in Reached(g, S)
    BY <2>6, <2>7 DEF Takes, IsGeometry
  <2>9. o \in Reached(g, S)
    BY <1>1, <2>3, <2>8 DEF Closed
  <2> QED BY <2>2, <2>9
<1> QED BY <1>2 DEF Kept

LEMMA KeptAfter ==
    ASSUME NEW h, Good(h), Schemed(h), NEW g, Good(g), Schemed(g), Len(g) >= Len(h),
           NEW R \in SUBSET (1..Len(h)), NEW S \in SUBSET (1..Len(g)), R \subseteq S,
           Kept(h, R),
           \A o \in 1..Len(h) : g[o].kind = h[o].kind,
           \A p \in 1..Len(h) : \A y \in Range(h[p].kids) :
             y \in Range(g[p].kids) \/ y \in S \/ IsGeometry(h[y].kind),
           \A o \in (Len(h) + 1)..Len(g) :
             \/ o \in S
             \/ g[o].parent \in 1..(o - 1) /\ o \in Range(g[g[o].parent].kids)
    PROVE  Kept(g, S)
<1>1. \A o \in Reached(h, R) : o \in Reached(g, S) \/ IsGeometry(h[o].kind)
  BY StaysReached
<1>2. S \subseteq Reached(g, S)
  BY ReachedIsClosure DEF IsClosure
<1>3. Len(h) \in Nat /\ Len(g) \in Nat
  BY GoodType
<1>4. ASSUME NEW o \in 1..Len(g)
      PROVE  \/ o \in Reached(g, S) \/ IsGeometry(g[o].kind)
             \/ g[o].parent \in 1..(o - 1) /\ o \in Range(g[g[o].parent].kids)
  <2>1. CASE o \in 1..Len(h)
    BY <1>1, <2>1 DEF Kept
  <2>2. CASE o \in (Len(h) + 1)..Len(g)
    BY <1>2, <2>2
  <2> QED BY <1>3, <2>1, <2>2
<1> QED BY <1>4, NewAreKept
-----------------------------------------------------------------------------
(* What the operations do to a heap, element by element.                   *)
(* g is h, but for the element o that has found its parent p.              *)
Adopted(h, p, o, g) ==
  /\ Good(g) /\ Len(g) = Len(h)
  /\ \A q \in 1..Len(h) :
       /\ g[q].kind = h[q].kind /\ g[q].id = h[q].id /\ g[q].field = h[q].field
       /\ g[q].parent = IF q = o THEN p ELSE h[q].parent
       /\ g[q].kids = IF q # p THEN h[q].kids
                      ELSE IF h[p].kind = "Folder" THEN Append(h[p].kids, o) ELSE <<o>>

LEMMA AddElementIs ==
    ASSUME NEW h, Good(h), NEW p \in 1..Len(h), NEW o \in 1..Len(h), MayAdopt(h, o),
           NEW g, g = AddElement(h, p, o)
    PROVE  Adopted(h, p, o, g)
<1> DEFINE r == IF h[p].kind = "Folder" THEN Append(h[p].kids, o) ELSE <<o>>
           a == [h EXCEPT ![o] = [h[o] EXCEPT !.parent = p]]
<1>1. \A q \in 1..Len(h) : h[q] \in Nodes
  BY GoodType
<1>2. DOMAIN h = 1..Len(h)
  BY GoodType
<1>3. \A q \in 1..Len(h) :
        /\ a[q].kind = h[q].kind /\ a[q].id = h[q].id /\ a[q].field = h[q].field
        /\ a[q].kids = h[q].kids
        /\ a[q].parent = IF q = o THEN p ELSE h[q].parent
  <2> TAKE q \in 1..Len(h)
  <2>1. a[q] = IF q = o THEN [h[o] EXCEPT !.parent = p] ELSE h[q]
    BY <1>2
  <2> HIDE DEF a
  <2> QED BY <1>1, <2>1 DEF Nodes
<1>4. \A q \in 1..Len(h) : a[q] \in [kind : Kinds, id : Ids \cup {NoId},
                    targetId : Ids \cup {NoId}, field : Fields, parent : Nat, kids : Seq(Nat)]
  <2> TAKE q \in 1..Len(h)
  <2>1. a[q] = IF q = o THEN [h[o] EXCEPT !.parent = p] ELSE h[q]
    BY <1>2
  <2>2. p \in Nat /\ h[o] \in Nodes /\ h[q] \in Nodes
    BY <1>1
  <2> HIDE DEF a, r
  <2>3. [h[o] EXCEPT !.parent = p] \in Nodes
    BY ONLY <2>2 DEF Nodes
  <2>4. a[q] \in Nodes
    BY ONLY <2>1, <2>2, <2>3
  <2> QED BY ONLY <2>4 DEF Nodes
<1>5. DOMAIN a = 1..Len(h)
  BY <1>2
<1>6. g = [a EXCEPT ![p] = [a[p] EXCEPT !.kids = r]]
  <2>1. a[p].kids = h[p].kids
    BY <1>3
  <2> QED BY <1>1, <1>2, <2>1 DEF AddElement, Nodes
<1> HIDE DEF a, r
<1>7. ASSUME NEW q \in 1..Len(h)
      PROVE  /\ g[q].kind = h[q].kind /\ g[q].id = h[q].id /\ g[q].field = h[q].field
             /\ g[q].parent = IF q = o THEN p ELSE h[q].parent
             /\ g[q].kids = IF q # p THEN h[q].kids ELSE r
  <2>1. g[q] = IF q = p THEN [a[p] EXCEPT !.kids = r] ELSE a[q]
    BY <1>5, <1>6
  <2> QED BY <1>3, <1>4, <2>1
<1>8. Good(g) /\ Len(g) = Len(h)
  BY AddElementGood
<1> QED BY <1>7, <1>8 DEF Adopted, r

(* Every node of a tree but the first is of a kind its parent takes.       *)
LEMMA ChildFits ==
    ASSUME NEW t, IsTree(t), FollowsSchema(t), NEW x \in 2..Len(t)
    PROVE  /\ t[x].parent \in 1..(x - 1) /\ x \in Range(t[t[x].parent].kids)
           /\ Takes(t[t[x].parent].kind, t[x].kind) /\ t[x].kind # "kml"
<1>1. t[x].parent \in 1..(x - 1) /\ x \in Range(t[t[x].parent].kids)
  BY DEF IsTree
<1>2. Len(t) \in Nat /\ DOMAIN t = 1..Len(t)
  BY TreeIsGood, GoodType
<1>3. t[x].parent \in DOMAIN t /\ x \in DOMAIN t /\ x # 1
  BY <1>1, <1>2
<1>4. PICK i \in DOMAIN t[t[x].parent].kids : x = t[t[x].parent].kids[i]
  BY <1>1 DEF Range
<1>5. Takes(t[t[x].parent].kind, t[x].kind)
  BY <1>3, <1>4 DEF FollowsSchema
<1>6. t[x].kind # "kml"
  BY <1>3 DEF FollowsSchema
<1> QED BY <1>1, <1>5, <1>6

(* d stands alone, on a node of a kind, and the rest is below that: its     *)
(* nodes will be the elements after n others.                              *)
CloneRises(d, kind, n) ==
  /\ d[1].parent = 0 /\ d[1].kind = kind /\ Len(d) \in Nat \ {0}
  /\ \A j \in 1..Len(d) : /\ d[j].kind # "kml"
                          /\ d[j].kind # "Folder" => Len(d[j].kids) <= 1
  /\ \A j \in 2..Len(d) : \E i \in 1..(j - 1) :
       /\ d[j].parent = n + i /\ n + j \in Range(d[i].kids)
       /\ Takes(d[i].kind, d[j].kind)

LEMMA CloneIs ==
    ASSUME NEW t, IsTree(t), FollowsSchema(t), NEW k \in 1..Len(t), NEW n \in Nat,
           k = 1 => t[1].kind # "kml", NEW d, d = Clone(t, k, n)
    PROVE  CloneRises(d, t[k].kind, n)
<1> DEFINE L == LastBelow(t, k)
           m == L - k + 1
           Par(j) == IF j = 1 THEN 0 ELSE n + t[k + j - 1].parent - k + 1
           Kid(j) == [i \in DOMAIN t[k + j - 1].kids |-> n + t[k + j - 1].kids[i] - k + 1]
           Copy(j) == [t[k + j - 1] EXCEPT !.parent = Par(j), !.kids = Kid(j)]
<1>1. L \in k..Len(t) /\ L \in Nat /\ k \in Nat /\ Len(t) \in Nat /\ IsLastBelow(t, k, L)
  BY LastBelowProperties
<1>2. m \in Nat /\ m >= 1
  BY <1>1
<1>3. d = [j \in 1..m |-> Copy(j)]
  BY DEF Clone
<1>4. d \in Seq(Nodes) /\ Len(d) \in Nat /\ DOMAIN d = 1..Len(d)
  BY CloneGood DEF GoodAfter
<1> HIDE DEF L
<1>5. Len(d) = m
  <2> HIDE DEF m, Copy
  <2> QED BY <1>2, <1>3, <1>4
<1>6. ASSUME NEW j \in 1..m
      PROVE  /\ d[j].kind = t[k + j - 1].kind /\ d[j].parent = Par(j) /\ d[j].kids = Kid(j)
             /\ k + j - 1 \in 1..Len(t) /\ Len(Kid(j)) = Len(t[k + j - 1].kids)
  <2> DEFINE q == k + j - 1
  <2>1. q \in 1..Len(t)
    BY <1>1
  <2> HIDE DEF q
  <2>2. t[q] \in Nodes /\ t[q].kids \in Seq(Nat) /\ Len(t[q].kids) \in Nat
    BY <2>1, TreeIsGood, GoodType
  <2>3. d[j] = Copy(j)
    BY <1>3
  <2> HIDE DEF Par
  <2>4. DOMAIN Kid(j) = 1..Len(t[q].kids)
    BY <2>2 DEF q
  <2> HIDE DEF Kid
  <2>5. /\ Copy(j).kind = t[q].kind /\ Copy(j).parent = Par(j) /\ Copy(j).kids = Kid(j)
    BY <2>2 DEF Nodes, q
  <2>6. Copy(j) \in Nodes
    BY <1>4, <1>5, <2>3
  <2> HIDE DEF Copy
  <2>7. Kid(j) \in Seq(Nat)
    BY <2>5, <2>6, NodeType
  <2>8. Len(Kid(j)) = Len(t[q].kids)
    BY <2>2, <2>4, <2>7
  <2> QED BY <2>1, <2>3, <2>5, <2>8 DEF q
<1> HIDE DEF Copy
<1>7. /\ d[1].parent = 0 /\ d[1].kind = t[k].kind
  <2>1. 1 \in 1..m /\ k + 1 - 1 = k
    BY <1>1, <1>2
  <2> HIDE DEF m
  <2> QED BY <1>6, <2>1
<1>8. ASSUME NEW j \in 1..m
      PROVE  d[j].kind # "kml" /\ (d[j].kind # "Folder" => Len(d[j].kids) <= 1)
  <2> DEFINE q == k + j - 1
  <2>1. q \in DOMAIN t /\ (q = 1 => k = 1)
    BY <1>1, <1>6 DEF IsTree
  <2>2. t[q].kind # "kml" /\ (t[q].kind # "Folder" => Len(t[q].kids) <= 1)
    <3> HIDE DEF q
    <3> QED BY <2>1 DEF FollowsSchema
  <2> QED BY <1>6, <2>2
<1>9. ASSUME NEW j \in 2..m
      PROVE  \E i \in 1..(j - 1) : /\ d[j].parent = n + i /\ n + j \in Range(d[i].kids)
                                   /\ Takes(d[i].kind, d[j].kind)
  <2> DEFINE q == k + j - 1
             b == t[q].parent
             i == b - k + 1
  <2>1. q \in (k + 1)..L /\ q \in 2..Len(t) /\ j \in 1..m /\ j # 1
    BY <1>1
  <2>2. /\ b \in 1..(q - 1) /\ q \in Range(t[b].kids) /\ Takes(t[b].kind, t[q].kind)
    <3> HIDE DEF q
    <3> QED BY <2>1, ChildFits
  <2>3. b >= k
    <3> HIDE DEF q
    <3> QED BY <1>1, <2>1 DEF IsLastBelow, b
  <2> HIDE DEF b
  <2>4. i \in 1..(j - 1) /\ i \in 1..m /\ k + i - 1 = b /\ n + b - k + 1 = n + i
    <3>1. b \in Nat /\ b <= k + j - 2 /\ k \in Nat /\ j \in Nat /\ j <= m /\ m \in Nat
      BY <1>1, <1>2, <2>1, <2>2
    <3> HIDE DEF m
    <3> QED BY <2>3, <3>1
  <2>5. PICK l \in DOMAIN t[b].kids : q = t[b].kids[l]
    BY <2>2 DEF Range
  <2>6. d[i].kids = Kid(i) /\ d[i].kind = t[b].kind
    <3> HIDE DEF i, Kid
    <3> QED BY <1>6, <2>4
  <2>7. l \in DOMAIN Kid(i) /\ Kid(i)[l] = n + q - k + 1
    <3> HIDE DEF i, q
    <3> QED BY <2>4, <2>5
  <2>8. n + q - k + 1 = n + j
    BY <1>1, <2>1
  <2>9. n + j \in Range(d[i].kids)
    <3> HIDE DEF i, q, Kid
    <3> QED BY <2>6, <2>7, <2>8 DEF Range
  <2>10. d[j].parent = n + i /\ d[j].kind = t[q].kind
    <3>1. Par(j) = n + b - k + 1
      BY <2>1 DEF b
    <3> HIDE DEF i, Par
    <3> QED BY <1>6, <2>1, <2>4, <3>1 DEF q
  <2> HIDE DEF i, q
  <2> QED BY <2>2, <2>4, <2>6, <2>9, <2>10
<1>10. Len(d) \in Nat \ {0}
  BY <1>2, <1>5
<1> HIDE DEF m
<1> QED BY <1>5, <1>7, <1>8, <1>9, <1>10 DEF CloneRises

(* g is h with a clone, the elements after those of h, below p.            *)
CloneHangs(h, p, kind, g) ==
  LET n == Len(h) IN
  /\ Good(g) /\ Len(g) > n
  /\ \A q \in 1..n :
       /\ g[q].kind = h[q].kind /\ g[q].id = h[q].id /\ g[q].field = h[q].field
       /\ g[q].parent = h[q].parent
       /\ g[q].kids = IF q # p THEN h[q].kids
                      ELSE IF h[p].kind = "Folder" THEN Append(h[p].kids, n + 1)
                           ELSE <<n + 1>>
  /\ g[n + 1].parent = p /\ g[n + 1].kind = kind
  /\ \A x \in (n + 2)..Len(g) :
       /\ g[x].parent \in (n + 1)..(x - 1) /\ x \in Range(g[g[x].parent].kids)
       /\ Takes(g[g[x].parent].kind, g[x].kind)
  /\ \A x \in (n + 1)..Len(g) : /\ g[x].kind # "kml"
                                /\ g[x].kind # "Folder" => Len(g[x].kids) <= 1

LEMMA AddCloneIs ==
    ASSUME NEW h, Good(h), NEW p \in 1..Len(h),
           NEW t, IsTree(t), FollowsSchema(t), NEW k \in 1..Len(t), k = 1 => t[1].kind # "kml",
           NEW g, g = AddClone(h, p, t, k)
    PROVE  CloneHangs(h, p, t[k].kind, g)
<1> DEFINE n == Len(h)
           d == Clone(t, k, n)
           e == h \o d
           r == IF h[p].kind = "Folder" THEN Append(h[p].kids, n + 1) ELSE <<n + 1>>
<1>1. n \in Nat
  BY GoodType
<1>2. /\ d[1].parent = 0 /\ d[1].kind = t[k].kind /\ Len(d) \in Nat \ {0}
      /\ \A j \in 1..Len(d) : /\ d[j].kind # "kml"
                              /\ d[j].kind # "Folder" => Len(d[j].kids) <= 1
      /\ \A j \in 2..Len(d) : \E i \in 1..(j - 1) :
           /\ d[j].parent = n + i /\ n + j \in Range(d[i].kids)
           /\ Takes(d[i].kind, d[j].kind)
  <2>1. CloneRises(d, t[k].kind, n)
    BY <1>1, CloneIs
  <2> QED BY <2>1 DEF CloneRises
<1>3. /\ Good(e) /\ Len(e) = n + Len(d)
      /\ \A j \in 1..Len(d) : e[n + j] = d[j]
      /\ \A j \in 1..n : e[j] = h[j]
  <2>1. GoodAfter(d, n)
    BY <1>1, CloneGood
  <2> QED BY <2>1, ExtendGood
<1>12. g = AddElement(e, p, n + 1)
  BY DEF AddClone
<1> HIDE DEF d, e
<1>4. n + 1 \in 1..Len(e) /\ p \in 1..Len(e) /\ MayAdopt(e, n + 1) /\ e[p] = h[p] /\ p # n + 1
  <2>1. e[n + 1] = d[1]
    BY <1>2, <1>3
  <2> QED BY <1>1, <1>2, <1>3, <2>1 DEF MayAdopt
<1>5. /\ Good(g) /\ Len(g) = Len(e)
      /\ \A q \in 1..Len(e) :
           /\ g[q].kind = e[q].kind /\ g[q].id = e[q].id /\ g[q].field = e[q].field
           /\ g[q].parent = IF q = n + 1 THEN p ELSE e[q].parent
           /\ g[q].kids = IF q # p THEN e[q].kids ELSE r
  <2> HIDE DEF n
  <2>1. Adopted(e, p, n + 1, g)
    BY <1>3, <1>4, <1>12, AddElementIs
  <2> QED BY <1>4, <2>1 DEF Adopted
<1> HIDE DEF r
<1>6. ASSUME NEW q \in 1..n
      PROVE  /\ g[q].kind = h[q].kind /\ g[q].id = h[q].id /\ g[q].field = h[q].field
             /\ g[q].parent = h[q].parent
             /\ g[q].kids = IF q # p THEN h[q].kids ELSE r
  <2>1. q \in 1..Len(e) /\ q # n + 1 /\ e[q] = h[q]
    BY <1>1, <1>2, <1>3
  <2> QED BY <1>5, <2>1
<1>7. \A j \in 1..Len(d) :
        /\ n + j \in 1..Len(e) /\ n + j # p /\ g[n + j].kind = d[j].kind /\ g[n + j].kids = d[j].kids
        /\ j # 1 => g[n + j].parent = d[j].parent
  <2> TAKE j \in 1..Len(d)
  <2>1. n + j \in 1..Len(e) /\ n + j # p /\ e[n + j] = d[j] /\ (j # 1 => n + j # n + 1)
    BY <1>1, <1>2, <1>3
  <2> QED BY <1>5, <2>1
<1>8. g[n + 1].parent = p /\ g[n + 1].kind = t[k].kind
  <2>1. 1 \in 1..Len(d)
    BY <1>2
  <2> QED BY <1>2, <1>4, <1>5, <1>7, <2>1
<1>9. ASSUME NEW x \in (n + 2)..Len(g)
      PROVE  /\ g[x].parent \in (n + 1)..(x - 1) /\ x \in Range(g[g[x].parent].kids)
             /\ Takes(g[g[x].parent].kind, g[x].kind)
  <2>1. PICK j \in 2..Len(d) : x = n + j
    <3>1. x - n \in 2..Len(d) /\ x = n + (x - n)
      BY <1>1, <1>2, <1>3, <1>5
    <3> QED BY <3>1
  <2>2. PICK i \in 1..(j - 1) : /\ d[j].parent = n + i /\ n + j \in Range(d[i].kids)
                                /\ Takes(d[i].kind, d[j].kind)
    BY <1>2
  <2>3. i \in 1..Len(d) /\ j \in 1..Len(d) /\ j # 1 /\ n + i \in (n + 1)..(x - 1)
    BY <1>1, <1>2, <2>1
  <2>4. /\ g[x].parent = n + i /\ g[x].kind = d[j].kind
        /\ g[n + i].kids = d[i].kids /\ g[n + i].kind = d[i].kind
    BY <1>7, <2>1, <2>2, <2>3
  <2> QED BY <2>1, <2>2, <2>3, <2>4
<1>10. ASSUME NEW x \in (n + 1)..Len(g)
       PROVE  g[x].kind # "kml" /\ (g[x].kind # "Folder" => Len(g[x].kids) <= 1)
  <2>1. PICK j \in 1..Len(d) : x = n + j
    <3>1. x - n \in 1..Len(d) /\ x = n + (x - n)
      BY <1>1, <1>2, <1>3, <1>5
    <3> QED BY <3>1
  <2> QED BY <1>2, <1>7, <2>1
<1>11. Len(g) > n
  BY <1>1, <1>2, <1>3, <1>5
<1>13. r = IF h[p].kind = "Folder" THEN Append(h[p].kids, n + 1) ELSE <<n + 1>>
  BY DEF r
<1> HIDE DEF n
<1>14. \A q \in 1..n :
                /\ g[q].kind = h[q].kind /\ g[q].id = h[q].id /\ g[q].field = h[q].field
                /\ g[q].parent = h[q].parent
                /\ g[q].kids = IF q # p THEN h[q].kids
                               ELSE IF h[p].kind = "Folder" THEN Append(h[p].kids, n + 1)
                                    ELSE <<n + 1>>
  BY <1>6, <1>13
<1>15. Good(g)
  BY <1>5
<1> QED BY <1>8, <1>9, <1>10, <1>11, <1>14, <1>15 DEF n, CloneHangs

(* A clone below an element that takes it.                                 *)
(* g has all of h, but for a geometry that has given way, and more below it*)
Grown(h, g) ==
  /\ Len(g) >= Len(h) /\ Schemed(g)
  /\ \A q \in 1..Len(h) : g[q].kind = h[q].kind /\ g[q].parent = h[q].parent
  /\ \A q \in 1..Len(h) : \A y \in Range(h[q].kids) :
       y \in Range(g[q].kids) \/ IsGeometry(h[y].kind)
  /\ \A o \in (Len(h) + 1)..Len(g) :
       g[o].parent \in 1..(o - 1) /\ o \in Range(g[g[o].parent].kids)

LEMMA AddCloneKeeps ==
    ASSUME NEW h, Good(h), Len(h) >= 1, Schemed(h), NEW p \in 1..Len(h), h[p].kind # "kml",
           NEW t, IsTree(t), FollowsSchema(t), NEW k \in 1..Len(t), k # 1,
           Takes(h[p].kind, t[k].kind), NEW g, g = AddClone(h, p, t, k)
    PROVE  Grown(h, g)
<1> DEFINE n == Len(h)
<1>0. /\ p \in 1..n /\ h[p].kind # "kml" /\ Takes(h[p].kind, t[k].kind)
      /\ Good(h) /\ Schemed(h) /\ n \in Nat /\ n >= 1
  BY GoodType
<1>2. /\ Good(g) /\ Len(g) > n
      /\ \A q \in 1..n :
           /\ g[q].kind = h[q].kind /\ g[q].id = h[q].id /\ g[q].field = h[q].field
           /\ g[q].parent = h[q].parent
           /\ g[q].kids = IF q # p THEN h[q].kids
                          ELSE IF h[p].kind = "Folder" THEN Append(h[p].kids, n + 1)
                               ELSE <<n + 1>>
      /\ g[n + 1].parent = p /\ g[n + 1].kind = t[k].kind
      /\ \A x \in (n + 2)..Len(g) :
           /\ g[x].parent \in (n + 1)..(x - 1) /\ x \in Range(g[g[x].parent].kids)
           /\ Takes(g[g[x].parent].kind, g[x].kind)
      /\ \A x \in (n + 1)..Len(g) : /\ g[x].kind # "kml"
                                    /\ g[x].kind # "Folder" => Len(g[x].kids) <= 1
  <2>1. k = 1 => t[1].kind # "kml"
    OBVIOUS
  <2>2. CloneHangs(h, p, t[k].kind, g)
    BY <1>0, <2>1, AddCloneIs
  <2> QED BY <2>2 DEF CloneHangs
<1>3. Len(g) \in Nat /\ \A q \in 1..n : h[q].kids \in Seq(Nat)
  BY <1>0, <1>2, GoodType
<1>4. /\ Range(g[p].kids) \subseteq 1..Len(g) /\ n + 1 \in Range(g[p].kids)
      /\ h[p].kind = "Folder" => Range(h[p].kids) \subseteq Range(g[p].kids)
      /\ h[p].kind # "Folder" => Len(g[p].kids) <= 1
  <2> DEFINE s == h[p].kids
  <2>1. s \in Seq(Nat) /\ p \in 1..Len(g)
    BY <1>0, <1>2, <1>3
  <2>2. CASE h[p].kind = "Folder"
    <3>1. g[p].kids = Append(s, n + 1)
      BY <1>0, <1>2, <2>2
    <3>2. Range(Append(s, n + 1)) = Range(s) \cup {n + 1}
      <4> HIDE DEF s
      <4>1. DOMAIN Append(s, n + 1) = 1..(Len(s) + 1) /\ DOMAIN s = 1..Len(s) /\ Len(s) \in Nat
        BY <2>1
      <4>2. Append(s, n + 1)[Len(s) + 1] = n + 1 /\ \A i \in 1..Len(s) : Append(s, n + 1)[i] = s[i]
        BY <2>1
      <4> QED BY <4>1, <4>2 DEF Range
    <3>3. Range(g[p].kids) \subseteq 1..Len(g)
      BY <1>2, <2>1, KidHasParent
    <3> QED BY <2>2, <3>1, <3>2, <3>3
  <2>3. CASE h[p].kind # "Folder"
    <3>1. g[p].kids = <<n + 1>>
      BY <1>0, <1>2, <2>3
    <3>2. Range(<<n + 1>>) = {n + 1} /\ Len(<<n + 1>>) = 1
      BY DEF Range
    <3>3. n + 1 \in 1..Len(g)
      BY <1>0, <1>2, <1>3
    <3> QED BY <2>3, <3>1, <3>2, <3>3
  <2> QED BY <2>2, <2>3
<1>5. Schemed(g)
  <2>1. \A o \in 1..n : g[o].kind = h[o].kind /\ g[o].parent = h[o].parent
    BY <1>2
  <2>2. \A x \in (n + 1)..Len(g) :
          g[x].kind # "kml" /\ (g[x].parent = 0 \/ Placed(g, x))
    <3> TAKE x \in (n + 1)..Len(g)
    <3>1. CASE x = n + 1
      <4>1. g[p].kind = h[p].kind /\ p \in 1..Len(g)
        BY <1>0, <1>2, <1>3
      <4> QED BY <1>0, <1>2, <3>1, <4>1 DEF Placed
    <3>2. CASE x # n + 1
      <4>1. x \in (n + 2)..Len(g)
        BY <1>0, <1>3, <3>2
      <4>2. g[x].parent \in (n + 1)..Len(g) /\ g[x].parent \in 1..Len(g)
        BY <1>0, <1>2, <1>3, <4>1
      <4> QED BY <1>2, <4>1, <4>2 DEF Placed
    <3> QED BY <3>1, <3>2
  <2>3. \A o \in 1..Len(g) : g[o].kind # "Folder" => Len(g[o].kids) <= 1
    <3> TAKE o \in 1..Len(g)
    <3>1. CASE o \in 1..n /\ o # p
      BY <1>0, <1>2, <3>1 DEF Schemed
    <3>2. CASE o = p
      BY <1>0, <1>2, <1>4, <3>2
    <3>3. CASE o \notin 1..n
      <4>1. o \in (n + 1)..Len(g)
        BY <1>0, <1>3, <3>3
      <4> QED BY <1>2, <4>1
    <3> QED BY <3>1, <3>2, <3>3
  <2>4. Len(g) >= Len(h)
    BY <1>0, <1>2, <1>3
  <2> QED BY <1>0, <1>2, <2>1, <2>2, <2>3, <2>4, SchemedAfter
<1>6. \A q \in 1..n : \A y \in Range(h[q].kids) :
        y \in Range(g[q].kids) \/ IsGeometry(h[y].kind)
  <2> TAKE q \in 1..n
  <2> TAKE y \in Range(h[q].kids)
  <2>1. CASE q # p
    BY <1>2, <2>1
  <2>2. CASE q = p
    <3>1. CASE h[p].kind = "Folder"
      BY <1>4, <2>2, <3>1
    <3>2. CASE h[p].kind # "Folder"
      <4>1. y \in 1..n /\ h[y].parent = p
        BY <1>0, <2>2, KidHasParent
      <4>2. Takes(h[p].kind, h[y].kind)
        BY <1>0, <4>1 DEF Schemed
      <4> QED BY <1>0, <3>2, <4>2 DEF Takes, IsGeometry
    <3> QED BY <3>1, <3>2
  <2> QED BY <2>1, <2>2
<1>7. \A o \in (n + 1)..Len(g) :
        g[o].parent \in 1..(o - 1) /\ o \in Range(g[g[o].parent].kids)
  <2> TAKE o \in (n + 1)..Len(g)
  <2>1. CASE o = n + 1
    BY <1>0, <1>2, <1>4, <2>1
  <2>2. CASE o # n + 1
    <3>1. o \in (n + 2)..Len(g)
      BY <1>0, <1>3, <2>2
    <3> QED BY <1>0, <1>2, <3>1
  <2> QED BY <2>1, <2>2
<1>9. Len(g) >= n /\ \A q \in 1..n : g[q].kind = h[q].kind /\ g[q].parent = h[q].parent
  BY <1>0, <1>2, <1>3
<1> QED BY <1>5, <1>6, <1>7, <1>9 DEF Grown

LEMMA InConcatenation ==
    ASSUME NEW s \in Seq(Nat), NEW r \in Seq(Nat), NEW l \in 1..Len(r)
    PROVE  r[l] \in Range(s \o r)
<1> DEFINE v == s \o r
<1>1. /\ v \in Seq(Nat) /\ Len(v) = Len(s) + Len(r) /\ Len(s) \in Nat /\ Len(r) \in Nat
      /\ \A i \in 1..(Len(s) + Len(r)) : v[i] = IF i <= Len(s) THEN s[i] ELSE r[i - Len(s)]
  BY Concatenated
<1> HIDE DEF v
<1>2. PICK i \in 1..(Len(s) + Len(r)) : ~ (i <= Len(s)) /\ i - Len(s) = l
  <2>1. /\ Len(s) + l \in 1..(Len(s) + Len(r))
        /\ ~ (Len(s) + l <= Len(s)) /\ Len(s) + l - Len(s) = l
    BY <1>1
  <2> QED BY <2>1
<1>3. v[i] = r[l] /\ i \in DOMAIN v
  BY <1>1, <1>2, SMTT(40)
<1> QED BY <1>3 DEF Range, v

LEMMA BothParts ==
    ASSUME NEW f \in Seq(Nodes), NEW d \in Seq(Nodes), NEW g, g = f \o d
    PROVE  /\ Len(g) = Len(f) + Len(d)
           /\ \A q \in 1..Len(f) : g[q] = f[q]
           /\ \A j \in 1..Len(d) : g[Len(f) + j] = d[j]
<1>1. Len(f) \in Nat /\ Len(d) \in Nat
  BY LenProperties
<1>2. PICK n \in Nat, m \in Nat : n = Len(f) /\ m = Len(d)
  BY ONLY <1>1, Zenon
<1>3. Len(g) = n + m /\ \A q \in 1..(n + m) : g[q] = IF q <= n THEN f[q] ELSE d[q - n]
  BY <1>2, Concatenated
<1>4. ASSUME NEW q \in 1..n
      PROVE  g[q] = f[q]
  BY ONLY <1>3, n \in Nat, m \in Nat, q \in 1..n
<1>5. ASSUME NEW j \in 1..m
      PROVE  g[n + j] = d[j]
  <2>1. n + j \in 1..(n + m) /\ ~ (n + j <= n) /\ n + j - n = j
    OBVIOUS
  <2> QED BY ONLY <1>3, <2>1
<1> QED BY ONLY <1>2, <1>3, <1>4, <1>5

(* g is h with copies of what is below the root of t, below c.             *)
CopiedBelow(h, c, t, g) ==
  LET n == Len(h) IN
  /\ Good(g) /\ Len(g) >= n
  /\ \A q \in 1..n : q # c => g[q] = h[q]
  /\ \E r \in Seq(Nat) : /\ Len(r) = Len(t[1].kids)
                         /\ g[c] = [h[c] EXCEPT !.kids = h[c].kids \o r]
  /\ \A x \in (n + 1)..Len(g) :
       /\ g[x].parent \in {c} \cup (n + 1)..(x - 1) /\ x \in Range(g[g[x].parent].kids)
       /\ Takes(g[g[x].parent].kind, g[x].kind)
       /\ g[x].kind # "kml" /\ (g[x].kind # "Folder" => Len(g[x].kids) <= 1)

LEMMA CopyFeaturesIs ==
    ASSUME NEW h, Good(h), NEW c \in 1..Len(h), h[c].kind = "Folder",
           NEW t, IsTree(t), FollowsSchema(t), t[1].kind = "Folder",
           NEW g, g = CopyFeatures(h, c, t)
    PROVE  CopiedBelow(h, c, t, g)
<1> DEFINE n == Len(h)
           m == Len(t) - 1
           s == h[c].kids
           a == t[1].kids
           r == [i \in DOMAIN a |-> n - 1 + a[i]]
           Par(j) == IF t[j + 1].parent = 1 THEN c ELSE n - 1 + t[j + 1].parent
           Kid(j) == [i \in DOMAIN t[j + 1].kids |-> n - 1 + t[j + 1].kids[i]]
           Copy(j) == [t[j + 1] EXCEPT !.parent = Par(j), !.kids = Kid(j)]
           d == [j \in 1..m |-> Copy(j)]
           e == [h[c] EXCEPT !.kids = s \o r]
           f == [h EXCEPT ![c] = e]
<1>0. g = f \o d
  BY DEF CopyFeatures
<1>1. /\ n \in Nat /\ n - 1 \in Nat /\ c \in Nat /\ h[c] \in Nodes /\ s \in Seq(Nat)
      /\ Len(t) \in Nat /\ m \in Nat /\ Len(t) >= 1 /\ c <= n /\ 1 <= c
  BY GoodType, TreeIsGood
<1>2. \A q \in 1..Len(t) : t[q] \in Nodes /\ t[q].parent \in Nat /\ t[q].kids \in Seq(Nat)
  BY TreeIsGood, GoodType
<1>3. r \in Seq(Nat) /\ Len(r) = Len(a) /\ \A i \in 1..Len(a) : r[i] = n - 1 + a[i]
  BY <1>1, <1>2, ShiftedKids
<1> HIDE DEF r
<1>4. \A j \in 1..m : /\ Kid(j) \in Seq(Nat) /\ Len(Kid(j)) = Len(t[j + 1].kids)
                      /\ \A i \in 1..Len(t[j + 1].kids) : Kid(j)[i] = n - 1 + t[j + 1].kids[i]
  <2> TAKE j \in 1..m
  <2>1. j + 1 \in 1..Len(t)
    BY <1>1
  <2> QED BY <1>1, <1>2, <2>1, ShiftedKids
<1> HIDE DEF Kid
<1>5. \A j \in 1..m : /\ Copy(j) \in Nodes /\ Copy(j).kind = t[j + 1].kind
                      /\ Copy(j).parent = Par(j) /\ Copy(j).kids = Kid(j)
  <2> TAKE j \in 1..m
  <2>1. t[j + 1] \in Nodes /\ Par(j) \in Nat
    BY <1>1, <1>2
  <2> HIDE DEF Par
  <2> QED BY <1>4, <2>1 DEF Nodes
<1> HIDE DEF Copy, Par
<1>6. d \in Seq(Nodes) /\ Len(d) = m /\ \A j \in 1..m : d[j] = Copy(j)
  <2>1. d = [j \in 1..m |-> d[j]] /\ \A j \in 1..m : d[j] = Copy(j)
    OBVIOUS
  <2> HIDE DEF d, m
  <2> QED BY <1>1, <1>5, <2>1, FunctionIsSeq
<1>7. s \o r \in Seq(Nat)
  BY <1>1, <1>3
<1>8. e \in Nodes /\ e.kind = "Folder" /\ e.kids = s \o r
  <2>1. h[c].kind = "Folder"
    OBVIOUS
  <2> HIDE DEF s
  <2> QED BY <1>1, <1>7, <2>1 DEF Nodes
<1>9. f \in Seq(Nodes) /\ Len(f) = n /\ \A q \in 1..n : f[q] = IF q = c THEN e ELSE h[q]
  BY <1>8, GoodType
<1> HIDE DEF d, e, f
<1>10. /\ Len(g) = n + m
       /\ \A q \in 1..n : g[q] = f[q]
       /\ \A j \in 1..m : g[n + j] = Copy(j)
  <2>1. f \in Seq(Nodes) /\ d \in Seq(Nodes) /\ Len(f) = n /\ Len(d) = m
    BY <1>6, <1>9
  <2> HIDE DEF m, n
  <2>2. /\ Len(g) = Len(f) + Len(d)
        /\ \A q \in 1..Len(f) : g[q] = f[q]
        /\ \A j \in 1..Len(d) : g[Len(f) + j] = d[j]
    BY <1>0, <2>1, BothParts, ZenonT(40)
  <2>3. /\ Len(g) = n + m
        /\ \A q \in 1..n : g[q] = f[q]
        /\ \A j \in 1..m : g[n + j] = d[j]
    BY ONLY <2>1, <2>2
  <2>4. \A j \in 1..m : d[j] = Copy(j)
    BY <1>6, Zenon
  <2> QED BY ONLY <2>3, <2>4
<1>11. g[c] = [h[c] EXCEPT !.kids = h[c].kids \o r] /\ g[c].kids = s \o r /\ g[c].kind = "Folder"
  BY <1>8, <1>9, <1>10 DEF e
<1>12. \A q \in 1..n : q # c => g[q] = h[q]
  BY <1>9, <1>10
<1>13. ASSUME NEW x \in (n + 1)..Len(g)
       PROVE  /\ g[x].parent \in {c} \cup (n + 1)..(x - 1) /\ x \in Range(g[g[x].parent].kids)
              /\ Takes(g[g[x].parent].kind, g[x].kind)
              /\ g[x].kind # "kml" /\ (g[x].kind # "Folder" => Len(g[x].kids) <= 1)
  <2>1. PICK j \in 1..m : x = n + j
    <3>1. x - n \in 1..m /\ x = n + (x - n)
      BY <1>1, <1>10
    <3> QED BY <3>1
  <2>2. PICK y \in 2..Len(t) : y = j + 1 /\ x = n - 1 + y
    BY <1>1, <2>1
  <2>3. /\ g[x].kind = t[y].kind /\ g[x].parent = Par(j) /\ g[x].kids = Kid(j)
        /\ Len(g[x].kids) = Len(t[y].kids)
    BY <1>4, <1>5, <1>10, <2>1, <2>2, ZenonT(40)
  <2>4. /\ t[y].parent \in 1..(y - 1) /\ y \in Range(t[t[y].parent].kids)
        /\ Takes(t[t[y].parent].kind, t[y].kind) /\ t[y].kind # "kml"
    BY ChildFits
  <2>5. g[x].kind # "Folder" => Len(g[x].kids) <= 1
    <3>1. y \in DOMAIN t
      BY <1>1 DEF IsTree
    <3> QED BY <2>3, <3>1 DEF FollowsSchema
  <2> DEFINE b == t[y].parent
  <2>6. PICK l \in DOMAIN t[b].kids : y = t[b].kids[l]
    BY <2>4 DEF Range
  <2>7. b \in 1..Len(t) /\ l \in 1..Len(t[b].kids) /\ b \in Nat
    <3>1. b \in 1..Len(t)
      BY <1>1, <2>4
    <3>2. t[b].kids \in Seq(Nat)
      BY <1>2, <3>1
    <3> HIDE DEF b
    <3>3. DOMAIN t[b].kids = 1..Len(t[b].kids)
      BY <3>2
    <3> QED BY <2>6, <3>1, <3>3
  <2>8. Par(j) = IF b = 1 THEN c ELSE n - 1 + b
    BY <2>2 DEF Par
  <2> HIDE DEF b
  <2>9. CASE b = 1
    <3>1. l \in 1..Len(r) /\ r[l] = x
      BY <1>3, <2>2, <2>6, <2>7, <2>9
    <3>2. x \in Range(s \o r)
      <4> HIDE DEF s
      <4>1. s \in Seq(Nat) /\ r \in Seq(Nat)
        BY <1>1, <1>3
      <4> QED BY <3>1, <4>1, InConcatenation
    <3>5. x \in Range(g[c].kids) /\ g[x].parent = c
      BY <1>11, <2>3, <2>8, <2>9, <3>2
    <3>6. Takes("Folder", t[y].kind)
      BY <2>4, <2>9 DEF b
    <3> QED BY <1>11, <2>3, <2>4, <2>5, <3>5, <3>6
  <2>10. CASE b # 1
    <3>1. PICK i \in 1..m : b = i + 1 /\ i < j
      <4>1. b - 1 \in 1..m /\ b = (b - 1) + 1 /\ b - 1 < j
        <5>1. b \in 1..(y - 1) /\ y = j + 1
          BY <2>2, <2>4 DEF b
        <5>2. m \in Nat
          BY <1>1
        <5> HIDE DEF m
        <5> QED BY ONLY <2>7, <2>10, <5>1, <5>2, j \in 1..m
      <4> QED BY <4>1
    <3> DEFINE z == n + i
    <3>2. g[x].parent = z /\ z \in (n + 1)..(x - 1)
      BY <1>1, <2>1, <2>3, <2>8, <2>10, <3>1
    <3>3. g[z].kind = t[b].kind /\ g[z].kids = Kid(i)
      BY <1>5, <1>10, <3>1
    <3> HIDE DEF z
    <3>4. l \in DOMAIN Kid(i) /\ Kid(i)[l] = x
      <4>1. Kid(i) \in Seq(Nat) /\ Len(Kid(i)) = Len(t[b].kids) /\ Kid(i)[l] = n - 1 + t[b].kids[l]
        BY <1>4, <2>7, <3>1
      <4> QED BY <2>2, <2>6, <2>7, <4>1
    <3>5. x \in Range(g[z].kids)
      BY <3>3, <3>4 DEF Range
    <3> QED BY <2>3, <2>4, <2>5, <3>2, <3>3, <3>5 DEF b
  <2> QED BY <2>9, <2>10
<1>14. Good(g) /\ Len(g) >= n
  BY CopyFeaturesGood
<1> QED BY <1>3, <1>11, <1>12, <1>13, <1>14 DEF CopiedBelow

(* A parent's children are a sequence that goes on.                        *)
LEMMA RangeGrows ==
    ASSUME NEW s \in Seq(Nat), NEW r \in Seq(Nat) PROVE Range(s) \subseteq Range(s \o r)
<1>1. /\ Len(s) \in Nat /\ Len(r) \in Nat /\ Len(s \o r) = Len(s) + Len(r)
      /\ s \o r \in Seq(Nat)
      /\ \A i \in 1..(Len(s) + Len(r)) : (s \o r)[i] = IF i <= Len(s) THEN s[i] ELSE r[i - Len(s)]
  BY Concatenated
<1>2. DOMAIN s = 1..Len(s) /\ DOMAIN (s \o r) = 1..Len(s \o r)
  BY <1>1, LenProperties
<1>3. ASSUME NEW i \in DOMAIN s PROVE i \in DOMAIN (s \o r) /\ (s \o r)[i] = s[i]
  BY <1>1, <1>2
<1> QED BY <1>3 DEF Range

(* The copies of a Create, below an element of the tree.                   *)
LEMMA CopyKeeps ==
    ASSUME NEW h, Good(h), Len(h) >= 1, Schemed(h), NEW c \in 1..Len(h), h[c].kind = "Folder",
           NEW t, NEW g, CopiedBelow(h, c, t, g)
    PROVE  /\ Len(g) >= Len(h) /\ Schemed(g)
           /\ \A q \in 1..Len(h) : g[q].kind = h[q].kind /\ g[q].parent = h[q].parent
           /\ \A q \in 1..Len(h) : \A y \in Range(h[q].kids) : y \in Range(g[q].kids)
           /\ \A o \in (Len(h) + 1)..Len(g) :
                g[o].parent \in 1..(o - 1) /\ o \in Range(g[g[o].parent].kids)
<1> DEFINE n == Len(h)
<1>1. /\ Good(g) /\ Len(g) >= n /\ n \in Nat /\ Len(g) \in Nat
      /\ \A q \in 1..n : q # c => g[q] = h[q]
      /\ \A x \in (n + 1)..Len(g) :
           /\ g[x].parent \in {c} \cup (n + 1)..(x - 1) /\ x \in Range(g[g[x].parent].kids)
           /\ Takes(g[g[x].parent].kind, g[x].kind)
           /\ g[x].kind # "kml" /\ (g[x].kind # "Folder" => Len(g[x].kids) <= 1)
  BY GoodType DEF CopiedBelow
<1>2. PICK r \in Seq(Nat) : g[c] = [h[c] EXCEPT !.kids = h[c].kids \o r]
  BY DEF CopiedBelow
<1>3. g[c].kind = h[c].kind /\ g[c].parent = h[c].parent /\ g[c].kids = h[c].kids \o r
  <2>1. h[c] \in Nodes
    BY GoodType
  <2> QED BY <1>2, <2>1 DEF Nodes
<1>4. \A q \in 1..n : g[q].kind = h[q].kind /\ g[q].parent = h[q].parent
  BY <1>1, <1>3
<1>5. \A q \in 1..n : \A y \in Range(h[q].kids) : y \in Range(g[q].kids)
  <2>1. h[c].kids \in Seq(Nat)
    BY GoodType
  <2>2. Range(h[c].kids) \subseteq Range(g[c].kids)
    BY <1>3, <2>1, RangeGrows
  <2> QED BY <1>1, <2>2
<1>6. \A x \in (n + 1)..Len(g) :
        g[x].parent \in 1..(x - 1) /\ x \in Range(g[g[x].parent].kids)
  <2> TAKE x \in (n + 1)..Len(g)
  <2>1. g[x].parent \in {c} \cup (n + 1)..(x - 1) /\ x \in Range(g[g[x].parent].kids)
    BY <1>1
  <2>2. c \in 1..n /\ x \in Nat /\ x > n
    BY <1>1
  <2>3. c \in 1..(x - 1) /\ (n + 1)..(x - 1) \subseteq 1..(x - 1)
    BY <1>1, <2>2
  <2> QED BY <2>1, <2>3
<1>7. \A x \in (n + 1)..Len(g) : g[x].kind # "kml" /\ Placed(g, x)
  <2> TAKE x \in (n + 1)..Len(g)
  <2>1. g[x].parent \in {c} \cup (n + 1)..(x - 1) /\ Takes(g[g[x].parent].kind, g[x].kind)
        /\ g[x].kind # "kml"
    BY <1>1
  <2>2. CASE g[x].parent = c
    <3>1. c \in 1..Len(g)
      BY <1>1
    <3> QED BY <1>3, <2>1, <2>2, <3>1 DEF Placed
  <2>3. CASE g[x].parent \in (n + 1)..(x - 1)
    <3>1. g[x].parent \in 1..Len(g) /\ g[x].parent \in (n + 1)..Len(g)
      BY <1>1, <2>3
    <3> QED BY <1>1, <2>1, <3>1 DEF Placed
  <2> QED BY <2>1, <2>2, <2>3
<1>8. \A o \in 1..Len(g) : g[o].kind # "Folder" => Len(g[o].kids) <= 1
  <2> TAKE o \in 1..Len(g)
  <2>1. CASE o \in 1..n
    <3>1. CASE o = c
      BY <1>3, <3>1
    <3>2. CASE o # c
      BY <1>1, <2>1, <3>2 DEF Schemed
    <3> QED BY <3>1, <3>2
  <2>2. CASE o \in (n + 1)..Len(g)
    BY <1>1, <2>2
  <2> QED BY <1>1, <2>1, <2>2
<1>9. Schemed(g)
  BY <1>1, <1>4, <1>7, <1>8, SchemedAfter
<1> QED BY <1>1, <1>4, <1>5, <1>6, <1>9


-----------------------------------------------------------------------------
(* What a merge knows of the elements it came by: but for the target, they *)
(* are of the kinds of the source's nodes and stand below one another as   *)
(* those do.  The target is no kml.                                        *)
FitsAt(h, w, j) ==
  /\ h[w.into[j]].kind # "kml"
  /\ j # 1 => /\ h[w.into[j]].kind = w.src[j].kind
              /\ h[w.into[j]].parent = w.into[w.src[j].parent]
              /\ h[w.into[j]].parent # 0
  /\ \A x \in Range(w.seen[j]) : h[x].parent = w.into[j]

WorkFits(h, w) ==
  /\ Len(w.into) <= Len(w.src)
  /\ \A j \in 1..Len(w.into) : w.into[j] # 0 => FitsAt(h, w, j)

(* What has an id when the file is read is no kml.                         *)
NoKmlIn(h, map) == \A i \in DOMAIN map : h[map[i]].kind # "kml"

TInv ==
  /\ IInv /\ Schemed(heap) /\ Kept(heap, Pointers \cup dropped)
  /\ WorkFits(heap, work) /\ (work # Idle => work.into[1] # 0)
  /\ NoKmlIn(heap, idMap)

LEMMA WorkType ==
    ASSUME NEW w, NEW n \in Nat, WorkGood(w, n), w # Idle
    PROVE  /\ w.src \in Changes /\ IsTree(w.src) /\ FollowsSchema(w.src) /\ w.src[1].kind # "kml"
           /\ w.into \in Seq(0..n) /\ w.seen \in Seq(Seq(1..n))
           /\ Len(w.into) = Len(w.seen) /\ Len(w.into) \in Nat \ {0} /\ Len(w.src) \in Nat \ {0}
           /\ \A j \in 1..Len(w.into) : w.into[j] \in 0..n /\ Range(w.seen[j]) \subseteq 1..n
           /\ w = [src |-> w.src, into |-> w.into, seen |-> w.seen]
<1>1. /\ w.src \in Changes
      /\ w.into \in Seq(0..n) /\ w.seen \in Seq(Seq(1..n))
      /\ Len(w.into) = Len(w.seen) /\ Len(w.into) >= 1
      /\ w = [src |-> w.src, into |-> w.into, seen |-> w.seen]
  BY DEF WorkGood
<1>2. IsTree(w.src) /\ FollowsSchema(w.src) /\ w.src[1].kind # "kml"
  BY <1>1, TreesAssumption, SchemaAssumption
<1>3. Len(w.into) \in Nat \ {0} /\ Len(w.src) \in Nat \ {0}
  BY <1>1, <1>2, LenProperties, TreeIsGood
<1>4. ASSUME NEW j \in 1..Len(w.into)
      PROVE  w.into[j] \in 0..n /\ Range(w.seen[j]) \subseteq 1..n
  <2>1. w.into[j] \in 0..n /\ w.seen[j] \in Seq(1..n)
    BY <1>1, ElementOfSeq
  <2> QED BY <2>1, RangeInSet
<1> QED BY <1>1, <1>2, <1>3, <1>4

LEMMA WorkStaysFit ==
    ASSUME NEW n \in Nat, NEW w, WorkGood(w, n), NEW h, NEW g, WorkFits(h, w),
           \A q \in 1..n : g[q].kind = h[q].kind /\ g[q].parent = h[q].parent
    PROVE  WorkFits(g, w)
<1>1. CASE w = Idle
  BY <1>1 DEF WorkFits, Idle
<1>2. CASE w # Idle
  <2>1. \A j \in 1..Len(w.into) : w.into[j] \in 0..n /\ Range(w.seen[j]) \subseteq 1..n
    BY <1>2, WorkType
  <2>2. ASSUME NEW j \in 1..Len(w.into), w.into[j] # 0
        PROVE  FitsAt(g, w, j)
    <3>1. w.into[j] \in 1..n /\ Range(w.seen[j]) \subseteq 1..n
      BY <2>1, <2>2
    <3>2. FitsAt(h, w, j)
      BY <2>2 DEF WorkFits
    <3> QED BY <3>1, <3>2 DEF FitsAt
  <2> QED BY <2>2 DEF WorkFits
<1> QED BY <1>1, <1>2

(* One more node.                                                          *)
LEMMA VisitedFits ==
    ASSUME NEW h, Good(h), NEW w, WorkGood(w, Len(h)), WorkFits(h, w), w # Idle,
           NEW o \in 0..Len(h), NEW j, j = Len(w.into) + 1, j <= Len(w.src),
           o # 0 => /\ h[o].kind = w.src[j].kind /\ h[o].kind # "kml"
                    /\ h[o].parent = w.into[w.src[j].parent] /\ h[o].parent # 0
    PROVE  WorkFits(h, [w EXCEPT !.into = Append(@, o),
                                 !.seen = Append(@, IF o = 0 THEN << >> ELSE h[o].kids)])
<1> DEFINE s == IF o = 0 THEN << >> ELSE h[o].kids
           v == [w EXCEPT !.into = Append(@, o), !.seen = Append(@, s)]
           n == Len(h)
           m == Len(w.into)
<1>1. /\ n \in Nat /\ IsTree(w.src)
      /\ w.into \in Seq(0..n) /\ w.seen \in Seq(Seq(1..n)) /\ Len(w.seen) = m
      /\ m \in Nat \ {0} /\ w = [src |-> w.src, into |-> w.into, seen |-> w.seen]
  BY GoodType, WorkType
<1>2. s \in Seq(1..n) /\ (o # 0 => s = h[o].kids)
  <2>1. o # 0 => o \in 1..n
    BY <1>1
  <2>2. CASE o = 0
    BY <2>2
  <2>3. CASE o # 0
    <3>1. s = h[o].kids /\ h[o].kids \in Seq(1..n)
      BY <2>1, <2>3, KidsKnown
    <3> QED BY <3>1
  <2> QED BY <2>2, <2>3
<1>3. v.into = Append(w.into, o) /\ v.seen = Append(w.seen, s) /\ v.src = w.src
  BY <1>1
<1> HIDE DEF s, v, n, m
<1>4. /\ Len(v.into) = m + 1 /\ v.into[m + 1] = o /\ v.seen[m + 1] = s
      /\ \A i \in 1..m : v.into[i] = w.into[i] /\ v.seen[i] = w.seen[i]
  BY <1>1, <1>2, <1>3, AppendProperties DEF m
<1>5. \A i \in 2..(m + 1) : w.src[i].parent \in 1..m
  <2> TAKE i \in 2..(m + 1)
  <2>1. i \in 2..Len(w.src)
    <3>1. Len(w.src) \in Nat /\ m + 1 <= Len(w.src)
      BY <1>1, TreeIsGood DEF m
    <3> QED BY <1>1, <3>1
  <2>2. w.src[i].parent \in 1..(i - 1)
    BY <1>1, <2>1 DEF IsTree
  <2>3. \A q \in 1..(i - 1) : q \in 1..m
    <3>1. m \in Nat /\ i \in 2..(m + 1)
      BY <1>1
    <3> QED BY ONLY <3>1
  <2> QED BY ONLY <2>2, <2>3
<1>6. ASSUME NEW i \in 1..Len(v.into), v.into[i] # 0
      PROVE  FitsAt(h, v, i)
  <2>1. i # 1 => v.into[v.src[i].parent] = w.into[w.src[i].parent]
    <3> SUFFICES ASSUME i # 1 PROVE v.into[v.src[i].parent] = w.into[w.src[i].parent]
      OBVIOUS
    <3>1. i \in 2..(m + 1)
      BY <1>1, <1>4
    <3> QED BY <1>3, <1>4, <1>5, <3>1
  <2>2. CASE i = m + 1
    <3>1. i = j /\ v.into[i] = o /\ v.seen[i] = s /\ o # 0 /\ o \in 1..n
      BY <1>1, <1>4, <1>6, <2>2 DEF m, n
    <3>2. \A x \in Range(s) : h[x].parent = o
      BY <1>2, <3>1, KidHasParent DEF n
    <3> QED BY <1>3, <2>1, <3>1, <3>2 DEF FitsAt
  <2>3. CASE i # m + 1
    <3>1. i \in 1..m
      BY <1>1, <1>4, <2>3
    <3>2. v.into[i] = w.into[i] /\ v.seen[i] = w.seen[i] /\ i \in 1..Len(w.into)
      BY <1>4, <3>1 DEF m
    <3>3. FitsAt(h, w, i)
      BY <1>6, <3>2 DEF WorkFits
    <3> QED BY <1>3, <2>1, <3>2, <3>3 DEF FitsAt
  <2> QED BY <2>2, <2>3
<1>7. Len(v.into) <= Len(v.src)
  BY <1>3, <1>4 DEF m
<1> QED BY <1>6, <1>7 DEF WorkFits, v, s

(* The pointers, and what was dropped, are elements.                       *)
LEMMA RootsKnown == ASSUME IInv PROVE Pointers \cup dropped \in SUBSET (1..Len(heap))
<1>1. Len(heap) \in Nat /\ Len(heap) >= 1
  BY GoodType DEF IInv
<1>2. Root \in 1..Len(heap)
  BY <1>1 DEF Root
<1> QED BY <1>2 DEF IInv, Pointers, Range

(* A step that takes nothing out of an array without knowing of it.        *)
LEMMA TreeStep ==
    ASSUME TInv, IInv', idMap' = idMap, held \subseteq held', dropped \subseteq dropped',
           Len(heap') >= Len(heap), Schemed(heap'), WorkFits(heap', work'),
           work' # Idle => work'.into[1] # 0,
           \A o \in 1..Len(heap) : heap'[o].kind = heap[o].kind,
           \A p \in 1..Len(heap) : \A y \in Range(heap[p].kids) :
             \/ y \in Range(heap'[p].kids) \/ IsGeometry(heap[y].kind)
             \/ y \in dropped' \/ y \in Pointers',
           \A o \in (Len(heap) + 1)..Len(heap') :
             \/ o \in held'
             \/ /\ heap'[o].parent \in 1..(o - 1)
                /\ o \in Range(heap'[heap'[o].parent].kids)
    PROVE  TInv'
<1> DEFINE R == Pointers \cup dropped
           S == Pointers' \cup dropped'
<1>1. R \subseteq S /\ held' \subseteq S
  BY DEF Pointers
<1>2. R \in SUBSET (1..Len(heap))
  BY RootsKnown DEF TInv
<1>3. S \in SUBSET (1..Len(heap'))
  <2>1. Len(heap') \in Nat /\ Len(heap') >= 1
    BY GoodType DEF IInv
  <2>2. Root \in 1..Len(heap')
    BY <2>1 DEF Root
  <2> QED BY <2>2 DEF IInv, Pointers, Range
<1>4. Good(heap) /\ Schemed(heap) /\ Good(heap') /\ Kept(heap, R)
  BY DEF TInv, IInv
<1>5. \A p \in 1..Len(heap) : \A y \in Range(heap[p].kids) :
        y \in Range(heap'[p].kids) \/ y \in S \/ IsGeometry(heap[y].kind)
  OBVIOUS
<1>6. \A o \in (Len(heap) + 1)..Len(heap') :
        \/ o \in S
        \/ heap'[o].parent \in 1..(o - 1) /\ o \in Range(heap'[heap'[o].parent].kids)
  BY <1>1
<1> HIDE DEF R, S
<1>7. Kept(heap', S)
  BY <1>1, <1>2, <1>3, <1>4, <1>5, <1>6, KeptAfter
<1>8. NoKmlIn(heap', idMap')
  <2>1. \A i \in DOMAIN idMap : idMap[i] \in 1..Len(heap)
    BY DEF TInv, IInv
  <2> QED BY <2>1 DEF TInv, NoKmlIn
<1> QED BY <1>7, <1>8 DEF TInv, S

(* A step that changes labels only.                                        *)
LEMMA LabelStep ==
    ASSUME TInv, IInv', UNCHANGED <<idMap, held, dropped>>,
           Len(heap') = Len(heap), WorkFits(heap', work'),
           work' # Idle => work'.into[1] # 0,
           \A o \in 1..Len(heap) : /\ heap'[o].kind = heap[o].kind
                                   /\ heap'[o].parent = heap[o].parent
                                   /\ heap'[o].kids = heap[o].kids
    PROVE  TInv'
<1>1. Good(heap) /\ Good(heap') /\ Schemed(heap) /\ Len(heap) \in Nat /\ Len(heap) >= 1
  BY GoodType DEF TInv, IInv
<1>2. Schemed(heap')
  BY <1>1 DEF Schemed, Root
<1>3. \A o \in (Len(heap) + 1)..Len(heap') : FALSE
  BY <1>1
<1> QED BY <1>1, <1>2, <1>3, TreeStep

(* g is h, with new labels for o.                                          *)
Relabelled(h, o, g) ==
  /\ \A q \in 1..Len(h) : /\ g[q].kind = h[q].kind /\ g[q].parent = h[q].parent
                          /\ g[q].kids = h[q].kids
  /\ \A q \in 1..Len(h) : q # o => g[q] = h[q]

LEMMA MergeFieldsIs ==
    ASSUME NEW h, Good(h), NEW o \in 1..Len(h), NEW node, NEW g,
           g = [h EXCEPT ![o] = MergeFields(@, node)]
    PROVE  Relabelled(h, o, g)
<1> DEFINE e == MergeFields(h[o], node)
<1>1. DOMAIN h = 1..Len(h) /\ h[o] \in Nodes
  BY GoodType
<1>2. e.kind = h[o].kind /\ e.parent = h[o].parent /\ e.kids = h[o].kids
  BY <1>1 DEF MergeFields, Nodes
<1> HIDE DEF e
<1>3. \A q \in 1..Len(h) : g[q] = IF q = o THEN e ELSE h[q]
  BY <1>1 DEF e
<1> QED BY <1>2, <1>3 DEF Relabelled

LEMMA ChangeTInv == ASSUME TInv, NEW src \in Changes, NEW map, Change(src, map) PROVE TInv'
<1> DEFINE i == GetTargetId(map, src[1].targetId)
           o == idMap[i]
<1>0. IInv'
  BY ChangeIInv DEF TInv
<1>1. CASE ~(i \in DOMAIN idMap)
  <2>1. UNCHANGED <<heap, idMap, held, dropped, work>>
    BY <1>1 DEF Change
  <2>2. Pointers' = Pointers
    BY <2>1 DEF Pointers
  <2> QED BY <1>0, <2>1, <2>2 DEF TInv, NoKmlIn
<1>2. CASE i \in DOMAIN idMap
  <2>1. /\ heap' = [heap EXCEPT ![o] = MergeFields(@, src[1])]
        /\ work' = [src |-> src, into |-> <<o>>, seen |-> <<heap[o].kids>>]
        /\ UNCHANGED <<idMap, held, dropped>>
    BY <1>2 DEF Change
  <2>2. o \in 1..Len(heap) /\ Good(heap) /\ Len(heap) \in Nat /\ IsTree(src) /\ src[1] \in Nodes
    BY <1>2, GoodType, TreesAssumption, TreeIsGood DEF IInv, TInv
  <2>7. heap[o].kind # "kml"
    BY <1>2 DEF TInv, NoKmlIn
  <2> HIDE DEF o
  <2>3. \A q \in 1..Len(heap) : /\ heap'[q].kind = heap[q].kind
                                /\ heap'[q].parent = heap[q].parent
                                /\ heap'[q].kids = heap[q].kids
    <3>1. Relabelled(heap, o, heap')
      BY <2>1, <2>2, MergeFieldsIs
    <3> QED BY <3>1 DEF Relabelled
  <2>4. Len(heap') = Len(heap)
    BY <2>1, <2>2, MergeFieldsGood
  <2>5. WorkFits(heap', work')
    <3>1. work'.into = <<o>> /\ work'.src = src /\ work'.seen = <<heap[o].kids>>
      BY <2>1
    <3>2. Len(work'.into) = 1 /\ work'.into[1] = o /\ work'.seen[1] = heap[o].kids
      BY <3>1
    <3>3. Len(src) >= 1
      BY <2>2, TreeIsGood
    <3>4. \A x \in Range(heap[o].kids) : heap'[x].parent = o
      BY <2>2, <2>3, KidHasParent
    <3>5. heap'[o].kind # "kml"
      BY <2>2, <2>3, <2>7
    <3>6. \A j \in 1..Len(work'.into) : j = 1
      BY <3>2
    <3> HIDE DEF o
    <3>7. \A j \in 1..Len(work'.into) : FitsAt(heap', work', j)
      BY <3>2, <3>4, <3>5, <3>6 DEF FitsAt
    <3> QED BY <3>1, <3>2, <3>3, <3>7 DEF WorkFits
  <2>6. work'.into[1] # 0
    BY <2>1, <2>2
  <2> QED BY <1>0, <2>1, <2>3, <2>4, <2>5, <2>6, LabelStep
<1> QED BY <1>1, <1>2

LEMMA MergeEndsTInv == ASSUME TInv, MergeEnds PROVE TInv'
<1> DEFINE o == work.into[1]
<1>0. IInv'
  BY MergeEndsIInv DEF TInv
<1>1. /\ heap' = [heap EXCEPT ![o].targetId = NoId]
      /\ work' = Idle /\ UNCHANGED <<idMap, held, dropped>>
  BY DEF MergeEnds
<1>2. Good(heap) /\ DOMAIN heap = 1..Len(heap) /\ \A q \in 1..Len(heap) : heap[q] \in Nodes
  BY GoodType DEF TInv, IInv
<1> HIDE DEF o
<1>3. \A q \in 1..Len(heap) : /\ heap'[q].kind = heap[q].kind
                              /\ heap'[q].parent = heap[q].parent
                              /\ heap'[q].kids = heap[q].kids
  <2> TAKE q \in 1..Len(heap)
  <2>1. heap'[q] = IF q = o THEN [heap[q] EXCEPT !.targetId = NoId] ELSE heap[q]
    BY <1>1, <1>2
  <2> QED BY <1>2, <2>1 DEF Nodes
<1>4. Len(heap') = Len(heap)
  <2>1. DOMAIN heap' = DOMAIN heap
    BY <1>1
  <2>2. Len(heap') \in Nat /\ DOMAIN heap' = 1..Len(heap') /\ Len(heap) \in Nat
    BY <1>0, <1>2, GoodType DEF IInv
  <2> QED BY <1>2, <2>1, <2>2
<1>5. WorkFits(heap', work')
  BY <1>1 DEF WorkFits, Idle
<1> QED BY <1>0, <1>1, <1>3, <1>4, <1>5, LabelStep

(* One node of a merge: nothing, new labels for a child of what the node's *)
(* parent was merged into, or a clone below that.                          *)
LEMMA MergeNode ==
    ASSUME TInv, MergeElements
    PROVE  /\ work # Idle /\ Node <= Len(work.src) /\ UNCHANGED <<idMap, held, dropped, call>>
           /\ Node \in 2..Len(work.src) /\ work.src[Node].parent \in 1..Len(work.into)
           /\ \/ heap' = heap /\ Visited(0)
              \/ \E o \in 1..Len(heap) :
                   /\ Into # 0 /\ heap[o].parent = Into /\ heap[o].kind = work.src[Node].kind
                   /\ heap' = [heap EXCEPT ![o] = MergeFields(@, work.src[Node])]
                   /\ Visited(o)
              \/ /\ Into \in 1..Len(heap) /\ heap[Into].kind # "kml"
                 /\ Takes(heap[Into].kind, work.src[Node].kind)
                 /\ heap' = AddClone(heap, Into, work.src, Node) /\ Visited(0)
<1> DEFINE node == work.src[Node]
           p == node.parent
           n == Len(heap)
           kids == work.seen[p]
           same == Matches(kids, node.kind)
           k == CHOOSE k \in same : \A l \in same : k <= l
<1>1. /\ work # Idle /\ Node <= Len(work.src) /\ UNCHANGED <<idMap, held, dropped, call>>
      /\ \/ Visited(0) /\ UNCHANGED heap
         \/ /\ Into # 0 /\ same # {} /\ Visited(kids[k])
            /\ heap' = [heap EXCEPT ![kids[k]] = MergeFields(@, node)]
         \/ /\ Into # 0 /\ Visited(0) /\ Takes(heap[Into].kind, node.kind)
            /\ heap' = AddClone(heap, Into, work.src, Node)
  BY DEF MergeElements
<1>2. n \in Nat /\ Good(heap) /\ WorkGood(work, n) /\ WorkFits(heap, work)
  BY GoodType DEF TInv, IInv
<1>3. /\ IsTree(work.src) /\ FollowsSchema(work.src) /\ work.src[1].kind # "kml"
      /\ work.into \in Seq(0..n) /\ work.seen \in Seq(Seq(1..n))
      /\ Len(work.into) = Len(work.seen) /\ Len(work.into) \in Nat \ {0}
      /\ Len(work.src) \in Nat \ {0}
      /\ \A j \in 1..Len(work.into) : work.into[j] \in 0..n /\ Range(work.seen[j]) \subseteq 1..n
  BY <1>1, <1>2, WorkType
<1>4. Node \in 2..Len(work.src)
  <2> DEFINE a == Len(work.into)
             b == Len(work.src)
  <2>1. a \in Nat /\ b \in Nat /\ a >= 1 /\ Node = a + 1 /\ Node <= b
    <3>1. a \in Nat \ {0} /\ b \in Nat
      BY <1>3
    <3>2. Node = a + 1 /\ Node <= b
      BY <1>1 DEF Node
    <3> HIDE DEF a, b
    <3> QED BY <3>1, <3>2
  <2> HIDE DEF a, b
  <2>2. Node \in 2..b
    BY <2>1
  <2> QED BY <2>2 DEF b
<1>5. p \in 1..(Node - 1) /\ Node - 1 = Len(work.into)
  <2>1. p \in 1..(Node - 1)
    BY <1>3, <1>4, ChildFits
  <2>2. Node - 1 = Len(work.into)
    BY <1>3 DEF Node
  <2> QED BY <2>1, <2>2
<1> HIDE DEF node, p
<1>6. p \in 1..Len(work.into) /\ Into = work.into[p]
  <2>1. p \in 1..Len(work.into)
    BY <1>5
  <2> QED BY <2>1 DEF Into, p, node
<1>7. /\ Into \in 0..n /\ kids \in Seq(1..n)
      /\ Into # 0 => /\ heap[Into].kind # "kml"
                     /\ \A x \in Range(kids) : heap[x].parent = Into
  <2>1. Into \in 0..n
    BY <1>3, <1>6
  <2>2. kids \in Seq(1..n)
    BY <1>3, <1>6, ElementOfSeq
  <2>3. Into # 0 => /\ heap[Into].kind # "kml"
                    /\ \A x \in Range(kids) : heap[x].parent = Into
    BY <1>2, <1>6 DEF WorkFits, FitsAt
  <2> QED BY <2>1, <2>2, <2>3
<1> HIDE DEF kids
<1>9. CASE Visited(0) /\ UNCHANGED heap
  BY <1>1, <1>4, <1>6, <1>9 DEF node, p
<1>10. CASE /\ Into # 0 /\ same # {} /\ Visited(kids[k])
            /\ heap' = [heap EXCEPT ![kids[k]] = MergeFields(@, node)]
  <2>1. same \in SUBSET Nat /\ same \subseteq DOMAIN kids
    BY <1>7 DEF Matches
  <2>2. \E m \in same : \A l \in same : m <= l
    BY <1>10, <2>1, SmallestNat
  <2>3. k \in same
    <3> HIDE DEF same
    <3> QED BY <2>2
  <2>4. k \in DOMAIN kids /\ heap[kids[k]].kind = node.kind
    <3> HIDE DEF k
    <3> QED BY <2>3 DEF Matches
  <2> HIDE DEF k, same
  <2> DEFINE o == kids[k]
  <2>5. o \in 1..n /\ o \in Range(kids)
    BY <1>7, <2>4 DEF Range
  <2>6. heap[o].parent = Into
    BY <1>7, <1>10, <2>5
  <2> HIDE DEF o
  <2>7. Into # 0 /\ heap[o].kind = node.kind /\ Visited(o)
        /\ heap' = [heap EXCEPT ![o] = MergeFields(@, node)]
    BY <1>10, <2>4 DEF o
  <2> QED BY <1>1, <1>4, <1>6, <2>5, <2>6, <2>7 DEF node, p
<1>11. CASE /\ Into # 0 /\ Visited(0) /\ Takes(heap[Into].kind, node.kind)
            /\ heap' = AddClone(heap, Into, work.src, Node)
  <2>1. Into \in 1..n
    BY <1>2, <1>7, <1>11
  <2>2. Takes(heap[Into].kind, node.kind) /\ heap[Into].kind # "kml"
    BY <1>7, <1>11
  <2> QED BY <1>1, <1>4, <1>6, <1>11, <2>1, <2>2 DEF node, p
<1> QED BY <1>1, <1>9, <1>10, <1>11 DEF node, kids, p

LEMMA MergeElementsTInv == ASSUME TInv, MergeElements PROVE TInv'
<1> DEFINE n == Len(heap)
           src == work.src
<1>0. IInv'
  BY MergeElementsIInv DEF TInv
<1>1. /\ work # Idle /\ Node <= Len(src) /\ UNCHANGED <<idMap, held, dropped>>
      /\ Node \in 2..Len(src) /\ src[Node].parent \in 1..Len(work.into)
      /\ \/ heap' = heap /\ Visited(0)
         \/ \E o \in 1..n :
              /\ Into # 0 /\ heap[o].parent = Into /\ heap[o].kind = src[Node].kind
              /\ heap' = [heap EXCEPT ![o] = MergeFields(@, src[Node])] /\ Visited(o)
         \/ /\ Into \in 1..n /\ heap[Into].kind # "kml" /\ Takes(heap[Into].kind, src[Node].kind)
            /\ heap' = AddClone(heap, Into, src, Node) /\ Visited(0)
  BY MergeNode
<1>2. n \in Nat /\ Good(heap) /\ WorkGood(work, n) /\ WorkFits(heap, work) /\ n >= 1 /\ Schemed(heap)
  BY GoodType DEF TInv, IInv
<1>3. IsTree(src) /\ FollowsSchema(src) /\ Len(work.into) \in Nat \ {0} /\ Len(src) \in Nat
  BY <1>1, <1>2, WorkType
<1>4. ASSUME NEW o \in 0..n, Visited(o),
             o # 0 => heap[o].parent = Into /\ heap[o].kind = src[Node].kind /\ Into # 0
      PROVE  WorkFits(heap, work')
  <2>1. work' = [work EXCEPT !.into = Append(@, o),
                             !.seen = Append(@, IF o = 0 THEN << >> ELSE heap[o].kids)]
    BY <1>4 DEF Visited
  <2>2. o # 0 => /\ heap[o].kind = work.src[Node].kind /\ heap[o].kind # "kml"
                 /\ heap[o].parent = work.into[work.src[Node].parent] /\ heap[o].parent # 0
    BY <1>1, <1>3, <1>4, ChildFits DEF Into
  <2>3. WorkFits(heap, [work EXCEPT !.into = Append(@, o),
                                    !.seen = Append(@, IF o = 0 THEN << >> ELSE heap[o].kids)])
    BY <1>1, <1>2, <2>2, VisitedFits DEF Node
  <2> QED BY <2>1, <2>3
<1>5. ASSUME NEW o, Visited(o) PROVE work'.into[1] # 0
  <2>1. work'.into = Append(work.into, o) /\ work.into \in Seq(0..n)
    <3>1. /\ work.into \in Seq(0..n)
          /\ work = [src |-> work.src, into |-> work.into, seen |-> work.seen]
      BY <1>1, <1>2, WorkType
    <3>2. work' = [work EXCEPT !.into = Append(@, o),
                               !.seen = Append(@, IF o = 0 THEN << >> ELSE heap[o].kids)]
      BY <1>5 DEF Visited
    <3> QED BY <3>1, <3>2
  <2>2. work'.into[1] = work.into[1]
    BY <1>3, <2>1
  <2> QED BY <1>1, <2>2 DEF TInv
<1>6. 0 \in 0..n
  BY <1>2
<1> HIDE DEF src
<1>7. CASE heap' = heap /\ Visited(0)
  <2>1. WorkFits(heap', work')
    BY <1>4, <1>6, <1>7
  <2> QED BY <1>0, <1>1, <1>5, <1>7, <2>1, LabelStep
<1>8. ASSUME NEW o \in 1..n,
             Into # 0, heap[o].parent = Into, heap[o].kind = src[Node].kind,
             heap' = [heap EXCEPT ![o] = MergeFields(@, src[Node])], Visited(o)
      PROVE  TInv'
  <2>1. \A q \in 1..n : /\ heap'[q].kind = heap[q].kind
                        /\ heap'[q].parent = heap[q].parent
                        /\ heap'[q].kids = heap[q].kids
    <3>1. Relabelled(heap, o, heap')
      BY <1>2, <1>8, MergeFieldsIs
    <3> QED BY <3>1 DEF Relabelled
  <2>2. src[Node] \in Nodes
    BY <1>1, <1>3, TreeIsGood, GoodType
  <2>3. Len(heap') = n
    BY <1>2, <1>8, <2>2, MergeFieldsGood
  <2>4. o \in 0..n
    BY <1>2
  <2>5. WorkFits(heap, work') /\ WorkGood(work', n)
    <3>1. WorkGood(work', Len(heap'))
      BY <1>0 DEF IInv
    <3> QED BY <1>4, <1>8, <2>3, <2>4, <3>1
  <2>6. WorkFits(heap', work')
    BY <1>2, <2>1, <2>5, WorkStaysFit
  <2> QED BY <1>0, <1>1, <1>5, <1>8, <2>1, <2>3, <2>6, LabelStep
<1>9. CASE /\ Into \in 1..n /\ heap[Into].kind # "kml" /\ Takes(heap[Into].kind, src[Node].kind)
           /\ heap' = AddClone(heap, Into, src, Node) /\ Visited(0)
  <2>1. Node \in 1..Len(src) /\ Node # 1
    BY <1>1, <1>3
  <2>2. /\ Len(heap') >= Len(heap) /\ Schemed(heap')
        /\ \A q \in 1..Len(heap) : heap'[q].kind = heap[q].kind /\ heap'[q].parent = heap[q].parent
        /\ \A q \in 1..Len(heap) : \A y \in Range(heap[q].kids) :
             y \in Range(heap'[q].kids) \/ IsGeometry(heap[y].kind)
        /\ \A o \in (Len(heap) + 1)..Len(heap') :
             heap'[o].parent \in 1..(o - 1) /\ o \in Range(heap'[heap'[o].parent].kids)
    <3>1. Grown(heap, heap')
      BY ONLY <1>2, <1>3, <1>9, <2>1, AddCloneKeeps DEF n
    <3> QED BY ONLY <3>1 DEF Grown
  <2>8. WorkFits(heap', work')
    <3>1. WorkFits(heap, work')
      BY <1>4, <1>6, <1>9
    <3>2. WorkGood(work', n)
      BY <1>1, <1>6, <1>9, VisitedGood DEF TInv
    <3> QED BY <1>2, <2>2, <3>1, <3>2, WorkStaysFit
  <2> QED BY <1>0, <1>1, <1>5, <1>9, <2>2, <2>8, TreeStep
<1> QED BY <1>1, <1>7, <1>8, <1>9

LEMMA TreeIsSchemed ==
    ASSUME NEW t, IsTree(t), FollowsSchema(t) PROVE Schemed(t)
<1>1. /\ Good(t) /\ Len(t) \in Nat /\ Len(t) >= 1 /\ t[1].parent = 0 /\ DOMAIN t = 1..Len(t)
      /\ \A o \in 1..Len(t) : t[o].kids \in Seq(Nat) /\ t[o].parent \in Nat
  BY TreeIsGood, GoodType DEF IsTree
<1>2. ASSUME NEW o \in 1..Len(t), t[o].parent # 0
      PROVE  /\ t[o].parent \in 1..Len(t) /\ o \in Range(t[t[o].parent].kids)
             /\ Takes(t[t[o].parent].kind, t[o].kind)
  <2>1. o \in 2..Len(t)
    BY <1>1, <1>2
  <2>2. /\ t[o].parent \in 1..(o - 1) /\ o \in Range(t[t[o].parent].kids)
        /\ Takes(t[t[o].parent].kind, t[o].kind)
    BY <2>1, ChildFits
  <2>3. t[o].parent \in 1..Len(t)
    BY <1>1, <2>1, <2>2
  <2> QED BY <2>2, <2>3
<1>3. \A o \in 1..Len(t) : /\ t[o].kind # "Folder" => Len(t[o].kids) <= 1
                           /\ t[o].kind = "kml" => o = Root
  BY <1>1 DEF FollowsSchema, Root
<1>4. ASSUME NEW x \in 1..Len(t), NEW y \in 1..Len(t),
             t[Root].kind = "kml", t[x].parent = Root, t[y].parent = Root
      PROVE  x = y
  <2>1. Root \in 1..Len(t) /\ Root # 0
    BY <1>1 DEF Root
  <2>2. x \in Range(t[Root].kids) /\ y \in Range(t[Root].kids)
    BY <1>2, <1>4, <2>1
  <2> DEFINE s == t[Root].kids
  <2>3. s \in Seq(Nat) /\ Len(s) <= 1
    BY <1>1, <1>3, <1>4, <2>1
  <2> HIDE DEF s
  <2>4. DOMAIN s = 1..Len(s) /\ Len(s) \in Nat
    BY <2>3
  <2>5. \A i, j \in DOMAIN s : i = j
    BY <2>3, <2>4
  <2> QED BY <2>2, <2>5 DEF Range, s
<1> QED BY <1>1, <1>2, <1>3, <1>4 DEF Schemed, Root

LEMMA InitTInv == Init => TInv
<1> SUFFICES ASSUME Init PROVE TInv
  OBVIOUS
<1>1. IInv
  BY InitIInv
<1>2. IsTree(heap) /\ FollowsSchema(heap)
  BY TreesAssumption, SchemaAssumption DEF Init
<1>3. Good(heap) /\ Schemed(heap) /\ Len(heap) \in Nat
  BY <1>2, TreeIsSchemed, TreeIsGood
<1> DEFINE S == Pointers \cup dropped
<1>4. S \in SUBSET (1..Len(heap)) /\ 1 \in S
  BY <1>1, RootsKnown DEF Pointers, Root
<1> HIDE DEF S
<1>5. S \subseteq Reached(heap, S)
  BY <1>3, <1>4, ReachedIsClosure DEF IsClosure
<1>6. ASSUME NEW o \in 1..Len(heap)
      PROVE  \/ o \in Reached(heap, S) \/ IsGeometry(heap[o].kind)
             \/ heap[o].parent \in 1..(o - 1) /\ o \in Range(heap[heap[o].parent].kids)
  <2>1. CASE o = 1
    BY <1>4, <1>5, <2>1
  <2>2. CASE o # 1
    <3>1. o \in 2..Len(heap)
      BY <1>3, <2>2
    <3> QED BY <1>2, <3>1, ChildFits
  <2> QED BY <2>1, <2>2
<1>7. Kept(heap, S)
  BY <1>3, <1>4, <1>6, NewAreKept
<1>8. WorkFits(heap, work) /\ work = Idle
  BY DEF Init, WorkFits, Idle
<1>9. NoKmlIn(heap, idMap)
  <2> SUFFICES ASSUME NEW i \in DOMAIN idMap PROVE heap[idMap[i]].kind # "kml"
    BY DEF NoKmlIn
  <2>1. idMap[i] \in 1..Len(heap) /\ heap[idMap[i]].id # NoId
    BY MapAtFirst
  <2> QED BY <1>2, <1>3, <2>1, TreeIsGood, GoodType DEF FollowsSchema
<1> QED BY <1>1, <1>3, <1>7, <1>8, <1>9 DEF TInv, S

LEMMA CreateTInv == ASSUME TInv, NEW src \in Containers, NEW map, Create(src, map) PROVE TInv'
<1> DEFINE i == GetTargetId(map, src[1].targetId)
           c == idMap[i]
           n == Len(heap)
<1>0. IInv'
  BY CreateIInv DEF TInv
<1>1. /\ UNCHANGED <<idMap, held, dropped, work>> /\ Good(heap) /\ IsTree(src) /\ FollowsSchema(src)
      /\ src[1].kind = "Folder" /\ Schemed(heap) /\ n \in Nat /\ n >= 1
      /\ \/ heap' = heap
         \/ /\ i \in DOMAIN idMap /\ heap[c].kind = "Folder"
            /\ heap' = CopyFeatures(heap, c, src)
      /\ WorkGood(work, n) /\ WorkFits(heap, work)
  BY TreesAssumption, SchemaAssumption, GoodType DEF TInv, IInv, Create, IsContainer
<1>2. CASE heap' = heap
  <2>1. Pointers' = Pointers
    BY <1>1 DEF Pointers
  <2> QED BY <1>0, <1>1, <1>2, <2>1 DEF TInv, NoKmlIn
<1>3. CASE /\ i \in DOMAIN idMap /\ heap[c].kind = "Folder"
           /\ heap' = CopyFeatures(heap, c, src)
  <2>1. c \in 1..n
    BY <1>3 DEF TInv, IInv
  <2> HIDE DEF c, i
  <2>2. CopiedBelow(heap, c, src, heap')
    BY <1>1, <1>3, <2>1, CopyFeaturesIs
  <2>3. /\ Len(heap') >= n /\ Schemed(heap')
        /\ \A q \in 1..n : heap'[q].kind = heap[q].kind /\ heap'[q].parent = heap[q].parent
        /\ \A q \in 1..n : \A y \in Range(heap[q].kids) : y \in Range(heap'[q].kids)
        /\ \A o \in (n + 1)..Len(heap') :
             heap'[o].parent \in 1..(o - 1) /\ o \in Range(heap'[heap'[o].parent].kids)
    <3>1. Good(heap) /\ Len(heap) >= 1 /\ Schemed(heap) /\ c \in 1..Len(heap) /\ heap[c].kind = "Folder"
      BY <1>1, <1>3, <2>1
    <3> QED BY ONLY <2>2, <3>1, CopyKeeps DEF n
  <2>4. WorkFits(heap', work')
    BY <1>1, <2>3, WorkStaysFit
  <2>5. work' # Idle => work'.into[1] # 0
    BY <1>1 DEF TInv
  <2> QED BY <1>0, <1>1, <2>3, <2>4, <2>5, TreeStep
<1> QED BY <1>1, <1>2, <1>3

-----------------------------------------------------------------------------
(* An array that loses something.                                          *)
Shrunk(h, g) ==
  /\ Len(g) = Len(h)
  /\ \A q \in 1..Len(h) : /\ g[q].kind = h[q].kind /\ g[q].id = h[q].id /\ g[q].field = h[q].field
                          /\ g[q].parent = h[q].parent /\ Len(g[q].kids) <= Len(h[q].kids)

LEMMA SetKids ==
    ASSUME NEW h, Good(h), NEW p \in 1..Len(h), NEW s \in Seq(Nat), NEW g,
           g = [h EXCEPT ![p].kids = s]
    PROVE  /\ DOMAIN g = 1..Len(h) /\ \A q \in 1..Len(h) : q # p => g[q] = h[q]
           /\ g[p] = [h[p] EXCEPT !.kids = s]
           /\ \A q \in 1..Len(h) : /\ g[q].kind = h[q].kind /\ g[q].id = h[q].id
                                   /\ g[q].field = h[q].field /\ g[q].parent = h[q].parent
                                   /\ g[q].kids = IF q = p THEN s ELSE h[q].kids
<1>1. DOMAIN h = 1..Len(h) /\ h[p] \in Nodes
  BY GoodType
<1>2. DOMAIN g = 1..Len(h)
  BY <1>1
<1>3. \A q \in 1..Len(h) : q # p => g[q] = h[q]
  BY <1>1
<1>4. g[p] = [h[p] EXCEPT !.kids = s]
  BY <1>1
<1>5. /\ g[p].kind = h[p].kind /\ g[p].id = h[p].id /\ g[p].field = h[p].field
      /\ g[p].parent = h[p].parent /\ g[p].kids = s
  BY <1>1, <1>4 DEF Nodes
<1>6. \A q \in 1..Len(h) : /\ g[q].kind = h[q].kind /\ g[q].id = h[q].id
                           /\ g[q].field = h[q].field /\ g[q].parent = h[q].parent
                           /\ g[q].kids = IF q = p THEN s ELSE h[q].kids
  <2> TAKE q \in 1..Len(h)
  <2>1. CASE q = p
    BY <1>5, <2>1
  <2>2. CASE q # p
    BY <1>3, <2>2
  <2> QED BY <2>1, <2>2
<1> QED BY <1>2, <1>3, <1>4, <1>6

Erased(h, p, k, g) ==
  /\ Good(g) /\ Shrunk(h, g)
  /\ \A q \in 1..Len(h) : q # p => g[q] = h[q]
  /\ g[p].kids = RemoveAt(h[p].kids, k)

LEMMA EraseIs ==
    ASSUME NEW h, Good(h), NEW p \in 1..Len(h), NEW k \in DOMAIN h[p].kids, NEW g,
           g = Erase(h, p, k)
    PROVE  Erased(h, p, k, g)
<1> DEFINE s == h[p].kids
           r == RemoveAt(s, k)
<1>1. s \in Seq(Nat) /\ k \in 1..Len(s) /\ \A q \in 1..Len(h) : h[q].kids \in Seq(Nat)
  BY GoodType
<1>2. r \in Seq(Nat) /\ Len(r) = Len(s) - 1
  BY <1>1, RemoveAtProperties
<1>3. Good(g) /\ Len(g) = Len(h)
  BY EraseAnyGood
<1>4. g = [h EXCEPT ![p].kids = r]
  BY DEF Erase
<1> HIDE DEF r, s
<1>5. /\ \A q \in 1..Len(h) : q # p => g[q] = h[q]
      /\ g[p] = [h[p] EXCEPT !.kids = r]
      /\ \A q \in 1..Len(h) : /\ g[q].kind = h[q].kind /\ g[q].id = h[q].id
                              /\ g[q].field = h[q].field /\ g[q].parent = h[q].parent
                              /\ g[q].kids = IF q = p THEN r ELSE h[q].kids
  BY <1>2, <1>4, SetKids
<1>6. \A q \in 1..Len(h) : Len(g[q].kids) <= Len(h[q].kids)
  <2> TAKE q \in 1..Len(h)
  <2>0. Len(h[q].kids) \in Nat /\ Len(s) \in Nat
    BY <1>1
  <2>1. CASE q = p
    BY <1>2, <1>5, <2>0, <2>1 DEF s
  <2>2. CASE q # p
    BY <1>5, <2>0, <2>2
  <2> QED BY <2>1, <2>2
<1> QED BY <1>3, <1>5, <1>6 DEF r, s, Shrunk, Erased

LEMMA ShrunkSchemed ==
    ASSUME NEW h, Good(h), Len(h) >= 1, Schemed(h), NEW g, Good(g), Shrunk(h, g)
    PROVE  Schemed(g)
<1>1. Len(h) \in Nat /\ Len(g) = Len(h) /\ Root \in 1..Len(h)
  BY GoodType DEF Shrunk, Root
<1>2. \A o \in 1..Len(g) : g[o].kind # "Folder" => Len(g[o].kids) <= 1
  <2> TAKE o \in 1..Len(g)
  <2>1. Len(g[o].kids) \in Nat /\ Len(h[o].kids) \in Nat
    BY <1>1, GoodType
  <2>2. Len(g[o].kids) <= Len(h[o].kids) /\ g[o].kind = h[o].kind
    BY <1>1 DEF Shrunk
  <2>3. h[o].kind # "Folder" => Len(h[o].kids) <= 1
    BY <1>1 DEF Schemed
  <2> QED BY <2>1, <2>2, <2>3
<1>3. \A o \in 1..Len(h) : g[o].kind = h[o].kind /\ g[o].parent = h[o].parent
  BY DEF Shrunk
<1> QED BY <1>1, <1>2, <1>3, SMTT(40) DEF Schemed

(* What leaves an array is dropped, or pointed at.                         *)
LEMMA DropsAll ==
    ASSUME Drops, NEW q \in Objects, NEW y \in Range(heap[q].kids)
    PROVE  y \in Range(heap'[q].kids) \/ y \in dropped' \/ y \in Range(idMap) \cup held'
<1> DEFINE U == UNION {Range(heap[p].kids) \ Range(heap'[p].kids) : p \in Objects}
<1>1. dropped' = dropped \cup (U \ (Range(idMap) \cup held'))
  BY DEF Drops
<1>2. y \notin Range(heap'[q].kids) => y \in U
  OBVIOUS
<1> HIDE DEF U
<1> QED BY <1>1, <1>2

LEMMA RemovalTInv ==
    ASSUME TInv, IInv', UNCHANGED <<idMap, work>>, held \subseteq held', Drops,
           Shrunk(heap, heap')
    PROVE  TInv'
<1>1. /\ Good(heap) /\ Len(heap) \in Nat /\ Len(heap) >= 1 /\ Schemed(heap) /\ Good(heap')
      /\ Len(heap') = Len(heap) /\ WorkGood(work, Len(heap)) /\ WorkFits(heap, work)
      /\ \A q \in 1..Len(heap) : heap'[q].kind = heap[q].kind /\ heap'[q].parent = heap[q].parent
  BY GoodType DEF TInv, IInv, Shrunk
<1>2. Schemed(heap')
  BY <1>1, ShrunkSchemed
<1>3. WorkFits(heap', work)
  BY <1>1, WorkStaysFit
<1>4. dropped \subseteq dropped'
  BY DEF Drops
<1>5. ASSUME NEW p \in 1..Len(heap), NEW y \in Range(heap[p].kids)
      PROVE  y \in Range(heap'[p].kids) \/ y \in dropped' \/ y \in Pointers'
  <2>1. p \in Objects
    BY <1>1, GoodType DEF Objects
  <2>2. y \in Range(heap'[p].kids) \/ y \in dropped' \/ y \in Range(idMap) \cup held'
    BY <2>1, DropsAll
  <2>3. Range(idMap) \cup held' \subseteq Pointers'
    BY DEF Pointers
  <2> QED BY <2>2, <2>3
<1>6. \A o \in (Len(heap) + 1)..Len(heap') : FALSE
  BY <1>1
<1>7. work' # Idle => work'.into[1] # 0
  BY DEF TInv
<1>8. Len(heap') >= Len(heap) /\ WorkFits(heap', work')
  BY <1>1, <1>3
<1> QED BY <1>1, <1>2, <1>4, <1>5, <1>6, <1>7, <1>8, TreeStep

(* The deletions of a Delete: out of a kml, or out of a Container.         *)
LEMMA DeletesIs ==
    ASSUME TInv, NEW i
    PROVE  \/ DeleteFeatureById(i) = heap
           \/ LET o == idMap[i]  p == heap[o].parent IN
              /\ i \in DOMAIN idMap /\ o \in 1..Len(heap) /\ IsFeature(o)
              /\ p \in 1..Len(heap) /\ Takes(heap[p].kind, heap[o].kind)
              /\ \/ /\ heap[p].kind = "kml"
                    /\ DeleteFeatureById(i) = [heap EXCEPT ![p].kids = << >>]
                 \/ /\ heap[p].kind # "kml"
                    /\ \E k \in FirstWithId(p, i) : DeleteFeatureById(i) = Erase(heap, p, k)
<1> DEFINE o == idMap[i]
           p == heap[o].parent
<1>1. CASE i \notin DOMAIN idMap \/ ~IsFeature(o) \/ p = 0
  BY <1>1 DEF DeleteFeatureById
<1>2. CASE i \in DOMAIN idMap /\ IsFeature(o) /\ p # 0
  <2>1. o \in 1..Len(heap)
    BY <1>2 DEF TInv, IInv
  <2>2. p \in 1..Len(heap) /\ Takes(heap[p].kind, heap[o].kind)
    BY <1>2, <2>1 DEF TInv, Schemed
  <2>3. DeleteFeatureById(i) = IF heap[p].kind = "kml" THEN [heap EXCEPT ![p].kids = << >>]
                               ELSE IF FirstWithId(p, i) = {} THEN heap
                               ELSE Erase(heap, p, CHOOSE k \in FirstWithId(p, i) : TRUE)
    BY <1>2 DEF DeleteFeatureById
  <2> QED BY <1>2, <2>1, <2>2, <2>3
<1> QED BY <1>1, <1>2

LEMMA DeleteTInv == ASSUME TInv, NEW t, NEW map, Delete(t, map) PROVE TInv'
<1> DEFINE i == GetTargetId(map, t)
           p == heap[idMap[i]].parent
<1>0. IInv' /\ Good(heap) /\ UNCHANGED <<idMap, held, work>> /\ Drops
      /\ heap' = DeleteFeatureById(i)
  BY DeleteIInv DEF TInv, IInv, Delete, MapAfterDelete
<1> HIDE DEF i
<1>1. \/ heap' = heap
      \/ p \in 1..Len(heap) /\ heap' = [heap EXCEPT ![p].kids = << >>]
      \/ p \in 1..Len(heap) /\ \E k \in FirstWithId(p, i) : heap' = Erase(heap, p, k)
  BY <1>0, DeletesIs
<1> HIDE DEF p
<1>2. Shrunk(heap, heap')
  <2>0. \A q \in 1..Len(heap) : Len(heap[q].kids) \in Nat
    BY <1>0, GoodType
  <2>1. CASE heap' = heap
    BY <2>0, <2>1 DEF Shrunk
  <2>2. CASE p \in 1..Len(heap) /\ heap' = [heap EXCEPT ![p].kids = << >>]
    <3>1. << >> \in Seq(Nat) /\ Len(<< >>) = 0
      OBVIOUS
    <3>2. \A q \in 1..Len(heap) :
            /\ heap'[q].kind = heap[q].kind /\ heap'[q].id = heap[q].id
            /\ heap'[q].field = heap[q].field /\ heap'[q].parent = heap[q].parent
            /\ heap'[q].kids = IF q = p THEN << >> ELSE heap[q].kids
      BY <1>0, <2>2, <3>1, SetKids
    <3>3. Len(heap') = Len(heap)
      BY <1>0, <2>2, SetKidsEmptyGood
    <3>4. \A q \in 1..Len(heap) : Len(heap'[q].kids) <= Len(heap[q].kids)
      BY <2>0, <3>1, <3>2
    <3> QED BY <3>2, <3>3, <3>4 DEF Shrunk
  <2>3. CASE p \in 1..Len(heap) /\ \E k \in FirstWithId(p, i) : heap' = Erase(heap, p, k)
    <3>1. PICK k \in FirstWithId(p, i) : heap' = Erase(heap, p, k)
      BY <2>3
    <3>2. k \in DOMAIN heap[p].kids
      BY <3>1 DEF FirstWithId
    <3> QED BY <1>0, <2>3, <3>1, <3>2, EraseIs DEF Erased
  <2> QED BY <1>1, <2>1, <2>2, <2>3
<1> QED BY <1>0, <1>2, RemovalTInv

LEMMA DeleteFeatureAtTInv ==
    ASSUME TInv, NEW c \in Objects, NEW k, DeleteFeatureAt(c, k) PROVE TInv'
<1>1. /\ heap' = Erase(heap, c, k) /\ UNCHANGED <<idMap, work>> /\ k \in DOMAIN heap[c].kids
      /\ Good(heap) /\ Drops /\ c \in 1..Len(heap)
      /\ held \subseteq held'
  BY GoodType DEF TInv, IInv, DeleteFeatureAt, Objects
<1>2. IInv'
  BY DeleteFeatureAtIInv DEF TInv
<1>3. Shrunk(heap, heap')
  BY <1>1, EraseIs DEF Erased
<1> QED BY <1>1, <1>2, <1>3, RemovalTInv

(* g is h, and a tree that hangs nowhere.                                  *)
StandsAlone(h, g) ==
  /\ Good(g) /\ Len(g) >= Len(h) /\ Schemed(g) /\ \A q \in 1..Len(h) : g[q] = h[q]
  /\ g[Len(h) + 1].parent = 0
  /\ \A x \in (Len(h) + 2)..Len(g) :
       g[x].parent \in (Len(h) + 1)..(x - 1) /\ x \in Range(g[g[x].parent].kids)

(* A clone that hangs nowhere, and is pointed at.                          *)
LEMMA CloneAlone ==
    ASSUME NEW h, Good(h), Len(h) >= 1, Schemed(h),
           NEW t, IsTree(t), FollowsSchema(t), t[1].kind # "kml",
           NEW g, g = h \o Clone(t, 1, Len(h))
    PROVE  StandsAlone(h, g)
<1> DEFINE n == Len(h)
           d == Clone(t, 1, n)
<1>1. n \in Nat /\ 1 \in 1..Len(t) /\ n >= 1
  BY GoodType, TreeIsGood
<1>2. /\ d[1].parent = 0 /\ Len(d) \in Nat \ {0}
      /\ \A j \in 1..Len(d) : /\ d[j].kind # "kml"
                              /\ d[j].kind # "Folder" => Len(d[j].kids) <= 1
      /\ \A j \in 2..Len(d) : \E i \in 1..(j - 1) :
           /\ d[j].parent = n + i /\ n + j \in Range(d[i].kids)
           /\ Takes(d[i].kind, d[j].kind)
  <2>1. CloneRises(d, t[1].kind, n)
    BY <1>1, CloneIs
  <2> QED BY <2>1 DEF CloneRises
<1>3. /\ Good(g) /\ Len(g) = n + Len(d)
      /\ \A j \in 1..Len(d) : g[n + j] = d[j]
      /\ \A j \in 1..n : g[j] = h[j]
  <2>1. GoodAfter(d, n)
    BY <1>1, CloneGood
  <2> QED BY <2>1, ExtendGood
<1> HIDE DEF d
<1>4. g[n + 1].parent = 0
  <2>1. 1 \in 1..Len(d)
    BY <1>2
  <2> QED BY <1>2, <1>3, <2>1
<1>5. ASSUME NEW x \in (n + 2)..Len(g)
      PROVE  /\ g[x].parent \in (n + 1)..(x - 1) /\ x \in Range(g[g[x].parent].kids)
             /\ Takes(g[g[x].parent].kind, g[x].kind) /\ g[g[x].parent].kind # "kml"
             /\ g[x].parent \in 1..Len(g)
  <2>1. PICK j \in 2..Len(d) : x = n + j
    <3>1. x - n \in 2..Len(d) /\ x = n + (x - n)
      BY <1>1, <1>2, <1>3
    <3> QED BY <3>1
  <2>2. PICK i \in 1..(j - 1) : /\ d[j].parent = n + i /\ n + j \in Range(d[i].kids)
                                /\ Takes(d[i].kind, d[j].kind)
    BY <1>2
  <2>3. i \in 1..Len(d) /\ j \in 1..Len(d) /\ n + i \in (n + 1)..(x - 1) /\ n + i \in 1..Len(g)
    BY <1>1, <1>2, <1>3, <2>1
  <2>4. g[x] = d[j] /\ g[n + i] = d[i]
    BY <1>3, <2>1, <2>3
  <2> QED BY <1>2, <2>1, <2>2, <2>3, <2>4
<1>6. ASSUME NEW x \in (n + 1)..Len(g)
      PROVE  g[x].kind # "kml" /\ (g[x].kind # "Folder" => Len(g[x].kids) <= 1)
  <2>1. PICK j \in 1..Len(d) : x = n + j
    <3>1. x - n \in 1..Len(d) /\ x = n + (x - n)
      BY <1>1, <1>2, <1>3
    <3> QED BY <3>1
  <2> QED BY <1>2, <1>3, <2>1
<1>7. Schemed(g)
  <2>1. \A o \in (n + 1)..Len(g) : g[o].kind # "kml" /\ (g[o].parent = 0 \/ Placed(g, o))
    <3> TAKE o \in (n + 1)..Len(g)
    <3>1. o = n + 1 \/ o \in (n + 2)..Len(g)
      BY <1>1
    <3> QED BY <1>4, <1>5, <1>6, <3>1 DEF Placed
  <2>2. \A o \in 1..Len(g) : g[o].kind # "Folder" => Len(g[o].kids) <= 1
    <3> TAKE o \in 1..Len(g)
    <3>1. o \in 1..n \/ o \in (n + 1)..Len(g)
      BY <1>1
    <3> QED BY <1>3, <1>6, <3>1 DEF Schemed
  <2>3. Len(g) >= n
    BY <1>1, <1>2, <1>3
  <2>4. \A o \in 1..n : g[o].kind = h[o].kind /\ g[o].parent = h[o].parent
    BY <1>3
  <2>5. Good(h) /\ Len(h) >= 1 /\ Schemed(h) /\ Good(g)
    BY <1>3
  <2> QED BY ONLY <2>1, <2>2, <2>3, <2>4, <2>5, SchemedAfter
<1>8. Len(g) >= n
  BY <1>1, <1>2, <1>3
<1> QED BY <1>3, <1>4, <1>5, <1>7, <1>8 DEF StandsAlone

LEMMA NewFeatureTInv == ASSUME TInv, NEW t \in NewFeatures, NewFeature(t) PROVE TInv'
<1> DEFINE n == Len(heap)
<1>1. /\ IInv' /\ UNCHANGED <<idMap, work, dropped>> /\ work = Idle
      /\ heap' = heap \o Clone(t, 1, n) /\ held' = held \cup {n + 1}
      /\ Good(heap) /\ Schemed(heap) /\ n \in Nat /\ n >= 1
      /\ IsTree(t) /\ FollowsSchema(t) /\ t[1].kind # "kml"
  BY NewFeatureIInv, GoodType, TreesAssumption, SchemaAssumption DEF TInv, IInv, NewFeature, Begin
<1>2. /\ Good(heap') /\ Len(heap') >= n /\ Schemed(heap') /\ \A q \in 1..n : heap'[q] = heap[q]
      /\ \A x \in (n + 2)..Len(heap') :
           heap'[x].parent \in (n + 1)..(x - 1) /\ x \in Range(heap'[heap'[x].parent].kids)
  <2>1. /\ Good(heap) /\ Len(heap) >= 1 /\ Schemed(heap)
        /\ IsTree(t) /\ FollowsSchema(t) /\ t[1].kind # "kml"
        /\ heap' = heap \o Clone(t, 1, Len(heap))
    BY <1>1
  <2>2. StandsAlone(heap, heap')
    BY <2>1, CloneAlone
  <2> QED BY <2>2 DEF StandsAlone
<1>3. WorkFits(heap', work') /\ work' = Idle
  BY <1>1 DEF WorkFits, Idle
<1>4. \A o \in (n + 1)..Len(heap') :
        \/ o \in held'
        \/ heap'[o].parent \in 1..(o - 1) /\ o \in Range(heap'[heap'[o].parent].kids)
  <2> TAKE o \in (n + 1)..Len(heap')
  <2>1. CASE o = n + 1
    BY <1>1, <2>1
  <2>2. CASE o # n + 1
    <3>1. o \in (n + 2)..Len(heap')
      BY <1>1, <2>2
    <3>2. \A p \in (n + 1)..(o - 1) : p \in 1..(o - 1)
      BY <1>1
    <3> QED BY <1>2, <3>1, <3>2
  <2> QED BY <2>1, <2>2
<1>5. held \subseteq held'
  BY <1>1
<1> QED BY <1>1, <1>2, <1>3, <1>4, <1>5, TreeStep

LEMMA AddFeatureTInv ==
    ASSUME TInv, NEW c \in Objects, NEW o \in Objects, AddFeature(c, o) PROVE TInv'
<1> DEFINE n == Len(heap)
<1>1. /\ IInv' /\ UNCHANGED <<idMap, held, dropped, work>> /\ work = Idle
      /\ heap' = AddElement(heap, c, o) /\ heap[c].kind = "Folder" /\ o # Root
      /\ heap[o].kind \in {"Folder", "Placemark"}
      /\ Good(heap) /\ Schemed(heap) /\ n \in Nat /\ n >= 1 /\ c \in 1..n /\ o \in 1..n
  BY AddFeatureIInv, GoodType
     DEF TInv, IInv, AddFeature, Begin, IsContainer, IsFeature, Objects
<1>2. WorkFits(heap', work') /\ work' = Idle
  BY <1>1 DEF WorkFits, Idle
<1>3. CASE ~ MayAdopt(heap, o)
  <2>1. heap' = heap
    BY <1>1, <1>3 DEF AddElement
  <2> QED BY <1>1, <1>2, <2>1, LabelStep
<1>4. CASE MayAdopt(heap, o)
  <2>1. /\ Good(heap') /\ Len(heap') = n
        /\ \A q \in 1..n :
             /\ heap'[q].kind = heap[q].kind
             /\ heap'[q].parent = IF q = o THEN c ELSE heap[q].parent
             /\ heap'[q].kids = IF q # c THEN heap[q].kids ELSE Append(heap[c].kids, o)
    <3>1. /\ Good(heap) /\ MayAdopt(heap, o) /\ c \in 1..Len(heap) /\ o \in 1..Len(heap)
          /\ heap' = AddElement(heap, c, o) /\ heap[c].kind = "Folder"
      BY <1>1, <1>4
    <3>2. Adopted(heap, c, o, heap')
      BY <3>1, AddElementIs
    <3> QED BY <3>1, <3>2 DEF Adopted
  <2>2. Schemed(heap')
    <3>1. \A q \in 1..n : q = o => Placed(heap', q)
      BY <1>1, <2>1 DEF Placed, Takes
    <3>2. \A q \in 1..n :
            /\ heap'[q].kind = heap[q].kind
            /\ heap'[q].parent = heap[q].parent \/ (q # Root /\ Placed(heap', q))
      BY <1>1, <2>1, <3>1
    <3>3. \A q \in (n + 1)..Len(heap') : FALSE
      BY <1>1, <2>1
    <3>4. \A q \in 1..Len(heap') : heap'[q].kind # "Folder" => Len(heap'[q].kids) <= 1
      BY <1>1, <2>1 DEF Schemed
    <3>5. Len(heap) >= 1 /\ Len(heap') >= Len(heap)
      BY <1>1, <2>1
    <3> QED BY <1>1, <2>1, <3>2, <3>3, <3>4, <3>5, SchemedAfter
  <2>3. \A q \in 1..n : \A y \in Range(heap[q].kids) : y \in Range(heap'[q].kids)
    <3>1. heap[c].kids \in Seq(Nat) /\ <<o>> \in Seq(Nat)
      BY <1>1, GoodType
    <3>2. Append(heap[c].kids, o) = heap[c].kids \o <<o>>
      BY <1>1, <3>1
    <3>3. Range(heap[c].kids) \subseteq Range(heap'[c].kids)
      BY <1>1, <2>1, <3>1, <3>2, RangeGrows
    <3> QED BY <2>1, <3>3
  <2>4. (n + 1)..Len(heap') = {} /\ Len(heap') >= n
    BY <1>1, <2>1
  <2>5. \A q \in 1..n : heap'[q].kind = heap[q].kind
    BY <2>1
  <2> QED BY <1>1, <1>2, <2>2, <2>3, <2>4, <2>5, TreeStep
<1> QED BY <1>3, <1>4

LEMMA NextTInv == TInv /\ [Next]_vars => TInv'
<1> SUFFICES ASSUME TInv, [Next]_vars PROVE TInv'
  OBVIOUS
<1>0. Live \subseteq Objects
  BY LiveKnown, GoodType DEF TInv, IInv, Objects
<1>1. CASE UNCHANGED vars
  <2>1. IInv' /\ Pointers' = Pointers /\ UNCHANGED <<heap, idMap, work, dropped>>
    BY <1>1, NextIInv DEF TInv, vars, Pointers
  <2> QED BY <2>1 DEF TInv, NoKmlIn
<1>2. CASE \E map \in Maps : \E src \in Changes : Change(src, map)
  BY <1>2, ChangeTInv
<1>3. CASE \E map \in Maps : \E src \in Containers : Create(src, map)
  BY <1>3, CreateTInv
<1>4. CASE \E map \in Maps : \E t \in Ids : Delete(t, map)
  BY <1>4, DeleteTInv
<1>5. CASE MergeElements \/ MergeEnds
  BY <1>5, MergeElementsTInv, MergeEndsTInv
<1>6. CASE \E t \in NewFeatures : NewFeature(t)
  BY <1>6, NewFeatureTInv
<1>7. CASE \E c, o \in Live : AddFeature(c, o)
  BY <1>0, <1>7, AddFeatureTInv
<1>8. CASE \E c \in Live : \E k \in DOMAIN heap[c].kids : DeleteFeatureAt(c, k)
  BY <1>0, <1>8, DeleteFeatureAtTInv
<1> QED BY <1>1, <1>2, <1>3, <1>4, <1>5, <1>6, <1>7, <1>8 DEF Next

(* What is reached from a set is reached from every larger one.            *)
LEMMA ReachedBoth ==
    ASSUME NEW h, Good(h), NEW R \in SUBSET (1..Len(h)), NEW S \in SUBSET (1..Len(h))
    PROVE  Reached(h, R \cup S) \subseteq Reached(h, R) \cup Reached(h, S)
<1> DEFINE A == Reached(h, R)
           B == Reached(h, S)
<1>1. IsClosure(h, R, A) /\ IsClosure(h, S, B) /\ IsClosure(h, R \cup S, Reached(h, R \cup S))
  BY ReachedIsClosure
<1> HIDE DEF A, B
<1>2. R \cup S \subseteq A \cup B /\ Closed(h, A \cup B)
  BY <1>1 DEF IsClosure, Closed
<1> QED BY <1>1, <1>2 DEF IsClosure, A, B

LEMMA ParentsAreLive == TInv => ParentsLive
<1> SUFFICES ASSUME TInv, NEW o \in Live, IsFeature(o), heap[o].parent # 0
             PROVE  heap[o].parent \in Live \cup Reached(heap, dropped)
  BY DEF ParentsLive
<1> DEFINE p == heap[o].parent
           n == Len(heap)
<1>1. IInv /\ Good(heap) /\ Schemed(heap) /\ Kept(heap, Pointers \cup dropped)
  BY DEF TInv, IInv
<1>2. Live \subseteq 1..n /\ Pointers \subseteq Live /\ Closed(heap, Live)
  BY <1>1, LiveKnown DEF IsClosure
<1>3. p \in 1..n /\ Takes(heap[p].kind, heap[o].kind)
  BY <1>1, <1>2 DEF Schemed
<1>4. p \in Reached(heap, Pointers \cup dropped)
  BY <1>1, <1>3 DEF Kept, Takes, IsGeometry
<1>5. Pointers \in SUBSET (1..n) /\ dropped \in SUBSET (1..n)
  BY <1>1, RootsKnown
<1> HIDE DEF p, n
<1>6. p \in Reached(heap, Pointers) \cup Reached(heap, dropped)
  BY <1>1, <1>4, <1>5, ReachedBoth DEF n
<1>7. Reached(heap, Pointers) \subseteq Live
  BY <1>1, <1>2, <1>5, ReachedIsClosure DEF IsClosure, n
<1> QED BY <1>6, <1>7 DEF p

(* ParentsLive, for every document, every Update and every client: all the *)
(* parent_ that DeleteFeatureById may come to read is there, or was        *)
(* dropped with what stood below it.  An element never loses its parent_,  *)
(* so it is enough that nothing leaves an array unnoticed: every element   *)
(* but a geometry is reached from the root, the map, the client or what    *)
(* was dropped.                                                            *)
THEOREM ParentsLiveAlways == Spec => []ParentsLive
<1> QED BY ParentsAreLive, InitTInv, NextTInv, PTL DEF Spec

-----------------------------------------------------------------------------
(* The tree that is seen from the root.                                    *)
InFile(h)   == Reached(h, {Root})
Under(h, o) == Reached(h, {o})

(* What is reached, but for where one starts, is a child of what is.       *)
LEMMA FromAbove ==
    ASSUME NEW h, Good(h), NEW R \in SUBSET (1..Len(h)), NEW x \in Reached(h, R), x \notin R
    PROVE  /\ x \in 1..Len(h) /\ h[x].parent \in Reached(h, R) /\ h[x].parent \in 1..Len(h)
           /\ x \in Range(h[h[x].parent].kids)
<1> DEFINE A == Reached(h, R)
           B == A \ {x}
<1>1. IsClosure(h, R, A) /\ A \subseteq 1..Len(h)
  BY ReachedIsClosure
<1> HIDE DEF A
<1>2. \E q \in A : x \in Range(h[q].kids)
  <2> SUFFICES ASSUME \A q \in A : x \notin Range(h[q].kids) PROVE FALSE
    OBVIOUS
  <2>1. R \subseteq B
    BY <1>1 DEF IsClosure
  <2>2. Closed(h, B)
    BY <1>1 DEF IsClosure, Closed
  <2>3. A \subseteq B
    BY <1>1, <2>1, <2>2 DEF IsClosure
  <2> QED BY <2>3 DEF A
<1>3. PICK q \in A : x \in Range(h[q].kids)
  BY <1>2
<1>4. q \in 1..Len(h)
  BY <1>1
<1>5. x \in 1..Len(h) /\ h[x].parent = q
  BY <1>3, <1>4, KidHasParent
<1> QED BY <1>3, <1>4, <1>5 DEF A

LEMMA InFileIs ==
    ASSUME NEW h, Good(h), Len(h) >= 1, Schemed(h)
    PROVE  /\ Root \in InFile(h) /\ InFile(h) \subseteq 1..Len(h) /\ Closed(h, InFile(h))
           /\ \A T : Root \in T /\ Closed(h, T) => InFile(h) \subseteq T
           /\ \A x \in InFile(h) : x # Root =>
                /\ h[x].parent \in InFile(h) /\ h[x].parent # 0
                /\ x \in Range(h[h[x].parent].kids)
           /\ \A x \in InFile(h) : h[x].parent = 0 => x = Root
<1>1. Len(h) \in Nat
  BY GoodType
<1>2. {Root} \in SUBSET (1..Len(h))
  BY <1>1 DEF Root
<1>3. IsClosure(h, {Root}, InFile(h)) /\ InFile(h) \subseteq 1..Len(h)
  BY <1>2, ReachedIsClosure DEF InFile
<1>4. ASSUME NEW x \in InFile(h), x # Root
      PROVE  /\ h[x].parent \in InFile(h) /\ h[x].parent # 0
             /\ x \in Range(h[h[x].parent].kids)
  <2>1. h[x].parent \in InFile(h) /\ h[x].parent \in 1..Len(h) /\ x \in Range(h[h[x].parent].kids)
    BY <1>2, <1>4, FromAbove DEF InFile
  <2>2. h[x].parent # 0
    BY <1>1, <2>1
  <2> QED BY <2>1, <2>2
<1>5. \A T : Root \in T /\ Closed(h, T) => InFile(h) \subseteq T
  BY <1>3 DEF IsClosure
<1> QED BY <1>3, <1>4, <1>5 DEF IsClosure

LEMMA UnderIs ==
    ASSUME NEW h, Good(h), Len(h) >= 1, Schemed(h), NEW o \in InFile(h)
    PROVE  /\ o \in Under(h, o) /\ Under(h, o) \subseteq InFile(h) /\ Closed(h, Under(h, o))
           /\ \A x \in Under(h, o) : x # o => h[x].parent \in Under(h, o)
           /\ IsClosure(h, {o}, Under(h, o))
<1>1. InFile(h) \subseteq 1..Len(h) /\ Closed(h, InFile(h))
  BY InFileIs
<1>2. {o} \in SUBSET (1..Len(h)) /\ {o} \subseteq InFile(h)
  BY <1>1
<1>3. IsClosure(h, {o}, Under(h, o))
  BY <1>2, ReachedIsClosure DEF Under
<1>4. Under(h, o) \subseteq InFile(h)
  BY <1>1, <1>2, <1>3 DEF IsClosure
<1>5. \A x \in Under(h, o) : x # o => h[x].parent \in Under(h, o)
  BY <1>2, FromAbove DEF Under
<1> QED BY <1>3, <1>4, <1>5 DEF IsClosure

LEMMA SeenIs ==
    ASSUME NEW h
    PROVE  /\ DOMAIN Seen(h) = InFile(h)
           /\ \A x \in InFile(h) :
                Seen(h)[x] = [kind |-> h[x].kind, id |-> h[x].id, field |-> h[x].field,
                              parent |-> h[x].parent, kids |-> h[x].kids]
BY DEF Seen, InFile

LEMMA SeenFields ==
    ASSUME NEW h, NEW x \in InFile(h)
    PROVE  /\ Seen(h)[x].kind = h[x].kind /\ Seen(h)[x].id = h[x].id
           /\ Seen(h)[x].field = h[x].field /\ Seen(h)[x].parent = h[x].parent
           /\ Seen(h)[x].kids = h[x].kids
<1> DEFINE e == [kind |-> h[x].kind, id |-> h[x].id, field |-> h[x].field,
                 parent |-> h[x].parent, kids |-> h[x].kids]
<1>1. Seen(h)[x] = e
  BY SeenIs
<1>2. /\ e.kind = h[x].kind /\ e.id = h[x].id /\ e.field = h[x].field
      /\ e.parent = h[x].parent /\ e.kids = h[x].kids
  OBVIOUS
<1> HIDE DEF e
<1> QED BY <1>1, <1>2

LEMMA SameRange == ASSUME NEW s PROVE Promise!Range(s) = Range(s)
BY DEF Promise!Range, Range

(* What the promise means by "below".                                      *)
LEMMA BelowIsUnder ==
    ASSUME NEW h, Good(h), Len(h) >= 1, Schemed(h), NEW o \in InFile(h)
    PROVE  Promise!Below(Seen(h), o) = Under(h, o)
<1> DEFINE t == Seen(h)
           D == InFile(h)
           n == Cardinality(DOMAIN t)
           Is(f) == SpreadsUpTo(t, {o}, n, f)
           reached == CHOOSE f : Is(f)
<1>1. Len(h) \in Nat /\ D \subseteq 1..Len(h) /\ Closed(h, D) /\ DOMAIN t = D
  BY GoodType, InFileIs, SeenIs
<1>2. IsFiniteSet(D) /\ n \in Nat
  <2>1. IsFiniteSet(1..Len(h))
    BY <1>1, FS_Interval
  <2>2. IsFiniteSet(D)
    BY <1>1, <2>1, FS_Subset
  <2> HIDE DEF D, t
  <2> QED BY <1>1, <2>2, FS_CardinalityType
<1>3. Is(reached)
  <2> HIDE DEF n, t
  <2> QED BY <1>2, SpreadExists
<1>4. Promise!Below(t, o) = reached[n]
  <2> HIDE DEF t
  <2> QED BY DEF Promise!Below, Promise!Range, Promise!Cardinality, SpreadsUpTo, Spread, Range, Cardinality
<1> HIDE DEF reached
<1>5. \A x \in D : t[x].kids = h[x].kids
  BY SeenFields
<1> HIDE DEF t
<1>6. Closed(t, D)
  BY <1>1, <1>5 DEF Closed
<1>7. IsClosure(t, {o}, reached[n]) /\ reached[n] \subseteq D
  <2>1. {o} \in SUBSET D
    OBVIOUS
  <2>2. n = Cardinality(D)
    BY <1>1
  <2>3. SpreadsUpTo(t, {o}, n, reached)
    BY <1>3
  <2> HIDE DEF D, n
  <2> QED BY <1>2, <1>6, <2>1, <2>2, <2>3, SpreadCloses
<1> DEFINE B == reached[n]
<1> HIDE DEF B, D
<1>8. IsClosure(h, {o}, B)
  <2>1. {o} \subseteq B /\ Closed(h, B)
    BY <1>5, <1>7 DEF IsClosure, Closed, B
  <2>2. ASSUME NEW T, {o} \subseteq T, Closed(h, T) PROVE B \subseteq T
    <3>1. Closed(t, T \cap D)
      BY <1>1, <1>5, <2>2 DEF Closed
    <3>2. {o} \subseteq T \cap D
      BY <2>2 DEF D
    <3>3. B \subseteq T \cap D
      BY <1>7, <3>1, <3>2 DEF IsClosure, B
    <3> QED BY <3>3
  <2> QED BY <2>1, <2>2 DEF IsClosure
<1>9. IsClosure(h, {o}, Under(h, o))
  BY UnderIs
<1>10. B = Under(h, o)
  BY <1>8, <1>9, ClosureIsOne
<1> QED BY <1>4, <1>10 DEF B, t

-----------------------------------------------------------------------------
(* What the operations do to what is seen.                                 *)
Alike(h, g, x) == /\ g[x].kind = h[x].kind /\ g[x].id = h[x].id /\ g[x].field = h[x].field
                  /\ g[x].parent = h[x].parent
WellMade(h)    == Good(h) /\ Len(h) >= 1 /\ Schemed(h)

LEMMA SeenSame ==
    ASSUME NEW h, WellMade(h), NEW g, WellMade(g),
           \A x \in InFile(h) : Alike(h, g, x) /\ g[x].kids = h[x].kids
    PROVE  InFile(g) = InFile(h) /\ Seen(g) = Seen(h)
<1> DEFINE F == InFile(h)
           G == InFile(g)
<1>1. /\ Root \in F /\ Closed(h, F) /\ \A T : Root \in T /\ Closed(h, T) => F \subseteq T
      /\ Root \in G /\ Closed(g, G) /\ \A T : Root \in T /\ Closed(g, T) => G \subseteq T
  BY InFileIs DEF WellMade
<1>2. \A x \in F : g[x].kids = h[x].kids
  OBVIOUS
<1>3. Seen(h) = [x \in F |-> [kind |-> h[x].kind, id |-> h[x].id, field |-> h[x].field,
                              parent |-> h[x].parent, kids |-> h[x].kids]]
  BY DEF Seen, InFile
<1>4. Seen(g) = [x \in G |-> [kind |-> g[x].kind, id |-> g[x].id, field |-> g[x].field,
                              parent |-> g[x].parent, kids |-> g[x].kids]]
  BY DEF Seen, InFile
<1>5. \A x \in F : [kind |-> g[x].kind, id |-> g[x].id, field |-> g[x].field,
                    parent |-> g[x].parent, kids |-> g[x].kids]
                 = [kind |-> h[x].kind, id |-> h[x].id, field |-> h[x].field,
                    parent |-> h[x].parent, kids |-> h[x].kids]
  BY DEF Alike
<1> HIDE DEF F, G
<1>6. G \subseteq F
  <2>1. Closed(g, F)
    BY <1>1, <1>2 DEF Closed
  <2> QED BY <1>1, <2>1
<1>7. F \subseteq G
  <2>1. Closed(h, F \cap G)
    BY <1>1, <1>2 DEF Closed
  <2> QED BY <1>1, <2>1
<1>8. F = G
  BY <1>6, <1>7
<1> QED BY <1>3, <1>4, <1>5, <1>8 DEF F, G

(* An element of the file does not stand below what is below it.           *)
LEMMA NotBelowItself ==
    ASSUME NEW h, WellMade(h), NEW o \in InFile(h), o # Root
    PROVE  /\ h[o].parent \in InFile(h) \ Under(h, o) /\ Root \notin Under(h, o)
           /\ o \in Range(h[h[o].parent].kids)
<1> DEFINE p == h[o].parent
           F == InFile(h)
           B == Under(h, o)
<1>1. /\ Root \in F /\ F \subseteq 1..Len(h) /\ Closed(h, F)
      /\ \A T : Root \in T /\ Closed(h, T) => F \subseteq T
      /\ p \in F /\ p # 0 /\ o \in Range(h[p].kids)
      /\ \A x \in F : x # Root => h[x].parent # 0
  BY InFileIs DEF WellMade
<1>2. /\ o \in B /\ B \subseteq F /\ Closed(h, B)
      /\ \A x \in B : x # o => h[x].parent \in B
  BY UnderIs DEF WellMade
<1>3. h[Root].parent = 0 /\ 0 \notin B
  BY <1>1, <1>2 DEF WellMade, Schemed
<1>4. Root \notin B
  BY <1>2, <1>3
<1>5. \A q \in F : \A y \in Range(h[q].kids) : h[y].parent = q
  BY <1>1, KidHasParent DEF WellMade
<1> HIDE DEF p, F, B
<1>6. p \notin B
  <2> SUFFICES ASSUME p \in B PROVE FALSE
    OBVIOUS
  <2>1. Closed(h, F \ B)
    <3> SUFFICES ASSUME NEW x \in F \ B, NEW y \in Range(h[x].kids) PROVE y \in F \ B
      BY DEF Closed
    <3>1. y \in F /\ h[y].parent = x
      BY <1>1, <1>5 DEF Closed
    <3>2. y = o => x = p
      BY <3>1 DEF p
    <3> QED BY <1>2, <3>1, <3>2
  <2>2. F \subseteq F \ B
    BY <1>1, <1>4, <2>1
  <2> QED BY <1>2, <2>2
<1> QED BY <1>1, <1>4, <1>6 DEF p, F, B

LEMMA RemovedRange ==
    ASSUME NEW s \in Seq(Nat), NEW k \in 1..Len(s), \A l \in 1..Len(s) : s[l] = s[k] => l = k
    PROVE  Range(RemoveAt(s, k)) = Range(s) \ {s[k]}
<1> DEFINE r == RemoveAt(s, k)
           n == Len(s)
<1>1. n \in Nat /\ DOMAIN s = 1..n
  OBVIOUS
<1>2. /\ r \in Seq(Nat) /\ Len(r) = n - 1
      /\ \A j \in 1..(n - 1) : r[j] = IF j < k THEN s[j] ELSE s[j + 1]
  BY RemoveAtProperties
<1> HIDE DEF r
<1>3. DOMAIN r = 1..(n - 1)
  BY <1>2
<1>4. ASSUME NEW j \in DOMAIN r PROVE r[j] \in Range(s) \ {s[k]}
  <2>1. CASE j < k
    <3>1. j \in 1..n /\ j # k /\ r[j] = s[j]
      <4>1. n \in Nat /\ k \in 1..n /\ j \in 1..(n - 1)
        BY <1>1, <1>3
      <4> HIDE DEF n
      <4> QED BY <1>2, <2>1, <4>1
    <3> QED BY <1>1, <3>1 DEF Range
  <2>2. CASE ~(j < k)
    <3>1. j + 1 \in 1..n /\ j + 1 # k /\ r[j] = s[j + 1]
      <4>1. n \in Nat /\ k \in 1..n /\ j \in 1..(n - 1)
        BY <1>1, <1>3
      <4> HIDE DEF n
      <4> QED BY <1>2, <2>2, <4>1, SMTT(40)
    <3> QED BY <1>1, <3>1 DEF Range
  <2> QED BY <2>1, <2>2
<1>5. ASSUME NEW l \in DOMAIN s, s[l] # s[k] PROVE s[l] \in Range(r)
  <2>1. CASE l < k
    <3>1. l \in DOMAIN r /\ r[l] = s[l]
      BY <1>1, <1>2, <1>3, <2>1
    <3> QED BY <3>1 DEF Range
  <2>2. CASE ~(l < k)
    <3>1. PICK j \in DOMAIN r : j = l - 1 /\ ~(j < k) /\ j + 1 = l
      <4>1. l - 1 \in DOMAIN r /\ ~(l - 1 < k) /\ l - 1 + 1 = l
        BY <1>1, <1>3, <1>5, <2>2
      <4> QED BY <4>1
    <3>2. r[j] = s[l]
      BY <1>2, <1>3, <3>1
    <3> QED BY <3>2 DEF Range
  <2> QED BY <2>1, <2>2
<1> QED BY <1>4, <1>5 DEF Range, r

(* A feature leaves the array it stands in.                                *)
LEMMA EraseIsRemoved ==
    ASSUME NEW h, WellMade(h), NEW p \in InFile(h), NEW k \in DOMAIN h[p].kids,
           NEW o, o = h[p].kids[k], NEW g, g = Erase(h, p, k)
    PROVE  /\ o \in InFile(h) /\ o # Root /\ h[o].parent = p /\ p # 0
           /\ Promise!Removed(Seen(h), Seen(g), o)
<1> DEFINE F == InFile(h)
           G == InFile(g)
           B == Under(h, o)
<1>0. Good(h) /\ Len(h) >= 1 /\ Schemed(h)
  BY DEF WellMade
<1>1. /\ Root \in F /\ F \subseteq 1..Len(h) /\ Closed(h, F)
      /\ \A T : Root \in T /\ Closed(h, T) => F \subseteq T
  BY <1>0, InFileIs
<1>2. p \in 1..Len(h) /\ p # 0 /\ h[p].kids \in Seq(Nat) /\ k \in 1..Len(h[p].kids)
  BY <1>0, <1>1, GoodType
<1>3. o \in Range(h[p].kids) /\ h[o].parent = p /\ o \in F
  <2>1. o \in Range(h[p].kids)
    BY DEF Range
  <2> QED BY <1>0, <1>1, <1>2, <2>1, KidHasParent DEF Closed
<1>4. o # Root
  BY <1>0, <1>2, <1>3 DEF Schemed
<1>5. /\ Good(g) /\ Shrunk(h, g)
      /\ \A q \in 1..Len(h) : q # p => g[q] = h[q]
      /\ g[p].kids = RemoveAt(h[p].kids, k)
  <2>1. k \in DOMAIN h[p].kids /\ g = Erase(h, p, k)
    OBVIOUS
  <2>2. Erased(h, p, k, g)
    BY <1>0, <1>2, <2>1, EraseIs
  <2> QED BY <2>2 DEF Erased
<1>6. WellMade(g)
  BY <1>0, <1>5, ShrunkSchemed DEF WellMade, Shrunk
<1>7. /\ Root \in G /\ Closed(g, G) /\ \A T : Root \in T /\ Closed(g, T) => G \subseteq T
  BY <1>6, InFileIs DEF WellMade
<1>8. /\ o \in B /\ B \subseteq F /\ Closed(h, B)
      /\ \A x \in B : x # o => h[x].parent \in B
  BY <1>0, <1>3, UnderIs
<1>9. p \notin B /\ Root \notin B
  BY <1>3, <1>4, NotBelowItself
<1>10. Range(g[p].kids) = Range(h[p].kids) \ {o}
  <2>1. \A l \in 1..Len(h[p].kids) : h[p].kids[l] = h[p].kids[k] => l = k
    BY <1>0, <1>2 DEF Good
  <2> QED BY <1>2, <1>5, <2>1, RemovedRange
<1>11. \A q \in F : Range(g[q].kids) \subseteq Range(h[q].kids)
                    /\ Range(h[q].kids) \subseteq Range(g[q].kids) \cup {o}
                    /\ o \notin Range(g[q].kids)
  <2> TAKE q \in F
  <2>1. CASE q = p
    BY <1>10, <2>1
  <2>2. CASE q # p
    <3>1. g[q] = h[q] /\ q \in 1..Len(h)
      BY <1>1, <1>5, <2>2
    <3>2. o \notin Range(h[q].kids)
      BY <1>0, <1>3, <2>2, <3>1, KidHasParent
    <3> QED BY <3>1, <3>2
  <2> QED BY <2>1, <2>2
<1>12. \A q \in F : \A y \in Range(h[q].kids) : h[y].parent = q
  BY <1>0, <1>1, KidHasParent
<1> HIDE DEF F, G, B
<1>13. G \subseteq F \ B
  <2>1. Closed(g, F \ B)
    <3> SUFFICES ASSUME NEW x \in F \ B, NEW y \in Range(g[x].kids) PROVE y \in F \ B
      BY DEF Closed
    <3>1. y \in Range(h[x].kids) /\ y # o
      BY <1>11
    <3>2. y \in F /\ h[y].parent = x
      BY <1>1, <1>12, <3>1 DEF Closed
    <3> QED BY <1>8, <3>1, <3>2
  <2> QED BY <1>1, <1>7, <1>9, <2>1
<1>14. F \subseteq G \cup B
  <2>1. Closed(h, F \cap (G \cup B))
    <3> SUFFICES ASSUME NEW x \in F \cap (G \cup B), NEW y \in Range(h[x].kids)
                 PROVE  y \in F \cap (G \cup B)
      BY DEF Closed
    <3>1. y \in F
      BY <1>1 DEF Closed
    <3>2. CASE x \in B
      BY <1>8, <3>1, <3>2 DEF Closed
    <3>3. CASE x \in G
      <4>1. y \in Range(g[x].kids) \/ y = o
        BY <1>11
      <4> QED BY <1>7, <1>8, <3>1, <3>3, <4>1 DEF Closed
    <3> QED BY <3>2, <3>3
  <2> QED BY <1>1, <1>7, <2>1
<1>15. G = F \ B
  BY <1>13, <1>14
<1>16. Promise!Removed(Seen(h), Seen(g), o)
  <2> DEFINE t == Seen(h)
             u == Seen(g)
  <2>1. t[o].parent = p /\ Promise!Below(t, o) = B /\ DOMAIN t = F /\ DOMAIN u = G
    BY <1>0, <1>3, SeenFields, BelowIsUnder, SeenIs DEF F, G, B
  <2>2. \A e \in G \ {p} : u[e] = t[e]
    <3> TAKE e \in G \ {p}
    <3>1. g[e] = h[e] /\ e \in F
      BY <1>1, <1>5, <1>15
    <3>2. u[e] = [kind |-> g[e].kind, id |-> g[e].id, field |-> g[e].field,
                  parent |-> g[e].parent, kids |-> g[e].kids]
      BY SeenIs DEF G
    <3>3. t[e] = [kind |-> h[e].kind, id |-> h[e].id, field |-> h[e].field,
                  parent |-> h[e].parent, kids |-> h[e].kids]
      BY <3>1, SeenIs DEF F
    <3> HIDE DEF t, u
    <3> QED BY <3>1, <3>2, <3>3
  <2>3. p \in G /\ p \in F
    BY <1>9, <1>15 DEF F
  <2>4. t[p].kids = h[p].kids
    BY <2>3, SeenFields DEF F
  <2>5. u[p] = [t[p] EXCEPT !.kids = RemoveAt(h[p].kids, k)]
    <3>1. u[p] = [kind |-> g[p].kind, id |-> g[p].id, field |-> g[p].field,
                  parent |-> g[p].parent, kids |-> g[p].kids]
      BY <2>3, SeenIs DEF G
    <3>2. t[p] = [kind |-> h[p].kind, id |-> h[p].id, field |-> h[p].field,
                  parent |-> h[p].parent, kids |-> h[p].kids]
      BY <2>3, SeenIs DEF F
    <3>3. /\ g[p].kind = h[p].kind /\ g[p].id = h[p].id /\ g[p].field = h[p].field
          /\ g[p].parent = h[p].parent /\ g[p].kids = RemoveAt(h[p].kids, k)
      BY <1>2, <1>5 DEF Shrunk
    <3> HIDE DEF t, u
    <3> QED BY <3>1, <3>2, <3>3
  <2>6. Promise!RemoveAt(h[p].kids, k) = RemoveAt(h[p].kids, k)
    BY DEF Promise!RemoveAt, RemoveAt
  <2> HIDE DEF t, u
  <2>7. \E l \in DOMAIN t[p].kids :
          t[p].kids[l] = o /\ u[p] = [t[p] EXCEPT !.kids = Promise!RemoveAt(t[p].kids, l)]
    BY <2>4, <2>5, <2>6
  <2>8. DOMAIN u = DOMAIN t \ Promise!Below(t, o)
    BY <1>15, <2>1
  <2>9. Promise!Removed(t, u, o)
    BY <2>1, <2>2, <2>7, <2>8 DEF Promise!Removed
  <2> QED BY <2>9 DEF t, u
<1> QED BY <1>2, <1>3, <1>4, <1>16 DEF F

LEMMA PrefixOfConcatenation ==
    ASSUME NEW s \in Seq(Nat), NEW r \in Seq(Nat)
    PROVE  Promise!IsPrefix(s, s \o r) /\ Promise!IsPrefix(s, s) /\ Len(s \o r) = Len(s) + Len(r)
<1> DEFINE v == s \o r
           m == Len(s)
<1>1. /\ v \in Seq(Nat) /\ Len(v) = m + Len(r) /\ m \in Nat /\ Len(r) \in Nat
      /\ \A i \in 1..(m + Len(r)) : v[i] = IF i <= m THEN s[i] ELSE r[i - m]
  BY Concatenated
<1> HIDE DEF v
<1>2. \A i \in 1..m : v[i] = s[i] /\ s[i] \in Nat
  BY <1>1, ElementOfSeq
<1> HIDE DEF m
<1>3. \A i \in 1..m : s[i] \in Nat /\ v[i] \in Nat
  BY <1>2
<1>4. 1 \in Int /\ m \in Int
  BY <1>1
<1>5. /\ SubSeq(s, 1, m) \in Seq(Nat) /\ SubSeq(v, 1, m) \in Seq(Nat)
      /\ Len(SubSeq(s, 1, m)) = IF 1 <= m THEN m - 1 + 1 ELSE 0
      /\ Len(SubSeq(v, 1, m)) = IF 1 <= m THEN m - 1 + 1 ELSE 0
      /\ \A i \in 1..(m - 1 + 1) : SubSeq(s, 1, m)[i] = s[1 + i - 1]
      /\ \A i \in 1..(m - 1 + 1) : SubSeq(v, 1, m)[i] = v[1 + i - 1]
  BY <1>3, <1>4, SubSeqProperties
<1> DEFINE a == SubSeq(s, 1, m)
           b == SubSeq(v, 1, m)
<1> HIDE DEF a, b
<1>6. /\ a \in Seq(Nat) /\ b \in Seq(Nat) /\ Len(a) = m /\ Len(b) = m
      /\ \A i \in 1..m : a[i] = s[i] /\ b[i] = v[i]
  <2>1. m - 1 + 1 = m /\ (~(1 <= m) => m = 0) /\ \A i \in 1..m : 1 + i - 1 = i
    BY <1>1
  <2> QED BY <1>5, <2>1 DEF a, b
<1>7. a = b
  <2>1. \A i \in 1..m : a[i] = b[i]
    BY <1>2, <1>6
  <2> QED BY <1>6, <2>1, SeqEqual
<1>8. m <= Len(v) /\ m <= m
  BY <1>1
<1>9. Promise!IsPrefix(s, v) /\ Promise!IsPrefix(s, s)
  BY <1>7, <1>8 DEF Promise!IsPrefix, a, b, m
<1> QED BY <1>1, <1>9 DEF v, m

(* What is new in the file stands below what was given it.                 *)
LEMMA NewStandsBelow ==
    ASSUME NEW h, WellMade(h), NEW g, WellMade(g), NEW e \in InFile(g) \ InFile(h)
    PROVE  g[e].parent \in InFile(h) => g[g[e].parent].kids # h[g[e].parent].kids
<1>1. Root \in InFile(h) /\ Closed(h, InFile(h))
  BY InFileIs DEF WellMade
<1>2. e \in Range(g[g[e].parent].kids)
  BY <1>1, InFileIs DEF WellMade
<1> QED BY <1>1, <1>2 DEF Closed

(* What the kept children were stays in the file.                          *)
LEMMA StaysInFile ==
    ASSUME NEW h, WellMade(h), NEW g, WellMade(g),
           \A x \in InFile(h) : \A y \in Range(h[x].kids) :
             y \in Range(g[x].kids) \/ IsGeometry(h[y].kind)
    PROVE  \A x \in InFile(h) : x \in InFile(g) \/ IsGeometry(h[x].kind)
<1> DEFINE F == InFile(h)
           G == InFile(g)
           T == {x \in F : x \in G \/ IsGeometry(h[x].kind)}
<1>1. /\ Root \in F /\ F \subseteq 1..Len(h) /\ Closed(h, F)
      /\ \A S : Root \in S /\ Closed(h, S) => F \subseteq S
      /\ Root \in G /\ Closed(g, G)
  BY InFileIs DEF WellMade
<1>2. \A x \in F : \A y \in Range(h[x].kids) : y \in Range(g[x].kids) \/ IsGeometry(h[y].kind)
  OBVIOUS
<1>3. \A x \in F : IsGeometry(h[x].kind) => Range(h[x].kids) = {}
  BY <1>1, GeometryAlone DEF WellMade
<1> HIDE DEF F, G
<1>4. Closed(h, T)
  BY <1>1, <1>2, <1>3 DEF Closed
<1>5. F \subseteq T
  BY <1>1, <1>4
<1> QED BY <1>5 DEF F, G

LEMMA AppendsIs ==
    ASSUME NEW h, WellMade(h), NEW g, WellMade(g), NEW c \in InFile(h), NEW r \in Seq(Nat),
           \A x \in InFile(h) : Alike(h, g, x),
           \A x \in InFile(h) : x # c => g[x].kids = h[x].kids,
           g[c].kids = h[c].kids \o r
    PROVE  Promise!Appended(Seen(h), Seen(g), c, Len(r))
<1> DEFINE F == InFile(h)
           G == InFile(g)
           t == Seen(h)
           u == Seen(g)
<1>1. /\ Root \in F /\ F \subseteq 1..Len(h) /\ Closed(h, F)
      /\ \A T : Root \in T /\ Closed(h, T) => F \subseteq T
      /\ Root \in G /\ Closed(g, G)
  BY InFileIs DEF WellMade
<1>2. h[c].kids \in Seq(Nat)
  BY <1>1, GoodType DEF WellMade
<1>3. \A x \in F : Range(h[x].kids) \subseteq Range(g[x].kids)
  BY <1>2, RangeGrows
<1>4. F \subseteq G
  <2> HIDE DEF F, G
  <2>1. Closed(h, F \cap G)
    BY <1>1, <1>3 DEF Closed
  <2> QED BY <1>1, <2>1
<1>5. DOMAIN t = F /\ DOMAIN u = G
  BY SeenIs
<1>6. \A x \in F : u[x] = [t[x] EXCEPT !.kids = g[x].kids] /\ u[x].kids = g[x].kids
                   /\ t[x].kids = h[x].kids
  <2> TAKE x \in F
  <2>1. t[x] = [kind |-> h[x].kind, id |-> h[x].id, field |-> h[x].field,
                parent |-> h[x].parent, kids |-> h[x].kids]
    BY SeenIs
  <2>2. u[x] = [kind |-> g[x].kind, id |-> g[x].id, field |-> g[x].field,
                parent |-> g[x].parent, kids |-> g[x].kids]
    BY <1>4, SeenIs
  <2>3. /\ g[x].kind = h[x].kind /\ g[x].id = h[x].id /\ g[x].field = h[x].field
        /\ g[x].parent = h[x].parent
    BY DEF Alike
  <2> HIDE DEF t, u
  <2> QED BY <2>1, <2>2, <2>3
<1>7. ASSUME NEW x \in F, x # c PROVE u[x] = t[x]
  <2>1. t[x] = [kind |-> h[x].kind, id |-> h[x].id, field |-> h[x].field,
                parent |-> h[x].parent, kids |-> h[x].kids]
    BY SeenIs
  <2>2. u[x] = [kind |-> g[x].kind, id |-> g[x].id, field |-> g[x].field,
                parent |-> g[x].parent, kids |-> g[x].kids]
    BY <1>4, SeenIs
  <2>3. /\ g[x].kind = h[x].kind /\ g[x].id = h[x].id /\ g[x].field = h[x].field
        /\ g[x].parent = h[x].parent /\ g[x].kids = h[x].kids
    BY <1>7 DEF Alike
  <2> HIDE DEF t, u
  <2> QED BY <2>1, <2>2, <2>3
<1>8. /\ Promise!IsPrefix(h[c].kids, g[c].kids)
      /\ Len(g[c].kids) = Len(h[c].kids) + Len(r)
  BY <1>2, PrefixOfConcatenation
<1>9. ASSUME NEW e \in G \ F PROVE u[e].parent \notin F \ {c}
  <2>1. u[e].parent = g[e].parent
    BY SeenFields
  <2>2. g[e].parent \in F => g[g[e].parent].kids # h[g[e].parent].kids
    BY NewStandsBelow
  <2> HIDE DEF F, G, u
  <2>3. \A x \in F : x # c => g[x].kids = h[x].kids
    BY DEF F
  <2> QED BY <2>1, <2>2, <2>3
<1>10. u[c] = [t[c] EXCEPT !.kids = u[c].kids] /\ u[c].kids = g[c].kids /\ t[c].kids = h[c].kids
  BY <1>6
<1> HIDE DEF t, u
<1>11. Promise!Appended(t, u, c, Len(r))
  BY <1>4, <1>5, <1>7, <1>8, <1>9, <1>10 DEF Promise!Appended
<1> QED BY <1>11 DEF t, u

LEMMA AmendsIs ==
    ASSUME NEW h, WellMade(h), NEW g, WellMade(g), NEW a \in InFile(h),
           \A x \in InFile(h) \ Under(h, a) : Alike(h, g, x) /\ g[x].kids = h[x].kids,
           \A x \in InFile(h) : g[x].kind = h[x].kind /\ g[x].parent = h[x].parent,
           \A x \in InFile(h) : \A y \in Range(h[x].kids) :
             y \in Range(g[x].kids) \/ IsGeometry(h[y].kind),
           \A x \in InFile(h) : h[x].kind = "Folder" => Promise!IsPrefix(h[x].kids, g[x].kids)
    PROVE  Promise!Amended(Seen(h), Seen(g), a)
<1> DEFINE F == InFile(h)
           G == InFile(g)
           B == Under(h, a)
           t == Seen(h)
           u == Seen(g)
<1>1. /\ Root \in F /\ F \subseteq 1..Len(h) /\ Closed(h, F)
      /\ Root \in G /\ Closed(g, G)
      /\ \A x \in F : x # Root => h[x].parent \in F /\ x \in Range(h[h[x].parent].kids)
  BY InFileIs DEF WellMade
<1>2. a \in B /\ B \subseteq F /\ Closed(h, B)
  BY UnderIs DEF WellMade
<1>3. \A x \in F : x \in G \/ IsGeometry(h[x].kind)
  BY StaysInFile
<1>4. \A x \in F : IsGeometry(h[x].kind) => Range(h[x].kids) = {}
  BY <1>1, GeometryAlone DEF WellMade
<1>5. ASSUME NEW e \in F \ B PROVE e \in G
  <2>1. CASE e = Root
    BY <1>1, <2>1
  <2>2. CASE e # Root
    <3> DEFINE q == h[e].parent
    <3>1. q \in F /\ e \in Range(h[q].kids)
      BY <1>1, <2>2
    <3> HIDE DEF q
    <3>2. q \notin B
      BY <1>2, <1>5, <3>1 DEF Closed
    <3>3. q \in G /\ g[q].kids = h[q].kids
      BY <1>3, <1>4, <3>1, <3>2
    <3> QED BY <1>1, <3>1, <3>3 DEF Closed
  <2> QED BY <2>1, <2>2
<1>6. ASSUME NEW x \in F \ B PROVE u[x] = t[x]
  <2>1. t[x] = [kind |-> h[x].kind, id |-> h[x].id, field |-> h[x].field,
                parent |-> h[x].parent, kids |-> h[x].kids]
    BY SeenIs
  <2>2. u[x] = [kind |-> g[x].kind, id |-> g[x].id, field |-> g[x].field,
                parent |-> g[x].parent, kids |-> g[x].kids]
    BY <1>5, SeenIs
  <2>3. /\ g[x].kind = h[x].kind /\ g[x].id = h[x].id /\ g[x].field = h[x].field
        /\ g[x].parent = h[x].parent /\ g[x].kids = h[x].kids
    BY <1>6 DEF Alike
  <2> HIDE DEF t, u
  <2> QED BY <2>1, <2>2, <2>3
<1>7. ASSUME NEW e \in B, ~ Promise!IsGeometry(t[e])
      PROVE  /\ e \in G /\ u[e].kind = t[e].kind /\ u[e].parent = t[e].parent
             /\ t[e].kind = "Folder" => Promise!IsPrefix(t[e].kids, u[e].kids)
  <2>1. e \in F /\ t[e].kind = h[e].kind /\ t[e].parent = h[e].parent /\ t[e].kids = h[e].kids
    BY <1>2, SeenFields
  <2>2. e \in G
    BY <1>3, <1>7, <2>1 DEF Promise!IsGeometry, IsGeometry
  <2>3. u[e].kind = g[e].kind /\ u[e].parent = g[e].parent /\ u[e].kids = g[e].kids
    BY <2>2, SeenFields
  <2> QED BY <2>1, <2>2, <2>3
<1>8. ASSUME NEW e \in G \ F PROVE u[e].parent \notin F \ B
  <2>1. u[e].parent = g[e].parent
    BY SeenFields
  <2>2. g[e].parent \in F => g[g[e].parent].kids # h[g[e].parent].kids
    BY NewStandsBelow
  <2>3. \A x \in F \ B : g[x].kids = h[x].kids
    OBVIOUS
  <2> HIDE DEF F, G, u, B
  <2> QED BY <2>1, <2>2, <2>3
<1>9. DOMAIN t = F /\ DOMAIN u = G /\ Promise!Below(t, a) = B
  BY SeenIs, BelowIsUnder DEF WellMade
<1> HIDE DEF t, u, F, G, B
<1>10. Promise!Amended(t, u, a)
  BY <1>5, <1>6, <1>7, <1>8, <1>9 DEF Promise!Amended
<1> QED BY <1>10 DEF t, u

LEMMA AmendsNothing ==
    ASSUME NEW h, WellMade(h), NEW a \in InFile(h)
    PROVE  Promise!Amended(Seen(h), Seen(h), a)
<1>1. \A x \in InFile(h) : Promise!IsPrefix(h[x].kids, h[x].kids)
  <2> TAKE x \in InFile(h)
  <2>1. h[x].kids \in Seq(Nat) /\ << >> \in Seq(Nat)
    BY InFileIs, GoodType DEF WellMade
  <2> QED BY <2>1, PrefixOfConcatenation
<1>2. \A x \in InFile(h) : Alike(h, h, x)
  BY DEF Alike
<1> QED BY <1>1, <1>2, AmendsIs

(* New labels for an element that stands below the target, if it is in the *)
(* file at all.                                                            *)
LEMMA LabelsAmend ==
    ASSUME NEW h, WellMade(h), NEW g, WellMade(g), NEW o \in 1..Len(h), NEW a,
           Relabelled(h, o, g), o \in InFile(h) => a \in InFile(h) /\ o \in Under(h, a)
    PROVE  /\ a \in InFile(h) => Promise!Amended(Seen(h), Seen(g), a)
           /\ a \notin InFile(h) => Seen(g) = Seen(h)
<1>1. InFile(h) \subseteq 1..Len(h) /\ Good(h)
  BY InFileIs DEF WellMade
<1>2. CASE o \notin InFile(h)
  <2>1. \A x \in InFile(h) : Alike(h, g, x) /\ g[x].kids = h[x].kids
    BY <1>1, <1>2 DEF Alike, Relabelled
  <2>2. Seen(g) = Seen(h)
    BY <2>1, SeenSame
  <2> QED BY <2>2, AmendsNothing
<1>3. CASE o \in InFile(h)
  <2>1. a \in InFile(h) /\ o \in Under(h, a)
    BY <1>3
  <2>2. \A x \in InFile(h) \ Under(h, a) : Alike(h, g, x) /\ g[x].kids = h[x].kids
    BY <1>1, <2>1 DEF Alike, Relabelled
  <2>3. \A x \in InFile(h) : g[x].kind = h[x].kind /\ g[x].parent = h[x].parent
    BY <1>1 DEF Relabelled
  <2>4. \A x \in InFile(h) : g[x].kids = h[x].kids
    BY <1>1 DEF Relabelled
  <2>5. \A x \in InFile(h) : Promise!IsPrefix(h[x].kids, g[x].kids)
    <3> TAKE x \in InFile(h)
    <3>1. h[x].kids \in Seq(Nat) /\ << >> \in Seq(Nat)
      BY <1>1, GoodType
    <3> QED BY <2>4, <3>1, PrefixOfConcatenation
  <2>6. \A x \in InFile(h) : \A y \in Range(h[x].kids) :
          y \in Range(g[x].kids) \/ IsGeometry(h[y].kind)
    BY <2>4
  <2>7. Promise!Amended(Seen(h), Seen(g), a)
    BY <2>1, <2>2, <2>3, <2>5, <2>6, AmendsIs
  <2> QED BY <2>1, <2>7
<1> QED BY <1>2, <1>3

-----------------------------------------------------------------------------
(* The steps.  First what a Change is merged into: if the merge has come   *)
(* to an element of the file, then down from the target, which is in the   *)
(* file too.                                                               *)
LEMMA MergedBelowTarget ==
    ASSUME NEW h, WellMade(h), NEW w, w # Idle, WorkGood(w, Len(h)), WorkFits(h, w),
           NEW j \in 1..Len(w.into), w.into[j] \in InFile(h)
    PROVE  w.into[1] \in InFile(h) /\ w.into[j] \in Under(h, w.into[1])
<1> DEFINE F == InFile(h)
           a == w.into[1]
           m == Len(w.into)
           Fine(l) == a \in F /\ w.into[l] \in Under(h, a)
           Bad == {l \in 1..m : w.into[l] \in F /\ ~ Fine(l)}
<1>1. Good(h) /\ Len(h) \in Nat
  BY GoodType DEF WellMade
<1>2. IsTree(w.src) /\ m \in Nat \ {0} /\ Len(w.src) \in Nat \ {0}
  BY <1>1, WorkType
<1>3. m <= Len(w.src)
  BY DEF WorkFits
<1>4. Bad = {}
  <2> SUFFICES ASSUME Bad # {} PROVE FALSE
    OBVIOUS
  <2>1. PICK l \in Bad : \A i \in Bad : l <= i
    <3>1. Bad \in SUBSET Nat
      OBVIOUS
    <3> HIDE DEF Bad
    <3> QED BY <3>1, SmallestNat
  <2> DEFINE x == w.into[l]
             b == w.src[l].parent
  <2>2. l \in 1..m /\ x \in F /\ ~ Fine(l)
    BY <2>1
  <2>3. l # 1
    <3>1. a \in F => a \in Under(h, a)
      BY UnderIs DEF WellMade
    <3> QED BY <2>2, <3>1
  <2>4. b \in 1..(l - 1)
    <3>1. l \in 2..Len(w.src)
      <4> HIDE DEF m
      <4> QED BY <1>2, <1>3, <2>2, <2>3
    <3> QED BY <1>2, <3>1 DEF IsTree
  <2>5. x # 0 /\ 0 \notin F
    <3>1. F \subseteq 1..Len(h)
      BY InFileIs DEF WellMade
    <3> HIDE DEF F
    <3> QED BY <1>1, <2>2, <3>1
  <2>6. h[x].parent = w.into[b] /\ h[x].parent # 0
    BY <2>2, <2>3, <2>5 DEF WorkFits, FitsAt
  <2>7. x # Root
    BY <2>6 DEF WellMade, Schemed
  <2>8. w.into[b] \in F /\ x \in Range(h[w.into[b]].kids)
    BY <2>2, <2>6, <2>7, InFileIs DEF WellMade
  <2>9. b \in 1..m /\ b < l
    <3> HIDE DEF m, b
    <3> QED BY <1>2, <2>2, <2>4
  <2>10. b \notin Bad
    <3>1. ~(l <= b)
      <4> HIDE DEF m, b, Bad
      <4> QED BY <1>2, <2>2, <2>4, <2>9
    <3> HIDE DEF Bad, b
    <3> QED BY <2>1, <3>1
  <2>11. a \in F /\ w.into[b] \in Under(h, a)
    BY <2>8, <2>9, <2>10
  <2>12. x \in Under(h, a)
    BY <2>8, <2>11, UnderIs DEF WellMade, Closed
  <2> QED BY <2>2, <2>11, <2>12
<1> QED BY <1>4

LEMMA TInvIsWellMade == ASSUME TInv PROVE WellMade(heap) /\ Good(heap) /\ Len(heap) \in Nat
BY GoodType DEF TInv, IInv, WellMade

LEMMA TargetIdKnown ==
    ASSUME NEW map \in Maps, NEW t \in Ids \cup {NoId}
    PROVE  GetTargetId(map, t) \in Ids \cup {NoId}
BY IdsAssumption DEF GetTargetId

LEMMA AmendsStep ==
    ASSUME NEW o,
           o \in InFile(heap) => Promise!Amended(Seen(heap), Seen(heap'), o),
           o \notin InFile(heap) => Seen(heap') = Seen(heap)
    PROVE  Promise!AmendedIfThere(o)
<1>1. DOMAIN Seen(heap) = InFile(heap) /\ Seen(heap)' = Seen(heap')
  BY SeenIs
<1> QED BY <1>1 DEF Promise!AmendedIfThere

LEMMA ChangePromise ==
    ASSUME TInv, NEW src \in Changes, NEW map \in Maps, Change(src, map) PROVE Promise!Next
<1> DEFINE i == GetTargetId(map, src[1].targetId)
           o == idMap[i]
<1>1. /\ TInv' /\ UNCHANGED <<idMap, held, dropped>> /\ work = Idle
      /\ call' = <<"Change", i, 0>>
      /\ IF i \in DOMAIN idMap
         THEN /\ heap' = [heap EXCEPT ![o] = MergeFields(@, src[1])]
              /\ work' = [src |-> src, into |-> <<o>>, seen |-> <<heap[o].kids>>]
         ELSE UNCHANGED <<heap, work>>
  BY ChangeTInv DEF Change, Begin
<1>2. i \in Ids \cup {NoId}
  <2>1. src[1] \in Nodes
    BY TreesAssumption, TreeIsGood
  <2>2. src[1].targetId \in Ids \cup {NoId}
    BY <2>1 DEF Nodes
  <2> QED BY <2>2, TargetIdKnown
<1>3. WellMade(heap) /\ WellMade(heap') /\ Good(heap)
  <2>1. WellMade(heap) /\ Good(heap)
    BY TInvIsWellMade
  <2>2. WellMade(heap')
    BY <1>1, GoodType DEF TInv, IInv, WellMade
  <2> QED BY <2>1, <2>2
<1> HIDE DEF i
<1>4. Promise!Step("Change", i)
  BY <1>1 DEF Promise!Step
<1>5. CASE i \in DOMAIN idMap
  <2>1. o \in 1..Len(heap)
    BY <1>5 DEF TInv, IInv
  <2> HIDE DEF o
  <2>2. Relabelled(heap, o, heap')
    BY <1>1, <1>3, <1>5, <2>1, MergeFieldsIs DEF o
  <2>3. Promise!AmendedIfThere(o)
    <3>1. o \in InFile(heap) => o \in Under(heap, o)
      BY <1>3, UnderIs DEF WellMade
    <3> QED BY <1>3, <2>1, <2>2, <3>1, LabelsAmend, AmendsStep
  <2>4. work' # Idle /\ work'.into[1] = o
    <3>1. work'.into = <<o>>
      BY <1>1, <1>5
    <3>2. Idle.into # <<o>> /\ <<o>>[1] = o
      BY DEF Idle
    <3> QED BY <3>1, <3>2
  <2>5. Promise!Change(i)
    BY <1>4, <1>5, <2>3, <2>4 DEF Promise!Change, o
  <2> QED BY <1>1, <1>2, <2>5 DEF Promise!Next
<1>6. CASE i \notin DOMAIN idMap
  <2>1. UNCHANGED <<heap, work>>
    BY <1>1, <1>6
  <2>2. Promise!Change(i)
    BY <1>1, <1>4, <1>6, <2>1 DEF Promise!Change
  <2> QED BY <1>1, <1>2, <2>2 DEF Promise!Next
<1> QED BY <1>5, <1>6

LEMMA AppendIsConcatenation ==
    ASSUME NEW s \in Seq(Nat), NEW o \in Nat PROVE Append(s, o) = s \o <<o>>
<1>1. <<o>> \in Seq(Nat)
  OBVIOUS
<1> QED BY <1>1

(* Likewise for a clone below it.                                          *)
LEMMA CloneAmends ==
    ASSUME NEW h, WellMade(h), NEW g, WellMade(g), NEW p \in 1..Len(h), NEW kind, NEW a,
           CloneHangs(h, p, kind, g),
           \A q \in 1..Len(h) : \A y \in Range(h[q].kids) :
             y \in Range(g[q].kids) \/ IsGeometry(h[y].kind),
           p \in InFile(h) => a \in InFile(h) /\ p \in Under(h, a)
    PROVE  /\ a \in InFile(h) => Promise!Amended(Seen(h), Seen(g), a)
           /\ a \notin InFile(h) => Seen(g) = Seen(h)
<1>1. InFile(h) \subseteq 1..Len(h) /\ Good(h)
  BY InFileIs DEF WellMade
<1>2. \A q \in 1..Len(h) :
        /\ Alike(h, g, q) /\ (q # p => g[q].kids = h[q].kids)
        /\ (q = p /\ h[p].kind = "Folder" => g[q].kids = Append(h[q].kids, Len(h) + 1))
  BY DEF CloneHangs, Alike
<1>3. CASE p \notin InFile(h)
  <2>1. \A x \in InFile(h) : Alike(h, g, x) /\ g[x].kids = h[x].kids
    BY <1>1, <1>2, <1>3
  <2>2. Seen(g) = Seen(h)
    BY <2>1, SeenSame
  <2> QED BY <2>2, AmendsNothing
<1>4. CASE p \in InFile(h)
  <2>1. a \in InFile(h) /\ p \in Under(h, a)
    BY <1>4
  <2>2. \A x \in InFile(h) \ Under(h, a) : Alike(h, g, x) /\ g[x].kids = h[x].kids
    BY <1>1, <1>2, <2>1
  <2>3. \A x \in InFile(h) : g[x].kind = h[x].kind /\ g[x].parent = h[x].parent
    BY <1>1, <1>2 DEF Alike
  <2>4. ASSUME NEW x \in InFile(h), h[x].kind = "Folder"
        PROVE  Promise!IsPrefix(h[x].kids, g[x].kids)
    <3>1. h[x].kids \in Seq(Nat) /\ << >> \in Seq(Nat) /\ Len(h) + 1 \in Nat
      BY <1>1, GoodType
    <3>2. CASE x # p
      BY <1>1, <1>2, <3>1, <3>2, PrefixOfConcatenation
    <3>3. CASE x = p
      <4>1. <<Len(h) + 1>> \in Seq(Nat)
        BY <3>1
      <4>2. g[x].kids = Append(h[x].kids, Len(h) + 1)
        BY <1>2, <2>4, <3>3
      <4>3. Append(h[x].kids, Len(h) + 1) = h[x].kids \o <<Len(h) + 1>>
        BY <3>1, AppendIsConcatenation
      <4> QED BY <3>1, <4>1, <4>2, <4>3, PrefixOfConcatenation
    <3> QED BY <3>2, <3>3
  <2>5. \A x \in InFile(h) : \A y \in Range(h[x].kids) :
          y \in Range(g[x].kids) \/ IsGeometry(h[y].kind)
    BY <1>1
  <2>6. Promise!Amended(Seen(h), Seen(g), a)
    BY <2>1, <2>2, <2>3, <2>4, <2>5, AmendsIs
  <2> QED BY <2>1, <2>6
<1> QED BY <1>3, <1>4

LEMMA MergeStep ==
    ASSUME TInv, work # Idle, UNCHANGED <<idMap, call>>,
           work' = Idle \/ work'.into[1] = work.into[1],
           Promise!AmendedIfThere(work.into[1])
    PROVE  Promise!Next
<1>1. work.into[1] # 0
  BY DEF TInv
<1>2. Promise!Merge
  BY <1>1 DEF Promise!Merge
<1> QED BY <1>2 DEF Promise!Next

LEMMA MergeElementsPromise == ASSUME TInv, MergeElements PROVE Promise!Next
<1> DEFINE n == Len(heap)
           src == work.src
           a == work.into[1]
<1>1. /\ work # Idle /\ Node <= Len(src) /\ UNCHANGED <<idMap, call>>
      /\ Node \in 2..Len(src) /\ src[Node].parent \in 1..Len(work.into)
      /\ \/ heap' = heap /\ Visited(0)
         \/ \E o \in 1..n :
              /\ Into # 0 /\ heap[o].parent = Into /\ heap[o].kind = src[Node].kind
              /\ heap' = [heap EXCEPT ![o] = MergeFields(@, src[Node])] /\ Visited(o)
         \/ /\ Into \in 1..n /\ heap[Into].kind # "kml" /\ Takes(heap[Into].kind, src[Node].kind)
            /\ heap' = AddClone(heap, Into, src, Node) /\ Visited(0)
  BY MergeNode
<1>2. n \in Nat /\ Good(heap) /\ WorkGood(work, n) /\ WorkFits(heap, work) /\ WellMade(heap)
  BY TInvIsWellMade DEF TInv, IInv
<1>3. WellMade(heap')
  <2>1. TInv'
    BY MergeElementsTInv
  <2> QED BY <2>1 DEF TInv, IInv, WellMade
<1>4. IsTree(src) /\ FollowsSchema(src) /\ Len(work.into) \in Nat \ {0} /\ Len(src) \in Nat
  BY <1>1, <1>2, WorkType
<1>5. work'.into[1] = a
  <2>1. PICK o : Visited(o)
    BY <1>1
  <2>2. work'.into = Append(work.into, o) /\ work.into \in Seq(0..n)
    <3>1. /\ work.into \in Seq(0..n)
          /\ work = [src |-> work.src, into |-> work.into, seen |-> work.seen]
      BY <1>1, <1>2, WorkType
    <3>2. work' = [work EXCEPT !.into = Append(@, o),
                               !.seen = Append(@, IF o = 0 THEN << >> ELSE heap[o].kids)]
      BY <2>1 DEF Visited
    <3> QED BY <3>1, <3>2
  <2> QED BY <1>4, <2>2
<1>6. Into \in InFile(heap) => a \in InFile(heap) /\ Into \in Under(heap, a)
  BY <1>1, <1>2, MergedBelowTarget DEF Into
<1> HIDE DEF src, a
<1>7. Promise!AmendedIfThere(a)
  <2>1. CASE heap' = heap
    <3>1. Seen(heap') = Seen(heap)
      BY <2>1
    <3> QED BY <1>2, <3>1, AmendsNothing, AmendsStep
  <2>2. ASSUME NEW o \in 1..n, Into # 0, heap[o].parent = Into,
               heap' = [heap EXCEPT ![o] = MergeFields(@, src[Node])]
        PROVE  Promise!AmendedIfThere(a)
    <3>1. Relabelled(heap, o, heap')
      BY <1>2, <2>2, MergeFieldsIs
    <3>2. o \in InFile(heap) => Into \in InFile(heap) /\ o \in Range(heap[Into].kids)
      <4>1. o # Root
        BY <1>2, <2>2 DEF WellMade, Schemed
      <4> QED BY <1>2, <2>2, <4>1, InFileIs DEF WellMade
    <3>3. o \in InFile(heap) => a \in InFile(heap) /\ o \in Under(heap, a)
      <4> SUFFICES ASSUME o \in InFile(heap) PROVE a \in InFile(heap) /\ o \in Under(heap, a)
        OBVIOUS
      <4>1. a \in InFile(heap) /\ Into \in Under(heap, a)
        BY <1>6, <3>2
      <4>2. Closed(heap, Under(heap, a))
        BY <1>2, <4>1, UnderIs DEF WellMade
      <4> QED BY <3>2, <4>1, <4>2 DEF Closed
    <3> QED BY <1>2, <1>3, <3>1, <3>3, LabelsAmend, AmendsStep
  <2>3. CASE /\ Into \in 1..n /\ heap[Into].kind # "kml" /\ Takes(heap[Into].kind, src[Node].kind)
             /\ heap' = AddClone(heap, Into, src, Node)
    <3>1. Node \in 1..Len(src) /\ Node # 1
      BY <1>1, <1>4
    <3>2. CloneHangs(heap, Into, src[Node].kind, heap')
      BY <1>2, <1>4, <2>3, <3>1, AddCloneIs
    <3>3. \A q \in 1..n : \A y \in Range(heap[q].kids) :
            y \in Range(heap'[q].kids) \/ IsGeometry(heap[y].kind)
      <4>1. Grown(heap, heap')
        BY <1>2, <1>4, <2>3, <3>1, AddCloneKeeps DEF WellMade
      <4> QED BY <4>1 DEF Grown
    <3> QED BY <1>2, <1>3, <1>6, <2>3, <3>2, <3>3, CloneAmends, AmendsStep
  <2> QED BY <1>1, <2>1, <2>2, <2>3
<1> QED BY <1>1, <1>5, <1>7, MergeStep DEF a

LEMMA MergeEndsPromise == ASSUME TInv, MergeEnds PROVE Promise!Next
<1> DEFINE o == work.into[1]
<1>1. /\ heap' = [heap EXCEPT ![o].targetId = NoId]
      /\ work # Idle /\ work' = Idle /\ UNCHANGED <<idMap, call>>
  BY DEF MergeEnds
<1>2. /\ WellMade(heap) /\ DOMAIN heap = 1..Len(heap)
      /\ \A q \in 1..Len(heap) : heap[q] \in Nodes
  BY TInvIsWellMade, GoodType
<1>3. WellMade(heap')
  <2>1. TInv'
    BY MergeEndsTInv
  <2> QED BY <2>1 DEF TInv, IInv, WellMade
<1> HIDE DEF o
<1>4. \A q \in 1..Len(heap) : Alike(heap, heap', q) /\ heap'[q].kids = heap[q].kids
  <2> TAKE q \in 1..Len(heap)
  <2>1. heap'[q] = IF q = o THEN [heap[q] EXCEPT !.targetId = NoId] ELSE heap[q]
    BY <1>1, <1>2
  <2> QED BY <1>2, <2>1 DEF Nodes, Alike
<1>5. InFile(heap) \subseteq 1..Len(heap)
  BY <1>2, InFileIs DEF WellMade
<1>6. Seen(heap') = Seen(heap)
  BY <1>2, <1>3, <1>4, <1>5, SeenSame
<1>7. Promise!AmendedIfThere(o)
  BY <1>2, <1>6, AmendsNothing, AmendsStep
<1> QED BY <1>1, <1>7, MergeStep DEF o

(* A Create.                                                               *)
LEMMA CreateStep ==
    ASSUME NEW i, Promise!Step("Create", i),
           i \in DOMAIN idMap /\ idMap[i] \in InFile(heap) /\ heap[idMap[i]].kind = "Folder"
             => Promise!Appended(Seen(heap), Seen(heap'), idMap[i], Promise!Brought),
           ~ (i \in DOMAIN idMap /\ idMap[i] \in InFile(heap) /\ heap[idMap[i]].kind = "Folder")
             => Seen(heap') = Seen(heap)
    PROVE  Promise!Create(i)
<1>1. DOMAIN Seen(heap) = InFile(heap) /\ Seen(heap)' = Seen(heap')
  BY SeenIs
<1>2. \A o \in InFile(heap) : Seen(heap)[o].kind = heap[o].kind
  BY SeenFields
<1>3. CASE i \in DOMAIN idMap /\ idMap[i] \in InFile(heap)
  BY <1>1, <1>2, <1>3 DEF Promise!Create
<1>4. CASE ~ (i \in DOMAIN idMap /\ idMap[i] \in InFile(heap))
  BY <1>1, <1>4 DEF Promise!Create
<1> QED BY <1>3, <1>4

LEMMA CreatePromise ==
    ASSUME TInv, NEW src \in Containers, NEW map \in Maps, Create(src, map) PROVE Promise!Next
<1> DEFINE i == GetTargetId(map, src[1].targetId)
           c == idMap[i]
           n == Len(src[1].kids)
<1>1. /\ TInv' /\ UNCHANGED <<idMap, work>> /\ work = Idle
      /\ call' = <<"Create", i, n>>
      /\ heap' = IF i \in DOMAIN idMap /\ heap[c].kind = "Folder"
                 THEN CopyFeatures(heap, c, src) ELSE heap
  BY CreateTInv DEF Create, Begin, IsContainer
<1>2. i \in Ids \cup {NoId} /\ IsTree(src) /\ FollowsSchema(src) /\ src[1].kind = "Folder"
  <2>1. src[1] \in Nodes /\ IsTree(src) /\ FollowsSchema(src) /\ src[1].kind = "Folder"
    BY TreesAssumption, SchemaAssumption, TreeIsGood
  <2>2. src[1].targetId \in Ids \cup {NoId}
    BY <2>1 DEF Nodes
  <2> QED BY <2>1, <2>2, TargetIdKnown
<1>3. WellMade(heap) /\ WellMade(heap') /\ Good(heap)
  <2>1. WellMade(heap) /\ Good(heap)
    BY TInvIsWellMade
  <2>2. WellMade(heap')
    BY <1>1, GoodType DEF TInv, IInv, WellMade
  <2> QED BY <2>1, <2>2
<1> HIDE DEF i, n
<1>4. Promise!Step("Create", i) /\ Promise!Brought = n
  BY <1>1 DEF Promise!Step, Promise!Brought
<1>5. CASE i \in DOMAIN idMap /\ heap[c].kind = "Folder"
  <2>1. c \in 1..Len(heap)
    BY <1>5 DEF TInv, IInv
  <2> HIDE DEF c
  <2>2. CopiedBelow(heap, c, src, heap')
    BY <1>1, <1>2, <1>3, <1>5, <2>1, CopyFeaturesIs
  <2>3. PICK r \in Seq(Nat) : /\ Len(r) = n
                              /\ heap'[c] = [heap[c] EXCEPT !.kids = heap[c].kids \o r]
    BY <2>2 DEF CopiedBelow, n
  <2>4. \A q \in 1..Len(heap) : q # c => heap'[q] = heap[q]
    BY <2>2 DEF CopiedBelow
  <2>5. Alike(heap, heap', c) /\ heap'[c].kids = heap[c].kids \o r
    <3>1. heap[c] \in Nodes
      BY <1>3, <2>1, GoodType
    <3> QED BY <2>3, <3>1 DEF Alike, Nodes
  <2>6. InFile(heap) \subseteq 1..Len(heap)
    BY <1>3, InFileIs DEF WellMade
  <2>7. \A x \in InFile(heap) : x # c => Alike(heap, heap', x) /\ heap'[x].kids = heap[x].kids
    BY <2>4, <2>6 DEF Alike
  <2>8. c \in InFile(heap) => Promise!Appended(Seen(heap), Seen(heap'), c, n)
    <3>1. \A x \in InFile(heap) : Alike(heap, heap', x)
      BY <2>5, <2>7
    <3> QED BY <1>3, <2>3, <2>5, <2>7, <3>1, AppendsIs
  <2>9. c \notin InFile(heap) => Seen(heap') = Seen(heap)
    <3>1. c \notin InFile(heap) =>
            \A x \in InFile(heap) : Alike(heap, heap', x) /\ heap'[x].kids = heap[x].kids
      BY <2>7
    <3> QED BY <1>3, <3>1, SeenSame
  <2>10. Promise!Create(i)
    BY <1>4, <1>5, <2>8, <2>9, CreateStep DEF c
  <2> QED BY <1>1, <1>2, <2>10 DEF Promise!Next
<1>6. CASE ~ (i \in DOMAIN idMap /\ heap[c].kind = "Folder")
  <2>1. Seen(heap') = Seen(heap)
    BY <1>1, <1>6
  <2>2. Promise!Create(i)
    BY <1>4, <1>6, <2>1, CreateStep
  <2> QED BY <1>1, <1>2, <2>2 DEF Promise!Next
<1> QED BY <1>5, <1>6

(* A deletion, wherever it happens.                                        *)
TakenOut(h, p, o, g) ==
  /\ p \in InFile(h) => /\ o \in InFile(h) /\ h[o].parent = p /\ p # 0
                        /\ h[o].kind \in {"Folder", "Placemark"}
                        /\ Promise!Removed(Seen(h), Seen(g), o)
  /\ p \notin InFile(h) => Seen(g) = Seen(h)

LEMMA EraseSeen ==
    ASSUME NEW h, WellMade(h), NEW p \in 1..Len(h), h[p].kind \in {"kml", "Folder"},
           NEW k \in DOMAIN h[p].kids, NEW o, o = h[p].kids[k],
           NEW g, WellMade(g), g = Erase(h, p, k)
    PROVE  TakenOut(h, p, o, g)
<1>1. Good(h) /\ InFile(h) \subseteq 1..Len(h)
  BY InFileIs DEF WellMade
<1>2. CASE p \in InFile(h)
  <2>1. o \in InFile(h) /\ h[o].parent = p /\ p # 0 /\ Promise!Removed(Seen(h), Seen(g), o)
    BY <1>2, EraseIsRemoved
  <2>2. Takes(h[p].kind, h[o].kind)
    BY <1>1, <2>1 DEF WellMade, Schemed
  <2>3. h[o].kind \in {"Folder", "Placemark"}
    BY <2>2 DEF Takes
  <2> QED BY <1>2, <2>1, <2>3 DEF TakenOut
<1>3. CASE p \notin InFile(h)
  <2>1. Erased(h, p, k, g)
    BY <1>1, EraseIs
  <2>2. \A x \in InFile(h) : Alike(h, g, x) /\ g[x].kids = h[x].kids
    BY <1>1, <1>3, <2>1 DEF Erased, Alike
  <2>3. Seen(g) = Seen(h)
    BY <2>2, SeenSame
  <2> QED BY <1>3, <2>3 DEF TakenOut
<1> QED BY <1>2, <1>3

(* A kml has one feature at most: to take it out is to leave nothing.      *)
LEMMA EmptyKml ==
    ASSUME NEW h, WellMade(h), NEW p \in 1..Len(h), h[p].kind # "Folder",
           NEW k \in DOMAIN h[p].kids
    PROVE  k = 1 /\ [h EXCEPT ![p].kids = << >>] = Erase(h, p, k)
<1> DEFINE s == h[p].kids
<1>1. Good(h) /\ Schemed(h)
  BY DEF WellMade
<1>2. s \in Seq(Nat) /\ Len(s) \in Nat /\ k \in 1..Len(s)
  BY <1>1, GoodType
<1>3. Len(s) <= 1
  BY <1>1 DEF Schemed
<1> HIDE DEF s
<1>4. Len(s) = 1 /\ k = 1
  <2>1. PICK m \in Nat : m = Len(s)
    BY <1>2
  <2>2. k \in 1..m /\ m <= 1
    BY ONLY <1>2, <1>3, <2>1
  <2>3. m = 1 /\ k = 1
    BY ONLY <2>2, m \in Nat
  <2> QED BY <2>1, <2>3
<1>5. RemoveAt(s, k) \in Seq(Nat) /\ Len(RemoveAt(s, k)) = 0
  <2>1. RemoveAt(s, k) \in Seq(Nat) /\ Len(RemoveAt(s, k)) = Len(s) - 1
    BY <1>2, RemoveAtProperties
  <2> QED BY ONLY <1>4, <2>1
<1> DEFINE r == RemoveAt(s, k)
<1>6. r = << >>
  <2>1. r \in Seq(Nat) /\ Len(r) = 0
    BY <1>5
  <2> HIDE DEF r
  <2> QED BY <2>1
<1> QED BY <1>4, <1>6 DEF Erase, s

(* What the table has for an id is what DeleteFeatureById finds.           *)
LEMMA AddressedIs ==
    ASSUME TInv, NEW i, Promise!Addressed(Seen(heap), i),
           NEW o, o = idMap[i], NEW p, p = heap[o].parent
    PROVE  /\ i \in DOMAIN idMap /\ o \in InFile(heap) /\ p \in InFile(heap) /\ p # 0
           /\ IsFeature(o) /\ p \in 1..Len(heap) /\ Takes(heap[p].kind, heap[o].kind)
           /\ \E l \in FirstWithId(p, i) : heap[p].kids[l] = o
<1> DEFINE t == Seen(heap)
<1>1. /\ WellMade(heap) /\ Good(heap) /\ InFile(heap) \subseteq 1..Len(heap)
      /\ Closed(heap, InFile(heap))
      /\ \A x \in InFile(heap) : x # Root =>
           /\ heap[x].parent \in InFile(heap) /\ heap[x].parent # 0
           /\ x \in Range(heap[heap[x].parent].kids)
  BY TInvIsWellMade, InFileIs DEF WellMade
<1>2. DOMAIN t = InFile(heap)
      /\ \A x \in InFile(heap) : /\ t[x].kind = heap[x].kind /\ t[x].id = heap[x].id
                                 /\ t[x].parent = heap[x].parent /\ t[x].kids = heap[x].kids
  BY SeenIs, SeenFields
<1>3. Promise!Addressed(t, i)
  OBVIOUS
<1> HIDE DEF t
<1>4. i \in DOMAIN idMap /\ o \in InFile(heap)
  BY <1>2, <1>3 DEF Promise!Addressed
<1>5. /\ t[o].id = i /\ Promise!IsFeature(t[o]) /\ p # 0
      /\ \A k, l \in DOMAIN t[p].kids : t[p].kids[l] = o /\ k < l => t[t[p].kids[k]].id # i
  BY <1>2, <1>3, <1>4, SMTT(40) DEF Promise!Addressed
<1>6. heap[o].id = i /\ IsFeature(o)
  BY <1>2, <1>4, <1>5 DEF Promise!IsFeature, IsFeature
<1>7. o # Root
  BY <1>1, <1>5 DEF WellMade, Schemed
<1>8. p \in InFile(heap) /\ o \in Range(heap[p].kids) /\ p \in 1..Len(heap) /\ o \in 1..Len(heap)
  BY <1>1, <1>4, <1>7
<1>9. Takes(heap[p].kind, heap[o].kind)
  BY <1>1, <1>5, <1>8 DEF WellMade, Schemed
<1>10. PICK l \in DOMAIN heap[p].kids : heap[p].kids[l] = o
  BY <1>8 DEF Range
<1>11. l \in FirstWithId(p, i)
  <2>1. DOMAIN heap[p].kids = 1..Len(heap[p].kids) /\ Len(heap[p].kids) \in Nat
    BY <1>1, <1>8, GoodType
  <2>2. ASSUME NEW k \in 1..(l - 1) PROVE heap[heap[p].kids[k]].id # i
    <3>1. k \in DOMAIN heap[p].kids /\ k < l
      BY <2>1
    <3>2. heap[p].kids[k] \in InFile(heap)
      BY <1>1, <1>8, <3>1 DEF Closed, Range
    <3>3. t[p].kids = heap[p].kids
      BY <1>2, <1>8
    <3>4. t[heap[p].kids[k]].id # i
      BY <1>5, <1>10, <3>1, <3>3
    <3> QED BY <1>2, <3>2, <3>4
  <2> QED BY <1>6, <1>10, <2>2 DEF FirstWithId
<1> QED BY <1>4, <1>5, <1>6, <1>8, <1>9, <1>10, <1>11

LEMMA OneIsFirst ==
    ASSUME TInv, NEW p \in 1..Len(heap), NEW i, NEW k \in FirstWithId(p, i),
           NEW l \in FirstWithId(p, i)
    PROVE  k = l
<1> DEFINE s == heap[p].kids
<1>1. DOMAIN s = 1..Len(s) /\ Len(s) \in Nat
  BY GoodType, TInvIsWellMade
<1>2. /\ k \in DOMAIN s /\ heap[s[k]].id = i /\ \A m \in 1..(k - 1) : heap[s[m]].id # i
      /\ l \in DOMAIN s /\ heap[s[l]].id = i /\ \A m \in 1..(l - 1) : heap[s[m]].id # i
  BY DEF FirstWithId
<1> HIDE DEF s
<1>3. k \in Nat \ {0} /\ l \in Nat \ {0} /\ k \notin 1..(l - 1) /\ l \notin 1..(k - 1)
  BY <1>1, <1>2
<1> QED BY <1>3

LEMMA AddressedIsDeleted ==
    ASSUME TInv, NEW i, Promise!Addressed(Seen(heap), i), heap' = DeleteFeatureById(i),
           WellMade(heap')
    PROVE  Promise!Removed(Seen(heap), Seen(heap'), idMap[i])
<1>1. PICK o : o = idMap[i]
  OBVIOUS
<1>2. PICK p : p = heap[o].parent
  OBVIOUS
<1>3. /\ i \in DOMAIN idMap /\ o \in InFile(heap) /\ p \in InFile(heap) /\ p # 0
      /\ IsFeature(o) /\ p \in 1..Len(heap) /\ Takes(heap[p].kind, heap[o].kind)
  BY <1>1, <1>2, AddressedIs
<1>4. PICK l \in FirstWithId(p, i) : heap[p].kids[l] = o
  BY <1>1, <1>2, AddressedIs
<1>5. l \in DOMAIN heap[p].kids /\ WellMade(heap)
  BY TInvIsWellMade DEF FirstWithId
<1>6. heap' = IF heap[p].kind = "kml" THEN [heap EXCEPT ![p].kids = << >>]
              ELSE IF FirstWithId(p, i) = {} THEN heap
              ELSE Erase(heap, p, CHOOSE k \in FirstWithId(p, i) : TRUE)
  BY <1>1, <1>2, <1>3 DEF DeleteFeatureById
<1>7. heap' = Erase(heap, p, l)
  <2>1. CASE heap[p].kind = "kml"
    <3>1. heap[p].kind # "Folder"
      BY <2>1
    <3> QED BY <1>3, <1>5, <1>6, <2>1, <3>1, EmptyKml
  <2>2. CASE heap[p].kind # "kml"
    <3> DEFINE k == CHOOSE k \in FirstWithId(p, i) : TRUE
    <3>1. k \in FirstWithId(p, i)
      OBVIOUS
    <3>2. heap' = Erase(heap, p, k)
      BY <1>6, <2>2
    <3> HIDE DEF k
    <3>3. k = l
      BY <1>3, <3>1, OneIsFirst
    <3> QED BY <3>2, <3>3
  <2> QED BY <2>1, <2>2
<1>8. heap[p].kind \in {"kml", "Folder"}
  BY <1>3 DEF Takes, IsFeature
<1>9. TakenOut(heap, p, o, heap')
  <2>1. /\ WellMade(heap) /\ WellMade(heap') /\ p \in 1..Len(heap)
        /\ l \in DOMAIN heap[p].kids /\ o = heap[p].kids[l]
    BY <1>3, <1>4, <1>5
  <2> QED BY ONLY <1>7, <1>8, <2>1, EraseSeen
<1> QED BY <1>1, <1>3, <1>9 DEF TakenOut

LEMMA DeleteStep ==
    ASSUME NEW i, Promise!Step("Delete", i),
           Promise!Addressed(Seen(heap), i)
             => Promise!Removed(Seen(heap), Seen(heap'), idMap[i]),
           \/ Seen(heap') = Seen(heap)
           \/ \E o \in InFile(heap) :
                /\ IsFeature(o) /\ heap[o].parent # 0 /\ heap[o].parent \in InFile(heap)
                /\ Promise!Removed(Seen(heap), Seen(heap'), o)
                /\ \/ heap[o].id = i
                   \/ /\ i \in DOMAIN idMap /\ o = idMap[i]
                      /\ heap[heap[o].parent].kind = "kml"
    PROVE  Promise!Delete(i)
<1>1. DOMAIN Seen(heap) = InFile(heap) /\ Seen(heap)' = Seen(heap')
  BY SeenIs
<1>2. \A x \in InFile(heap) :
        /\ Seen(heap)[x].kind = heap[x].kind /\ Seen(heap)[x].id = heap[x].id
        /\ Seen(heap)[x].parent = heap[x].parent
  BY SeenFields
<1>3. CASE Promise!Addressed(Seen(heap), i)
  BY <1>1, <1>3 DEF Promise!Delete
<1>4. CASE ~ Promise!Addressed(Seen(heap), i) /\ Seen(heap') = Seen(heap)
  BY <1>1, <1>4 DEF Promise!Delete
<1>5. ASSUME ~ Promise!Addressed(Seen(heap), i),
             NEW o \in InFile(heap),
             IsFeature(o), heap[o].parent # 0, heap[o].parent \in InFile(heap),
             Promise!Removed(Seen(heap), Seen(heap'), o),
             \/ heap[o].id = i
             \/ /\ i \in DOMAIN idMap /\ o = idMap[i] /\ heap[heap[o].parent].kind = "kml"
      PROVE  Promise!Delete(i)
  <2>1. /\ Promise!IsFeature(Seen(heap)[o]) /\ Seen(heap)[o].parent # 0
        /\ \/ Seen(heap)[o].id = i
           \/ /\ i \in DOMAIN idMap /\ o = idMap[i]
              /\ Seen(heap)[Seen(heap)[o].parent].kind = "kml"
    BY <1>2, <1>5 DEF Promise!IsFeature, IsFeature
  <2>2. o \in DOMAIN Seen(heap)
    BY <1>1
  <2> QED BY <1>1, <1>5, <2>1, <2>2 DEF Promise!Delete
<1> QED BY <1>3, <1>4, <1>5

LEMMA DeletePromise ==
    ASSUME TInv, NEW t \in Ids, NEW map \in Maps, Delete(t, map) PROVE Promise!Next
<1>1. PICK i : i = GetTargetId(map, t)
  OBVIOUS
<1>2. /\ TInv' /\ UNCHANGED <<idMap, work>> /\ work = Idle /\ call' = <<"Delete", i, 0>>
      /\ heap' = DeleteFeatureById(i) /\ i \in Ids \cup {NoId}
  BY <1>1, DeleteTInv, TargetIdKnown DEF Delete, Begin, MapAfterDelete
<1>3. WellMade(heap) /\ WellMade(heap') /\ Good(heap)
  <2>1. WellMade(heap) /\ Good(heap)
    BY TInvIsWellMade
  <2>2. WellMade(heap')
    BY <1>2, GoodType DEF TInv, IInv, WellMade
  <2> QED BY <2>1, <2>2
<1>4. Promise!Step("Delete", i)
  BY <1>2 DEF Promise!Step
<1>5. Promise!Addressed(Seen(heap), i) => Promise!Removed(Seen(heap), Seen(heap'), idMap[i])
  BY <1>2, <1>3, AddressedIsDeleted
<1> DEFINE Gone(o) == /\ IsFeature(o) /\ heap[o].parent # 0 /\ heap[o].parent \in InFile(heap)
                      /\ Promise!Removed(Seen(heap), Seen(heap'), o)
                      /\ \/ heap[o].id = i
                         \/ /\ i \in DOMAIN idMap /\ o = idMap[i]
                            /\ heap[heap[o].parent].kind = "kml"
<1>6. Seen(heap') = Seen(heap) \/ \E o \in InFile(heap) : Gone(o)
  <2>1. CASE heap' = heap
    BY <2>1
  <2>2. ASSUME NEW o, o = idMap[i], NEW p, p = heap[o].parent,
               i \in DOMAIN idMap, o \in 1..Len(heap), IsFeature(o),
               p \in 1..Len(heap), Takes(heap[p].kind, heap[o].kind),
               \/ heap[p].kind = "kml" /\ heap' = [heap EXCEPT ![p].kids = << >>]
               \/ /\ heap[p].kind # "kml"
                  /\ \E k \in FirstWithId(p, i) : heap' = Erase(heap, p, k)
        PROVE  Seen(heap') = Seen(heap) \/ \E y \in InFile(heap) : Gone(y)
    <3>1. heap[p].kind \in {"kml", "Folder"}
      BY <2>2 DEF Takes, IsFeature
    <3>2. InFile(heap) \subseteq 1..Len(heap) /\ Root \in InFile(heap)
          /\ DOMAIN heap[p].kids = 1..Len(heap[p].kids) /\ Len(heap[p].kids) \in Nat
          /\ heap[p].kids \in Seq(Nat)
      BY <1>3, <2>2, InFileIs, GoodType DEF WellMade
    <3>3. CASE heap[p].kind = "kml" /\ heap' = [heap EXCEPT ![p].kids = << >>]
      <4>1. p = Root
        BY <1>3, <2>2, <3>3 DEF WellMade, Schemed
      <4>2. CASE DOMAIN heap[p].kids = {}
        <5>1. heap[p].kids = << >> /\ << >> \in Seq(Nat)
          <6>1. PICK s \in Seq(Nat) : s = heap[p].kids
            BY <3>2
          <6>2. DOMAIN s = {}
            BY <4>2, <6>1
          <6>3. s = << >>
            BY ONLY <6>2, s \in Seq(Nat)
          <6> QED BY <6>1, <6>3
        <5>2. \A q \in 1..Len(heap) :
                /\ heap'[q].kind = heap[q].kind /\ heap'[q].id = heap[q].id
                /\ heap'[q].field = heap[q].field /\ heap'[q].parent = heap[q].parent
                /\ heap'[q].kids = IF q = p THEN << >> ELSE heap[q].kids
          BY <1>3, <2>2, <3>3, <5>1, SetKids
        <5>3. \A x \in InFile(heap) : Alike(heap, heap', x) /\ heap'[x].kids = heap[x].kids
          BY <3>2, <5>1, <5>2 DEF Alike
        <5> QED BY <1>3, <5>3, SeenSame
      <4>3. ASSUME NEW k \in DOMAIN heap[p].kids
            PROVE  \E y \in InFile(heap) : Gone(y)
        <5>1. PICK y : y = heap[p].kids[k]
          OBVIOUS
        <5>2. heap' = Erase(heap, p, k)
          <6>1. heap[p].kind # "Folder" /\ WellMade(heap) /\ p \in 1..Len(heap)
            BY <1>3, <2>2, <3>3
          <6>2. [heap EXCEPT ![p].kids = << >>] = Erase(heap, p, k)
            BY ONLY <6>1, k \in DOMAIN heap[p].kids, EmptyKml
          <6> QED BY ONLY <3>3, <6>2
        <5>3. /\ y \in InFile(heap) /\ heap[y].parent = p /\ p # 0
              /\ heap[y].kind \in {"Folder", "Placemark"}
              /\ Promise!Removed(Seen(heap), Seen(heap'), y)
          <6>1. /\ WellMade(heap) /\ WellMade(heap') /\ p \in 1..Len(heap)
                /\ p \in InFile(heap) /\ k \in DOMAIN heap[p].kids
            BY <1>3, <2>2, <3>2, <4>1
          <6>2. TakenOut(heap, p, y, heap')
            BY ONLY <3>1, <5>1, <5>2, <6>1, EraseSeen
          <6> QED BY ONLY <6>1, <6>2 DEF TakenOut
        <5>4. y = o
          <6>1. y \in 1..Len(heap) /\ heap[y].parent = Root /\ heap[o].parent = Root
                /\ heap[Root].kind = "kml"
            BY <2>2, <3>2, <3>3, <4>1, <5>3
          <6> QED BY <1>3, <2>2, <6>1 DEF WellMade, Schemed
        <5>5. Gone(y)
          BY <2>2, <3>2, <3>3, <4>1, <5>3, <5>4
        <5> QED BY <5>3, <5>5
      <4> QED BY <4>2, <4>3
    <3>4. ASSUME NEW k \in FirstWithId(p, i), heap' = Erase(heap, p, k)
          PROVE  Seen(heap') = Seen(heap) \/ \E y \in InFile(heap) : Gone(y)
      <4>1. PICK y : y = heap[p].kids[k]
        OBVIOUS
      <4>2. k \in DOMAIN heap[p].kids /\ heap[y].id = i
        BY <4>1 DEF FirstWithId
      <4>3. TakenOut(heap, p, y, heap')
        <5>1. /\ WellMade(heap) /\ WellMade(heap') /\ heap' = Erase(heap, p, k)
              /\ k \in DOMAIN heap[p].kids /\ p \in 1..Len(heap)
          BY <1>3, <2>2, <3>4, <4>2
        <5> QED BY ONLY <3>1, <4>1, <5>1, EraseSeen
      <4>4. CASE p \in InFile(heap)
        <5>1. /\ y \in InFile(heap) /\ heap[y].parent = p /\ p # 0
              /\ heap[y].kind \in {"Folder", "Placemark"}
              /\ Promise!Removed(Seen(heap), Seen(heap'), y)
          BY ONLY <4>3, <4>4 DEF TakenOut
        <5>2. Gone(y)
          BY <4>2, <4>4, <5>1 DEF IsFeature
        <5> QED BY <5>1, <5>2
      <4>5. CASE p \notin InFile(heap)
        BY ONLY <4>3, <4>5 DEF TakenOut
      <4> QED BY <4>4, <4>5
    <3> QED BY <2>2, <3>3, <3>4
  <2> QED BY <1>2, <2>1, <2>2, DeletesIs
<1>7. Promise!Delete(i)
  BY <1>4, <1>5, <1>6, DeleteStep
<1> QED BY <1>2, <1>7 DEF Promise!Next

(* The client's calls.                                                     *)
LEMMA ClientStep ==
    ASSUME Promise!Step("client", NoId), UNCHANGED idMap,
           \/ Seen(heap') = Seen(heap)
           \/ \E c \in InFile(heap) : /\ heap[c].kind = "Folder"
                                      /\ Promise!Appended(Seen(heap), Seen(heap'), c, 1)
           \/ \E o \in InFile(heap) : /\ heap[o].kind \in {"Folder", "Placemark"}
                                      /\ heap[o].parent # 0
                                      /\ Promise!Removed(Seen(heap), Seen(heap'), o)
    PROVE  Promise!Next
<1>1. DOMAIN Seen(heap) = InFile(heap) /\ Seen(heap)' = Seen(heap')
  BY SeenIs
<1>2. \A x \in InFile(heap) :
        Seen(heap)[x].kind = heap[x].kind /\ Seen(heap)[x].parent = heap[x].parent
  BY SeenFields
<1>3. CASE Seen(heap') = Seen(heap)
  <2>1. Promise!Client
    BY <1>1, <1>3 DEF Promise!Client
  <2> QED BY <2>1 DEF Promise!Next
<1>4. ASSUME NEW c \in InFile(heap), heap[c].kind = "Folder",
             Promise!Appended(Seen(heap), Seen(heap'), c, 1)
      PROVE  Promise!Next
  <2>1. c \in DOMAIN Seen(heap) /\ Seen(heap)[c].kind = "Folder"
    BY <1>1, <1>2, <1>4
  <2>2. Promise!Client
    BY <1>1, <1>4, <2>1 DEF Promise!Client
  <2> QED BY <2>2 DEF Promise!Next
<1>5. ASSUME NEW o \in InFile(heap), heap[o].kind \in {"Folder", "Placemark"},
             heap[o].parent # 0, Promise!Removed(Seen(heap), Seen(heap'), o)
      PROVE  Promise!Next
  <2>1. o \in DOMAIN Seen(heap) /\ Promise!IsFeature(Seen(heap)[o]) /\ Seen(heap)[o].parent # 0
    BY <1>1, <1>2, <1>5 DEF Promise!IsFeature
  <2>2. Promise!Client
    BY <1>1, <1>5, <2>1 DEF Promise!Client
  <2> QED BY <2>2 DEF Promise!Next
<1> QED BY <1>3, <1>4, <1>5

LEMMA NewFeaturePromise ==
    ASSUME TInv, NEW t \in NewFeatures, NewFeature(t) PROVE Promise!Next
<1>1. /\ TInv' /\ UNCHANGED <<idMap, work>> /\ work = Idle /\ call' = <<"client", NoId, 0>>
      /\ heap' = heap \o Clone(t, 1, Len(heap))
      /\ IsTree(t) /\ FollowsSchema(t) /\ t[1].kind # "kml"
  BY NewFeatureTInv, TreesAssumption, SchemaAssumption DEF NewFeature, Begin
<1>2. Promise!Step("client", NoId)
  BY <1>1 DEF Promise!Step
<1>3. WellMade(heap) /\ WellMade(heap')
  <2>1. WellMade(heap')
    BY <1>1, GoodType DEF TInv, IInv, WellMade
  <2> QED BY <2>1, TInvIsWellMade
<1>4. \A q \in 1..Len(heap) : heap'[q] = heap[q]
  <2>1. StandsAlone(heap, heap')
    BY <1>1, <1>3, CloneAlone DEF WellMade
  <2> QED BY <2>1 DEF StandsAlone
<1>5. InFile(heap) \subseteq 1..Len(heap)
  BY <1>3, InFileIs DEF WellMade
<1>6. \A x \in InFile(heap) : Alike(heap, heap', x) /\ heap'[x].kids = heap[x].kids
  BY <1>4, <1>5 DEF Alike
<1>7. Seen(heap') = Seen(heap)
  BY <1>3, <1>6, SeenSame
<1> QED BY <1>1, <1>2, <1>7, ClientStep

LEMMA AddFeaturePromise ==
    ASSUME TInv, NEW c \in Objects, NEW o \in Objects, AddFeature(c, o) PROVE Promise!Next
<1>1. /\ TInv' /\ UNCHANGED <<idMap, work>> /\ work = Idle /\ call' = <<"client", NoId, 1>>
      /\ heap' = AddElement(heap, c, o) /\ heap[c].kind = "Folder" /\ o # Root
  BY AddFeatureTInv DEF AddFeature, Begin, IsContainer
<1>2. Promise!Step("client", NoId)
  BY <1>1 DEF Promise!Step
<1>3. WellMade(heap) /\ WellMade(heap') /\ Good(heap)
  <2>1. WellMade(heap')
    BY <1>1, GoodType DEF TInv, IInv, WellMade
  <2> QED BY <2>1, TInvIsWellMade
<1>4. c \in 1..Len(heap) /\ o \in 1..Len(heap)
  BY <1>3, GoodType DEF Objects
<1>5. CASE ~ MayAdopt(heap, o)
  <2>1. Seen(heap') = Seen(heap)
    BY <1>1, <1>5 DEF AddElement
  <2> QED BY <1>1, <1>2, <2>1, ClientStep
<1>6. CASE MayAdopt(heap, o)
  <2>1. Adopted(heap, c, o, heap')
    BY <1>1, <1>3, <1>4, <1>6, AddElementIs
  <2>2. o \notin InFile(heap) /\ InFile(heap) \subseteq 1..Len(heap)
    BY <1>1, <1>3, <1>6, InFileIs DEF WellMade, MayAdopt
  <2>3. \A x \in InFile(heap) :
          Alike(heap, heap', x) /\ (x # c => heap'[x].kids = heap[x].kids)
    BY <2>1, <2>2 DEF Adopted, Alike
  <2>4. CASE c \in InFile(heap)
    <3>1. PICK r : r = <<o>>
      OBVIOUS
    <3>2. r \in Seq(Nat) /\ Len(r) = 1
      BY <1>4, <3>1
    <3>3. heap'[c].kids = heap[c].kids \o r
      <4>1. heap'[c].kids = Append(heap[c].kids, o)
        BY <1>1, <1>4, <2>1 DEF Adopted
      <4>2. heap[c].kids \in Seq(Nat) /\ o \in Nat
        BY <1>3, <1>4, GoodType
      <4> QED BY <3>1, <4>1, <4>2, AppendIsConcatenation
    <3>4. Promise!Appended(Seen(heap), Seen(heap'), c, Len(r))
      BY <1>3, <2>3, <2>4, <3>2, <3>3, AppendsIs
    <3> QED BY <1>1, <1>2, <2>4, <3>2, <3>4, ClientStep
  <2>5. CASE c \notin InFile(heap)
    <3>1. Seen(heap') = Seen(heap)
      BY <1>3, <2>3, <2>5, SeenSame
    <3> QED BY <1>1, <1>2, <3>1, ClientStep
  <2> QED BY <2>4, <2>5
<1> QED BY <1>5, <1>6

LEMMA DeleteFeatureAtPromise ==
    ASSUME TInv, NEW c \in Objects, NEW k, DeleteFeatureAt(c, k) PROVE Promise!Next
<1>1. /\ TInv' /\ UNCHANGED <<idMap, work>> /\ work = Idle /\ call' = <<"client", NoId, 0>>
      /\ heap' = Erase(heap, c, k) /\ heap[c].kind = "Folder" /\ k \in DOMAIN heap[c].kids
  BY DeleteFeatureAtTInv DEF DeleteFeatureAt, Begin, IsContainer
<1>2. Promise!Step("client", NoId)
  BY <1>1 DEF Promise!Step
<1>3. WellMade(heap) /\ WellMade(heap') /\ Good(heap)
  <2>1. WellMade(heap')
    BY <1>1, GoodType DEF TInv, IInv, WellMade
  <2> QED BY <2>1, TInvIsWellMade
<1>4. c \in 1..Len(heap) /\ heap[c].kind \in {"kml", "Folder"}
  BY <1>1, <1>3, GoodType DEF Objects
<1>5. PICK o : o = heap[c].kids[k]
  OBVIOUS
<1>6. CASE c \in InFile(heap)
  <2>1. /\ o \in InFile(heap) /\ heap[o].parent # 0 /\ heap[o].kind \in {"Folder", "Placemark"}
        /\ Promise!Removed(Seen(heap), Seen(heap'), o)
    <3>1. TakenOut(heap, c, o, heap')
      BY ONLY <1>1, <1>3, <1>4, <1>5, EraseSeen
    <3> QED BY ONLY <1>6, <3>1 DEF TakenOut
  <2> QED BY <1>1, <1>2, <2>1, ClientStep
<1>7. CASE c \notin InFile(heap)
  <2>1. Seen(heap') = Seen(heap)
    <3>1. TakenOut(heap, c, o, heap')
      BY ONLY <1>1, <1>3, <1>4, <1>5, EraseSeen
    <3> QED BY ONLY <1>7, <3>1 DEF TakenOut
  <2> QED BY <1>1, <1>2, <2>1, ClientStep
<1> QED BY <1>6, <1>7

-----------------------------------------------------------------------------
LEMMA InitPromise == Init => Promise!Init
BY DEF Init, Promise!Init

LEMMA NextPromise == TInv /\ [Next]_vars => [Promise!Next]_(Promise!vars)
<1> SUFFICES ASSUME TInv, [Next]_vars PROVE Promise!Next \/ UNCHANGED Promise!vars
  OBVIOUS
<1>0. Live \subseteq Objects
  BY LiveKnown, GoodType DEF TInv, IInv, Objects
<1>1. CASE UNCHANGED vars
  <2>1. UNCHANGED <<heap, idMap, work, call>>
    BY <1>1 DEF vars
  <2>2. Seen(heap)' = Seen(heap)
    BY <2>1
  <2> QED BY <2>1, <2>2 DEF Promise!vars
<1>2. CASE \E map \in Maps : \E src \in Changes : Change(src, map)
  BY <1>2, ChangePromise
<1>3. CASE \E map \in Maps : \E src \in Containers : Create(src, map)
  BY <1>3, CreatePromise
<1>4. CASE \E map \in Maps : \E t \in Ids : Delete(t, map)
  BY <1>4, DeletePromise
<1>5. CASE MergeElements \/ MergeEnds
  BY <1>5, MergeElementsPromise, MergeEndsPromise
<1>6. CASE \E t \in NewFeatures : NewFeature(t)
  BY <1>6, NewFeaturePromise
<1>7. CASE \E c, o \in Live : AddFeature(c, o)
  BY <1>0, <1>7, AddFeaturePromise
<1>8. CASE \E c \in Live : \E k \in DOMAIN heap[c].kids : DeleteFeatureAt(c, k)
  BY <1>0, <1>8, DeleteFeatureAtPromise
<1> QED BY <1>1, <1>2, <1>3, <1>4, <1>5, <1>6, <1>7, <1>8 DEF Next

(* StepsAsPromised, for every document, every Update and every client:     *)
(* KmlFileUpdate implements UpdatePromise, every step is a step of it or   *)
(* changes nothing of what it sees.  What an operation touches is found by *)
(* way of what is reached from the root and from its target; that it is no *)
(* more than that follows from every element having one place (IInv), and  *)
(* that a merge stays below its target from what work knows (WorkFits).    *)
THEOREM StepsAsPromisedAlways == Spec => StepsAsPromised
<1> QED BY InitPromise, InitTInv, NextTInv, NextPromise, PTL DEF Spec, StepsAsPromised, Promise!Spec
=============================================================================
