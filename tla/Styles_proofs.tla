--------------------------- MODULE Styles_proofs ---------------------------
(***************************************************************************)
(* Moving a style into a Document, or back into its Feature, does not      *)
(* change what any Feature is drawn with: the tree of the observer and the *)
(* tree the parser would build alone are related, Feature by Feature and   *)
(* id by id, from the first element to the last (StyleObservers).          *)
(*                                                                         *)
(* What StyleMerger merges is what the rules of StyleRules promise: what   *)
(* was merged, followed by what the work still to do stands for, is within *)
(* what was promised, after every step.                                    *)
(***************************************************************************)
EXTENDS StyleObservers, StyleRules, SequenceTheorems, WellFoundedInduction, TLAPS

Kinds == {"kml", "Update", "Document", "Folder"}

Elements == [url : AllIds \cup {NoId}, selector : Selectors \cup {NULL}, styles : Seq(Selectors)]

ObserverTypes ==
    /\ observer \in {"splitter", "inliner"}
    /\ nodes \in Seq([kind : Kinds, in_update : BOOLEAN])
    /\ open \in Seq(Nat) /\ \A k \in 1..Len(open) : open[k] \in 1..Len(nodes)
    /\ plain \in Seq(Elements) /\ Len(plain) = Len(nodes)
    /\ tree \in Seq(Elements) /\ Len(tree) = Len(nodes)
    /\ early \in Seq(SUBSET Nat) /\ Len(early) = Len(nodes)
    /\ document \in 1..Len(nodes) \cup {NULL}
    /\ document # NULL => nodes[document].kind = "Document"
    /\ in_update \in BOOLEAN
    /\ DOMAIN shared \subseteq AllIds /\ shared \in [DOMAIN shared -> Selectors]
    /\ id_counter \in 0..Len(UniqueIds)
    /\ size \in Nat

(* in_update_ is on just while an Update is open: that is the second       *)
(* element, if any.                                                        *)
Guarded ==
    /\ open # <<>> => open[1] = 1 /\ in_update = nodes[Last(open)].in_update
    /\ open = <<>> => ~ in_update
    /\ \A n \in 1..Len(nodes) : nodes[n].kind = "kml" <=> n = 1
    /\ ~ nodes[1].in_update
    /\ \A k \in 2..Len(open) :
         /\ open[k] # 1
         /\ nodes[open[k]].in_update =
              (nodes[open[k - 1]].in_update \/ nodes[open[k]].kind = "Update")
         /\ nodes[open[k]].kind = "Update" => k = 2

(* Below what is in an Update everything is; what is in one is as it was,  *)
(* or it is the Document of the splitter, which has ended then.            *)
IsOpen(n) == \E k \in 1..Len(open) : open[k] = n

Below ==
    \A j, k \in 1..Len(open) :
        j <= k /\ nodes[open[j]].in_update => nodes[open[k]].in_update

Kept(n) == tree[n] = plain[n] \/ (~ IsOpen(n) /\ IsHomeOfMore(n))

UpdatesKept == \A n \in 1..Len(nodes) : nodes[n].in_update => Kept(n)

-----------------------------------------------------------------------------
(* The splitter, as long as no inline style has an id.                     *)
InlineIds == \E s \in InlineStyles : s.id # NoId

Renamed(s, i) == [s EXCEPT !.id = i]

Unsplit(n) == tree[n].selector = plain[n].selector /\ tree[n].url = plain[n].url

IsSplit(n) ==
    /\ nodes[n].kind = "Folder"
    /\ plain[n].selector # NULL /\ tree[n].selector = NULL
    /\ plain[n].url # NoId => tree[n].url = plain[n].url
    /\ plain[n].url = NoId => /\ tree[n].url \in DOMAIN shared
                              /\ shared[tree[n].url] = Renamed(plain[n].selector, tree[n].url)

SplitIds == DOMAIN shared = Generated /\ \A i \in DOMAIN shared : shared[i].id = i

SplitStyles == StylesIn(tree) = StylesIn(plain) \cup {shared[i] : i \in DOMAIN shared}

EachSplit == \A n \in 1..Len(nodes) : Several(n) \/ Unsplit(n) \/ IsSplit(n)

NoneLeft ==
    \A n \in 1..Len(nodes) :
        nodes[n].kind = "Folder" /\ ~ nodes[n].in_update /\ ~ Several(n)
          /\ document # NULL /\ document < n /\ plain[n].url = NoId =>
            tree[n].selector = NULL

SplitInv == SplitIds /\ SplitStyles /\ EachSplit /\ NoneLeft

-----------------------------------------------------------------------------
(* The inliner, as long as no shared style belongs to an Update.           *)
Inlined(n) ==
    /\ plain[n].url = NoId => tree[n].url = NoId
    /\ ~ nodes[n].in_update /\ plain[n].url # NoId /\ plain[n].selector = NULL /\ early[n] # {} =>
         /\ tree[n].url = NoId /\ tree[n].selector # NULL
         /\ tree[n].selector.means = [what |-> "resolved", styles |-> early[n]]

InlineInv ==
    /\ SharedOf(shared) = SharedIn(plain)
    /\ \A n \in 1..Len(nodes) : Inlined(n)

IInv ==
    /\ ObserverTypes /\ Guarded /\ Below /\ UpdatesKept
    /\ observer = "splitter" /\ ~ InlineIds => SplitInv
    /\ observer = "inliner" /\ ~ SharedInUpdate => InlineInv

-----------------------------------------------------------------------------
(* What StyleMaps lead to.                                                 *)
Names == [AllIds -> SUBSET Selectors]

LEMMA MeaningType ==
    ASSUME NEW means \in Meanings
    PROVE  /\ Own(means) \subseteq Nat /\ Targets(means) \subseteq AllIds
           /\ means.what = "map" => Own(means) = {} /\ means.id \in AllIds
<1>1. CASE means \in [what : {"style"}, style : Nat]
  BY <1>1 DEF Own, Targets
<1>2. CASE means \in [what : {"map"}, id : AllIds]
  BY <1>2 DEF Own, Targets
<1>3. CASE means \in [what : {"resolved"}, styles : SUBSET Nat]
  BY <1>3 DEF Own, Targets
<1> QED BY <1>1, <1>2, <1>3 DEF Meanings

LEMMA SelectorType ==
    ASSUME NEW s \in Selectors
    PROVE  s.id \in AllIds \cup {NoId} /\ s.means \in Meanings /\ s = [id |-> s.id, means |-> s.means]
BY DEF Selectors

LEMMA FollowingType ==
    ASSUME NEW named \in Names, NEW i \in AllIds
    PROVE  Following(named, i) \subseteq AllIds
<1>1. \A s \in named[i] : s \in Selectors
  BY DEF Names
<1>2. \A s \in named[i] : Targets(s.means) \subseteq AllIds
  BY <1>1, SelectorType, MeaningType
<1> QED BY <1>2 DEF Following

(* Reached is the smallest set of ids that is closed and has from.         *)
LEMMA ReachedIs ==
    ASSUME NEW named \in Names, NEW from \in SUBSET AllIds
    PROVE  /\ from \subseteq Reached(named, from)
           /\ Reached(named, from) \subseteq AllIds
           /\ ClosedUnder(named, Reached(named, from))
<1>1. Reached(named, from) \subseteq AllIds
  BY DEF Reached
<1>2. from \subseteq Reached(named, from)
  BY DEF Reached
<1>3. ClosedUnder(named, Reached(named, from))
  <2> SUFFICES ASSUME NEW i \in Reached(named, from), NEW j \in Following(named, i)
               PROVE  j \in Reached(named, from)
    BY DEF ClosedUnder
  <2>1. j \in AllIds
    BY <1>1, FollowingType
  <2>2. ASSUME NEW ids \in SUBSET AllIds, from \subseteq ids, ClosedUnder(named, ids)
        PROVE  j \in ids
    <3>1. i \in ids
      BY <2>2 DEF Reached
    <3> QED BY <3>1, <2>2 DEF ClosedUnder
  <2> QED BY <2>1, <2>2 DEF Reached
<1> QED BY <1>1, <1>2, <1>3

LEMMA ReachedLeast ==
    ASSUME NEW named, NEW from, NEW ids \in SUBSET AllIds,
           from \subseteq ids, ClosedUnder(named, ids)
    PROVE  Reached(named, from) \subseteq ids
BY DEF Reached

(* Two ways to name selectors that agree outside of ids nobody leads to.   *)
AgreeOutside(G, named, other) ==
    \A i \in AllIds \ G : named[i] = other[i] /\ Following(named, i) \cap G = {}

LEMMA ReachesLess ==
    ASSUME NEW G, NEW named \in Names, NEW other \in Names, AgreeOutside(G, named, other),
           NEW from \in SUBSET AllIds, from \cap G = {}
    PROVE  Reached(other, from) \subseteq Reached(named, from) \ G
<1> DEFINE ids == Reached(named, from) \ G
<1>1. ids \in SUBSET AllIds /\ from \subseteq ids
  BY ReachedIs
<1>2. ASSUME NEW i \in ids PROVE Following(other, i) \subseteq ids
  <2>1. Following(named, i) \subseteq Reached(named, from)
    BY ReachedIs DEF ClosedUnder
  <2>2. i \in AllIds \ G
    BY <1>1
  <2>3. Following(other, i) = Following(named, i)
    BY <2>2 DEF AgreeOutside, Following
  <2> QED BY <2>1, <2>2, <2>3 DEF AgreeOutside
<1>3. ClosedUnder(other, ids)
  BY <1>2 DEF ClosedUnder
<1> QED BY <1>1, <1>3, ReachedLeast

LEMMA AgreeBothWays ==
    ASSUME NEW G, NEW named, NEW other, AgreeOutside(G, named, other)
    PROVE  AgreeOutside(G, other, named)
BY DEF AgreeOutside, Following

LEMMA MeansAgree ==
    ASSUME NEW G, NEW named \in Names, NEW other \in Names, AgreeOutside(G, named, other),
           NEW means \in Meanings, Targets(means) \cap G = {}
    PROVE  Means(other, means) = Means(named, means)
<1> DEFINE from == Targets(means)
<1>1. from \in SUBSET AllIds /\ from \cap G = {}
  BY MeaningType
<1>2. Reached(other, from) \subseteq Reached(named, from) \ G
  BY <1>1, ReachesLess
<1>3. Reached(named, from) \subseteq Reached(other, from) \ G
  BY <1>1, AgreeBothWays, ReachesLess
<1>4. Reached(named, from) = Reached(other, from) /\ Reached(named, from) \cap G = {}
  BY <1>2, <1>3
<1>5. \A i \in Reached(named, from) : StylesOf(other, i) = StylesOf(named, i)
  BY <1>4 DEF Reached, AgreeOutside, StylesOf
<1> QED BY <1>4, <1>5 DEF Means

(* An id of one selector stands for what that stands for.                  *)
LEMMA MeansOfOne ==
    ASSUME NEW named \in Names, NEW u \in AllIds, NEW s \in Selectors, named[u] = {s}
    PROVE  Means(named, MapTo(u)) = Means(named, s.means)
<1> DEFINE from == Targets(s.means)
<1>1. from \in SUBSET AllIds
  BY SelectorType, MeaningType
<1>2. Following(named, u) = from /\ StylesOf(named, u) = Own(s.means)
  BY DEF Following, StylesOf
<1>3. Targets(MapTo(u)) = {u} /\ Own(MapTo(u)) = {}
  BY DEF Targets, Own, MapTo
<1>4. Reached(named, {u}) \subseteq {u} \cup Reached(named, from)
  <2>1. ClosedUnder(named, {u} \cup Reached(named, from))
    BY <1>1, <1>2, ReachedIs DEF ClosedUnder
  <2>2. {u} \cup Reached(named, from) \in SUBSET AllIds
    BY <1>1, ReachedIs
  <2> QED BY <2>1, <2>2, ReachedLeast
<1>5. {u} \in SUBSET AllIds
  OBVIOUS
<1>6. u \in Reached(named, {u})
  BY <1>5, ReachedIs
<1>7. Reached(named, from) \subseteq Reached(named, {u})
  <2>1. from \subseteq Reached(named, {u})
    BY <1>2, <1>5, <1>6, ReachedIs DEF ClosedUnder
  <2>2. Reached(named, {u}) \in SUBSET AllIds /\ ClosedUnder(named, Reached(named, {u}))
    BY <1>5, ReachedIs
  <2> QED BY <2>1, <2>2, ReachedLeast
<1>8. Reached(named, {u}) = {u} \cup Reached(named, from)
  BY <1>4, <1>6, <1>7
<1> HIDE DEF from
<1>9. Means(named, MapTo(u)) =
        UNION {StylesOf(named, i) : i \in {u} \cup Reached(named, from)}
  BY <1>3, <1>8 DEF Means
<1>10. @ = StylesOf(named, u) \cup UNION {StylesOf(named, i) : i \in Reached(named, from)}
  OBVIOUS
<1> QED BY <1>2, <1>9, <1>10 DEF Means, from

LEMMA ReachedOfNone ==
    ASSUME NEW named
    PROVE  Reached(named, {}) = {}
<1>1. ClosedUnder(named, {})
  BY DEF ClosedUnder
<1> QED BY <1>1, ReachedLeast

LEMMA MeansOfResolved ==
    ASSUME NEW named, NEW styles
    PROVE  Means(named, [what |-> "resolved", styles |-> styles]) = styles
<1> DEFINE means == [what |-> "resolved", styles |-> styles]
<1>1. Own(means) = styles /\ Targets(means) = {}
  BY DEF Own, Targets
<1> QED BY <1>1, ReachedOfNone DEF Means

LEMMA MeansOfNothing ==
    ASSUME NEW named \in Names, NEW u \in AllIds, named[u] = {}
    PROVE  Means(named, MapTo(u)) = {}
<1>1. Following(named, u) = {} /\ StylesOf(named, u) = {}
  BY DEF Following, StylesOf
<1>2. Targets(MapTo(u)) = {u} /\ Own(MapTo(u)) = {}
  BY DEF Targets, Own, MapTo
<1>3. {u} \in SUBSET AllIds /\ ClosedUnder(named, {u})
  BY <1>1 DEF ClosedUnder
<1>4. Reached(named, {u}) \subseteq {u}
  BY <1>3, ReachedLeast
<1> QED BY <1>1, <1>2, <1>4 DEF Means

LEMMA MeansType ==
    ASSUME NEW named \in Names, NEW means \in Meanings
    PROVE  Means(named, means) \subseteq Nat
<1>1. Reached(named, Targets(means)) \subseteq AllIds
  BY DEF Reached
<1>2. ASSUME NEW i \in AllIds PROVE StylesOf(named, i) \subseteq Nat
  <2>1. \A s \in named[i] : s \in Selectors
    BY DEF Names
  <2>2. \A s \in named[i] : Own(s.means) \subseteq Nat
    BY <2>1, SelectorType, MeaningType
  <2> QED BY <2>2 DEF StylesOf
<1> QED BY <1>1, <1>2, MeaningType DEF Means

-----------------------------------------------------------------------------
(* Trees, and what is done to them.                                        *)
LEMMA IdsType ==
    /\ Ids \subseteq AllIds
    /\ \A i \in 1..Len(UniqueIds) : UniqueIds[i] \in AllIds
<1>1. \A i \in 1..Len(UniqueIds) : UniqueIds[i] \in AllIds
  BY UniqueIdsAssumption, ElementOfSeq
<1> QED BY <1>1 DEF AllIds

LEMMA ElementType ==
    ASSUME NEW e \in Elements
    PROVE  /\ e.url \in AllIds \cup {NoId} /\ e.selector \in Selectors \cup {NULL}
           /\ e.styles \in Seq(Selectors)
           /\ e = [url |-> e.url, selector |-> e.selector, styles |-> e.styles]
BY DEF Elements

LEMMA BareType == Bare \in Elements
<1>1. <<>> \in Seq(Selectors)
  OBVIOUS
<1> QED BY <1>1 DEF Bare, Elements

LEMMA MapType ==
    ASSUME NEW i \in AllIds PROVE MapTo(i) \in Meanings
BY DEF MapTo, Meanings

(* An element with another url, StyleSelector or shared style.             *)
WithUrl(e, i) == [e EXCEPT !.url = i]
WithSelector(e, s) == [e EXCEPT !.selector = s]
WithStyle(e, s) == [e EXCEPT !.styles = Append(@, s)]

LEMMA WithType ==
    ASSUME NEW e \in Elements
    PROVE  /\ \A i \in AllIds \cup {NoId} :
                /\ WithUrl(e, i) \in Elements /\ WithUrl(e, i).url = i
                /\ WithUrl(e, i).selector = e.selector /\ WithUrl(e, i).styles = e.styles
           /\ \A s \in Selectors :
                /\ WithSelector(e, s) \in Elements /\ WithSelector(e, s).url = e.url
                /\ WithSelector(e, s).selector = s /\ WithSelector(e, s).styles = e.styles
                /\ WithStyle(e, s) \in Elements /\ WithStyle(e, s).url = e.url
                /\ WithStyle(e, s).selector = e.selector
                /\ WithStyle(e, s).styles = Append(e.styles, s)
<1>1. e.styles \in Seq(Selectors) /\ e = [url |-> e.url, selector |-> e.selector, styles |-> e.styles]
  BY ElementType
<1>2. \A s \in Selectors : Append(e.styles, s) \in Seq(Selectors)
  BY <1>1, AppendProperties
<1> QED BY <1>1, <1>2 DEF WithUrl, WithSelector, WithStyle, Elements

(* u is t with e at n; or t with e after it.                               *)
PutAt(t, u, n, e) ==
    /\ u \in Seq(Elements) /\ Len(u) = Len(t) /\ u[n] = e
    /\ \A m \in 1..Len(t) : m # n => u[m] = t[m]

PutAfter(t, u, e) ==
    /\ u \in Seq(Elements) /\ Len(u) = Len(t) + 1 /\ u[Len(t) + 1] = e
    /\ \A m \in 1..Len(t) : u[m] = t[m]

LEMMA ExceptPuts ==
    ASSUME NEW t \in Seq(Elements), NEW n \in 1..Len(t), NEW e \in Elements
    PROVE  PutAt(t, [t EXCEPT ![n] = e], n, e)
BY ExceptSeq DEF PutAt

LEMMA AppendPuts ==
    ASSUME NEW t \in Seq(Elements), NEW e \in Elements
    PROVE  PutAfter(t, Append(t, e), e)
BY AppendProperties DEF PutAfter

LEMMA TreeType ==
    ASSUME NEW t \in Seq(Elements), NEW n \in 1..Len(t)
    PROVE  t[n] \in Elements
BY ElementOfSeq

(* The shared styles of a tree.                                            *)
LEMMA StylesInAre ==
    ASSUME NEW t \in Seq(Elements), NEW s
    PROVE  s \in StylesIn(t) <=> \E n \in 1..Len(t) : s \in ToSet(t[n].styles)
<1>1. DOMAIN t = 1..Len(t)
  BY LenProperties
<1> QED BY <1>1 DEF StylesIn

LEMMA StylesInType ==
    ASSUME NEW t \in Seq(Elements)
    PROVE  StylesIn(t) \subseteq Selectors
<1> SUFFICES ASSUME NEW s \in StylesIn(t) PROVE s \in Selectors
  OBVIOUS
<1>1. PICK n \in 1..Len(t) : s \in ToSet(t[n].styles)
  BY StylesInAre
<1>2. t[n].styles \in Seq(Selectors)
  BY TreeType, ElementType
<1>3. \A i \in DOMAIN t[n].styles : t[n].styles[i] \in Selectors
  BY <1>2, LenProperties, ElementOfSeq
<1> QED BY <1>1, <1>3 DEF ToSet

LEMMA ToSetOfAppend ==
    ASSUME NEW q \in Seq(Selectors), NEW s \in Selectors
    PROVE  ToSet(Append(q, s)) = ToSet(q) \cup {s}
<1>1. /\ Append(q, s) \in Seq(Selectors) /\ Len(Append(q, s)) = Len(q) + 1
      /\ \A i \in 1..Len(q) : Append(q, s)[i] = q[i]
      /\ Append(q, s)[Len(q) + 1] = s
  BY AppendProperties
<1>2. DOMAIN q = 1..Len(q) /\ DOMAIN Append(q, s) = 1..(Len(q) + 1) /\ Len(q) \in Nat
  BY <1>1, LenProperties
<1>3. 1..(Len(q) + 1) = 1..Len(q) \cup {Len(q) + 1}
  BY <1>2
<1> QED BY <1>1, <1>2, <1>3 DEF ToSet

LEMMA StylesInPut ==
    ASSUME NEW t \in Seq(Elements), NEW n \in 1..Len(t), NEW e \in Elements,
           NEW u, PutAt(t, u, n, e)
    PROVE  /\ e.styles = t[n].styles => StylesIn(u) = StylesIn(t)
           /\ \A s \in Selectors : e.styles = Append(t[n].styles, s) =>
                StylesIn(u) = StylesIn(t) \cup {s}
<1>0. u \in Seq(Elements) /\ Len(u) = Len(t) /\ u[n] = e
  BY DEF PutAt
<1>1. \A x : x \in StylesIn(u) <=>
        (x \in ToSet(e.styles) \/ \E m \in 1..Len(t) : m # n /\ x \in ToSet(t[m].styles))
  BY <1>0, StylesInAre DEF PutAt
<1>2. \A x : x \in StylesIn(t) <=>
        (x \in ToSet(t[n].styles) \/ \E m \in 1..Len(t) : m # n /\ x \in ToSet(t[m].styles))
  BY StylesInAre
<1>3. e.styles = t[n].styles => StylesIn(u) = StylesIn(t)
  BY <1>1, <1>2
<1>4. ASSUME NEW s \in Selectors, e.styles = Append(t[n].styles, s)
      PROVE  StylesIn(u) = StylesIn(t) \cup {s}
  <2>1. t[n].styles \in Seq(Selectors)
    BY TreeType, ElementType
  <2>2. ToSet(e.styles) = ToSet(t[n].styles) \cup {s}
    BY <1>4, <2>1, ToSetOfAppend
  <2> QED BY <1>1, <1>2, <2>2
<1> QED BY <1>3, <1>4

LEMMA StylesInPutAfter ==
    ASSUME NEW t \in Seq(Elements), NEW u, PutAfter(t, u, Bare)
    PROVE  StylesIn(u) = StylesIn(t)
<1>1. u \in Seq(Elements) /\ Len(u) = Len(t) + 1 /\ u[Len(t) + 1] = Bare /\ Len(t) \in Nat
  BY LenProperties DEF PutAfter
<1>2. ToSet(Bare.styles) = {}
  BY DEF Bare, ToSet
<1>3. \A x : x \in StylesIn(u) <=> \E m \in 1..(Len(t) + 1) : x \in ToSet(u[m].styles)
  BY <1>1, StylesInAre
<1>4. \A x : x \in StylesIn(t) <=> \E m \in 1..Len(t) : x \in ToSet(t[m].styles)
  BY StylesInAre
<1>5. 1..(Len(t) + 1) = 1..Len(t) \cup {Len(t) + 1}
  BY <1>1
<1>6. \A m \in 1..Len(t) : u[m] = t[m]
  BY DEF PutAfter
<1>7. \A x : (\E m \in 1..(Len(t) + 1) : x \in ToSet(u[m].styles)) <=>
             (\E m \in 1..Len(t) : x \in ToSet(t[m].styles))
  BY <1>1, <1>2, <1>5, <1>6
<1> QED BY <1>3, <1>4, <1>7

LEMMA SharedInType ==
    ASSUME NEW t \in Seq(Elements)
    PROVE  SharedIn(t) \in Names
BY StylesInType DEF SharedIn, Names

LEMMA SharedOfType ==
    ASSUME NEW map, map \in [DOMAIN map -> Selectors]
    PROVE  SharedOf(map) \in Names
BY DEF SharedOf, Names

-----------------------------------------------------------------------------
(* What a step does to the trees.                                          *)
LEMMA TopType ==
    ASSUME ObserverTypes, open # <<>>
    PROVE  /\ Len(open) \in Nat \ {0} /\ Top = open[Len(open)]
           /\ Top \in 1..Len(nodes) /\ Kind \in Kinds /\ Kind = nodes[Top].kind
           /\ Len(nodes) \in Nat /\ nodes[Top] \in [kind : Kinds, in_update : BOOLEAN]
<1>1. open \in Seq(Nat) /\ Len(open) \in Nat /\ nodes \in Seq([kind : Kinds, in_update : BOOLEAN])
  BY LenProperties DEF ObserverTypes
<1>2. Len(open) \in Nat \ {0}
  BY <1>1, EmptySeq
<1>3. Top = open[Len(open)]
  BY DEF Top, Last
<1>4. Top \in 1..Len(nodes)
  <2>1. Len(open) \in 1..Len(open)
    BY <1>2
  <2> QED BY <1>3, <2>1 DEF ObserverTypes
<1>5. nodes[Top] \in [kind : Kinds, in_update : BOOLEAN]
  BY <1>1, <1>4, ElementOfSeq
<1>6. Len(nodes) \in Nat
  BY <1>1, LenProperties
<1> QED BY <1>2, <1>3, <1>4, <1>5, <1>6 DEF Kind

(* A Document gets a shared style, another Feature one of its own.         *)
Grown(t, u, n, kind, s) ==
    /\ kind = "Document" => PutAt(t, u, n, WithStyle(t[n], s))
    /\ kind # "Document" => PutAt(t, u, n, WithSelector(t[n], s))

LEMMA AddSelectorGrows ==
    ASSUME ObserverTypes, NEW t \in Seq(Elements), NEW n \in 1..Len(t), NEW s \in Selectors
    PROVE  Grown(t, AddSelector(t, n, s), n, nodes[n].kind, s)
<1>1. t[n] \in Elements
  BY TreeType
<1>2. DOMAIN t = 1..Len(t)
  BY LenProperties
<1>3. CASE nodes[n].kind = "Document"
  <2>1. AddSelector(t, n, s) = [t EXCEPT ![n] = WithStyle(t[n], s)]
    BY <1>2, <1>3 DEF AddSelector, WithStyle
  <2>2. WithStyle(t[n], s) \in Elements
    BY <1>1, WithType
  <2> QED BY <1>3, <2>1, <2>2, ExceptPuts DEF Grown
<1>4. CASE nodes[n].kind # "Document"
  <2>1. AddSelector(t, n, s) = [t EXCEPT ![n] = WithSelector(t[n], s)]
    BY <1>2, <1>4 DEF AddSelector, WithSelector
  <2>2. WithSelector(t[n], s) \in Elements
    BY <1>1, WithType
  <2> QED BY <1>4, <2>1, <2>2, ExceptPuts DEF Grown
<1> QED BY <1>3, <1>4

(* The style goes to the Document d and the Feature n gets its url.        *)
SplitTree(t, u, d, n, s, i) ==
    /\ u \in Seq(Elements) /\ Len(u) = Len(t)
    /\ u[d] = WithStyle(t[d], s) /\ u[n] = WithUrl(t[n], i)
    /\ \A m \in 1..Len(t) : m # d /\ m # n => u[m] = t[m]

LEMMA SplitIs ==
    ASSUME NEW t \in Seq(Elements), NEW d \in 1..Len(t), NEW n \in 1..Len(t), d # n,
           NEW s \in Selectors, NEW i \in AllIds
    PROVE  SplitTree(t, [t EXCEPT ![d].styles = Append(@, s), ![n].url = i], d, n, s, i)
<1> DEFINE v == [t EXCEPT ![d] = WithStyle(t[d], s)]
           w == [v EXCEPT ![n] = WithUrl(v[n], i)]
<1>0. t[d] \in Elements /\ t[n] \in Elements
  BY TreeType
<1>1. WithStyle(t[d], s) \in Elements
  BY <1>0, WithType
<1>2. PutAt(t, v, d, WithStyle(t[d], s))
  BY <1>1, ExceptPuts
<1>3. v \in Seq(Elements) /\ Len(v) = Len(t) /\ v[n] = t[n]
  BY <1>2 DEF PutAt
<1>4. WithUrl(v[n], i) \in Elements
  BY <1>0, <1>3, WithType
<1>5. PutAt(v, w, n, WithUrl(v[n], i))
  BY <1>3, <1>4, ExceptPuts
<1>6. [t EXCEPT ![d].styles = Append(@, s), ![n].url = i] = w
  BY DEF WithStyle, WithUrl
<1> HIDE DEF v, w
<1>7. SplitTree(t, w, d, n, s, i)
  BY <1>2, <1>3, <1>5 DEF PutAt, SplitTree
<1> QED BY <1>6, <1>7

LEMMA RenamedType ==
    ASSUME NEW s \in Selectors, NEW i \in AllIds
    PROVE  /\ Renamed(s, i) \in Selectors
           /\ Renamed(s, i).id = i /\ Renamed(s, i).means = s.means
BY DEF Renamed, Selectors

LEMMA PutType ==
    ASSUME NEW map, map \in [DOMAIN map -> Selectors], DOMAIN map \subseteq AllIds,
           NEW i \in AllIds, NEW s \in Selectors
    PROVE  /\ DOMAIN Put(map, i, s) = DOMAIN map \cup {i} /\ DOMAIN Put(map, i, s) \subseteq AllIds
           /\ Put(map, i, s) \in [DOMAIN Put(map, i, s) -> Selectors]
           /\ Put(map, i, s)[i] = s
           /\ \A j \in DOMAIN map : j # i => Put(map, i, s)[j] = map[j]
BY DEF Put

SelectorOf(id, means) == [id |-> id, means |-> means]

SplitStep(s) ==
    /\ observer = "splitter" /\ Splits
    /\ UniqueId \in AllIds /\ NewId(s) \in AllIds /\ Renamed(s, NewId(s)) \in Selectors
    /\ id_counter' = id_counter + 1 /\ id_counter < Len(UniqueIds)
    /\ shared' = Put(shared, NewId(s), Renamed(s, NewId(s)))
    /\ SplitTree(tree, tree', document, Top, Renamed(s, NewId(s)), UniqueId)

CaptureStep(s) ==
    /\ observer = "inliner" /\ Captures(s)
    /\ shared' = Put(shared, s.id, s) /\ tree' = tree /\ id_counter' = id_counter

PlainStep(s) ==
    /\ Grown(tree, tree', Top, Kind, s)
    /\ shared' = shared /\ id_counter' = id_counter
    /\ observer = "splitter" => ~ Splits
    /\ observer = "inliner" => ~ Captures(s)

LEMMA SelectorStep ==
    ASSUME ObserverTypes, NEW id \in Ids \cup {NoId}, NEW means \in Meanings, StyleSelector(id, means)
    PROVE  /\ SelectorOf(id, means) \in Selectors
           /\ open # <<>> /\ Kind \in Features /\ NewSelector(SelectorOf(id, means))
           /\ id_counter < Len(UniqueIds)
           /\ Grown(plain, plain', Top, Kind, SelectorOf(id, means))
           /\ \/ SplitStep(SelectorOf(id, means))
              \/ CaptureStep(SelectorOf(id, means))
              \/ PlainStep(SelectorOf(id, means))
           /\ replaced' = replaced \cup (IF Replaces THEN {Old} ELSE {})
           /\ UNCHANGED <<observer, open, nodes, early, document, in_update>>
           /\ size' = size + 1
<1> DEFINE s == SelectorOf(id, means)
<1>1. s \in Selectors
  BY IdsType DEF SelectorOf, Selectors
<1>2. /\ open # <<>> /\ Kind \in Features /\ Grows /\ id_counter < Len(UniqueIds) /\ NewSelector(s)
      /\ plain' = AddSelector(plain, Top, s)
      /\ (observer = "splitter" /\ Split(s)) \/ (observer = "inliner" /\ Capture(s)) \/ Untouched(s)
      /\ UNCHANGED <<observer, open, nodes, early, document, in_update>>
  BY DEF StyleSelector, SelectorOf
<1> HIDE DEF s
<1>3. Top \in 1..Len(nodes) /\ Kind = nodes[Top].kind
  BY <1>2, TopType
<1>4. /\ plain \in Seq(Elements) /\ tree \in Seq(Elements)
      /\ Top \in 1..Len(plain) /\ Top \in 1..Len(tree)
  BY <1>3 DEF ObserverTypes
<1>5. Grown(plain, plain', Top, Kind, s)
  BY <1>1, <1>2, <1>3, <1>4, AddSelectorGrows
<1>6. ASSUME observer = "splitter", Split(s) PROVE SplitStep(s)
  <2>1. UniqueId \in AllIds
    <3>1. Len(UniqueIds) \in Nat
      BY UniqueIdsAssumption, LenProperties
    <3>2. id_counter + 1 \in 1..Len(UniqueIds)
      BY <1>2, <3>1 DEF ObserverTypes
    <3> QED BY <3>2, IdsType DEF UniqueId
  <2>2. NewId(s) \in AllIds
    BY <1>1, <2>1, SelectorType DEF NewId
  <2>3. Renamed(s, NewId(s)) \in Selectors
    BY <1>1, <2>2, RenamedType
  <2>4. document \in 1..Len(tree) /\ document # Top
    BY <1>3, <1>6 DEF Split, Splits, NonDocument, ObserverTypes
  <2>5. tree' = [tree EXCEPT ![document].styles = Append(@, Renamed(s, NewId(s))),
                             ![Top].url = UniqueId]
    BY <1>6 DEF Split, Renamed
  <2>6. SplitTree(tree, tree', document, Top, Renamed(s, NewId(s)), UniqueId)
    BY <1>4, <2>1, <2>3, <2>4, <2>5, SplitIs
  <2>7. /\ Splits /\ id_counter' = id_counter + 1
        /\ shared' = Put(shared, NewId(s), Renamed(s, NewId(s)))
    BY <1>6 DEF Split, Renamed
  <2> QED BY <1>2, <1>6, <2>1, <2>2, <2>3, <2>6, <2>7 DEF SplitStep
<1>7. ASSUME observer = "inliner", Capture(s) PROVE CaptureStep(s)
  BY <1>7 DEF Capture, CaptureStep
<1>8. ASSUME Untouched(s) PROVE PlainStep(s)
  <2>1. Grown(tree, tree', Top, Kind, s)
    BY <1>1, <1>3, <1>4, <1>8, AddSelectorGrows DEF Untouched
  <2> QED BY <1>8, <2>1 DEF Untouched, PlainStep
<1>9. size' = size + 1 /\ replaced' = replaced \cup (IF Replaces THEN {Old} ELSE {})
  BY <1>2 DEF Grows, StyleSelector
<1> QED BY <1>1, <1>2, <1>5, <1>6, <1>7, <1>8, <1>9 DEF s

UrlMeans(id) == Means(SharedIn(plain), MapTo(id))

LEMMA UrlStep ==
    ASSUME ObserverTypes, NEW id \in Ids, StyleUrl(id)
    PROVE  /\ open # <<>> /\ Kind = "Folder" /\ plain[Top].url = NoId
           /\ PutAt(plain, plain', Top, WithUrl(plain[Top], id))
           /\ early' = [early EXCEPT ![Top] = UrlMeans(id)] /\ UrlMeans(id) \subseteq Nat
           /\ Inlines(id) => /\ Resolved(id) \in Selectors
                             /\ PutAt(tree, tree', Top, WithSelector(tree[Top], Resolved(id)))
           /\ ~ Inlines(id) => PutAt(tree, tree', Top, WithUrl(tree[Top], id))
           /\ UNCHANGED <<observer, open, nodes, replaced, document, in_update, shared, id_counter>>
           /\ size' = size + 1
<1>1. /\ open # <<>> /\ Kind = "Folder" /\ plain[Top].url = NoId /\ size' = size + 1
      /\ plain' = [plain EXCEPT ![Top].url = id]
      /\ early' = [early EXCEPT ![Top] = UrlMeans(id)]
      /\ tree' = IF Inlines(id) THEN [tree EXCEPT ![Top].selector = Resolved(id)]
                                ELSE [tree EXCEPT ![Top].url = id]
      /\ UNCHANGED <<observer, open, nodes, replaced, document, in_update, shared, id_counter>>
  BY DEF StyleUrl, NonDocument, Grows, UrlMeans
<1>2. Top \in 1..Len(nodes)
  BY <1>1, TopType
<1>3. /\ plain \in Seq(Elements) /\ tree \in Seq(Elements)
      /\ Top \in 1..Len(plain) /\ Top \in 1..Len(tree)
  BY <1>2 DEF ObserverTypes
<1>4. plain[Top] \in Elements /\ tree[Top] \in Elements /\ id \in AllIds
  BY <1>3, TreeType, IdsType
<1>5. MapTo(id) \in Meanings
  BY <1>4, MapType
<1>6. UrlMeans(id) \subseteq Nat
  BY <1>3, <1>5, SharedInType, MeansType DEF UrlMeans
<1>7. Resolved(id) \in Selectors
  <2>1. SharedOf(shared) \in Names
    BY SharedOfType DEF ObserverTypes
  <2>2. Means(SharedOf(shared), MapTo(id)) \subseteq Nat
    BY <1>5, <2>1, MeansType
  <2> QED BY <2>2 DEF Resolved, Selectors, Meanings
<1>8. PutAt(plain, plain', Top, WithUrl(plain[Top], id))
  <2>1. WithUrl(plain[Top], id) \in Elements
    BY <1>4, WithType
  <2>2. plain' = [plain EXCEPT ![Top] = WithUrl(plain[Top], id)]
    BY <1>1 DEF WithUrl
  <2> QED BY <1>3, <2>1, <2>2, ExceptPuts
<1>9. ASSUME Inlines(id)
      PROVE  PutAt(tree, tree', Top, WithSelector(tree[Top], Resolved(id)))
  <2>1. WithSelector(tree[Top], Resolved(id)) \in Elements
    BY <1>4, <1>7, WithType
  <2>2. tree' = [tree EXCEPT ![Top] = WithSelector(tree[Top], Resolved(id))]
    BY <1>1, <1>9 DEF WithSelector
  <2> QED BY <1>3, <2>1, <2>2, ExceptPuts
<1>10. ASSUME ~ Inlines(id)
       PROVE  PutAt(tree, tree', Top, WithUrl(tree[Top], id))
  <2>1. WithUrl(tree[Top], id) \in Elements
    BY <1>4, WithType
  <2>2. tree' = [tree EXCEPT ![Top] = WithUrl(tree[Top], id)]
    BY <1>1, <1>10 DEF WithUrl
  <2> QED BY <1>3, <2>1, <2>2, ExceptPuts
<1> QED BY <1>1, <1>6, <1>7, <1>8, <1>9, <1>10

NodeOf(kind) == [kind |-> kind, in_update |-> nodes[Top].in_update \/ kind = "Update"]

LEMMA StartStep ==
    ASSUME ObserverTypes, NEW kind \in Features \cup {"Update"}, StartElement(kind)
    PROVE  /\ open # <<>> /\ Fits(kind) /\ kind \in Kinds /\ kind # "kml"
           /\ Len(nodes') = Len(nodes) + 1 /\ Len(nodes) \in Nat
           /\ nodes'[Len(nodes) + 1] = NodeOf(kind)
           /\ \A n \in 1..Len(nodes) : nodes'[n] = nodes[n]
           /\ open' = Append(open, Len(nodes) + 1)
           /\ PutAfter(plain, plain', Bare) /\ PutAfter(tree, tree', Bare)
           /\ early' = Append(early, {})
           /\ document' = IF IsHome(kind) THEN Len(nodes) + 1 ELSE document
           /\ in_update' = (in_update \/ kind = "Update")
           /\ UNCHANGED <<observer, replaced, shared, id_counter>>
           /\ size' = size + 1
<1>1. /\ open # <<>> /\ Fits(kind) /\ nodes' = Append(nodes, NodeOf(kind))
      /\ open' = Append(open, Len(nodes) + 1)
      /\ plain' = Append(plain, Bare) /\ tree' = Append(tree, Bare)
      /\ early' = Append(early, {})
      /\ document' = IF IsHome(kind) THEN Len(nodes) + 1 ELSE document
      /\ in_update' = (in_update \/ kind = "Update")
      /\ UNCHANGED <<observer, replaced, shared, id_counter>>
      /\ size' = size + 1
  BY DEF StartElement, NewElement, EnteredUpdate, Grows, NodeOf
<1>2. kind \in Kinds /\ kind # "kml"
  BY DEF Features, Kinds
<1>3. NodeOf(kind) \in [kind : Kinds, in_update : BOOLEAN]
  BY <1>1, <1>2, TopType DEF NodeOf
<1>4. nodes \in Seq([kind : Kinds, in_update : BOOLEAN])
  BY DEF ObserverTypes
<1>5. /\ Len(nodes') = Len(nodes) + 1 /\ nodes'[Len(nodes) + 1] = NodeOf(kind)
      /\ \A n \in 1..Len(nodes) : nodes'[n] = nodes[n]
  BY <1>1, <1>3, <1>4, AppendProperties
<1>6. PutAfter(plain, plain', Bare) /\ PutAfter(tree, tree', Bare)
  BY <1>1, BareType, AppendPuts DEF ObserverTypes
<1>7. Len(nodes) \in Nat
  BY <1>4, LenProperties
<1> QED BY <1>1, <1>2, <1>5, <1>6, <1>7

-----------------------------------------------------------------------------
(* Types.                                                                  *)
LEMMA TypeInit == Init => ObserverTypes
<1> SUFFICES ASSUME Init PROVE ObserverTypes
  OBVIOUS
<1>1. Bare \in Elements
  BY BareType
<1>2. plain \in Seq(Elements) /\ Len(plain) = 1 /\ tree \in Seq(Elements) /\ Len(tree) = 1
  BY <1>1 DEF Init
<1>3. nodes \in Seq([kind : Kinds, in_update : BOOLEAN]) /\ Len(nodes) = 1
  BY DEF Init, Kinds
<1>4. early \in Seq(SUBSET Nat) /\ Len(early) = 1
  BY DEF Init
<1>5. open \in Seq(Nat) /\ \A k \in 1..Len(open) : open[k] \in 1..Len(nodes)
  BY <1>3 DEF Init
<1>6. Len(UniqueIds) \in Nat
  BY UniqueIdsAssumption, LenProperties
<1>7. DOMAIN shared \subseteq AllIds /\ shared \in [DOMAIN shared -> Selectors]
  BY DEF Init
<1>8. /\ document = NULL /\ in_update = FALSE /\ id_counter = 0 /\ size = 1
      /\ observer \in {"splitter", "inliner"}
  BY DEF Init
<1>9. document \in 1..Len(nodes) \cup {NULL} /\ (document # NULL => nodes[document].kind = "Document")
  BY <1>8
<1>10. size \in Nat /\ id_counter \in 0..Len(UniqueIds)
  BY <1>6, <1>8
<1>11. in_update \in BOOLEAN
  BY <1>8
<1> QED BY <1>2, <1>3, <1>4, <1>5, <1>7, <1>8, <1>9, <1>10, <1>11 DEF ObserverTypes

LEMMA TypeStart ==
    ASSUME ObserverTypes, NEW kind \in Features \cup {"Update"}, StartElement(kind)
    PROVE  ObserverTypes'
<1> DEFINE N == Len(nodes)
<1>0. /\ open # <<>> /\ kind \in Kinds
      /\ Len(nodes') = N + 1 /\ N \in Nat
      /\ nodes'[N + 1] = NodeOf(kind)
      /\ \A n \in 1..N : nodes'[n] = nodes[n]
      /\ open' = Append(open, N + 1)
      /\ PutAfter(plain, plain', Bare) /\ PutAfter(tree, tree', Bare)
      /\ early' = Append(early, {})
      /\ document' = IF IsHome(kind) THEN N + 1 ELSE document
      /\ in_update' = (in_update \/ kind = "Update")
      /\ UNCHANGED <<observer, shared, id_counter>>
      /\ size' = size + 1
  BY StartStep
<1>1. nodes' \in Seq([kind : Kinds, in_update : BOOLEAN])
  <2>1. NodeOf(kind) \in [kind : Kinds, in_update : BOOLEAN]
    BY <1>0, TopType DEF NodeOf
  <2> QED BY <2>1, AppendProperties DEF ObserverTypes, StartElement, NodeOf
<1>2. open' \in Seq(Nat) /\ \A k \in 1..Len(open') : open'[k] \in 1..Len(nodes')
  <2>1. open \in Seq(Nat) /\ Len(open) \in Nat /\ N + 1 \in Nat
    BY <1>0, LenProperties DEF ObserverTypes
  <2>2. /\ open' \in Seq(Nat) /\ Len(open') = Len(open) + 1
        /\ \A k \in 1..Len(open) : open'[k] = open[k]
        /\ open'[Len(open) + 1] = N + 1
    BY <1>0, <2>1, AppendProperties
  <2>3. \A k \in 1..Len(open) : open[k] \in 1..N
    BY DEF ObserverTypes
  <2>4. 1..Len(open') = 1..Len(open) \cup {Len(open) + 1} /\ 1..N \subseteq 1..(N + 1) /\ N + 1 \in 1..(N + 1)
    BY <1>0, <2>1, <2>2
  <2> QED BY <1>0, <2>2, <2>3, <2>4
<1>3. /\ plain' \in Seq(Elements) /\ Len(plain') = Len(nodes')
      /\ tree' \in Seq(Elements) /\ Len(tree') = Len(nodes')
  BY <1>0 DEF PutAfter, ObserverTypes
<1>4. early' \in Seq(SUBSET Nat) /\ Len(early') = Len(nodes')
  <2>1. early \in Seq(SUBSET Nat) /\ Len(early) = N /\ {} \in SUBSET Nat
    BY DEF ObserverTypes
  <2> QED BY <1>0, <2>1, AppendProperties
<1>5. document' \in 1..Len(nodes') \cup {NULL}
  BY <1>0 DEF ObserverTypes
<1>6. document' # NULL => nodes'[document'].kind = "Document"
  <2>1. CASE IsHome(kind)
    BY <1>0, <2>1 DEF IsHome, NodeOf
  <2>2. CASE ~ IsHome(kind)
    BY <1>0, <2>2 DEF ObserverTypes
  <2> QED BY <2>1, <2>2
<1>7. in_update' \in BOOLEAN
  BY <1>0 DEF ObserverTypes
<1>8. size' \in Nat
  BY <1>0 DEF ObserverTypes
<1>9. /\ observer' \in {"splitter", "inliner"} /\ id_counter' \in 0..Len(UniqueIds)
      /\ DOMAIN shared' \subseteq AllIds /\ shared' \in [DOMAIN shared' -> Selectors]
  BY <1>0 DEF ObserverTypes
<1> QED BY <1>1, <1>2, <1>3, <1>4, <1>5, <1>6, <1>7, <1>8, <1>9 DEF ObserverTypes

LEMMA FrontIs ==
    ASSUME NEW q \in Seq(Nat), q # <<>>
    PROVE  /\ Front(q) \in Seq(Nat) /\ Len(Front(q)) = Len(q) - 1 /\ Len(q) \in Nat \ {0}
           /\ \A k \in 1..Len(Front(q)) : k \in 1..Len(q) /\ Front(q)[k] = q[k]
<1> DEFINE m == Len(q) - 1
<1>1. Len(q) \in Nat \ {0}
  BY EmptySeq, LenProperties
<1>2. m \in Nat /\ (\A k \in 1..m : k \in 1..Len(q)) /\ Front(q) = SubSeq(q, 1, m)
  BY <1>1 DEF Front
<1>3. \A k \in 1..m : q[k] \in Nat
  BY <1>2, ElementOfSeq
<1> HIDE DEF m
<1>4. /\ SubSeq(q, 1, m) \in Seq(Nat)
      /\ Len(SubSeq(q, 1, m)) = (IF 1 <= m THEN m - 1 + 1 ELSE 0)
      /\ \A i \in 1..(m - 1 + 1) : SubSeq(q, 1, m)[i] = q[1 + i - 1]
  BY <1>2, <1>3, SubSeqProperties
<1>5. Len(SubSeq(q, 1, m)) = m /\ m - 1 + 1 = m /\ \A i \in 1..m : 1 + i - 1 = i
  BY <1>2, <1>4
<1>6. \A k \in 1..m : SubSeq(q, 1, m)[k] = q[k]
  BY <1>4, <1>5
<1>7. Front(q) \in Seq(Nat) /\ Len(Front(q)) = m
  BY <1>2, <1>4, <1>5
<1>8. \A k \in 1..m : k \in 1..Len(q) /\ Front(q)[k] = q[k]
  BY <1>2, <1>6
<1>9. Len(Front(q)) = Len(q) - 1
  BY <1>7 DEF m
<1>10. \A k \in 1..Len(Front(q)) : k \in 1..Len(q) /\ Front(q)[k] = q[k]
  BY <1>7, <1>8
<1> QED BY <1>1, <1>7, <1>9, <1>10

LEMMA TypeEnd ==
    ASSUME ObserverTypes, EndElement
    PROVE  ObserverTypes'
<1>1. /\ open # <<>> /\ open' = Front(open)
      /\ in_update' \in BOOLEAN
      /\ UNCHANGED <<observer, nodes, plain, tree, early, document, shared, id_counter, size>>
  BY DEF EndElement, ObserverTypes
<1>2. open' \in Seq(Nat) /\ \A k \in 1..Len(open') : open'[k] \in 1..Len(nodes)
  BY <1>1, FrontIs DEF ObserverTypes
<1> QED BY <1>1, <1>2 DEF ObserverTypes

LEMMA GrownType ==
    ASSUME NEW t, NEW u, NEW n, NEW kind, NEW s, Grown(t, u, n, kind, s)
    PROVE  u \in Seq(Elements) /\ Len(u) = Len(t)
BY DEF Grown, PutAt

LEMMA TypeSelector ==
    ASSUME ObserverTypes, NEW id \in Ids \cup {NoId}, NEW means \in Meanings, StyleSelector(id, means)
    PROVE  ObserverTypes'
<1> DEFINE s == SelectorOf(id, means)
<1>0. /\ s \in Selectors
      /\ open # <<>> /\ id_counter < Len(UniqueIds)
      /\ Grown(plain, plain', Top, Kind, s)
      /\ SplitStep(s) \/ CaptureStep(s) \/ PlainStep(s)
      /\ UNCHANGED <<observer, open, nodes, early, document, in_update>>
      /\ size' = size + 1
  BY SelectorStep
<1> HIDE DEF s
<1>1. plain' \in Seq(Elements) /\ Len(plain') = Len(nodes)
  BY <1>0, GrownType DEF ObserverTypes
<1>2. Len(UniqueIds) \in Nat
  BY UniqueIdsAssumption, LenProperties
<1>3. /\ tree' \in Seq(Elements) /\ Len(tree') = Len(nodes)
      /\ id_counter' \in 0..Len(UniqueIds)
      /\ DOMAIN shared' \subseteq AllIds /\ shared' \in [DOMAIN shared' -> Selectors]
  <2>1. CASE SplitStep(s)
    <3>1. tree' \in Seq(Elements) /\ Len(tree') = Len(nodes)
      BY <2>1 DEF SplitStep, SplitTree, ObserverTypes
    <3>2. id_counter' \in 0..Len(UniqueIds)
      BY <1>2, <2>1 DEF SplitStep, ObserverTypes
    <3>3. DOMAIN shared' \subseteq AllIds /\ shared' \in [DOMAIN shared' -> Selectors]
      BY <2>1, PutType DEF SplitStep, ObserverTypes
    <3> QED BY <3>1, <3>2, <3>3
  <2>2. CASE CaptureStep(s)
    <3>1. s.id \in AllIds
      BY <1>0, <2>2, SelectorType DEF CaptureStep, Captures
    <3>2. DOMAIN shared' \subseteq AllIds /\ shared' \in [DOMAIN shared' -> Selectors]
      BY <1>0, <2>2, <3>1, PutType DEF CaptureStep, ObserverTypes
    <3> QED BY <2>2, <3>2 DEF CaptureStep, ObserverTypes
  <2>3. CASE PlainStep(s)
    <3>1. tree' \in Seq(Elements) /\ Len(tree') = Len(nodes)
      BY <2>3, GrownType DEF PlainStep, ObserverTypes
    <3> QED BY <2>3, <3>1 DEF PlainStep, ObserverTypes
  <2> QED BY <1>0, <2>1, <2>2, <2>3
<1>4. size' \in Nat
  BY <1>0 DEF ObserverTypes
<1> QED BY <1>0, <1>1, <1>3, <1>4 DEF ObserverTypes

LEMMA TypeUrl ==
    ASSUME ObserverTypes, NEW id \in Ids, StyleUrl(id)
    PROVE  ObserverTypes'
<1>0. /\ open # <<>>
      /\ PutAt(plain, plain', Top, WithUrl(plain[Top], id))
      /\ early' = [early EXCEPT ![Top] = UrlMeans(id)] /\ UrlMeans(id) \subseteq Nat
      /\ Inlines(id) => PutAt(tree, tree', Top, WithSelector(tree[Top], Resolved(id)))
      /\ ~ Inlines(id) => PutAt(tree, tree', Top, WithUrl(tree[Top], id))
      /\ UNCHANGED <<observer, open, nodes, document, in_update, shared, id_counter>>
      /\ size' = size + 1
  BY UrlStep
<1>1. plain' \in Seq(Elements) /\ Len(plain') = Len(nodes)
  BY <1>0 DEF PutAt, ObserverTypes
<1>2. tree' \in Seq(Elements) /\ Len(tree') = Len(nodes)
  BY <1>0 DEF PutAt, ObserverTypes
<1>3. early' \in Seq(SUBSET Nat) /\ Len(early') = Len(nodes)
  <2>1. early \in Seq(SUBSET Nat) /\ Top \in 1..Len(early)
    BY <1>0, TopType DEF ObserverTypes
  <2> QED BY <1>0, <2>1, ExceptSeq DEF ObserverTypes
<1>4. size' \in Nat
  BY <1>0 DEF ObserverTypes
<1> QED BY <1>0, <1>1, <1>2, <1>3, <1>4 DEF ObserverTypes

(* The steps, as the proofs go through them.                               *)
LEMMA Steps ==
    ASSUME ObserverTypes, Next
    PROVE  \/ \E kind \in Features \cup {"Update"} : StartElement(kind)
           \/ EndElement
           \/ \E id \in Ids \cup {NoId}, means \in Meanings : StyleSelector(id, means)
           \/ \E id \in Ids : StyleUrl(id)
<1>1. [what |-> "style", style |-> size] \in Meanings
  BY DEF ObserverTypes, Meanings
<1>2. \A to \in Ids : MapTo(to) \in Meanings
  BY IdsType, MapType
<1> QED BY <1>1, <1>2 DEF Next

LEMMA TypeNext == ASSUME ObserverTypes, [Next]_vars PROVE ObserverTypes'
<1>1. CASE Next
  BY <1>1, Steps, TypeStart, TypeEnd, TypeSelector, TypeUrl
<1>2. CASE UNCHANGED vars
  BY <1>2 DEF vars, ObserverTypes
<1> QED BY <1>1, <1>2

-----------------------------------------------------------------------------
(* in_update_.                                                             *)
LEMMA GuardedInit == Init => Guarded
<1> SUFFICES ASSUME Init PROVE Guarded
  OBVIOUS
<1>1. open = <<1>> /\ nodes = <<[kind |-> "kml", in_update |-> FALSE]>> /\ in_update = FALSE
  BY DEF Init
<1>2. Len(open) = 1 /\ open[1] = 1 /\ Last(open) = 1 /\ Len(nodes) = 1
  BY <1>1 DEF Last
<1>3. nodes[1].kind = "kml" /\ nodes[1].in_update = FALSE
  BY <1>1
<1>4. \A k \in 2..Len(open) : FALSE
  BY <1>2
<1>5. \A n \in 1..Len(nodes) : n = 1
  BY <1>2
<1>6. open # <<>>
  BY <1>1
<1> QED BY <1>1, <1>2, <1>3, <1>4, <1>5, <1>6 DEF Guarded

LEMMA InUpdateType ==
    ASSUME ObserverTypes, NEW n \in 1..Len(nodes)
    PROVE  nodes[n].in_update \in BOOLEAN /\ nodes[n].kind \in Kinds
<1>1. nodes[n] \in [kind : Kinds, in_update : BOOLEAN]
  BY ElementOfSeq DEF ObserverTypes
<1> QED BY <1>1

LEMMA GuardedStart ==
    ASSUME ObserverTypes, Guarded, NEW kind \in Features \cup {"Update"}, StartElement(kind)
    PROVE  Guarded'
<1> DEFINE N == Len(nodes)
           L == Len(open)
<1>1. /\ open # <<>> /\ Fits(kind) /\ kind # "kml" /\ N \in Nat
      /\ Len(nodes') = N + 1 /\ nodes'[N + 1] = NodeOf(kind)
      /\ \A n \in 1..N : nodes'[n] = nodes[n]
      /\ open' = Append(open, N + 1)
      /\ in_update' = (in_update \/ kind = "Update")
  BY StartStep
<1>2. /\ L \in Nat \ {0} /\ Top = open[L] /\ Top \in 1..N /\ Kind = nodes[Top].kind
  BY <1>1, TopType
<1>3. /\ open[1] = 1 /\ in_update = nodes[Top].in_update
      /\ \A n \in 1..N : nodes[n].kind = "kml" <=> n = 1
      /\ ~ nodes[1].in_update
      /\ \A k \in 2..L :
           /\ open[k] # 1
           /\ nodes[open[k]].in_update =
                (nodes[open[k - 1]].in_update \/ nodes[open[k]].kind = "Update")
           /\ nodes[open[k]].kind = "Update" => k = 2
  BY <1>1, <1>2 DEF Guarded, Last
<1>4. /\ Len(open') = L + 1 /\ open'[L + 1] = N + 1
      /\ \A k \in 1..L : open'[k] = open[k] /\ open[k] \in 1..N
  BY <1>1, <1>2, AppendProperties DEF ObserverTypes
<1> HIDE DEF L, N
<1>5. NodeOf(kind).kind = kind /\ NodeOf(kind).in_update = (nodes[Top].in_update \/ kind = "Update")
  BY DEF NodeOf
<1>6. kind = "Update" => L = 1
  <2>1. kind = "Update" => Kind = "kml"
    BY <1>1 DEF Fits, Features
  <2>2. Kind = "kml" => Top = 1
    BY <1>2, <1>3
  <2>3. Top = 1 => L = 1
    <3>1. L # 1 => L \in 2..L
      BY <1>2
    <3> QED BY <1>2, <1>3, <3>1
  <2> QED BY <2>1, <2>2, <2>3
<1>7. 1 \in 1..N /\ N + 1 # 1 /\ 1 \in 1..L
  BY <1>1, <1>2
<1>8. open'[1] = 1 /\ in_update' = nodes'[Last(open')].in_update
  BY <1>1, <1>3, <1>4, <1>5, <1>7 DEF Last
<1>9. \A n \in 1..Len(nodes') : nodes'[n].kind = "kml" <=> n = 1
  <2>1. 1..(N + 1) = 1..N \cup {N + 1}
    BY <1>1
  <2> QED BY <1>1, <1>3, <1>5, <1>7, <2>1
<1>10. ~ nodes'[1].in_update
  BY <1>1, <1>3, <1>7
<1>11. ASSUME NEW k \in 2..Len(open')
       PROVE  /\ open'[k] # 1
              /\ nodes'[open'[k]].in_update =
                   (nodes'[open'[k - 1]].in_update \/ nodes'[open'[k]].kind = "Update")
              /\ nodes'[open'[k]].kind = "Update" => k = 2
  <2>1. CASE k = L + 1
    <3>1. k - 1 = L /\ L \in 1..L
      BY <1>2, <2>1
    <3>2. open'[k - 1] = Top /\ nodes'[Top] = nodes[Top] /\ open'[k] = N + 1 /\ nodes'[open'[k]] = NodeOf(kind)
      BY <1>1, <1>2, <1>4, <2>1, <3>1
    <3>3. kind = "Update" => k = 2
      BY <1>6, <2>1
    <3>4. open'[k] # 1
      BY <1>7, <3>2
    <3>5. /\ nodes'[open'[k]].in_update =
               (nodes'[open'[k - 1]].in_update \/ nodes'[open'[k]].kind = "Update")
          /\ nodes'[open'[k]].kind = kind
      BY <1>5, <3>2
    <3> QED BY <3>3, <3>4, <3>5
  <2>2. CASE k \in 2..L
    <3>1. k \in 1..L /\ k - 1 \in 1..L
      BY <1>2, <2>2
    <3>2. /\ open'[k] = open[k] /\ nodes'[open[k]] = nodes[open[k]]
          /\ open'[k - 1] = open[k - 1] /\ nodes'[open[k - 1]] = nodes[open[k - 1]]
      BY <1>1, <1>4, <3>1
    <3>3. /\ open[k] # 1
          /\ nodes[open[k]].in_update =
               (nodes[open[k - 1]].in_update \/ nodes[open[k]].kind = "Update")
          /\ nodes[open[k]].kind = "Update" => k = 2
      BY <1>3, <2>2
    <3> QED BY <3>2, <3>3
  <2>3. k = L + 1 \/ k \in 2..L
    BY <1>2, <1>4
  <2> QED BY <2>1, <2>2, <2>3
<1>12. open' # <<>>
  <2>1. Len(open') # 0
    BY <1>2, <1>4
  <2> QED BY <2>1
<1> QED BY <1>8, <1>9, <1>10, <1>11, <1>12 DEF Guarded

LEMMA GuardedEnd ==
    ASSUME ObserverTypes, Guarded, EndElement
    PROVE  Guarded'
<1> DEFINE L == Len(open)
<1>1. /\ open # <<>> /\ open' = Front(open) /\ nodes' = nodes
      /\ in_update' = (in_update /\ Kind # "Update")
  BY DEF EndElement, UpdateEnds
<1>2. L \in Nat \ {0} /\ Top = open[L] /\ Kind = nodes[Top].kind
  BY <1>1, TopType
<1>3. /\ open' \in Seq(Nat) /\ Len(open') = L - 1
      /\ \A k \in 1..L - 1 : k \in 1..L /\ open'[k] = open[k]
  <2>1. open \in Seq(Nat)
    BY DEF ObserverTypes
  <2>2. /\ Front(open) \in Seq(Nat) /\ Len(Front(open)) = L - 1
        /\ \A k \in 1..Len(Front(open)) : k \in 1..L /\ Front(open)[k] = open[k]
    BY <1>1, <2>1, FrontIs
  <2> QED BY <1>1, <2>2
<1>4. /\ open[1] = 1 /\ in_update = nodes[Top].in_update
      /\ ~ nodes[1].in_update
      /\ \A k \in 2..L :
           /\ open[k] # 1
           /\ nodes[open[k]].in_update =
                (nodes[open[k - 1]].in_update \/ nodes[open[k]].kind = "Update")
           /\ nodes[open[k]].kind = "Update" => k = 2
  BY <1>1, <1>2 DEF Guarded, Last
<1>0. \A n \in 1..Len(nodes) : nodes[n].in_update \in BOOLEAN
  BY InUpdateType
<1>10. 1 \in 1..Len(nodes) /\ \A k \in 1..L : open[k] \in 1..Len(nodes)
  BY <1>1, TopType DEF ObserverTypes
<1> HIDE DEF L
<1>5. ASSUME open' # <<>>
      PROVE  open'[1] = 1 /\ in_update' = nodes'[Last(open')].in_update
  <2>1. L - 1 \in Nat \ {0}
    <3>1. Len(open') \in Nat \ {0}
      BY <1>3, <1>5, EmptySeq, LenProperties
    <3> QED BY <1>3, <3>1
  <2>2. L \in 2..L /\ L - 1 \in 1..L - 1 /\ 1 \in 1..L - 1
    BY <1>2, <2>1
  <2>3. open'[1] = 1 /\ Last(open') = open[L - 1]
    BY <1>3, <1>4, <2>2 DEF Last
  <2>4. nodes[Top].in_update = (nodes[open[L - 1]].in_update \/ Kind = "Update")
    BY <1>2, <1>4, <2>2
  <2>5. Kind = "Update" => L = 2
    BY <1>2, <1>4, <2>2
  <2>6. CASE Kind = "Update"
    <3>1. L - 1 = 1
      BY <2>5, <2>6
    <3>2. nodes[open[L - 1]].in_update = FALSE /\ in_update' = FALSE
      BY <1>0, <1>1, <1>4, <1>10, <2>6, <3>1
    <3> QED BY <1>1, <2>3, <3>2
  <2>7. CASE Kind # "Update"
    <3>1. nodes[Top].in_update = (nodes[open[L - 1]].in_update \/ FALSE) /\ in_update' = in_update
      <4>1. in_update \in BOOLEAN
        BY DEF ObserverTypes
      <4> QED BY <1>1, <2>4, <2>7, <4>1
    <3>2. nodes[open[L - 1]].in_update \in BOOLEAN
      BY <1>0, <1>3, <1>10, <2>2
    <3> QED BY <1>1, <1>4, <2>3, <3>1, <3>2
  <2> QED BY <2>6, <2>7
<1>6. ASSUME NEW k \in 2..Len(open')
      PROVE  k \in 2..L /\ open'[k] = open[k] /\ open'[k - 1] = open[k - 1]
  <2>1. k \in 2..L /\ k \in 1..L - 1 /\ k - 1 \in 1..L - 1
    BY <1>2, <1>3
  <2> QED BY <1>3, <2>1
<1>7. \A n \in 1..Len(nodes) : nodes[n].kind = "kml" <=> n = 1
  BY DEF Guarded
<1>8. \A k \in 2..Len(open') :
        /\ open'[k] # 1
        /\ nodes[open'[k]].in_update =
             (nodes[open'[k - 1]].in_update \/ nodes[open'[k]].kind = "Update")
        /\ nodes[open'[k]].kind = "Update" => k = 2
  BY <1>4, <1>6
<1>9. ASSUME open' = <<>> PROVE ~ in_update'
  <2>1. Len(open') = 0
    BY <1>9
  <2>2. L = 1 /\ Top = 1
    BY <1>2, <1>3, <1>4, <2>1
  <2> QED BY <1>1, <1>4, <2>2
<1> QED BY <1>1, <1>4, <1>5, <1>7, <1>8, <1>9 DEF Guarded

LEMMA GuardedStays ==
    ASSUME Guarded, UNCHANGED <<open, nodes, in_update>>
    PROVE  Guarded'
BY DEF Guarded

LEMMA GuardedNext ==
    ASSUME ObserverTypes, Guarded, [Next]_vars
    PROVE  Guarded'
<1>1. ASSUME NEW id \in Ids \cup {NoId}, NEW means \in Meanings, StyleSelector(id, means)
      PROVE  Guarded'
  BY <1>1, GuardedStays DEF StyleSelector
<1>2. ASSUME NEW id \in Ids, StyleUrl(id)
      PROVE  Guarded'
  BY <1>2, GuardedStays DEF StyleUrl
<1>3. CASE Next
  BY <1>1, <1>2, <1>3, Steps, GuardedStart, GuardedEnd
<1>4. CASE UNCHANGED vars
  BY <1>4, GuardedStays DEF vars
<1> QED BY <1>3, <1>4

-----------------------------------------------------------------------------
(* What is open below an element of an Update.                             *)
LEMMA BelowInit == Init => Below
<1> SUFFICES ASSUME Init PROVE Below
  OBVIOUS
<1>1. Len(open) = 1
  BY DEF Init
<1>2. \A j, k \in 1..Len(open) : j = k
  BY <1>1
<1> QED BY <1>2 DEF Below

LEMMA BelowStart ==
    ASSUME ObserverTypes, Below, NEW kind \in Features \cup {"Update"}, StartElement(kind)
    PROVE  Below'
<1> DEFINE N == Len(nodes)
           L == Len(open)
<1>1. /\ open # <<>> /\ N \in Nat
      /\ nodes'[N + 1] = NodeOf(kind)
      /\ \A n \in 1..N : nodes'[n] = nodes[n]
      /\ open' = Append(open, N + 1)
  BY StartStep
<1>2. L \in Nat \ {0} /\ Top = open[L]
  BY <1>1, TopType
<1>3. /\ Len(open') = L + 1 /\ open'[L + 1] = N + 1
      /\ \A k \in 1..L : open'[k] = open[k] /\ open[k] \in 1..N
  BY <1>1, <1>2, AppendProperties DEF ObserverTypes
<1>4. \A j, k \in 1..L : j <= k /\ nodes[open[j]].in_update => nodes[open[k]].in_update
  BY DEF Below
<1>5. nodes[Top].in_update => NodeOf(kind).in_update
  BY DEF NodeOf
<1> HIDE DEF L, N
<1> SUFFICES ASSUME NEW j \in 1..(L + 1), NEW k \in 1..(L + 1), j <= k, nodes'[open'[j]].in_update
             PROVE  nodes'[open'[k]].in_update
  BY <1>3 DEF Below
<1>6. CASE k \in 1..L
  <2>1. j \in 1..L
    BY <1>2, <1>6
  <2> QED BY <1>1, <1>3, <1>4, <1>6, <2>1
<1>7. CASE k = L + 1 /\ j \in 1..L
  <2>1. L \in 1..L /\ j <= L
    BY <1>2, <1>7
  <2>2. nodes[open[j]].in_update
    BY <1>1, <1>3, <1>7
  <2>3. nodes[Top].in_update
    BY <1>2, <1>4, <1>7, <2>1, <2>2
  <2> QED BY <1>1, <1>3, <1>5, <1>7, <2>3
<1>8. CASE k = L + 1 /\ j = L + 1
  BY <1>8
<1>9. k \in 1..L \/ (k = L + 1 /\ j \in 1..L) \/ (k = L + 1 /\ j = L + 1)
  <2>1. L \in Nat /\ j \in 1..(L + 1) /\ k \in 1..(L + 1)
    BY <1>2
  <2> QED BY ONLY <2>1
<1> QED BY <1>6, <1>7, <1>8, <1>9

LEMMA FewerOpen ==
    ASSUME ObserverTypes, EndElement
    PROVE  /\ nodes' = nodes
           /\ \A k \in 1..Len(open') : k \in 1..Len(open) /\ open'[k] = open[k]
<1>1. open # <<>> /\ open' = Front(open) /\ nodes' = nodes /\ open \in Seq(Nat)
  BY DEF EndElement, ObserverTypes
<1> QED BY <1>1, FrontIs

LEMMA BelowNext ==
    ASSUME ObserverTypes, Below, [Next]_vars
    PROVE  Below'
<1>1. EndElement => Below'
  BY FewerOpen DEF Below
<1>2. \A id \in Ids \cup {NoId}, means \in Meanings : StyleSelector(id, means) => Below'
  BY DEF StyleSelector, Below
<1>3. \A id \in Ids : StyleUrl(id) => Below'
  BY DEF StyleUrl, Below
<1>4. UNCHANGED vars => Below'
  BY DEF vars, Below
<1> QED BY <1>1, <1>2, <1>3, <1>4, Steps, BelowStart

(* Outside of an Update nothing of it is open.                             *)
LEMMA NothingBelow ==
    ASSUME ObserverTypes, Guarded, Below, ~ in_update, NEW n, IsOpen(n)
    PROVE  ~ nodes[n].in_update
<1>1. PICK k \in 1..Len(open) : open[k] = n
  BY DEF IsOpen
<1>2. open # <<>>
  BY <1>1
<1>3. Len(open) \in 1..Len(open) /\ k <= Len(open) /\ Top = open[Len(open)]
  BY <1>2, TopType
<1>4. ~ nodes[Top].in_update
  BY <1>2 DEF Guarded, Top
<1> QED BY <1>1, <1>3, <1>4 DEF Below

LEMMA TopIsOpen == ASSUME ObserverTypes, open # <<>> PROVE IsOpen(Top)
<1>1. Len(open) \in 1..Len(open) /\ Top = open[Len(open)]
  BY TopType
<1> QED BY <1>1 DEF IsOpen

-----------------------------------------------------------------------------
(* What is in an Update.                                                   *)
LEMMA Lengths ==
    ASSUME ObserverTypes
    PROVE  /\ Len(plain) = Len(nodes) /\ Len(tree) = Len(nodes) /\ Len(early) = Len(nodes)
           /\ Len(nodes) \in Nat /\ DOMAIN plain = 1..Len(nodes) /\ DOMAIN tree = 1..Len(nodes)
           /\ plain \in Seq(Elements) /\ tree \in Seq(Elements)
           /\ \A n \in 1..Len(nodes) : plain[n] \in Elements /\ tree[n] \in Elements
BY LenProperties, ElementOfSeq DEF ObserverTypes

LEMMA GrownAt ==
    ASSUME NEW t, NEW u, NEW n, NEW kind, NEW s, Grown(t, u, n, kind, s)
    PROVE  /\ \A m \in 1..Len(t) : m # n => u[m] = t[m]
           /\ kind = "Document" => u[n] = WithStyle(t[n], s)
           /\ kind # "Document" => u[n] = WithSelector(t[n], s)
BY DEF Grown, PutAt

LEMMA TopInUpdate ==
    ASSUME ObserverTypes, Guarded, open # <<>>
    PROVE  nodes[Top].in_update = in_update
BY DEF Guarded, Top

LEMMA PrefixGrows ==
    ASSUME NEW q \in Seq(Selectors), NEW r \in Seq(Selectors), IsPrefix(q, r), NEW s \in Selectors
    PROVE  IsPrefix(q, Append(r, s))
<1>1. Len(q) \in Nat /\ Len(r) \in Nat /\ Len(q) <= Len(r) /\ SubSeq(q, 1, Len(q)) = SubSeq(r, 1, Len(q))
  BY LenProperties DEF IsPrefix
<1>2. /\ Append(r, s) \in Seq(Selectors) /\ Len(Append(r, s)) = Len(r) + 1
      /\ \A i \in 1..Len(r) : Append(r, s)[i] = r[i]
  BY AppendProperties
<1>3. SubSeq(Append(r, s), 1, Len(q)) = SubSeq(r, 1, Len(q))
  BY <1>1, <1>2
<1>4. Len(q) <= Len(Append(r, s))
  BY <1>1, <1>2
<1> QED BY <1>1, <1>3, <1>4 DEF IsPrefix

LEMMA SamePrefix == ASSUME NEW q \in Seq(Selectors) PROVE IsPrefix(q, q)
<1>1. Len(q) \in Nat
  BY LenProperties
<1> QED BY <1>1 DEF IsPrefix

(* An element that a step leaves alone is kept if it was.                  *)
LEMMA KeptStays ==
    ASSUME NEW n, Kept(n), plain'[n] = plain[n], tree'[n] = tree[n],
           IsOpen(n)' => IsOpen(n),
           observer' = observer, document' = document \/ document # n
    PROVE  Kept(n)'
BY DEF Kept, IsHomeOfMore

LEMMA KeptStart ==
    ASSUME ObserverTypes, UpdatesKept, NEW kind \in Features \cup {"Update"}, StartElement(kind)
    PROVE  UpdatesKept'
<1> DEFINE N == Len(nodes)
<1>0. Len(plain) = N /\ Len(tree) = N /\ N \in Nat /\ open \in Seq(Nat) /\ Len(open) \in Nat
  BY LenProperties DEF ObserverTypes
<1>1. /\ Len(nodes') = N + 1
      /\ \A n \in 1..N : nodes'[n] = nodes[n]
      /\ open' = Append(open, N + 1)
      /\ PutAfter(plain, plain', Bare) /\ PutAfter(tree, tree', Bare)
      /\ document' = IF IsHome(kind) THEN N + 1 ELSE document
      /\ observer' = observer
  BY StartStep
<1>2. /\ plain'[N + 1] = Bare /\ tree'[N + 1] = Bare
      /\ \A n \in 1..N : plain'[n] = plain[n] /\ tree'[n] = tree[n]
  BY <1>0, <1>1 DEF PutAfter
<1>3. /\ Len(open') = Len(open) + 1 /\ open'[Len(open) + 1] = N + 1
      /\ \A k \in 1..Len(open) : open'[k] = open[k]
      /\ 1..(Len(open) + 1) = 1..Len(open) \cup {Len(open) + 1}
  BY <1>0, <1>1, AppendProperties
<1>4. 1..(N + 1) = 1..N \cup {N + 1} /\ N + 1 \notin 1..N
  BY <1>0
<1> HIDE DEF N
<1> SUFFICES ASSUME NEW n \in 1..(N + 1), nodes'[n].in_update PROVE Kept(n)'
  BY <1>1 DEF UpdatesKept
<1>5. CASE n = N + 1
  BY <1>2, <1>5 DEF Kept
<1>6. CASE n \in 1..N
  <2>1. Kept(n)
    BY <1>1, <1>6 DEF UpdatesKept, N
  <2>2. IsOpen(n)' => IsOpen(n)
    BY <1>3, <1>4, <1>6 DEF IsOpen
  <2>3. document' = document \/ document # n
    <3>1. IsHome(kind) => document = NULL
      BY DEF IsHome
    <3>2. n # NULL
      BY <1>6, NullAssumption
    <3> QED BY <1>1, <3>1, <3>2
  <2> QED BY <1>1, <1>2, <1>6, <2>1, <2>2, <2>3, KeptStays
<1> QED BY <1>4, <1>5, <1>6

LEMMA KeptSelector ==
    ASSUME ObserverTypes, Guarded, Below, UpdatesKept,
           NEW id \in Ids \cup {NoId}, NEW means \in Meanings, StyleSelector(id, means)
    PROVE  UpdatesKept'
<1> DEFINE s == SelectorOf(id, means)
<1>0. /\ Len(plain) = Len(nodes) /\ Len(tree) = Len(nodes) /\ Len(nodes) \in Nat
      /\ \A n \in 1..Len(nodes) : plain[n] \in Elements /\ tree[n] \in Elements
  BY Lengths
<1>1. /\ open # <<>> /\ Grown(plain, plain', Top, Kind, s)
      /\ SplitStep(s) \/ CaptureStep(s) \/ PlainStep(s)
      /\ UNCHANGED <<observer, open, nodes, document, in_update>>
  BY SelectorStep
<1>2. nodes[Top].in_update = in_update /\ Top \in 1..Len(nodes) /\ IsOpen(Top)
  BY <1>1, TopInUpdate, TopType, TopIsOpen
<1> HIDE DEF s
<1>3. \A m \in 1..Len(nodes) : m # Top => plain'[m] = plain[m]
  BY <1>0, <1>1, GrownAt
<1>4. \A m : IsOpen(m)' => IsOpen(m)
  BY <1>1 DEF IsOpen
<1> SUFFICES ASSUME NEW n \in 1..Len(nodes), nodes[n].in_update PROVE Kept(n)'
  BY <1>1 DEF UpdatesKept
<1>5. Kept(n)
  BY DEF UpdatesKept
<1>6. CASE SplitStep(s)
  <2>1. /\ ~ in_update /\ document # NULL /\ observer = "splitter"
        /\ SplitTree(tree, tree', document, Top, Renamed(s, NewId(s)), UniqueId)
        /\ Renamed(s, NewId(s)) \in Selectors
    BY <1>6 DEF SplitStep, Splits
  <2>2. n # Top
    BY <1>2, <2>1
  <2>3. CASE n # document
    <3>1. tree'[n] = tree[n]
      BY <1>0, <2>1, <2>2, <2>3 DEF SplitTree
    <3> QED BY <1>1, <1>3, <1>4, <1>5, <2>2, <3>1, KeptStays
  <2>4. CASE n = document
    <3>1. ~ IsOpen(n)
      BY <2>1, NothingBelow
    <3>2. tree'[n] = WithStyle(tree[n], Renamed(s, NewId(s)))
      BY <2>1, <2>4 DEF SplitTree
    <3>3. /\ tree'[n].url = tree[n].url /\ tree'[n].selector = tree[n].selector
          /\ tree'[n].styles = Append(tree[n].styles, Renamed(s, NewId(s)))
      BY <1>0, <2>1, <3>2, WithType
    <3>4. plain[n].styles \in Seq(Selectors) /\ tree[n].styles \in Seq(Selectors)
      BY <1>0, ElementType
    <3>5. /\ tree[n].url = plain[n].url /\ tree[n].selector = plain[n].selector
          /\ IsPrefix(plain[n].styles, tree[n].styles)
      BY <1>5, <3>4, SamePrefix DEF Kept, IsHomeOfMore
    <3>6. IsPrefix(plain[n].styles, tree'[n].styles)
      BY <2>1, <3>3, <3>4, <3>5, PrefixGrows
    <3>7. IsHomeOfMore(n)'
      BY <1>1, <1>3, <2>1, <2>2, <2>4, <3>3, <3>5, <3>6 DEF IsHomeOfMore
    <3> QED BY <1>4, <3>1, <3>7 DEF Kept
  <2> QED BY <2>3, <2>4
<1>7. CASE CaptureStep(s)
  <2>1. ~ in_update /\ tree' = tree
    BY <1>7 DEF CaptureStep, Captures
  <2> QED BY <1>1, <1>2, <1>3, <1>4, <1>5, <2>1, KeptStays
<1>8. CASE PlainStep(s)
  <2>1. Grown(tree, tree', Top, Kind, s)
    BY <1>8 DEF PlainStep
  <2>2. CASE n # Top
    <3>1. tree'[n] = tree[n]
      BY <1>0, <2>1, <2>2, GrownAt
    <3> QED BY <1>1, <1>3, <1>4, <1>5, <2>2, <3>1, KeptStays
  <2>3. CASE n = Top
    <3>1. tree[Top] = plain[Top]
      BY <1>2, <1>5, <2>3 DEF Kept
    <3>2. tree'[Top] = plain'[Top]
      BY <1>1, <2>1, <3>1, GrownAt
    <3> QED BY <2>3, <3>2 DEF Kept
  <2> QED BY <2>2, <2>3
<1> QED BY <1>1, <1>6, <1>7, <1>8

LEMMA KeptUrl ==
    ASSUME ObserverTypes, Guarded, UpdatesKept, NEW id \in Ids, StyleUrl(id)
    PROVE  UpdatesKept'
<1>0. Len(plain) = Len(nodes) /\ Len(tree) = Len(nodes) /\ Len(nodes) \in Nat
  BY Lengths
<1>1. /\ open # <<>>
      /\ PutAt(plain, plain', Top, WithUrl(plain[Top], id))
      /\ Inlines(id) => PutAt(tree, tree', Top, WithSelector(tree[Top], Resolved(id)))
      /\ ~ Inlines(id) => PutAt(tree, tree', Top, WithUrl(tree[Top], id))
      /\ UNCHANGED <<observer, open, nodes, document>>
  BY UrlStep
<1>2. nodes[Top].in_update = in_update /\ IsOpen(Top)
  BY <1>1, TopInUpdate, TopIsOpen
<1>3. Inlines(id) => ~ in_update
  BY DEF Inlines
<1>4. \A m : IsOpen(m)' => IsOpen(m)
  BY <1>1 DEF IsOpen
<1> SUFFICES ASSUME NEW n \in 1..Len(nodes), nodes[n].in_update PROVE Kept(n)'
  BY <1>1 DEF UpdatesKept
<1>5. Kept(n)
  BY DEF UpdatesKept
<1>6. CASE n # Top
  <2>1. plain'[n] = plain[n] /\ tree'[n] = tree[n]
    BY <1>0, <1>1, <1>6 DEF PutAt
  <2> QED BY <1>1, <1>4, <1>5, <2>1, KeptStays
<1>7. CASE n = Top
  <2>1. tree[Top] = plain[Top]
    BY <1>2, <1>5, <1>7 DEF Kept
  <2>2. tree'[Top] = plain'[Top]
    BY <1>1, <1>2, <1>3, <1>7, <2>1 DEF PutAt
  <2> QED BY <1>7, <2>2 DEF Kept
<1> QED BY <1>6, <1>7

LEMMA UpdatesKeptNext ==
    ASSUME ObserverTypes, Guarded, Below, UpdatesKept, [Next]_vars
    PROVE  UpdatesKept'
<1>1. EndElement => UpdatesKept'
  <2> SUFFICES ASSUME EndElement, NEW n \in 1..Len(nodes), nodes[n].in_update PROVE Kept(n)'
    BY DEF UpdatesKept, EndElement
  <2>1. IsOpen(n)' => IsOpen(n)
    BY FewerOpen DEF IsOpen
  <2>2. Kept(n)
    BY DEF UpdatesKept
  <2> QED BY <2>1, <2>2, KeptStays DEF EndElement
<1>2. UNCHANGED vars => UpdatesKept'
  BY DEF vars, UpdatesKept, Kept, IsOpen, IsHomeOfMore
<1> QED BY <1>1, <1>2, Steps, KeptStart, KeptSelector, KeptUrl

-----------------------------------------------------------------------------
(* The splitter.                                                           *)
NoInlineIds ==
    /\ \A n \in 1..Len(nodes) : plain[n].selector # NULL => plain[n].selector.id = NoId
    /\ \A r \in replaced : r.selector.id = NoId

LEMMA NoInlineIdsIs == ASSUME ObserverTypes PROVE ~ InlineIds <=> NoInlineIds
<1>1. DOMAIN plain = 1..Len(nodes)
  BY Lengths
<1> QED BY <1>1 DEF InlineIds, InlineStyles, NoInlineIds

(* A selector is never taken from a Feature, but for another one.          *)
Remembered == {r.selector : r \in replaced}
Crowded == {r.feature : r \in replaced}

(* One that takes the place of another is remembered.                      *)
LEMMA OldIsRemembered ==
    ASSUME Kind # "Document", plain[Top].selector # NULL,
           replaced' = replaced \cup (IF Replaces THEN {Old} ELSE {})
    PROVE  plain[Top].selector \in Remembered' /\ Top \in Crowded'
<1>1. Replaces
  BY DEF Replaces
<1>2. Old \in replaced'
  BY <1>1
<1>3. Old.selector = plain[Top].selector /\ Old.feature = Top
  BY DEF Old
<1>4. Old.selector \in Remembered'
  BY <1>2 DEF Remembered
<1>5. Old.feature \in Crowded'
  BY <1>2 DEF Crowded
<1> QED BY <1>3, <1>4, <1>5

LEMMA SelectorsStay ==
    ASSUME ObserverTypes, [Next]_vars
    PROVE  /\ Len(nodes') >= Len(nodes) /\ replaced \subseteq replaced'
           /\ \A n \in 1..Len(nodes) : plain[n].selector # NULL =>
                plain'[n].selector = plain[n].selector \/ plain[n].selector \in Remembered'
<1>0. Len(plain) = Len(nodes) /\ Len(nodes) \in Nat /\ \A n \in 1..Len(nodes) : plain[n] \in Elements
  BY Lengths
<1>1. ASSUME NEW kind \in Features \cup {"Update"}, StartElement(kind)
      PROVE  /\ Len(nodes') >= Len(nodes) /\ replaced' = replaced
             /\ \A n \in 1..Len(nodes) : plain'[n].selector = plain[n].selector
  BY <1>0, <1>1, StartStep DEF PutAfter
<1>2. ASSUME NEW id \in Ids \cup {NoId}, NEW means \in Meanings, StyleSelector(id, means)
      PROVE  /\ Len(nodes') >= Len(nodes) /\ replaced \subseteq replaced'
             /\ \A n \in 1..Len(nodes) : plain[n].selector # NULL =>
                  plain'[n].selector = plain[n].selector \/ plain[n].selector \in Remembered'
  <2> DEFINE s == SelectorOf(id, means)
  <2>1. /\ s \in Selectors /\ open # <<>> /\ nodes' = nodes /\ Grown(plain, plain', Top, Kind, s)
        /\ replaced' = replaced \cup (IF Replaces THEN {Old} ELSE {})
    BY <1>2, SelectorStep
  <2>2. Top \in 1..Len(nodes)
    BY <2>1, TopType
  <2> HIDE DEF s
  <2>3. \A n \in 1..Len(nodes) : n # Top => plain'[n] = plain[n]
    BY <1>0, <2>1, GrownAt
  <2>4. Kind # "Document" => plain[Top].selector = NULL \/ plain[Top].selector \in Remembered'
    BY <2>1, OldIsRemembered
  <2>5. Kind = "Document" => plain'[Top].selector = plain[Top].selector
    <3>1. WithStyle(plain[Top], s).selector = plain[Top].selector
      BY <1>0, <2>1, <2>2, WithType
    <3> QED BY <2>1, <3>1, GrownAt
  <2> QED BY <1>0, <2>1, <2>3, <2>4, <2>5
<1>3. ASSUME NEW id \in Ids, StyleUrl(id)
      PROVE  /\ Len(nodes') >= Len(nodes) /\ replaced' = replaced
             /\ \A n \in 1..Len(nodes) : plain'[n].selector = plain[n].selector
  <2>1. /\ open # <<>> /\ nodes' = nodes /\ PutAt(plain, plain', Top, WithUrl(plain[Top], id))
        /\ replaced' = replaced
    BY <1>3, UrlStep
  <2>2. Top \in 1..Len(nodes) /\ id \in AllIds \cup {NoId}
    BY <2>1, TopType, IdsType
  <2>3. WithUrl(plain[Top], id).selector = plain[Top].selector
    BY <1>0, <2>2, WithType
  <2> QED BY <1>0, <2>1, <2>3 DEF PutAt
<1>4. EndElement => nodes' = nodes /\ plain' = plain /\ replaced' = replaced
  BY DEF EndElement
<1>5. UNCHANGED vars => nodes' = nodes /\ plain' = plain /\ replaced' = replaced
  BY DEF vars
<1>6. Len(nodes) >= Len(nodes)
  BY <1>0
<1>7. EndElement \/ UNCHANGED vars =>
        /\ Len(nodes') >= Len(nodes) /\ replaced' = replaced
        /\ \A n \in 1..Len(nodes) : plain'[n].selector = plain[n].selector
  BY <1>4, <1>5, <1>6
<1> QED BY <1>1, <1>2, <1>3, <1>7, Steps

LEMMA NoInlineIdsBefore ==
    ASSUME ObserverTypes, [Next]_vars, ~ InlineIds'
    PROVE  NoInlineIds /\ NoInlineIds' /\ ~ InlineIds
<1>1. ObserverTypes'
  BY TypeNext
<1>2. NoInlineIds'
  <2>1. DOMAIN plain' = 1..Len(nodes')
    BY <1>1, LenProperties DEF ObserverTypes
  <2> QED BY <2>1 DEF InlineIds, InlineStyles, NoInlineIds
<1>3. Len(nodes) \in Nat /\ Len(nodes') \in Nat
  BY <1>1, LenProperties DEF ObserverTypes
<1>4. \A n \in 1..Len(nodes) : n \in 1..Len(nodes')
  BY <1>3, SelectorsStay
<1>5. NoInlineIds
  BY <1>2, <1>4, SelectorsStay DEF NoInlineIds, Remembered
<1> QED BY <1>2, <1>5, NoInlineIdsIs

LEMMA SplitInit == Init => SplitInv
<1> SUFFICES ASSUME Init PROVE SplitInv
  OBVIOUS
<1>0. ObserverTypes
  BY TypeInit
<1>1. /\ plain = <<Bare>> /\ tree = <<Bare>> /\ DOMAIN shared = {} /\ id_counter = 0
      /\ document = NULL /\ Len(nodes) = 1
  BY DEF Init
<1>2. SplitIds
  BY <1>1 DEF SplitIds, Generated
<1>3. SplitStyles
  BY <1>1 DEF SplitStyles
<1>4. EachSplit
  BY <1>1 DEF EachSplit, Unsplit
<1>5. NoneLeft
  BY <1>1 DEF NoneLeft
<1> QED BY <1>2, <1>3, <1>4, <1>5 DEF SplitInv

LEMMA SplitStart ==
    ASSUME ObserverTypes, SplitInv, NEW kind \in Features \cup {"Update"}, StartElement(kind)
    PROVE  SplitInv'
<1> DEFINE N == Len(nodes)
<1>0. Len(plain) = N /\ Len(tree) = N /\ N \in Nat /\ plain \in Seq(Elements) /\ tree \in Seq(Elements)
  BY Lengths
<1>1. /\ Len(nodes') = N + 1
      /\ \A n \in 1..N : nodes'[n] = nodes[n]
      /\ PutAfter(plain, plain', Bare) /\ PutAfter(tree, tree', Bare)
      /\ document' = IF IsHome(kind) THEN N + 1 ELSE document
      /\ UNCHANGED <<observer, replaced, shared, id_counter>>
  BY StartStep
<1> HIDE DEF N
<1>2. /\ 1..(N + 1) = 1..N \cup {N + 1}
      /\ plain'[N + 1] = Bare /\ tree'[N + 1] = Bare
      /\ \A n \in 1..N : plain'[n] = plain[n] /\ tree'[n] = tree[n]
  BY <1>0, <1>1 DEF PutAfter
<1>3. SplitIds'
  BY <1>1 DEF SplitInv, SplitIds, Generated
<1>4. SplitStyles'
  <2>1. StylesIn(plain') = StylesIn(plain) /\ StylesIn(tree') = StylesIn(tree)
    BY <1>0, <1>1, StylesInPutAfter
  <2> QED BY <1>1, <2>1 DEF SplitInv, SplitStyles
<1>5. EachSplit'
  <2> SUFFICES ASSUME NEW n \in 1..Len(nodes') PROVE (Several(n) \/ Unsplit(n) \/ IsSplit(n))'
    BY DEF EachSplit
  <2>1. CASE n \in 1..N
    <3>1. Several(n) \/ Unsplit(n) \/ IsSplit(n)
      BY <2>1 DEF SplitInv, EachSplit, N
    <3> QED BY <1>1, <1>2, <2>1, <3>1 DEF Several, Unsplit, IsSplit
  <2>2. CASE n = N + 1
    BY <1>2, <2>2 DEF Unsplit
  <2> QED BY <1>1, <1>2, <2>1, <2>2
<1>6. NoneLeft'
  <2> SUFFICES ASSUME NEW n \in 1..(N + 1),
                      nodes'[n].kind = "Folder", ~ nodes'[n].in_update, ~ Several(n)',
                      document' # NULL, document' < n, plain'[n].url = NoId
               PROVE  tree'[n].selector = NULL
    BY <1>1 DEF NoneLeft
  <2>1. CASE n = N + 1
    BY <1>2, <2>1 DEF Bare
  <2>2. CASE n \in 1..N
    <3>1. ~ IsHome(kind)
      BY <1>0, <1>1, <2>2
    <3>2. ~ Several(n)
      BY <1>1 DEF Several
    <3> QED BY <1>1, <1>2, <2>2, <3>1, <3>2 DEF SplitInv, NoneLeft, N
  <2> QED BY <1>2, <2>1, <2>2
<1> QED BY <1>3, <1>4, <1>5, <1>6 DEF SplitInv

LEMMA SplitUrl ==
    ASSUME ObserverTypes, SplitInv, observer = "splitter", NEW id \in Ids, StyleUrl(id)
    PROVE  SplitInv'
<1>0. /\ Len(plain) = Len(nodes) /\ Len(tree) = Len(nodes)
      /\ plain \in Seq(Elements) /\ tree \in Seq(Elements)
      /\ \A n \in 1..Len(nodes) : plain[n] \in Elements /\ tree[n] \in Elements
  BY Lengths
<1>1. /\ open # <<>> /\ plain[Top].url = NoId
      /\ PutAt(plain, plain', Top, WithUrl(plain[Top], id))
      /\ PutAt(tree, tree', Top, WithUrl(tree[Top], id))
      /\ UNCHANGED <<nodes, replaced, document, shared, id_counter>>
  BY UrlStep DEF Inlines
<1>2. Top \in 1..Len(nodes) /\ id \in AllIds /\ id # NoId
  BY <1>1, TopType, IdsType, NullAssumption
<1>3. /\ \A n \in 1..Len(nodes) : n # Top => plain'[n] = plain[n] /\ tree'[n] = tree[n]
      /\ plain'[Top] = WithUrl(plain[Top], id) /\ tree'[Top] = WithUrl(tree[Top], id)
  BY <1>0, <1>1 DEF PutAt
<1>4. /\ WithUrl(plain[Top], id).url = id /\ WithUrl(tree[Top], id).url = id
      /\ WithUrl(plain[Top], id).selector = plain[Top].selector
      /\ WithUrl(tree[Top], id).selector = tree[Top].selector
      /\ WithUrl(plain[Top], id).styles = plain[Top].styles
      /\ WithUrl(tree[Top], id).styles = tree[Top].styles
      /\ WithUrl(plain[Top], id) \in Elements /\ WithUrl(tree[Top], id) \in Elements
  BY <1>0, <1>2, WithType
<1>5. SplitIds'
  BY <1>1 DEF SplitInv, SplitIds, Generated
<1>6. SplitStyles'
  <2>1. StylesIn(plain') = StylesIn(plain)
    BY <1>0, <1>1, <1>2, <1>4, StylesInPut
  <2>2. StylesIn(tree') = StylesIn(tree)
    BY <1>0, <1>1, <1>2, <1>4, StylesInPut
  <2> QED BY <1>1, <2>1, <2>2 DEF SplitInv, SplitStyles
<1>7. EachSplit'
  <2> SUFFICES ASSUME NEW n \in 1..Len(nodes) PROVE (Several(n) \/ Unsplit(n) \/ IsSplit(n))'
    BY <1>1 DEF EachSplit
  <2>1. Several(n)' \/ Unsplit(n) \/ IsSplit(n)
    BY <1>1 DEF SplitInv, EachSplit, Several
  <2>2. CASE n # Top
    BY <1>1, <1>3, <2>1, <2>2 DEF Unsplit, IsSplit
  <2>3. CASE n = Top
    BY <1>1, <1>2, <1>3, <1>4, <2>1, <2>3 DEF Unsplit, IsSplit
  <2> QED BY <2>2, <2>3
<1>8. NoneLeft'
  <2>1. \A n : Several(n)' <=> Several(n)
    BY <1>1 DEF Several
  <2> QED BY <1>1, <1>2, <1>3, <1>4, <2>1 DEF SplitInv, NoneLeft
<1> QED BY <1>5, <1>6, <1>7, <1>8 DEF SplitInv

LEMMA StylesInSplit ==
    ASSUME NEW t \in Seq(Elements), NEW d \in 1..Len(t), NEW n \in 1..Len(t), d # n,
           NEW s \in Selectors, NEW i \in AllIds, NEW u, SplitTree(t, u, d, n, s, i)
    PROVE  StylesIn(u) = StylesIn(t) \cup {s}
<1>1. t[d] \in Elements /\ t[n] \in Elements
  BY TreeType
<1>2. /\ u \in Seq(Elements) /\ Len(u) = Len(t)
      /\ u[d] = WithStyle(t[d], s) /\ u[n] = WithUrl(t[n], i)
      /\ \A m \in 1..Len(t) : m # d /\ m # n => u[m] = t[m]
  BY DEF SplitTree
<1>3. u[d].styles = Append(t[d].styles, s) /\ u[n].styles = t[n].styles
  <2>1. WithStyle(t[d], s).styles = Append(t[d].styles, s)
    BY <1>1, WithType
  <2>2. i \in AllIds \cup {NoId}
    OBVIOUS
  <2>3. WithUrl(t[n], i).styles = t[n].styles
    BY <1>1, <2>2, WithType
  <2> QED BY <1>2, <2>1, <2>3
<1>4. ToSet(u[d].styles) = ToSet(t[d].styles) \cup {s}
  BY <1>1, <1>3, ElementType, ToSetOfAppend
<1>5. \A m \in 1..Len(t) : m # d => u[m].styles = t[m].styles
  BY <1>2, <1>3
<1>6. \A x : x \in StylesIn(u) <=> \E m \in 1..Len(t) : x \in ToSet(u[m].styles)
  BY <1>2, StylesInAre
<1>7. \A x : x \in StylesIn(t) <=> \E m \in 1..Len(t) : x \in ToSet(t[m].styles)
  BY StylesInAre
<1> QED BY <1>4, <1>5, <1>6, <1>7

LEMMA GrownStyles ==
    ASSUME NEW t \in Seq(Elements), NEW n \in 1..Len(t), NEW kind, NEW s \in Selectors,
           NEW u, Grown(t, u, n, kind, s)
    PROVE  StylesIn(u) = IF kind = "Document" THEN StylesIn(t) \cup {s} ELSE StylesIn(t)
<1>1. t[n] \in Elements
  BY TreeType
<1>2. CASE kind = "Document"
  <2>1. PutAt(t, u, n, WithStyle(t[n], s))
    BY <1>2 DEF Grown
  <2>2. WithStyle(t[n], s) \in Elements /\ WithStyle(t[n], s).styles = Append(t[n].styles, s)
    BY <1>1, WithType
  <2> QED BY <1>2, <2>1, <2>2, StylesInPut
<1>3. CASE kind # "Document"
  <2>1. PutAt(t, u, n, WithSelector(t[n], s))
    BY <1>3 DEF Grown
  <2>2. WithSelector(t[n], s) \in Elements /\ WithSelector(t[n], s).styles = t[n].styles
    BY <1>1, WithType
  <2> QED BY <1>3, <2>1, <2>2, StylesInPut
<1> QED BY <1>2, <1>3

(* A new element: what Grown makes of its fields.                          *)
FieldsGrown(t, u, n, kind, s) ==
    /\ u[n].url = t[n].url
    /\ u[n].selector = IF kind = "Document" THEN t[n].selector ELSE s
    /\ \A m \in 1..Len(t) : m # n => u[m] = t[m]

LEMMA GrownFields ==
    ASSUME NEW t \in Seq(Elements), NEW n \in 1..Len(t), NEW kind, NEW s \in Selectors,
           NEW u, Grown(t, u, n, kind, s)
    PROVE  FieldsGrown(t, u, n, kind, s)
<1>1. t[n] \in Elements
  BY TreeType
<1> QED BY <1>1, GrownAt, WithType DEF FieldsGrown

(* The id that CreateUniqueId makes next is a new one.                     *)
LEMMA UniqueIdIsNew ==
    ASSUME ObserverTypes, id_counter < Len(UniqueIds)
    PROVE  /\ UniqueId \in AllIds /\ UniqueId \notin Generated
           /\ {UniqueIds[i] : i \in 1..(id_counter + 1)} = Generated \cup {UniqueId}
<1>1. Len(UniqueIds) \in Nat /\ id_counter \in Nat
  BY UniqueIdsAssumption, LenProperties DEF ObserverTypes
<1>2. /\ id_counter + 1 \in 1..Len(UniqueIds)
      /\ \A i \in 1..id_counter : i \in 1..Len(UniqueIds) /\ i # id_counter + 1
      /\ 1..(id_counter + 1) = 1..id_counter \cup {id_counter + 1}
  BY <1>1
<1>3. UniqueId \in AllIds
  BY <1>2, IdsType DEF UniqueId
<1>4. \A i \in 1..id_counter : UniqueIds[i] # UniqueId
  BY <1>2, UniqueIdsAssumption DEF UniqueId
<1> QED BY <1>2, <1>3, <1>4 DEF Generated, UniqueId

LEMMA SeveralStep ==
    ASSUME replaced' = replaced \cup (IF Replaces THEN {Old} ELSE {})
    PROVE  /\ Kind # "Document" => Top \in Crowded' \/ plain[Top].selector = NULL
           /\ \A n : Several(n) => Several(n)'
           /\ \A n : Several(n)' <=> n \in Crowded'
           /\ \A n : Several(n) <=> n \in Crowded
<1>1. Kind # "Document" => Top \in Crowded' \/ plain[Top].selector = NULL
  BY OldIsRemembered
<1>2. \A n : Several(n) => Several(n)'
  BY DEF Several
<1>3. \A n : Several(n)' <=> n \in Crowded'
  BY DEF Several, Crowded
<1>4. \A n : Several(n) <=> n \in Crowded
  BY DEF Several, Crowded
<1> QED BY <1>1, <1>2, <1>3, <1>4

(* A StyleSelector that the splitter leaves where it is.                   *)
LEMMA SplitPlain ==
    ASSUME ObserverTypes, Guarded, SplitInv, observer = "splitter",
           NEW s \in Selectors, open # <<>>, Kind \in Features,
           replaced' = replaced \cup (IF Replaces THEN {Old} ELSE {}),
           id_counter < Len(UniqueIds), nodes' = nodes, document' = document,
           Grown(plain, plain', Top, Kind, s), PlainStep(s)
    PROVE  SplitInv'
<1>0. /\ Len(plain) = Len(nodes) /\ Len(tree) = Len(nodes)
      /\ plain \in Seq(Elements) /\ tree \in Seq(Elements)
      /\ \A n \in 1..Len(nodes) : plain[n] \in Elements /\ tree[n] \in Elements
  BY Lengths
<1>1. /\ Grown(tree, tree', Top, Kind, s) /\ shared' = shared /\ id_counter' = id_counter
      /\ ~ Splits
  BY DEF PlainStep
<1>2. Top \in 1..Len(nodes) /\ Kind = nodes[Top].kind
  BY TopType
<1>3. /\ plain'[Top].url = plain[Top].url /\ tree'[Top].url = tree[Top].url
      /\ plain'[Top].selector = IF Kind = "Document" THEN plain[Top].selector ELSE s
      /\ tree'[Top].selector = IF Kind = "Document" THEN tree[Top].selector ELSE s
      /\ \A n \in 1..Len(nodes) : n # Top => plain'[n] = plain[n] /\ tree'[n] = tree[n]
  <2>1. /\ plain'[Top].url = plain[Top].url
        /\ plain'[Top].selector = IF Kind = "Document" THEN plain[Top].selector ELSE s
        /\ \A n \in 1..Len(plain) : n # Top => plain'[n] = plain[n]
    <3>1. Top \in 1..Len(plain) /\ plain \in Seq(Elements) /\ Grown(plain, plain', Top, Kind, s)
      BY <1>0, <1>2
    <3>2. FieldsGrown(plain, plain', Top, Kind, s)
      BY ONLY s \in Selectors, <3>1, GrownFields
    <3> QED BY ONLY <3>2 DEF FieldsGrown
  <2>2. /\ tree'[Top].url = tree[Top].url
        /\ tree'[Top].selector = IF Kind = "Document" THEN tree[Top].selector ELSE s
        /\ \A n \in 1..Len(tree) : n # Top => tree'[n] = tree[n]
    <3>1. Top \in 1..Len(tree) /\ tree \in Seq(Elements) /\ Grown(tree, tree', Top, Kind, s)
      BY <1>0, <1>1, <1>2
    <3>2. FieldsGrown(tree, tree', Top, Kind, s)
      BY ONLY s \in Selectors, <3>1, GrownFields
    <3> QED BY ONLY <3>2 DEF FieldsGrown
  <2> QED BY <1>0, <2>1, <2>2
<1>4. /\ Kind # "Document" => Top \in Crowded' \/ plain[Top].selector = NULL
      /\ \A n : Several(n) => Several(n)'
      /\ \A n : Several(n)' <=> n \in Crowded'
  BY SeveralStep
<1>5. Kind # "Document" => Top \in Crowded' \/ Unsplit(Top)
  BY <1>2, <1>4 DEF SplitInv, EachSplit, IsSplit
<1>6. SplitIds'
  BY <1>1 DEF SplitInv, SplitIds, Generated
<1>7. SplitStyles'
  <2>1. /\ StylesIn(plain') = IF Kind = "Document" THEN StylesIn(plain) \cup {s} ELSE StylesIn(plain)
        /\ StylesIn(tree') = IF Kind = "Document" THEN StylesIn(tree) \cup {s} ELSE StylesIn(tree)
    BY <1>0, <1>1, <1>2, GrownStyles
  <2>2. StylesIn(tree) = StylesIn(plain) \cup {shared[i] : i \in DOMAIN shared}
    BY DEF SplitInv, SplitStyles
  <2>3. StylesIn(tree') = StylesIn(plain') \cup {shared[i] : i \in DOMAIN shared}
    BY <2>1, <2>2
  <2> QED BY <1>1, <2>3 DEF SplitStyles
<1>8. EachSplit'
  <2> SUFFICES ASSUME NEW n \in 1..Len(nodes) PROVE (Several(n) \/ Unsplit(n) \/ IsSplit(n))'
    BY DEF EachSplit
  <2>1. Several(n)' \/ Unsplit(n) \/ IsSplit(n)
    BY <1>4 DEF SplitInv, EachSplit
  <2>2. CASE n # Top
    BY <1>1, <1>3, <2>1, <2>2 DEF Unsplit, IsSplit
  <2>3. CASE n = Top /\ Kind = "Document"
    BY <1>1, <1>3, <2>1, <2>3 DEF Unsplit, IsSplit
  <2>4. CASE n = Top /\ Kind # "Document"
    BY <1>3, <1>4, <1>5, <2>4 DEF Unsplit
  <2> QED BY <2>2, <2>3, <2>4
<1>9. NoneLeft'
  <2> SUFFICES ASSUME NEW n \in 1..Len(nodes),
                      nodes[n].kind = "Folder", ~ nodes[n].in_update, ~ Several(n)',
                      document # NULL, document < n, plain'[n].url = NoId
               PROVE  tree'[n].selector = NULL
    BY DEF NoneLeft
  <2>1. CASE n # Top
    BY <1>3, <1>4, <2>1 DEF SplitInv, NoneLeft
  <2>2. ASSUME n = Top PROVE FALSE
    <3>1. Kind = "Folder" /\ ~ in_update
      BY <1>2, <2>2, TopInUpdate
    <3>2. tree[Top].url = NoId
      BY <1>3, <1>4, <1>5, <2>2, <3>1 DEF Unsplit
    <3>3. UniqueId \notin DOMAIN shared
      BY UniqueIdIsNew DEF SplitInv, SplitIds
    <3> QED BY <1>1, <3>1, <3>2, <3>3 DEF Splits, NonDocument
  <2> QED BY <2>1, <2>2
<1> QED BY <1>6, <1>7, <1>8, <1>9 DEF SplitInv

(* One that it moves into the Document.                                    *)
LEMMA SplitSplit ==
    ASSUME ObserverTypes, Guarded, SplitInv,
           NEW s \in Selectors, open # <<>>, s.id = NoId,
           replaced' = replaced \cup (IF Replaces THEN {Old} ELSE {}),
           nodes' = nodes, document' = document,
           Grown(plain, plain', Top, Kind, s), SplitStep(s)
    PROVE  SplitInv'
<1> DEFINE r == Renamed(s, UniqueId)
<1>0. /\ Len(plain) = Len(nodes) /\ Len(tree) = Len(nodes)
      /\ plain \in Seq(Elements) /\ tree \in Seq(Elements)
      /\ \A n \in 1..Len(nodes) : plain[n] \in Elements /\ tree[n] \in Elements
  BY Lengths
<1>1. /\ document # NULL /\ Kind = "Folder" /\ tree[Top].url = NoId
      /\ UniqueId \in AllIds /\ r \in Selectors
      /\ id_counter' = id_counter + 1 /\ id_counter < Len(UniqueIds)
      /\ shared' = Put(shared, UniqueId, r)
      /\ SplitTree(tree, tree', document, Top, r, UniqueId)
  BY DEF SplitStep, NewId, Splits, NonDocument
<1>15. r.id = UniqueId
  BY <1>1, RenamedType
<1> HIDE DEF r
<1>2. Top \in 1..Len(nodes) /\ nodes[Top].kind = "Folder"
  BY <1>1, TopType
<1>3. document \in 1..Len(nodes) /\ nodes[document].kind = "Document" /\ document # Top
  BY <1>1, <1>2 DEF ObserverTypes
<1>4. s # NULL
  BY NullAssumption
<1>6. UniqueId \notin DOMAIN shared /\ UniqueId \notin Generated
      /\ {UniqueIds[i] : i \in 1..(id_counter + 1)} = Generated \cup {UniqueId}
  BY <1>1, UniqueIdIsNew DEF SplitInv, SplitIds
<1>7. /\ DOMAIN shared' = DOMAIN shared \cup {UniqueId} /\ shared'[UniqueId] = r
      /\ \A i \in DOMAIN shared : i # UniqueId => shared'[i] = shared[i]
  BY <1>1 DEF Put
<1>8. /\ plain'[Top].url = plain[Top].url /\ plain'[Top].selector = s
      /\ \A n \in 1..Len(nodes) : n # Top => plain'[n] = plain[n]
  <2>1. /\ plain'[Top].url = plain[Top].url
        /\ plain'[Top].selector = IF Kind = "Document" THEN plain[Top].selector ELSE s
        /\ \A n \in 1..Len(plain) : n # Top => plain'[n] = plain[n]
    <3>1. Top \in 1..Len(plain) /\ plain \in Seq(Elements) /\ Grown(plain, plain', Top, Kind, s)
      BY <1>0, <1>2
    <3>2. FieldsGrown(plain, plain', Top, Kind, s)
      BY ONLY s \in Selectors, <3>1, GrownFields
    <3> QED BY ONLY <3>2 DEF FieldsGrown
  <2> QED BY <1>0, <1>1, <2>1
<1>9. /\ tree'[Top].url = UniqueId /\ tree'[Top].selector = tree[Top].selector
      /\ tree'[document].url = tree[document].url
      /\ tree'[document].selector = tree[document].selector
      /\ \A n \in 1..Len(nodes) : n # Top /\ n # document => tree'[n] = tree[n]
  <2>1. tree'[Top] = WithUrl(tree[Top], UniqueId) /\ tree'[document] = WithStyle(tree[document], r)
    BY <1>1 DEF SplitTree
  <2>2. \A n \in 1..Len(nodes) : n # Top /\ n # document => tree'[n] = tree[n]
    BY <1>0, <1>1 DEF SplitTree
  <2>3. WithUrl(tree[Top], UniqueId).url = UniqueId
        /\ WithUrl(tree[Top], UniqueId).selector = tree[Top].selector
    <3>1. tree[Top] \in Elements /\ UniqueId \in AllIds \cup {NoId}
      BY <1>0, <1>1, <1>2
    <3> QED BY <3>1, WithType
  <2>4. WithStyle(tree[document], r).url = tree[document].url
        /\ WithStyle(tree[document], r).selector = tree[document].selector
    BY <1>0, <1>1, <1>3, WithType
  <2> QED BY <2>1, <2>2, <2>3, <2>4
<1>16. \A n : (Several(n) => Several(n)') /\ (Several(n)' <=> n \in Crowded')
  BY SeveralStep
<1>10. ASSUME Top \notin Crowded'
       PROVE  plain[Top].selector = NULL /\ tree[Top].selector = NULL /\ plain[Top].url = NoId
  <2>1. plain[Top].selector = NULL
    BY <1>1, <1>10, SeveralStep
  <2>2. Unsplit(Top)
    BY <1>2, <1>10, <1>16, <2>1 DEF SplitInv, EachSplit, IsSplit
  <2> QED BY <1>1, <2>1, <2>2 DEF Unsplit
<1>11. SplitIds'
  <2>1. Generated' = Generated \cup {UniqueId}
    BY <1>1, <1>6 DEF Generated
  <2>2. \A i \in DOMAIN shared' : shared'[i].id = i
    BY <1>7, <1>15 DEF SplitInv, SplitIds
  <2> QED BY <1>7, <2>1, <2>2 DEF SplitInv, SplitIds
<1>12. SplitStyles'
  <2>1. StylesIn(plain') = StylesIn(plain)
    <3>1. StylesIn(plain') = IF Kind = "Document" THEN StylesIn(plain) \cup {s} ELSE StylesIn(plain)
      BY <1>0, <1>2, GrownStyles
    <3> QED BY <1>1, <3>1
  <2>2. StylesIn(tree') = StylesIn(tree) \cup {r}
    BY <1>0, <1>1, <1>2, <1>3, StylesInSplit
  <2>3. {shared'[i] : i \in DOMAIN shared'} = {shared[i] : i \in DOMAIN shared} \cup {r}
    BY <1>6, <1>7
  <2> QED BY <2>1, <2>2, <2>3 DEF SplitInv, SplitStyles
<1>13. EachSplit'
  <2> SUFFICES ASSUME NEW n \in 1..Len(nodes), ~ Several(n)'
               PROVE  (Unsplit(n) \/ IsSplit(n))'
    BY DEF EachSplit
  <2>1. Unsplit(n) \/ IsSplit(n)
    BY <1>16 DEF SplitInv, EachSplit
  <2>2. CASE n = Top
    <3>1. /\ nodes'[n].kind = "Folder" /\ plain'[n].selector # NULL /\ tree'[n].selector = NULL
          /\ plain'[n].url = NoId
      BY <1>2, <1>4, <1>8, <1>9, <1>10, <1>16, <2>2
    <3>2. tree'[n].url \in DOMAIN shared'
      BY <1>7, <1>9, <2>2
    <3>3. shared'[tree'[n].url] = Renamed(plain'[n].selector, tree'[n].url)
      BY <1>7, <1>8, <1>9, <2>2 DEF r
    <3> QED BY <3>1, <3>2, <3>3 DEF IsSplit
  <2>3. CASE n # Top /\ Unsplit(n)
    BY <1>8, <1>9, <2>3 DEF Unsplit
  <2>4. CASE n # Top /\ IsSplit(n)
    <3>1. n # document
      BY <1>3, <2>4 DEF IsSplit
    <3>2. plain'[n] = plain[n] /\ tree'[n] = tree[n]
      BY <1>8, <1>9, <2>4, <3>1
    <3>3. \A i \in DOMAIN shared : i \in DOMAIN shared' /\ shared'[i] = shared[i]
      BY <1>6, <1>7
    <3> QED BY <2>4, <3>2, <3>3 DEF IsSplit
  <2> QED BY <2>1, <2>2, <2>3, <2>4
<1>14. NoneLeft'
  <2>1. \A n \in 1..Len(nodes) : tree'[n].selector = tree[n].selector
    BY <1>9
  <2>2. \A n \in 1..Len(nodes) : plain'[n].url = plain[n].url
    BY <1>8
  <2> QED BY <1>16, <2>1, <2>2 DEF SplitInv, NoneLeft
<1> QED BY <1>11, <1>12, <1>13, <1>14 DEF SplitInv

LEMMA ObserverStays == [Next]_vars => observer' = observer
BY DEF Next, vars, StartElement, EndElement, StyleSelector, StyleUrl

LEMMA SplitNext ==
    ASSUME ObserverTypes, Guarded, SplitInv, observer = "splitter", ~ InlineIds', [Next]_vars
    PROVE  SplitInv'
<1>1. ASSUME NEW id \in Ids \cup {NoId}, NEW means \in Meanings, StyleSelector(id, means)
      PROVE  SplitInv'
  <2> DEFINE s == SelectorOf(id, means)
  <2>1. /\ s \in Selectors /\ open # <<>> /\ Kind \in Features
        /\ replaced' = replaced \cup (IF Replaces THEN {Old} ELSE {})
        /\ id_counter < Len(UniqueIds)
        /\ Grown(plain, plain', Top, Kind, s)
        /\ SplitStep(s) \/ CaptureStep(s) \/ PlainStep(s)
        /\ nodes' = nodes /\ document' = document
    BY <1>1, SelectorStep
  <2> HIDE DEF s
  <2>2. CASE SplitStep(s)
    <3>0. Len(plain) = Len(nodes) /\ plain \in Seq(Elements)
      BY Lengths
    <3>1. Kind = "Folder" /\ Top \in 1..Len(plain) /\ Top \in 1..Len(nodes)
      BY <2>1, <2>2, <3>0, TopType DEF SplitStep, Splits, NonDocument
    <3>6. /\ s \in Selectors /\ Top \in 1..Len(plain) /\ plain \in Seq(Elements)
          /\ Grown(plain, plain', Top, Kind, s)
      BY <2>1, <3>0, <3>1
    <3>2. plain'[Top].selector = IF Kind = "Document" THEN plain[Top].selector ELSE s
      <4>1. FieldsGrown(plain, plain', Top, Kind, s)
        BY ONLY <3>6, GrownFields
      <4> QED BY ONLY <4>1 DEF FieldsGrown
    <3>3. plain'[Top].selector = s /\ s # NULL
      BY <2>1, <3>1, <3>2, NullAssumption
    <3>4. \A n \in 1..Len(nodes) : plain'[n].selector # NULL => plain'[n].selector.id = NoId
      <4>1. NoInlineIds'
        BY NoInlineIdsBefore
      <4> QED BY <2>1, <4>1 DEF NoInlineIds
    <3>5. s.id = NoId
      BY <3>1, <3>3, <3>4
    <3> QED BY <2>1, <2>2, <3>5, SplitSplit
  <2>3. ~ CaptureStep(s)
    BY DEF CaptureStep
  <2>4. CASE PlainStep(s)
    BY <2>1, <2>4, SplitPlain
  <2> QED BY <2>1, <2>2, <2>3, <2>4
<1>2. EndElement => SplitInv'
  BY DEF EndElement, SplitInv, SplitIds, SplitStyles, EachSplit, NoneLeft, Several, Unsplit, IsSplit,
         Generated
<1>3. UNCHANGED vars => SplitInv'
  BY DEF vars, SplitInv, SplitIds, SplitStyles, EachSplit, NoneLeft, Several, Unsplit, IsSplit,
         Generated
<1> QED BY <1>1, <1>2, <1>3, Steps, SplitStart, SplitUrl

-----------------------------------------------------------------------------
(* The inliner.                                                            *)
LEMMA SharedInUpdateIs ==
    ASSUME ObserverTypes
    PROVE  SharedInUpdate <=> \E n \in 1..Len(nodes) :
              nodes[n].in_update /\ \E s \in ToSet(plain[n].styles) : s.id # NoId
<1>1. DOMAIN nodes = 1..Len(nodes)
  BY LenProperties DEF ObserverTypes
<1> QED BY <1>1 DEF SharedInUpdate

LEMMA InlineInit == Init => InlineInv
<1> SUFFICES ASSUME Init PROVE InlineInv
  OBVIOUS
<1>1. plain = <<Bare>> /\ tree = <<Bare>> /\ DOMAIN shared = {} /\ Len(nodes) = 1
  BY DEF Init
<1>2. StylesIn(plain) = {}
  <2>1. plain \in Seq(Elements) /\ Len(plain) = 1 /\ plain[1] = Bare
    BY <1>1, BareType
  <2>2. ToSet(Bare.styles) = {}
    BY DEF Bare, ToSet
  <2>3. \A n \in 1..Len(plain) : n = 1
    BY <2>1
  <2> QED BY <2>1, <2>2, <2>3, StylesInAre
<1>3. SharedOf(shared) = SharedIn(plain)
  BY <1>1, <1>2 DEF SharedOf, SharedIn
<1>4. \A n \in 1..Len(nodes) : Inlined(n)
  <2>1. \A n \in 1..Len(nodes) : n = 1
    BY <1>1
  <2> QED BY <1>1, <2>1 DEF Inlined, Bare
<1> QED BY <1>3, <1>4 DEF InlineInv

LEMMA InlineStart ==
    ASSUME ObserverTypes, InlineInv, NEW kind \in Features \cup {"Update"}, StartElement(kind)
    PROVE  InlineInv'
<1>0. /\ Len(plain) = Len(nodes) /\ Len(tree) = Len(nodes) /\ Len(nodes) \in Nat
      /\ plain \in Seq(Elements) /\ Len(early) = Len(nodes)
  BY Lengths
<1>1. /\ Len(nodes') = Len(nodes) + 1
      /\ \A n \in 1..Len(nodes) : nodes'[n] = nodes[n]
      /\ PutAfter(plain, plain', Bare) /\ PutAfter(tree, tree', Bare)
      /\ early' = Append(early, {}) /\ shared' = shared
  BY StartStep
<1>2. \A n \in 1..Len(nodes) : early'[n] = early[n]
  <2>1. early \in Seq(SUBSET Nat) /\ {} \in SUBSET Nat
    BY DEF ObserverTypes
  <2> QED BY <1>0, <1>1, <2>1, AppendProperties
<1>3. StylesIn(plain') = StylesIn(plain)
  BY <1>0, <1>1, StylesInPutAfter
<1>4. SharedOf(shared') = SharedIn(plain')
  BY <1>1, <1>3 DEF InlineInv, SharedIn
<1>5. \A n \in 1..Len(nodes') : Inlined(n)'
  <2> SUFFICES ASSUME NEW n \in 1..Len(nodes') PROVE Inlined(n)'
    OBVIOUS
  <2>1. CASE n \in 1..Len(nodes)
    <3>1. plain'[n] = plain[n] /\ tree'[n] = tree[n] /\ nodes'[n] = nodes[n] /\ early'[n] = early[n]
      BY <1>0, <1>1, <1>2, <2>1 DEF PutAfter
    <3> QED BY <2>1, <3>1 DEF InlineInv, Inlined
  <2>2. CASE n = Len(nodes) + 1
    BY <1>0, <1>1, <2>2 DEF PutAfter, Inlined, Bare
  <2> QED BY <1>0, <1>1, <2>1, <2>2
<1> QED BY <1>4, <1>5 DEF InlineInv

(* A step that moves neither urls nor the selectors of Features.           *)
LEMMA InlinedStays ==
    ASSUME ObserverTypes, InlineInv, nodes' = nodes, early' = early,
           \A n \in 1..Len(nodes) :
              /\ plain'[n].url = plain[n].url /\ tree'[n].url = tree[n].url
              /\ plain'[n].selector # NULL \/ plain'[n].selector = plain[n].selector
              /\ plain'[n].selector = NULL => tree'[n].selector = tree[n].selector
    PROVE  \A n \in 1..Len(nodes') : Inlined(n)'
BY DEF InlineInv, Inlined

LEMMA InlineSelector ==
    ASSUME ObserverTypes, Guarded, InlineInv, observer = "inliner", ~ SharedInUpdate',
           NEW id \in Ids \cup {NoId}, NEW means \in Meanings, StyleSelector(id, means)
    PROVE  InlineInv'
<1> DEFINE s == SelectorOf(id, means)
<1>0. /\ Len(plain) = Len(nodes) /\ Len(tree) = Len(nodes)
      /\ plain \in Seq(Elements) /\ tree \in Seq(Elements)
      /\ DOMAIN plain = 1..Len(nodes)
      /\ \A n \in 1..Len(nodes) : plain[n] \in Elements /\ tree[n] \in Elements
  BY Lengths
<1>1. /\ s \in Selectors /\ open # <<>> /\ NewSelector(s)
      /\ Grown(plain, plain', Top, Kind, s)
      /\ CaptureStep(s) \/ PlainStep(s)
      /\ nodes' = nodes /\ early' = early
  BY SelectorStep DEF SplitStep
<1>2. Top \in 1..Len(nodes) /\ nodes[Top].in_update = in_update
  BY <1>1, TopType, TopInUpdate
<1> HIDE DEF s
<1>9. /\ s \in Selectors /\ Top \in 1..Len(plain) /\ plain \in Seq(Elements)
      /\ Grown(plain, plain', Top, Kind, s)
  BY <1>0, <1>1, <1>2
<1>3. /\ plain'[Top].url = plain[Top].url
      /\ plain'[Top].selector = IF Kind = "Document" THEN plain[Top].selector ELSE s
      /\ \A n \in 1..Len(plain) : n # Top => plain'[n] = plain[n]
  <2>1. FieldsGrown(plain, plain', Top, Kind, s)
    BY ONLY <1>9, GrownFields
  <2> QED BY ONLY <2>1 DEF FieldsGrown
<1>4. StylesIn(plain') = IF Kind = "Document" THEN StylesIn(plain) \cup {s} ELSE StylesIn(plain)
  BY ONLY <1>9, GrownStyles
<1>5. s # NULL
  BY <1>1, NullAssumption
<1>6. SharedIn(plain) = SharedOf(shared)
  BY DEF InlineInv
<1>7. CASE CaptureStep(s)
  <2>1. /\ Kind = "Document" /\ s.id # NoId
        /\ shared' = Put(shared, s.id, s) /\ tree' = tree
    BY <1>7 DEF CaptureStep, Captures
  <2>2. \A x \in StylesIn(plain) : x.id # s.id
    <3> SUFFICES ASSUME NEW x \in StylesIn(plain) PROVE x.id # s.id
      OBVIOUS
    <3>1. PICK n \in 1..Len(nodes) : x \in ToSet(plain[n].styles)
      BY <1>0, StylesInAre
    <3>2. PICK i \in DOMAIN plain[n].styles : x = plain[n].styles[i]
      BY <3>1 DEF ToSet
    <3> QED BY <1>0, <1>1, <2>1, <3>2 DEF NewSelector
  <2>3. \A i \in AllIds : SharedIn(plain')[i] = SharedOf(shared')[i]
    <3> SUFFICES ASSUME NEW i \in AllIds PROVE SharedIn(plain')[i] = SharedOf(shared')[i]
      OBVIOUS
    <3>1. SharedIn(plain')[i] = {x \in StylesIn(plain) \cup {s} : x.id = i}
      BY <1>4, <2>1 DEF SharedIn
    <3>2. CASE i = s.id
      <4>1. SharedOf(shared')[i] = {s}
        BY <2>1, <3>2 DEF SharedOf, Put
      <4> QED BY <2>2, <3>1, <3>2, <4>1
    <3>3. CASE i # s.id
      <4>1. SharedOf(shared')[i] = SharedOf(shared)[i]
        BY <2>1, <3>3 DEF SharedOf, Put
      <4>2. SharedOf(shared)[i] = {x \in StylesIn(plain) : x.id = i}
        BY <1>6 DEF SharedIn
      <4> QED BY <3>1, <3>3, <4>1, <4>2
    <3> QED BY <3>2, <3>3
  <2>4. SharedOf(shared') = SharedIn(plain')
    BY <2>3 DEF SharedOf, SharedIn
  <2>5. \A n \in 1..Len(nodes') : Inlined(n)'
    BY <1>0, <1>1, <1>3, <2>1, InlinedStays
  <2> QED BY <2>4, <2>5 DEF InlineInv
<1>8. CASE PlainStep(s)
  <2>1. /\ Grown(tree, tree', Top, Kind, s) /\ shared' = shared /\ ~ Captures(s)
    BY <1>8 DEF PlainStep
  <2>2. /\ tree'[Top].url = tree[Top].url
        /\ tree'[Top].selector = IF Kind = "Document" THEN tree[Top].selector ELSE s
        /\ \A n \in 1..Len(tree) : n # Top => tree'[n] = tree[n]
    <3>1. Top \in 1..Len(tree) /\ tree \in Seq(Elements)
      BY <1>0, <1>2
    <3>2. s \in Selectors /\ Grown(tree, tree', Top, Kind, s)
      BY <1>9, <2>1
    <3>3. FieldsGrown(tree, tree', Top, Kind, s)
      BY ONLY <3>1, <3>2, GrownFields
    <3> QED BY ONLY <3>3 DEF FieldsGrown
  <2>3. Kind = "Document" => s.id = NoId
    <3> SUFFICES ASSUME Kind = "Document", s.id # NoId PROVE FALSE
      OBVIOUS
    <3>1. nodes'[Top].in_update
      BY <1>1, <1>2, <2>1 DEF Captures
    <3>2. plain'[Top] = WithStyle(plain[Top], s)
      BY <1>1, GrownAt
    <3>3. plain'[Top].styles = Append(plain[Top].styles, s)
      BY <1>0, <1>1, <1>2, <3>2, WithType
    <3>4. s \in ToSet(plain'[Top].styles)
      BY <1>0, <1>1, <1>2, <3>3, ElementType, ToSetOfAppend
    <3>5. ObserverTypes' /\ Top \in 1..Len(nodes')
      BY <1>1, <1>2, TypeSelector
    <3>6. DOMAIN nodes' = 1..Len(nodes')
      BY <3>5, LenProperties DEF ObserverTypes
    <3> QED BY <3>1, <3>4, <3>5, <3>6 DEF SharedInUpdate
  <2>4. \A i \in AllIds : SharedIn(plain')[i] = SharedIn(plain)[i]
    BY <1>4, <2>3, NullAssumption DEF SharedIn
  <2>5. SharedOf(shared') = SharedIn(plain')
    BY <1>6, <2>1, <2>4 DEF SharedIn
  <2>6. \A n \in 1..Len(nodes') : Inlined(n)'
    BY <1>0, <1>1, <1>3, <1>5, <2>2, InlinedStays
  <2> QED BY <2>5, <2>6 DEF InlineInv
<1> QED BY <1>1, <1>7, <1>8

LEMMA InlineUrl ==
    ASSUME ObserverTypes, Guarded, InlineInv, observer = "inliner", NEW id \in Ids, StyleUrl(id)
    PROVE  InlineInv'
<1>0. /\ Len(plain) = Len(nodes) /\ Len(tree) = Len(nodes) /\ Len(early) = Len(nodes)
      /\ plain \in Seq(Elements) /\ tree \in Seq(Elements)
      /\ \A n \in 1..Len(nodes) : plain[n] \in Elements /\ tree[n] \in Elements
  BY Lengths
<1>1. /\ open # <<>> /\ plain[Top].url = NoId
      /\ PutAt(plain, plain', Top, WithUrl(plain[Top], id))
      /\ early' = [early EXCEPT ![Top] = UrlMeans(id)]
      /\ Inlines(id) => /\ Resolved(id) \in Selectors
                        /\ PutAt(tree, tree', Top, WithSelector(tree[Top], Resolved(id)))
      /\ ~ Inlines(id) => PutAt(tree, tree', Top, WithUrl(tree[Top], id))
      /\ nodes' = nodes /\ shared' = shared
  BY UrlStep
<1>2. /\ Top \in 1..Len(nodes) /\ nodes[Top].in_update = in_update
      /\ id \in AllIds /\ id # NoId /\ id \in AllIds \cup {NoId}
  BY <1>1, TopType, TopInUpdate, IdsType, NullAssumption
<1>3. /\ WithUrl(plain[Top], id) \in Elements
      /\ WithUrl(plain[Top], id).url = id /\ WithUrl(plain[Top], id).styles = plain[Top].styles
      /\ WithUrl(plain[Top], id).selector = plain[Top].selector
  BY <1>0, <1>2, WithType
<1>4. \A n \in 1..Len(nodes) : n # Top => plain'[n] = plain[n] /\ tree'[n] = tree[n]
  BY <1>0, <1>1 DEF PutAt
<1>5. /\ plain'[Top].url = id /\ plain'[Top].selector = plain[Top].selector
  BY <1>1, <1>3 DEF PutAt
<1>6. /\ early'[Top] = UrlMeans(id) /\ \A n \in 1..Len(nodes) : n # Top => early'[n] = early[n]
  <2>1. early \in Seq(SUBSET Nat) /\ DOMAIN early = 1..Len(nodes)
    BY <1>0, LenProperties DEF ObserverTypes
  <2> QED BY <1>1, <1>2, <2>1
<1>7. SharedOf(shared') = SharedIn(plain')
  <2>1. StylesIn(plain') = StylesIn(plain)
    BY <1>0, <1>1, <1>2, <1>3, StylesInPut
  <2> QED BY <1>1, <2>1 DEF InlineInv, SharedIn
<1>8. ~ nodes[Top].in_update /\ UrlMeans(id) # {} => Inlines(id)
  <2> SUFFICES ASSUME ~ nodes[Top].in_update, UrlMeans(id) # {}, id \notin DOMAIN shared
               PROVE  FALSE
    BY <1>2 DEF Inlines
  <2>1. SharedIn(plain)[id] = {}
    BY <1>2 DEF InlineInv, SharedOf
  <2>2. SharedIn(plain) \in Names
    BY <1>0, SharedInType
  <2> QED BY <1>2, <2>1, <2>2, MeansOfNothing DEF UrlMeans
<1>9. ASSUME Inlines(id)
      PROVE  /\ tree'[Top].url = tree[Top].url /\ tree'[Top].selector # NULL
             /\ tree'[Top].selector.means = [what |-> "resolved", styles |-> UrlMeans(id)]
  <2>1. Resolved(id) \in Selectors /\ tree'[Top] = WithSelector(tree[Top], Resolved(id))
    BY <1>1, <1>9 DEF PutAt
  <2>4. /\ WithSelector(tree[Top], Resolved(id)).url = tree[Top].url
        /\ WithSelector(tree[Top], Resolved(id)).selector = Resolved(id)
    <3>1. tree[Top] \in Elements
      BY <1>0, <1>2
    <3> QED BY <2>1, <3>1, WithType
  <2>2. tree'[Top].url = tree[Top].url /\ tree'[Top].selector = Resolved(id)
    BY <2>1, <2>4
  <2>3. Resolved(id).means = [what |-> "resolved", styles |-> UrlMeans(id)]
    BY DEF Resolved, InlineInv, UrlMeans
  <2> QED BY <2>1, <2>2, <2>3, NullAssumption
<1>10. Inlined(Top)
  BY <1>2 DEF InlineInv
<1>11. \A n \in 1..Len(nodes') : Inlined(n)'
  <2> SUFFICES ASSUME NEW n \in 1..Len(nodes) PROVE Inlined(n)'
    BY <1>1
  <2>1. CASE n # Top
    <3>1. Inlined(n)
      BY DEF InlineInv
    <3> QED BY <1>1, <1>4, <1>6, <2>1, <3>1 DEF Inlined
  <2>2. CASE n = Top
    <3>1. plain'[n].url # NoId
      BY <1>2, <1>5, <2>2
    <3>2. tree[Top].url = NoId
      BY <1>1, <1>10 DEF Inlined
    <3> QED BY <1>1, <1>6, <1>8, <1>9, <2>2, <3>1, <3>2 DEF Inlined
  <2> QED BY <2>1, <2>2
<1> QED BY <1>7, <1>11 DEF InlineInv

(* Shared styles stay in the Documents they came into.                     *)
LEMMA SharedInUpdateStays ==
    ASSUME ObserverTypes, [Next]_vars, SharedInUpdate
    PROVE  SharedInUpdate'
<1>0. /\ Len(plain) = Len(nodes) /\ Len(nodes) \in Nat /\ plain \in Seq(Elements)
      /\ \A m \in 1..Len(nodes) : plain[m] \in Elements
  BY Lengths
<1>1. PICK n \in 1..Len(nodes) :
         nodes[n].in_update /\ \E s \in ToSet(plain[n].styles) : s.id # NoId
  BY SharedInUpdateIs
<1>2. PICK s \in ToSet(plain[n].styles) : s.id # NoId
  BY <1>1
<1> SUFFICES n \in DOMAIN nodes' /\ nodes'[n] = nodes[n] /\ s \in ToSet(plain'[n].styles)
  BY <1>1, <1>2 DEF SharedInUpdate
<1>3. n \in DOMAIN nodes /\ DOMAIN nodes = 1..Len(nodes)
  BY LenProperties DEF ObserverTypes
<1>4. ASSUME NEW kind \in Features \cup {"Update"}, StartElement(kind)
      PROVE  n \in DOMAIN nodes' /\ nodes'[n] = nodes[n] /\ s \in ToSet(plain'[n].styles)
  <2>1. /\ Len(nodes') = Len(nodes) + 1 /\ nodes'[n] = nodes[n] /\ PutAfter(plain, plain', Bare)
    BY <1>4, StartStep
  <2>2. DOMAIN nodes' = 1..Len(nodes')
    <3>1. ObserverTypes'
      BY <1>4, TypeStart
    <3> QED BY <3>1, LenProperties DEF ObserverTypes
  <2> QED BY <1>0, <1>2, <2>1, <2>2 DEF PutAfter
<1>5. ASSUME NEW id \in Ids \cup {NoId}, NEW means \in Meanings, StyleSelector(id, means)
      PROVE  n \in DOMAIN nodes' /\ nodes'[n] = nodes[n] /\ s \in ToSet(plain'[n].styles)
  <2> DEFINE r == SelectorOf(id, means)
  <2>1. r \in Selectors /\ open # <<>> /\ nodes' = nodes /\ Grown(plain, plain', Top, Kind, r)
    BY <1>5, SelectorStep
  <2> HIDE DEF r
  <2>2. Top \in 1..Len(nodes) /\ plain[Top] \in Elements
    BY <1>0, <2>1, TopType
  <2>3. CASE n # Top
    BY <1>0, <1>2, <1>3, <2>1, <2>3, GrownAt
  <2>4. CASE n = Top
    <3>1. /\ WithStyle(plain[Top], r).styles = Append(plain[Top].styles, r)
          /\ WithSelector(plain[Top], r).styles = plain[Top].styles
      BY <2>1, <2>2, WithType
    <3>2. ToSet(Append(plain[Top].styles, r)) = ToSet(plain[Top].styles) \cup {r}
      BY <2>1, <2>2, ElementType, ToSetOfAppend
    <3>3. plain'[Top] = WithStyle(plain[Top], r) \/ plain'[Top] = WithSelector(plain[Top], r)
      BY <2>1, GrownAt
    <3> QED BY <1>2, <1>3, <2>1, <2>4, <3>1, <3>2, <3>3
  <2> QED BY <2>3, <2>4
<1>6. ASSUME NEW id \in Ids, StyleUrl(id)
      PROVE  n \in DOMAIN nodes' /\ nodes'[n] = nodes[n] /\ s \in ToSet(plain'[n].styles)
  <2>1. open # <<>> /\ nodes' = nodes /\ PutAt(plain, plain', Top, WithUrl(plain[Top], id))
    BY <1>6, UrlStep
  <2>2. Top \in 1..Len(nodes) /\ plain[Top] \in Elements /\ id \in AllIds \cup {NoId}
    BY <1>0, <2>1, TopType, IdsType
  <2>3. WithUrl(plain[Top], id).styles = plain[Top].styles
    BY <2>2, WithType
  <2> QED BY <1>0, <1>2, <1>3, <2>1, <2>3 DEF PutAt
<1>7. EndElement => nodes' = nodes /\ plain' = plain
  BY DEF EndElement
<1>8. UNCHANGED vars => nodes' = nodes /\ plain' = plain
  BY DEF vars
<1> QED BY <1>2, <1>3, <1>4, <1>5, <1>6, <1>7, <1>8, Steps

LEMMA InlineNext ==
    ASSUME ObserverTypes, Guarded, InlineInv, observer = "inliner", ~ SharedInUpdate', [Next]_vars
    PROVE  InlineInv'
<1>1. EndElement => InlineInv'
  BY DEF EndElement, InlineInv, Inlined
<1>2. UNCHANGED vars => InlineInv'
  BY DEF vars, InlineInv, Inlined
<1> QED BY <1>1, <1>2, Steps, InlineStart, InlineSelector, InlineUrl

LEMMA InvInit == Init => IInv
<1>1. Init => UpdatesKept
  BY DEF Init, UpdatesKept, Kept
<1> QED BY <1>1, TypeInit, GuardedInit, BelowInit, SplitInit, InlineInit DEF IInv

LEMMA InvNext == IInv /\ [Next]_vars => IInv'
<1> SUFFICES ASSUME IInv, [Next]_vars PROVE IInv'
  OBVIOUS
<1>1. ObserverTypes /\ Guarded /\ Below /\ UpdatesKept /\ observer' = observer
  BY ObserverStays DEF IInv
<1>2. ObserverTypes' /\ Guarded' /\ Below' /\ UpdatesKept'
  BY <1>1, TypeNext, GuardedNext, BelowNext, UpdatesKeptNext
<1>3. ASSUME observer' = "splitter", ~ InlineIds' PROVE SplitInv'
  <2>1. observer = "splitter" /\ ~ InlineIds
    BY <1>1, <1>3, NoInlineIdsBefore
  <2>2. SplitInv
    BY <2>1 DEF IInv
  <2> QED BY <1>1, <1>3, <2>1, <2>2, SplitNext
<1>4. ASSUME observer' = "inliner", ~ SharedInUpdate' PROVE InlineInv'
  <2>1. observer = "inliner" /\ ~ SharedInUpdate
    BY <1>1, <1>4, SharedInUpdateStays
  <2>2. InlineInv
    BY <2>1 DEF IInv
  <2> QED BY <1>1, <1>4, <2>1, <2>2, InlineNext
<1> QED BY <1>2, <1>3, <1>4 DEF IInv

-----------------------------------------------------------------------------
(* What the relation of the two trees means for a Feature.                 *)
LEMMA InvAlways == Spec => []IInv
<1> QED BY InvInit, InvNext, PTL DEF Spec

LEMMA UpdatesUntouchedHolds == IInv => UpdatesUntouched
<1> SUFFICES ASSUME IInv PROVE UpdatesUntouched
  OBVIOUS
<1>0. ObserverTypes /\ Guarded /\ UpdatesKept
  BY DEF IInv
<1>1. in_update = InUpdateNow
  <2>1. in_update \in BOOLEAN
    BY <1>0 DEF ObserverTypes
  <2>2. CASE open = <<>>
    BY <1>0, <2>1, <2>2 DEF Guarded, InUpdateNow
  <2>3. CASE open # <<>>
    <3>1. nodes[Top].in_update = in_update
      BY <1>0, <2>3, TopInUpdate
    <3> QED BY <2>1, <2>3, <3>1 DEF InUpdateNow
  <2> QED BY <2>2, <2>3
<1>2. \A n \in DOMAIN nodes : nodes[n].in_update => tree[n] = plain[n] \/ IsHomeOfMore(n)
  <2>1. DOMAIN nodes = 1..Len(nodes)
    BY <1>0, LenProperties DEF ObserverTypes
  <2> QED BY <1>0, <2>1 DEF UpdatesKept, Kept
<1> QED BY <1>1, <1>2 DEF UpdatesUntouched

LEMMA AllAreSplitHolds == IInv => AllAreSplit
<1> SUFFICES ASSUME IInv, observer = "splitter", ~ OddDocument,
                    NEW n \in DOMAIN nodes,
                    nodes[n].kind \in NonDocument, ~ nodes[n].in_update, ~ Several(n),
                    document # NULL, document < n, plain[n].url = NoId
             PROVE  tree[n].selector = NULL
  BY DEF AllAreSplit
<1>1. n \in 1..Len(nodes)
  BY LenProperties DEF IInv, ObserverTypes
<1>2. SplitInv
  BY DEF IInv, OddDocument, InlineIds
<1> QED BY <1>1, <1>2 DEF SplitInv, NoneLeft, NonDocument

(* The Features of the splitter.                                           *)
LEMMA SharedAgree ==
    ASSUME ObserverTypes, SplitInv, Generated \cap IdsUsedIn(plain) = {}
    PROVE  /\ AgreeOutside(Generated, SharedIn(plain), SharedIn(tree))
           /\ \A i \in Generated : SharedIn(tree)[i] = {shared[i]}
           /\ SharedIn(plain) \in Names /\ SharedIn(tree) \in Names
<1>0. plain \in Seq(Elements) /\ tree \in Seq(Elements) /\ DOMAIN plain = 1..Len(plain)
  BY LenProperties DEF ObserverTypes
<1>1. SharedIn(plain) \in Names /\ SharedIn(tree) \in Names
  BY <1>0, SharedInType
<1>2. /\ StylesIn(tree) = StylesIn(plain) \cup {shared[i] : i \in Generated}
      /\ \A i \in Generated : shared[i].id = i
      /\ Generated \subseteq AllIds
  BY DEF SplitInv, SplitIds, SplitStyles, ObserverTypes
<1>3. StylesIn(plain) \subseteq SelectorsIn(plain)
  BY DEF StylesIn, SelectorsIn
<1>4. \A s \in SelectorsIn(plain) : /\ s.id \notin Generated
                                    /\ s.means.what = "map" => s.means.id \notin Generated
  BY DEF IdsUsedIn
<1>5. \A i \in AllIds \ Generated : SharedIn(plain)[i] = SharedIn(tree)[i]
  BY <1>2 DEF SharedIn
<1>6. \A i \in AllIds : Following(SharedIn(plain), i) \cap Generated = {}
  BY <1>3, <1>4 DEF Following, Targets, SharedIn
<1>7. \A i \in Generated : SharedIn(tree)[i] = {shared[i]}
  BY <1>2, <1>3, <1>4 DEF SharedIn
<1> QED BY <1>1, <1>5, <1>6, <1>7 DEF AgreeOutside

LEMMA SplitKeepsStylesHolds == IInv => SplitKeepsStyles
<1> SUFFICES ASSUME IInv, observer = "splitter", ~ OddDocument,
                    NEW n \in DOMAIN nodes, ~ Odd(n)
             PROVE  StyleOf(tree, n) = StyleOf(plain, n)
  BY DEF SplitKeepsStyles
<1> DEFINE p == SharedIn(plain)
           t == SharedIn(tree)
<1>0. ObserverTypes /\ n \in 1..Len(nodes)
  BY LenProperties DEF IInv, ObserverTypes
<1>1. SplitInv /\ Generated \cap IdsUsedIn(plain) = {}
  BY DEF IInv, OddDocument, InlineIds
<1>2. /\ AgreeOutside(Generated, p, t)
      /\ \A i \in Generated : t[i] = {shared[i]}
      /\ p \in Names /\ t \in Names
  BY <1>0, <1>1, SharedAgree
<1>3. /\ plain[n] \in Elements /\ tree[n] \in Elements
      /\ n \in DOMAIN plain
  BY <1>0, Lengths
<1>4. plain[n].url \notin Generated
  BY <1>1, <1>3 DEF IdsUsedIn
<1>5. plain[n].selector # NULL => /\ plain[n].selector \in Selectors
                                  /\ Targets(plain[n].selector.means) \cap Generated = {}
  <2> SUFFICES ASSUME plain[n].selector # NULL
               PROVE  /\ plain[n].selector \in Selectors
                      /\ Targets(plain[n].selector.means) \cap Generated = {}
    OBVIOUS
  <2>1. plain[n].selector \in Selectors
    BY <1>3, ElementType
  <2>2. plain[n].selector \in SelectorsIn(plain)
    BY <1>3 DEF SelectorsIn
  <2>3. plain[n].selector.means.what = "map" => plain[n].selector.means.id \notin Generated
    BY <1>1, <2>2 DEF IdsUsedIn
  <2> QED BY <2>1, <2>3 DEF Targets
<1> HIDE DEF p, t
<1>6. plain[n].selector # NULL => Means(t, plain[n].selector.means) = Means(p, plain[n].selector.means)
  BY <1>2, <1>5, SelectorType, MeansAgree
<1>7. Unsplit(n) \/ IsSplit(n)
  BY <1>0, <1>1 DEF SplitInv, EachSplit, Odd
<1>8. CASE Unsplit(n)
  <2>1. plain[n].url # NoId => Means(t, MapTo(plain[n].url)) = Means(p, MapTo(plain[n].url))
    <3> SUFFICES ASSUME plain[n].url # NoId
                 PROVE  Means(t, MapTo(plain[n].url)) = Means(p, MapTo(plain[n].url))
      OBVIOUS
    <3>1. plain[n].url \in AllIds
      BY <1>3, ElementType
    <3>2. MapTo(plain[n].url) \in Meanings
      BY <3>1, MapType
    <3>3. Targets(MapTo(plain[n].url)) = {plain[n].url}
      BY DEF Targets, MapTo
    <3> QED BY <1>2, <1>4, <3>2, <3>3, MeansAgree
  <2>2. ByUrl(tree, n) = ByUrl(plain, n)
    BY <1>8, <2>1 DEF ByUrl, Unsplit, p, t
  <2>3. Inline(tree, n) = Inline(plain, n)
    BY <1>6, <1>8 DEF Inline, Unsplit, p, t
  <2> QED BY <2>2, <2>3 DEF StyleOf
<1>9. CASE IsSplit(n)
  <2> DEFINE i == tree[n].url
             s == plain[n].selector
  <2>1. s # NULL /\ tree[n].selector = NULL /\ plain[n].url = NoId
    BY <1>9 DEF IsSplit, Odd
  <2>2. i \in Generated /\ shared[i] = Renamed(s, i)
    BY <1>1, <1>9, <2>1 DEF IsSplit, SplitInv, SplitIds
  <2>3. i \in AllIds /\ i # NoId
    BY <1>0, <1>1, <2>2, NullAssumption DEF SplitInv, SplitIds, ObserverTypes
  <2>4. s \in Selectors
    BY <1>5, <2>1
  <2> HIDE DEF i, s
  <2>5. Renamed(s, i) \in Selectors /\ Renamed(s, i).means = s.means
    BY <2>3, <2>4, RenamedType
  <2>6. t[i] = {Renamed(s, i)}
    BY <1>2, <2>2
  <2>7. Means(t, MapTo(i)) = Means(t, s.means)
    BY <1>2, <2>3, <2>5, <2>6, MeansOfOne
  <2>8. Means(t, s.means) = Means(p, s.means)
    BY <1>6, <2>1 DEF s
  <2>9. ByUrl(tree, n) = Means(p, s.means) /\ Inline(tree, n) = {}
    BY <2>1, <2>3, <2>7, <2>8 DEF ByUrl, Inline, t, i
  <2>10. ByUrl(plain, n) = {} /\ Inline(plain, n) = Means(p, s.means)
    BY <2>1 DEF ByUrl, Inline, p, s
  <2>11. StyleOf(tree, n) = Layer(Means(p, s.means)) \o Layer({})
    BY <2>9 DEF StyleOf
  <2>12. StyleOf(plain, n) = Layer({}) \o Layer(Means(p, s.means))
    BY <2>10 DEF StyleOf
  <2>13. \A styles : Layer(styles) \o Layer({}) = Layer({}) \o Layer(styles)
    BY DEF Layer
  <2> QED BY <2>11, <2>12, <2>13
<1> QED BY <1>7, <1>8, <1>9

LEMMA InlineKeepsStylesHolds == IInv => InlineKeepsStyles
<1> SUFFICES ASSUME IInv, observer = "inliner", ~ SharedInUpdate,
                    NEW n \in DOMAIN nodes,
                    ~ nodes[n].in_update, plain[n].selector = NULL, plain[n].url # NoId,
                    StyleOf(plain, n) = <<early[n]>>
             PROVE  StyleOf(tree, n) = StyleOf(plain, n)
  BY DEF InlineKeepsStyles
<1>1. n \in 1..Len(nodes)
  BY LenProperties DEF IInv, ObserverTypes
<1>2. Inlined(n)
  BY <1>1 DEF IInv, InlineInv
<1>3. StyleOf(plain, n) = Layer(ByUrl(plain, n)) \o Layer({})
  BY DEF StyleOf, Inline
<1>4. early[n] # {}
  <2>1. \A styles : Layer(styles) \o Layer({}) = <<early[n]>> => styles # {} /\ styles = early[n]
    <3> SUFFICES ASSUME NEW styles, Layer(styles) \o Layer({}) = <<early[n]>>
                 PROVE  styles # {} /\ styles = early[n]
      OBVIOUS
    <3>1. CASE styles = {}
      <4>1. Layer(styles) \o Layer({}) = <<>>
        BY <3>1 DEF Layer
      <4> QED BY <4>1
    <3>2. CASE styles # {}
      <4>1. Layer(styles) \o Layer({}) = <<styles>>
        BY <3>2 DEF Layer
      <4> QED BY <3>2, <4>1
    <3> QED BY <3>1, <3>2
  <2> QED BY <1>3, <2>1
<1>5. /\ tree[n].url = NoId /\ tree[n].selector # NULL
      /\ tree[n].selector.means = [what |-> "resolved", styles |-> early[n]]
  BY <1>2, <1>4 DEF Inlined
<1>6. ByUrl(tree, n) = {} /\ Inline(tree, n) = early[n]
  BY <1>5, MeansOfResolved DEF ByUrl, Inline
<1>7. StyleOf(tree, n) = <<early[n]>>
  BY <1>4, <1>6 DEF StyleOf, Layer
<1> QED BY <1>7

(* SplitStyles moves styles but changes none: in every document that is    *)
(* not odd, every Feature is drawn with what it was drawn with, through    *)
(* style maps of any depth (style_splitter.cc:75-98).                      *)
THEOREM SplitKeepsStylesAlways == Spec => []SplitKeepsStyles
BY InvAlways, SplitKeepsStylesHolds, PTL

(* After SplitStyles no Feature that has no styleUrl, and comes after the  *)
(* Document that takes the styles, has a style of its own                  *)
(* (style_splitter.h:42-47).                                               *)
THEOREM AllAreSplitAlways == Spec => []AllAreSplit
BY InvAlways, AllAreSplitHolds, PTL

(* At every moment the guard is on just while the innermost element is in  *)
(* the Update, and what is in the Update is as it was, whatever it holds,  *)
(* but for the splitter's own Document, which, if it is one of the         *)
(* Update's, gets more styles behind those it has (style_splitter.cc:42,   *)
(* :45 and :93, style_inliner.cc:66).                                      *)
THEOREM UpdatesUntouchedAlways == Spec => []UpdatesUntouched
BY InvAlways, UpdatesUntouchedHolds, PTL

(* InlineStyles gives a Feature a copy of all that its styleUrl stands     *)
(* for, if that comes before it and not in an Update (style_inliner.h:36). *)
THEOREM InlineKeepsStylesAlways == Spec => []InlineKeepsStyles
BY InvAlways, InlineKeepsStylesHolds, PTL

-----------------------------------------------------------------------------
(* StyleMerger against StyleRules, from here on.                           *)
LEMMA SmallestNat ==
    ASSUME NEW T \in SUBSET Nat, T # {}
    PROVE  \E m \in T : \A n \in T : m <= n
<1> DEFINE R == OpToRel(<, Nat)
<1>1. \E m \in T : \A n \in T : ~ (<<n, m>> \in R)
  BY NatLessThanWellFounded, WFMin
<1>2. \A m, n \in T : ~ (<<n, m>> \in R) => m <= n
  BY DEF OpToRel
<1> QED BY <1>1, <1>2

(* What holds of 0 and passes from k - 1 to k.                             *)
Passes(N, G) == 0 \in G /\ \A k \in 1..N : k - 1 \in G => k \in G

LEMMA UpTo ==
    ASSUME NEW N \in Nat, NEW G, Passes(N, G)
    PROVE  \A k \in 0..N : k \in G
<1> USE DEF Passes
<1> DEFINE T == {k \in 0..N : k \notin G}
<1> SUFFICES ASSUME T # {} PROVE FALSE
  OBVIOUS
<1>1. T \in SUBSET Nat
  OBVIOUS
<1>2. PICK m \in T : \A n \in T : m <= n
  <2> HIDE DEF T
  <2> QED BY <1>1, SmallestNat
<1>3. m \in 1..N /\ m - 1 \in 0..N /\ ~ (m <= m - 1)
  BY <1>2
<1>4. m - 1 \in G
  BY <1>2, <1>3
<1> QED BY <1>2, <1>3, <1>4

-----------------------------------------------------------------------------
(* FlattenSeq joins sequences one after the other.                         *)
FlatUpTo(ss, n, g) == g = [k \in 1..n |-> IF k = 1 THEN ss[k] ELSE g[k - 1] \o ss[k]]

LEMMA FlatExists == ASSUME NEW ss, NEW N \in Nat PROVE \E g : FlatUpTo(ss, N, g)
<1> DEFINE G == {n \in 0..N : \E g : FlatUpTo(ss, n, g)}
<1>1. 0 \in G
  <2> DEFINE g == [k \in 1..0 |-> <<>>]
  <2>1. FlatUpTo(ss, 0, g)
    BY DEF FlatUpTo
  <2> QED BY <2>1
<1>2. ASSUME NEW n \in 1..N, n - 1 \in G PROVE n \in G
  <2>1. PICK g : FlatUpTo(ss, n - 1, g)
    BY <1>2
  <2> DEFINE last == IF n = 1 THEN ss[n] ELSE g[n - 1] \o ss[n]
             h == [k \in 1..n |-> IF k = n THEN last ELSE g[k]]
  <2>2. ASSUME NEW k \in 1..n
        PROVE  h[k] = IF k = 1 THEN ss[k] ELSE h[k - 1] \o ss[k]
    <3>1. CASE k = n
      <4>1. k # 1 => h[k - 1] = g[n - 1]
        BY <3>1
      <4> QED BY <3>1, <4>1
    <3>2. CASE k # n
      <4>1. k \in 1..(n - 1) /\ h[k] = g[k]
        BY <3>2
      <4>2. k # 1 => h[k - 1] = g[k - 1]
        BY <4>1
      <4>3. g[k] = IF k = 1 THEN ss[k] ELSE g[k - 1] \o ss[k]
        BY <2>1, <4>1 DEF FlatUpTo
      <4> HIDE DEF h
      <4> QED BY <4>1, <4>2, <4>3
    <3> QED BY <3>1, <3>2
  <2>3. h = [k \in 1..n |-> h[k]]
    OBVIOUS
  <2> HIDE DEF h
  <2>4. FlatUpTo(ss, n, h)
    BY <2>2, <2>3 DEF FlatUpTo
  <2> QED BY <2>4
<1> HIDE DEF G
<1>3. Passes(N, G)
  BY <1>1, <1>2 DEF Passes
<1>4. \A k \in 0..N : k \in G
  BY ONLY N \in Nat, <1>3, UpTo
<1>5. N \in 0..N
  OBVIOUS
<1> QED BY <1>4, <1>5 DEF G

(* f[k] joins the first k.                                                 *)
JoinsTo(ss, f) == f[0] = <<>> /\ \A k \in 1..Len(ss) : f[k] = f[k - 1] \o ss[k]

LEMMA JoinsToTyped ==
    ASSUME NEW T, NEW ss \in Seq(Seq(T)), NEW f, JoinsTo(ss, f)
    PROVE  \A k \in 0..Len(ss) : f[k] \in Seq(T)
<1> DEFINE N == Len(ss)
           G == {k \in 0..N : f[k] \in Seq(T)}
<1>0. N \in Nat /\ \A k \in 1..N : ss[k] \in Seq(T)
  OBVIOUS
<1>1. f[0] = <<>> /\ \A k \in 1..N : f[k] = f[k - 1] \o ss[k]
  BY DEF JoinsTo
<1> HIDE DEF N
<1>2. 0 \in G
  <2>1. f[0] \in Seq(T)
    BY ONLY <1>1
  <2>2. 0 \in 0..N
    BY ONLY <1>0
  <2> QED BY ONLY <2>1, <2>2
<1>3. ASSUME NEW k \in 1..N, k - 1 \in G PROVE k \in G
  <2>1. f[k - 1] \in Seq(T) /\ ss[k] \in Seq(T)
    BY <1>0, <1>3
  <2>2. f[k - 1] \o ss[k] \in Seq(T)
    BY <2>1, ConcatProperties
  <2>3. f[k] \in Seq(T)
    BY <1>1, <2>2
  <2> QED BY <1>0, <2>3
<1> HIDE DEF G
<1>4. Passes(N, G)
  BY <1>2, <1>3 DEF Passes
<1>5. N \in Nat
  BY <1>0
<1>6. \A k \in 0..N : k \in G
  BY ONLY <1>4, <1>5, UpTo
<1> QED BY <1>6 DEF G, N

LEMMA JoinsToUnique ==
    ASSUME NEW ss, NEW tt, NEW f, NEW g, JoinsTo(ss, f), JoinsTo(tt, g),
           NEW N \in Nat, Len(ss) \in Nat, Len(tt) \in Nat, N <= Len(ss), N <= Len(tt),
           \A k \in 1..N : ss[k] = tt[k]
    PROVE  f[N] = g[N]
<1> DEFINE G == {k \in 0..N : f[k] = g[k]}
<1>1. 0 \in G
  BY DEF JoinsTo
<1>2. ASSUME NEW k \in 1..N, k - 1 \in G PROVE k \in G
  <2>1. k \in 1..Len(ss) /\ k \in 1..Len(tt) /\ f[k - 1] = g[k - 1] /\ ss[k] = tt[k]
    BY <1>2
  <2>2. f[k] = f[k - 1] \o ss[k] /\ g[k] = g[k - 1] \o tt[k]
    BY <2>1 DEF JoinsTo
  <2>3. f[k] = g[k]
    BY ONLY <2>1, <2>2
  <2> QED BY ONLY <2>3, k \in 1..N, N \in Nat
<1> HIDE DEF G
<1>3. Passes(N, G)
  BY <1>1, <1>2 DEF Passes
<1>4. \A k \in 0..N : k \in G
  BY ONLY N \in Nat, <1>3, UpTo
<1>5. N \in 0..N
  OBVIOUS
<1> QED BY <1>4, <1>5 DEF G

LEMMA FlattenIs ==
    ASSUME NEW T, NEW ss \in Seq(Seq(T))
    PROVE  \E f : JoinsTo(ss, f) /\ FlattenSeq(ss) = f[Len(ss)]
<1> DEFINE N == Len(ss)
           g == CHOOSE h : FlatUpTo(ss, N, h)
<1>0. N \in Nat
  OBVIOUS
<1>1. FlatUpTo(ss, N, g)
  <2> HIDE DEF N
  <2> QED BY <1>0, FlatExists
<1>2. N # 0 => FlattenSeq(ss) = g[N]
  BY DEF FlattenSeq, FlatUpTo
<1>3. N = 0 => FlattenSeq(ss) = <<>>
  BY DEF FlattenSeq
<1> DEFINE f == [k \in 0..N |-> IF k = 0 THEN <<>> ELSE g[k]]
<1> HIDE DEF g
<1>4. \A k \in 1..N : g[k] = IF k = 1 THEN ss[k] ELSE g[k - 1] \o ss[k]
  <2> HIDE DEF N
  <2> QED BY <1>1 DEF FlatUpTo
<1>5. ASSUME NEW k \in 1..N PROVE f[k] = f[k - 1] \o ss[k]
  <2>1. ss[k] \in Seq(T)
    OBVIOUS
  <2>2. <<>> \o ss[k] = ss[k]
    BY <2>1, ConcatEmptySeq
  <2> HIDE DEF N
  <2>3. CASE k = 1
    <3>1. f[k] = g[k] /\ f[k - 1] = <<>> /\ g[k] = ss[k]
      BY <1>0, <1>4, <2>3
    <3> QED BY <2>2, <3>1
  <2>4. CASE k # 1
    <3>0. k \in 0..N /\ k - 1 \in 0..N /\ k - 1 # 0 /\ k # 0
      BY <1>0, <2>4
    <3>1. f[k] = g[k] /\ f[k - 1] = g[k - 1] /\ g[k] = g[k - 1] \o ss[k]
      BY <1>4, <2>4, <3>0
    <3> QED BY <3>1
  <2> QED BY <2>3, <2>4
<1>6. f[0] = <<>>
  BY <1>0
<1>7. f[N] = IF N = 0 THEN <<>> ELSE g[N]
  BY <1>0
<1> HIDE DEF f
<1>8. JoinsTo(ss, f)
  BY <1>5, <1>6 DEF JoinsTo
<1> QED BY <1>2, <1>3, <1>7, <1>8

LEMMA FlattenType ==
    ASSUME NEW T, NEW ss \in Seq(Seq(T)) PROVE FlattenSeq(ss) \in Seq(T)
<1>1. PICK f : JoinsTo(ss, f) /\ FlattenSeq(ss) = f[Len(ss)]
  BY FlattenIs
<1>2. Len(ss) \in 0..Len(ss)
  OBVIOUS
<1> QED BY <1>1, <1>2, JoinsToTyped

LEMMA FlattenEmpty == FlattenSeq(<<>>) = <<>>
BY DEF FlattenSeq

LEMMA FlattenAppend ==
    ASSUME NEW T, NEW ss \in Seq(Seq(T)), NEW s \in Seq(T)
    PROVE  FlattenSeq(Append(ss, s)) = FlattenSeq(ss) \o s
<1> DEFINE tt == Append(ss, s)
           N == Len(ss)
<1>1. /\ tt \in Seq(Seq(T)) /\ Len(tt) = N + 1 /\ tt[N + 1] = s /\ N \in Nat
      /\ \A k \in 1..N : ss[k] = tt[k]
  BY AppendProperties
<1>2. PICK f : JoinsTo(ss, f) /\ FlattenSeq(ss) = f[N]
  BY FlattenIs
<1> HIDE DEF tt
<1>3. PICK g : JoinsTo(tt, g) /\ FlattenSeq(tt) = g[Len(tt)]
  BY <1>1, FlattenIs
<1>4. f[N] = g[N]
  <2>1. Len(ss) \in Nat /\ Len(tt) \in Nat /\ N <= Len(ss) /\ N <= Len(tt) /\ N \in Nat
    BY <1>1
  <2>2. \A k \in 1..N : ss[k] = tt[k]
    BY <1>1
  <2>3. JoinsTo(ss, f) /\ JoinsTo(tt, g)
    BY <1>2, <1>3
  <2> HIDE DEF N
  <2> QED BY ONLY <2>1, <2>2, <2>3, JoinsToUnique
<1> HIDE DEF N
<1>5. N + 1 \in 1..Len(tt) /\ (N + 1) - 1 = N
  BY <1>1
<1>6. g[N + 1] = g[N] \o tt[N + 1]
  BY <1>3, <1>5 DEF JoinsTo
<1> QED BY <1>1, <1>2, <1>3, <1>4, <1>6 DEF tt, N

LEMMA FlattenSingle ==
    ASSUME NEW T, NEW s \in Seq(T) PROVE FlattenSeq(<<s>>) = s
<1>1. <<>> \in Seq(Seq(T)) /\ Append(<<>>, s) = <<s>>
  OBVIOUS
<1>2. FlattenSeq(Append(<<>>, s)) = FlattenSeq(<<>>) \o s
  BY <1>1, FlattenAppend
<1>3. <<>> \o s = s
  BY ConcatEmptySeq
<1> QED BY <1>1, <1>2, <1>3, FlattenEmpty

LEMMA Associative ==
    \A T : \A a, b, c \in Seq(T) : (a \o b) \o c = a \o (b \o c)
BY ConcatAssociative

LEMMA FlattenConcat ==
    ASSUME NEW T, NEW ss \in Seq(Seq(T)), NEW tt \in Seq(Seq(T))
    PROVE  FlattenSeq(ss \o tt) = FlattenSeq(ss) \o FlattenSeq(tt)
<1> DEFINE K == Len(ss)
           N == Len(tt)
           uu == ss \o tt
<1>1. /\ uu \in Seq(Seq(T)) /\ Len(uu) = K + N /\ K \in Nat /\ N \in Nat
      /\ \A i \in 1..(K + N) : uu[i] = IF i <= K THEN ss[i] ELSE tt[i - K]
  BY ConcatProperties
<1>2. PICK f : JoinsTo(ss, f) /\ FlattenSeq(ss) = f[K]
  BY FlattenIs
<1>3. PICK g : JoinsTo(tt, g) /\ FlattenSeq(tt) = g[N]
  BY FlattenIs
<1> HIDE DEF uu
<1>4. PICK h : JoinsTo(uu, h) /\ FlattenSeq(uu) = h[Len(uu)]
  BY <1>1, FlattenIs
<1>5. f[K] \in Seq(T) /\ \A k \in 0..N : g[k] \in Seq(T)
  <2>1. \A k \in 0..K : f[k] \in Seq(T)
    BY <1>2, JoinsToTyped
  <2>2. \A k \in 0..N : g[k] \in Seq(T)
    BY <1>3, JoinsToTyped
  <2> QED BY <1>1, <2>1, <2>2
<1>6. h[K] = f[K]
  <2>1. \A k \in 1..K : ss[k] = uu[k]
    BY <1>1
  <2>2. Len(uu) \in Nat /\ K <= Len(uu) /\ K <= Len(ss) /\ Len(ss) \in Nat /\ K \in Nat
    BY <1>1
  <2>3. JoinsTo(ss, f) /\ JoinsTo(uu, h)
    BY <1>2, <1>4
  <2> HIDE DEF K
  <2>4. f[K] = h[K]
    BY ONLY <2>1, <2>2, <2>3, JoinsToUnique
  <2> QED BY <2>4
<1>7. \A k \in 1..N : tt[k] \in Seq(T)
  OBVIOUS
<1>8. \A k \in 1..N : g[k] = g[k - 1] \o tt[k]
  BY <1>3 DEF JoinsTo
<1>9. \A i \in 1..(K + N) : h[i] = h[i - 1] \o uu[i]
  BY <1>1, <1>4 DEF JoinsTo
<1>10. g[0] = <<>>
  BY <1>3 DEF JoinsTo
<1>11. FlattenSeq(ss) = f[K] /\ FlattenSeq(tt) = g[N] /\ FlattenSeq(uu) = h[K + N]
  BY <1>1, <1>2, <1>3, <1>4
<1> HIDE DEF K, N
<1> DEFINE G == {k \in 0..N : h[K + k] = f[K] \o g[k]}
<1>12. 0 \in G
  <2>1. K + 0 = K /\ 0 \in 0..N
    BY ONLY <1>1
  <2>2. f[K] \o <<>> = f[K]
    BY <1>5, ConcatEmptySeq
  <2>3. h[K + 0] = f[K] \o g[0]
    BY ONLY <1>6, <1>10, <2>1, <2>2
  <2> QED BY ONLY <2>1, <2>3
<1>13. ASSUME NEW k \in 1..N, k - 1 \in G PROVE k \in G
  <2>1. /\ K + k \in 1..(K + N) /\ (K + k) - 1 = K + (k - 1) /\ (K + k) - K = k
        /\ ~ (K + k <= K) /\ k \in 0..N /\ k - 1 \in 0..N
    BY ONLY <1>1, k \in 1..N
  <2>2. h[K + k] = h[(K + k) - 1] \o uu[K + k]
    BY ONLY <1>9, <2>1
  <2>3. uu[K + k] = tt[k]
    BY ONLY <1>1, <2>1
  <2>4. h[K + (k - 1)] = f[K] \o g[k - 1]
    BY <1>13
  <2>5. g[k] = g[k - 1] \o tt[k]
    BY <1>8
  <2>6. (f[K] \o g[k - 1]) \o tt[k] = f[K] \o (g[k - 1] \o tt[k])
    <3>1. f[K] \in Seq(T) /\ g[k - 1] \in Seq(T) /\ tt[k] \in Seq(T)
      BY <1>5, <1>7, <2>1
    <3> DEFINE a == f[K]
               b == g[k - 1]
               c == tt[k]
    <3>2. a \in Seq(T) /\ b \in Seq(T) /\ c \in Seq(T)
      BY <3>1
    <3> HIDE DEF a, b, c
    <3>3. (a \o b) \o c = a \o (b \o c)
      BY ONLY <3>2
    <3> QED BY ONLY <3>3 DEF a, b, c
  <2>7. h[K + k] = f[K] \o g[k]
    BY ONLY <2>1, <2>2, <2>3, <2>4, <2>5, <2>6
  <2> QED BY ONLY <2>1, <2>7
<1> HIDE DEF G
<1>14. Passes(N, G)
  BY <1>12, <1>13 DEF Passes
<1>15. N \in Nat
  BY <1>1
<1>16. \A k \in 0..N : k \in G
  BY ONLY <1>14, <1>15, UpTo
<1>17. N \in G
  BY ONLY <1>15, <1>16
<1> QED BY <1>11, <1>17 DEF G, uu

-----------------------------------------------------------------------------
(* s is in t, in its order: somewhere among its elements.                  *)
Embeds(s, t, f) ==
    /\ \A i \in 1..Len(s) : f[i] \in 1..Len(t) /\ t[f[i]] = s[i]
    /\ \A i, j \in 1..Len(s) : i < j => f[i] < f[j]

Within(s, t) == \E f : Embeds(s, t, f)

LEMMA WithinSelf == ASSUME NEW T, NEW s \in Seq(T) PROVE Within(s, s)
<1> DEFINE f == [i \in 1..Len(s) |-> i]
<1>1. Embeds(s, s, f)
  BY DEF Embeds
<1> QED BY <1>1 DEF Within

(* What is dropped from the middle.                                        *)
LEMMA WithinDrop ==
    ASSUME NEW T, NEW a \in Seq(T), NEW b \in Seq(T), NEW c \in Seq(T), NEW t \in Seq(T),
           Within(a \o (b \o c), t)
    PROVE  Within(a \o c, t)
<1> DEFINE s == a \o (b \o c)
           u == a \o c
           l == Len(a)
           m == Len(b)
           n == Len(c)
<1>1. /\ l \in Nat /\ m \in Nat /\ n \in Nat /\ Len(t) \in Nat
      /\ b \o c \in Seq(T) /\ Len(b \o c) = m + n
      /\ \A i \in 1..(m + n) : (b \o c)[i] = IF i <= m THEN b[i] ELSE c[i - m]
  BY ConcatProperties
<1>2. /\ Len(s) = l + (m + n)
      /\ \A i \in 1..(l + (m + n)) : s[i] = IF i <= l THEN a[i] ELSE (b \o c)[i - l]
  BY <1>1, ConcatProperties
<1>3. /\ Len(u) = l + n
      /\ \A i \in 1..(l + n) : u[i] = IF i <= l THEN a[i] ELSE c[i - l]
  BY ConcatProperties
<1>4. PICK f : Embeds(s, t, f)
  BY DEF Within
<1> HIDE DEF s, u, l, m, n
<1> DEFINE At(i) == IF i <= l THEN i ELSE i + m
           g == [i \in 1..(l + n) |-> f[At(i)]]
<1>5. ASSUME NEW i \in 1..(l + n)
      PROVE  At(i) \in 1..Len(s) /\ s[At(i)] = u[i]
  <2>1. CASE i <= l
    <3>1. At(i) = i /\ i \in 1..(l + (m + n))
      BY ONLY <1>1, <2>1, i \in 1..(l + n)
    <3> QED BY <1>2, <1>3, <2>1, <3>1
  <2>2. CASE ~ (i <= l)
    <3>1. /\ At(i) = i + m /\ i + m \in 1..(l + (m + n)) /\ ~ (i + m <= l)
          /\ (i + m) - l \in 1..(m + n) /\ ~ ((i + m) - l <= m) /\ ((i + m) - l) - m = i - l
      BY ONLY <1>1, <2>2, i \in 1..(l + n)
    <3>2. s[i + m] = (b \o c)[(i + m) - l]
      BY ONLY <1>2, <3>1
    <3>3. (b \o c)[(i + m) - l] = c[i - l]
      BY ONLY <1>1, <3>1
    <3>4. u[i] = c[i - l]
      BY ONLY <1>3, <2>2, i \in 1..(l + n)
    <3> QED BY <1>2, <3>1, <3>2, <3>3, <3>4
  <2> QED BY <2>1, <2>2
<1>6. ASSUME NEW i \in 1..(l + n), NEW j \in 1..(l + n), i < j PROVE At(i) < At(j)
  BY <1>1, <1>6
<1>7. \A i \in 1..Len(s) : f[i] \in 1..Len(t) /\ t[f[i]] = s[i]
  BY <1>4 DEF Embeds
<1>8. \A i, j \in 1..Len(s) : i < j => f[i] < f[j]
  BY <1>4 DEF Embeds
<1> HIDE DEF At
<1>9. ASSUME NEW i \in 1..(l + n) PROVE g[i] \in 1..Len(t) /\ t[g[i]] = u[i]
  BY <1>5, <1>7
<1>10. ASSUME NEW i \in 1..(l + n), NEW j \in 1..(l + n), i < j PROVE g[i] < g[j]
  <2>1. At(i) \in 1..Len(s) /\ At(j) \in 1..Len(s) /\ At(i) < At(j)
    BY <1>5, <1>6, <1>10
  <2> QED BY <1>8, <2>1
<1> HIDE DEF g
<1>11. Embeds(u, t, g)
  BY <1>3, <1>9, <1>10 DEF Embeds
<1> QED BY <1>11 DEF Within, u

LEMMA WithinPrefix ==
    ASSUME NEW T, NEW a \in Seq(T), NEW b \in Seq(T), NEW t \in Seq(T), Within(a \o b, t)
    PROVE  Within(a, t)
<1>1. <<>> \in Seq(T) /\ b \o <<>> = b /\ a \o <<>> = a
  BY ConcatEmptySeq
<1>2. Within(a \o (b \o <<>>), t)
  BY <1>1
<1>3. Within(a \o <<>>, t)
  BY <1>1, <1>2, WithinDrop
<1> QED BY <1>1, <1>3

(* Both go on alike.                                                       *)
LEMMA WithinMore ==
    ASSUME NEW T, NEW s \in Seq(T), NEW t \in Seq(T), NEW x \in Seq(T), Within(s, t)
    PROVE  Within(s \o x, t \o x)
<1> DEFINE l == Len(s)
           m == Len(t)
           n == Len(x)
           v == s \o x
           w == t \o x
<1>1. /\ l \in Nat /\ m \in Nat /\ n \in Nat
      /\ Len(v) = l + n
      /\ \A i \in 1..(l + n) : v[i] = IF i <= l THEN s[i] ELSE x[i - l]
      /\ Len(w) = m + n
      /\ \A i \in 1..(m + n) : w[i] = IF i <= m THEN t[i] ELSE x[i - m]
  BY ConcatProperties
<1>2. PICK f : Embeds(s, t, f)
  BY DEF Within
<1>3. /\ \A i \in 1..l : f[i] \in 1..m /\ t[f[i]] = s[i]
      /\ \A i, j \in 1..l : i < j => f[i] < f[j]
  BY <1>2 DEF Embeds
<1> HIDE DEF l, m, n, v, w
<1> DEFINE At(i) == IF i <= l THEN f[i] ELSE (i - l) + m
           g == [i \in 1..(l + n) |-> At(i)]
<1>4. ASSUME NEW i \in 1..(l + n)
      PROVE  At(i) \in 1..(m + n) /\ w[At(i)] = v[i]
  <2>1. CASE i <= l
    <3>1. i \in 1..l /\ At(i) = f[i] /\ f[i] \in 1..m /\ t[f[i]] = s[i]
      BY <1>1, <1>3, <2>1
    <3>2. f[i] \in 1..(m + n) /\ f[i] <= m
      BY ONLY <1>1, <3>1
    <3>3. w[f[i]] = t[f[i]] /\ v[i] = s[i]
      BY ONLY <1>1, <2>1, <3>2, i \in 1..(l + n)
    <3> QED BY ONLY <3>1, <3>2, <3>3
  <2>2. CASE ~ (i <= l)
    <3>1. /\ At(i) = (i - l) + m /\ (i - l) + m \in 1..(m + n) /\ ~ ((i - l) + m <= m)
          /\ ((i - l) + m) - m = i - l
      BY ONLY <1>1, <2>2, i \in 1..(l + n)
    <3>2. w[(i - l) + m] = x[i - l] /\ v[i] = x[i - l]
      BY ONLY <1>1, <2>2, <3>1, i \in 1..(l + n)
    <3> QED BY ONLY <3>1, <3>2
  <2> QED BY <2>1, <2>2
<1>5. ASSUME NEW i \in 1..(l + n), NEW j \in 1..(l + n), i < j PROVE At(i) < At(j)
  <2>1. CASE j <= l
    <3>1. i \in 1..l /\ j \in 1..l /\ At(i) = f[i] /\ At(j) = f[j]
      BY <1>1, <1>5, <2>1
    <3> QED BY <1>3, <1>5, <3>1
  <2>2. CASE i <= l /\ ~ (j <= l)
    <3>1. i \in 1..l /\ At(i) = f[i] /\ At(j) = (j - l) + m /\ f[i] \in 1..m
      BY <1>1, <1>3, <2>2
    <3> QED BY ONLY <1>1, <2>2, <3>1, j \in 1..(l + n)
  <2>3. CASE ~ (i <= l)
    <3>1. At(i) = (i - l) + m /\ At(j) = (j - l) + m
      BY <1>1, <1>5, <2>3
    <3> QED BY ONLY <1>1, <1>5, <3>1, i \in 1..(l + n), j \in 1..(l + n)
  <2> QED BY <2>1, <2>2, <2>3
<1> HIDE DEF At
<1>6. \A i \in 1..Len(v) : g[i] \in 1..Len(w) /\ w[g[i]] = v[i]
  BY <1>1, <1>4
<1>7. \A i, j \in 1..Len(v) : i < j => g[i] < g[j]
  BY <1>1, <1>5
<1> HIDE DEF g
<1>8. Embeds(v, w, g)
  BY <1>6, <1>7 DEF Embeds
<1> QED BY <1>8 DEF Within, v, w

-----------------------------------------------------------------------------
(* IsSubsequence counts how far s is matched.                              *)
Counts(s, t, N, m) ==
    m = [k \in 0..N |->
           IF k = 0 THEN 0
           ELSE IF m[k - 1] < Len(s) /\ s[m[k - 1] + 1] = t[k] THEN m[k - 1] + 1
                                                               ELSE m[k - 1]]

LEMMA CountsExists == ASSUME NEW s, NEW t, NEW N \in Nat PROVE \E m : Counts(s, t, N, m)
<1> DEFINE G == {n \in 0..N : \E m : Counts(s, t, n, m)}
<1>1. 0 \in G
  <2> DEFINE m == [k \in 0..0 |-> 0]
  <2>1. Counts(s, t, 0, m)
    BY DEF Counts
  <2> QED BY <2>1
<1>2. ASSUME NEW n \in 1..N, n - 1 \in G PROVE n \in G
  <2>1. PICK m : Counts(s, t, n - 1, m)
    BY <1>2
  <2> DEFINE Onward(i, k) == IF i < Len(s) /\ s[i + 1] = t[k] THEN i + 1 ELSE i
             h == [k \in 0..n |-> IF k = n THEN Onward(m[n - 1], n) ELSE m[k]]
  <2>2. \A k \in 0..(n - 1) : m[k] = IF k = 0 THEN 0 ELSE Onward(m[k - 1], k)
    BY <2>1 DEF Counts
  <2> HIDE DEF Onward
  <2>3. ASSUME NEW k \in 0..n
        PROVE  h[k] = IF k = 0 THEN 0 ELSE Onward(h[k - 1], k)
    <3>1. CASE k = n
      <4>1. h[k - 1] = m[n - 1] /\ k # 0
        BY <3>1
      <4> QED BY <3>1, <4>1
    <3>2. CASE k # n
      <4>1. k \in 0..(n - 1) /\ h[k] = m[k]
        BY <3>2
      <4>2. k # 0 => h[k - 1] = m[k - 1]
        BY <4>1
      <4> HIDE DEF h
      <4> QED BY <2>2, <4>1, <4>2
    <3> QED BY <3>1, <3>2
  <2>4. h = [k \in 0..n |-> h[k]]
    OBVIOUS
  <2> HIDE DEF h
  <2>5. Counts(s, t, n, h)
    BY <2>3, <2>4 DEF Counts, Onward
  <2> QED BY <2>5
<1> HIDE DEF G
<1>3. Passes(N, G)
  BY <1>1, <1>2 DEF Passes
<1>4. \A k \in 0..N : k \in G
  BY ONLY N \in Nat, <1>3, UpTo
<1>5. N \in 0..N
  OBVIOUS
<1> QED BY <1>4, <1>5 DEF G

LEMMA WithinIsSubsequence ==
    ASSUME NEW T, NEW s \in Seq(T), NEW t \in Seq(T), Within(s, t)
    PROVE  IsSubsequence(s, t)
<1> DEFINE N == Len(t)
           L == Len(s)
           m == CHOOSE w : Counts(s, t, N, w)
<1>1. N \in Nat /\ L \in Nat
  OBVIOUS
<1>2. Counts(s, t, N, m)
  <2> HIDE DEF N
  <2> QED BY <1>1, CountsExists
<1>3. IsSubsequence(s, t) <=> m[N] = L
  BY DEF IsSubsequence, Counts
<1> HIDE DEF m
<1>4. m[0] = 0 /\ \A k \in 1..N : m[k] = IF m[k - 1] < L /\ s[m[k - 1] + 1] = t[k]
                                          THEN m[k - 1] + 1 ELSE m[k - 1]
  <2> HIDE DEF N, L
  <2>1. 0 \in 0..N /\ \A k \in 1..N : k \in 0..N /\ k # 0
    BY <1>1
  <2> QED BY <1>2, <2>1 DEF Counts, L
<1>5. PICK f : Embeds(s, t, f)
  BY DEF Within
<1>6. /\ \A i \in 1..L : f[i] \in 1..N /\ t[f[i]] = s[i]
      /\ \A i, j \in 1..L : i < j => f[i] < f[j]
  BY <1>5 DEF Embeds
<1> HIDE DEF N, L
<1> DEFINE Far(k) == \A i \in 1..L : f[i] <= k => i <= m[k]
           G == {k \in 0..N : m[k] \in 0..L /\ Far(k)}
<1>7. 0 \in G
  <2>1. m[0] \in 0..L /\ 0 \in 0..N
    BY <1>1, <1>4
  <2>2. \A i \in 1..L : ~ (f[i] <= 0)
    BY <1>1, <1>6
  <2> QED BY <2>1, <2>2
<1>8. ASSUME NEW k \in 1..N, k - 1 \in G PROVE k \in G
  <2>1. m[k - 1] \in 0..L /\ Far(k - 1) /\ k \in 0..N
    BY <1>8
  <2>2. m[k] \in 0..L /\ m[k - 1] <= m[k]
    <3>1. m[k] = m[k - 1] \/ (m[k] = m[k - 1] + 1 /\ m[k - 1] < L)
      BY <1>4
    <3>2. m[k - 1] \in 0..L
      BY <2>1
    <3> HIDE DEF G, Far
    <3> QED BY ONLY <1>1, <3>1, <3>2
  <2>3. ASSUME NEW i \in 1..L, f[i] <= k PROVE i <= m[k]
    <3>0. f[i] \in 1..N /\ t[f[i]] = s[i]
      BY <1>6
    <3>1. CASE f[i] <= k - 1
      <4>1. i <= m[k - 1]
        BY <2>1, <3>1
      <4> QED BY <1>1, <2>1, <2>2, <4>1
    <3>2. CASE ~ (f[i] <= k - 1)
      <4>1. f[i] = k
        BY <1>1, <2>3, <3>0, <3>2
      <4>2. i - 1 <= m[k - 1]
        <5>1. CASE i = 1
          BY <1>1, <2>1, <5>1
        <5>2. CASE i # 1
          <6>1. i - 1 \in 1..L /\ i - 1 < i
            BY <1>1, <5>2
          <6>2. f[i - 1] < f[i] /\ f[i - 1] \in 1..N
            BY <1>6, <6>1
          <6>3. f[i - 1] <= k - 1
            BY <1>1, <4>1, <6>2
          <6> QED BY <2>1, <6>1, <6>3
        <5> QED BY <5>1, <5>2
      <4>3. CASE i <= m[k - 1]
        BY <1>1, <2>1, <2>2, <4>3
      <4>4. CASE ~ (i <= m[k - 1])
        <5>1. m[k - 1] + 1 = i /\ m[k - 1] < L
          BY <1>1, <2>1, <4>2, <4>4
        <5>2. s[m[k - 1] + 1] = t[k]
          BY <3>0, <4>1, <5>1
        <5>3. m[k] = i
          BY <1>4, <5>1, <5>2
        <5> QED BY <1>1, <5>3
      <4> QED BY <4>3, <4>4
    <3> QED BY <3>1, <3>2
  <2> QED BY <2>1, <2>2, <2>3
<1> HIDE DEF Far
<1>9. N \in G
  <2> HIDE DEF G
  <2>1. Passes(N, G)
    BY <1>7, <1>8 DEF Passes
  <2>2. \A k \in 0..N : k \in G
    BY ONLY <1>1, <2>1, UpTo
  <2> QED BY <1>1, <2>2
<1>10. m[N] = L
  <2>1. m[N] \in 0..L /\ Far(N)
    BY <1>9
  <2>2. CASE L = 0
    BY <2>1, <2>2
  <2>3. CASE L # 0
    <3>1. L \in 1..L /\ f[L] <= N
      <4>1. L \in 1..L
        BY <1>1, <2>3
      <4>2. f[L] \in 1..N
        BY <1>6, <4>1
      <4> QED BY <1>1, <4>1, <4>2
    <3>2. L <= m[N]
      BY <2>1, <3>1 DEF Far
    <3> QED BY <1>1, <2>1, <3>2
  <2> QED BY <2>2, <2>3
<1> QED BY <1>3, <1>10 DEF N, L

-----------------------------------------------------------------------------
(* The state of a merger: what it is given, and what is left to do.        *)
Works(files) ==
    [what : {"url"}, url : Urls, file : DOMAIN files]
        \cup [what : {"selector"}, selector : StyleSelectors, file : DOMAIN files]

Types ==
    /\ World \in Worlds
    /\ nesting_depth \in Int /\ nesting_depth <= MaxNesting
    /\ todo \in Seq(Works(site))
    /\ merged \in Seq(Styles)
    /\ called \in Seq(StyledFeatures)

LEMMA BaseIsThere == ASSUME NEW world \in Worlds PROVE Base \in DOMAIN world.site
BY SelectorsAssumption DEF Worlds

LEMMA FeatureFields ==
    ASSUME NEW f \in StyledFeatures
    PROVE  f.url \in Urls /\ f.selector \in StyleSelectors \cup {NoSelector}
BY SelectorsAssumption

LEMMA PairFields ==
    ASSUME NEW s \in StyleSelectors, IsStyleMap(s)
    PROVE  /\ s.pairs \in Seq(Pairs)
           /\ \A i \in DOMAIN s.pairs : /\ s.pairs[i].url \in Urls
                                        /\ s.pairs[i].selector \in StyleSelectors \cup {NoSelector}
<1>1. s.pairs \in Seq(Pairs)
  BY SelectorsAssumption
<1>2. \A i \in DOMAIN s.pairs : s.pairs[i] \in Pairs
  BY <1>1
<1> QED BY <1>1, <1>2 DEF Pairs

LEMMA EitherSelector ==
    ASSUME NEW s \in StyleSelectors
    PROVE  /\ s # NoSelector
           /\ IsStyle(s) <=> ~ IsStyleMap(s)
<1>1. IsStyle(s) <=> ~ IsStyleMap(s)
  BY SelectorsAssumption
<1>2. (IsStyle(s) => s # NoSelector) /\ (IsStyleMap(s) => s # NoSelector)
  BY DEF IsStyle, IsStyleMap
<1> QED BY <1>1, <1>2

LEMMA SharedFields ==
    ASSUME NEW world \in Worlds, NEW file, NEW id
    PROVE  \/ SharedStyle(world.site, file, id) = NoSelector
           \/ SharedStyle(world.site, file, id) \in StyleSelectors /\ file \in DOMAIN world.site
BY SelectorsAssumption DEF Worlds, SharedStyle

LEMMA UrlWorkType ==
    ASSUME NEW files, NEW url \in Urls, NEW file \in DOMAIN files
    PROVE  UrlWork(url, file) \in Seq(Works(files))
<1>1. [what |-> "url", url |-> url, file |-> file] \in Works(files)
  BY DEF Works
<1> HIDE DEF Works
<1> QED BY <1>1 DEF UrlWork

LEMMA SelectorWorkType ==
    ASSUME NEW files, NEW s, NEW file,
           s # NoSelector => s \in StyleSelectors /\ file \in DOMAIN files
    PROVE  SelectorWork(s, file) \in Seq(Works(files))
<1>1. s # NoSelector => [what |-> "selector", selector |-> s, file |-> file] \in Works(files)
  BY DEF Works
<1> HIDE DEF Works
<1> QED BY <1>1 DEF SelectorWork

LEMMA MergeStyleType ==
    ASSUME NEW files, NEW url \in Urls, NEW s \in StyleSelectors \cup {NoSelector},
           NEW file \in DOMAIN files
    PROVE  MergeStyle(url, s, file) \in Seq(Works(files))
<1>1. UrlWork(url, file) \in Seq(Works(files))
  BY UrlWorkType
<1>2. SelectorWork(s, file) \in Seq(Works(files))
  BY SelectorWorkType
<1> HIDE DEF Works
<1> QED BY <1>1, <1>2, ConcatProperties DEF MergeStyle

(* What a Pair is worth, and all of them.                                  *)
PairWork(pair, state, file) ==
    IF pair.key = state THEN MergeStyle(pair.url, pair.selector, file) ELSE <<>>

PairWorks(map, state, file) ==
    [i \in DOMAIN map.pairs |-> PairWork(map.pairs[i], state, file)]

LEMMA MergeStyleMapIs ==
    ASSUME NEW map, NEW state, NEW file
    PROVE  MergeStyleMap(map, state, file) = FlattenSeq(PairWorks(map, state, file))
BY DEF MergeStyleMap, PairWorks, PairWork

LEMMA PairWorksType ==
    ASSUME NEW files, NEW map \in StyleSelectors, IsStyleMap(map), NEW state,
           NEW file \in DOMAIN files
    PROVE  /\ PairWorks(map, state, file) \in Seq(Seq(Works(files)))
           /\ Len(PairWorks(map, state, file)) = Len(map.pairs)
<1> DEFINE S == Seq(Works(files))
           p == map.pairs
<1>1. p \in Seq(Pairs)
  BY PairFields
<1>2. \A i \in DOMAIN p : PairWork(p[i], state, file) \in S
  <2> SUFFICES ASSUME NEW i \in DOMAIN p PROVE PairWork(p[i], state, file) \in S
    OBVIOUS
  <2>1. p[i].url \in Urls /\ p[i].selector \in StyleSelectors \cup {NoSelector}
    BY PairFields
  <2>2. MergeStyle(p[i].url, p[i].selector, file) \in S
    BY <2>1, MergeStyleType
  <2>3. <<>> \in S
    OBVIOUS
  <2> HIDE DEF S
  <2> QED BY <2>2, <2>3 DEF PairWork
<1> HIDE DEF S, p
<1>3. DOMAIN p = 1..Len(p) /\ Len(p) \in Nat
  BY <1>1
<1>4. [i \in DOMAIN p |-> PairWork(p[i], state, file)] \in Seq(S)
  BY <1>2, <1>3
<1> QED BY <1>3, <1>4 DEF PairWorks, S, p

LEMMA MergeStyleMapType ==
    ASSUME NEW files, NEW map \in StyleSelectors, IsStyleMap(map), NEW state,
           NEW file \in DOMAIN files
    PROVE  MergeStyleMap(map, state, file) \in Seq(Works(files))
BY PairWorksType, MergeStyleMapIs, FlattenType

LEMMA TypesInit == MergerInit => Types
BY NestingAssumption DEF MergerInit, Types, World, Worlds

(* The first of what is to do.                                             *)
LEMMA WorkFields ==
    ASSUME NEW files, NEW w \in Works(files)
    PROVE  /\ w.file \in DOMAIN files
           /\ \/ w.what = "url" /\ w.url \in Urls
              \/ w.what = "selector" /\ w.selector \in StyleSelectors
BY DEF Works

LEMMA TodoParts ==
    ASSUME NEW W, NEW ws \in Seq(W), ws # <<>>
    PROVE  /\ Head(ws) \in W /\ Tail(ws) \in Seq(W)
           /\ ws = <<Head(ws)>> \o Tail(ws)
           /\ Len(Tail(ws)) = Len(ws) - 1 /\ Len(ws) \in Nat \ {0}
           /\ ws[1] = Head(ws) /\ \A i \in 1..Len(Tail(ws)) : Tail(ws)[i] = ws[i + 1]
<1> DEFINE h == Head(ws)
           t == Tail(ws)
<1>1. /\ h \in W /\ t \in Seq(W) /\ Len(t) = Len(ws) - 1 /\ Len(ws) \in Nat \ {0}
      /\ ws[1] = h /\ \A i \in 1..Len(t) : t[i] = ws[i + 1]
  OBVIOUS
<1> HIDE DEF h, t
<1>2. <<h>> \in Seq(W) /\ Len(<<h>>) = 1 /\ <<h>>[1] = h
  BY <1>1
<1>3. /\ <<h>> \o t \in Seq(W)
      /\ Len(<<h>> \o t) = 1 + Len(t)
      /\ \A i \in 1..(1 + Len(t)) : (<<h>> \o t)[i] = IF i <= 1 THEN h ELSE t[i - 1]
  BY <1>1, <1>2, ConcatProperties
<1> DEFINE u == <<h>> \o t
<1>4. Len(ws) = Len(u) /\ u \in Seq(W)
  BY <1>1, <1>3
<1>5. ASSUME NEW i \in 1..Len(ws) PROVE ws[i] = u[i]
  <2>1. CASE i = 1
    BY <1>1, <1>3, <1>4, <2>1
  <2>2. CASE i # 1
    <3>1. i \in 1..(1 + Len(t)) /\ ~ (i <= 1) /\ i - 1 \in 1..Len(t) /\ (i - 1) + 1 = i
      BY <1>1, <2>2
    <3> QED BY ONLY <1>1, <1>3, <3>1
  <2> QED BY <2>1, <2>2
<1> HIDE DEF u
<1>6. ws = u
  BY ONLY ws \in Seq(W), <1>4, <1>5, SeqEqual
<1> QED BY <1>1, <1>6 DEF h, t, u

LEMMA WorkType ==
    ASSUME NEW files, NEW W, W = Works(files), NEW ws \in Seq(W), NEW vs \in Seq(W)
    PROVE  ws \o vs \in Seq(W)
BY ConcatProperties

LEMMA TypesCall == ASSUME Types, Call PROVE Types'
<1> USE DEF Call
<1>1. PICK f \in StyledFeatures : /\ todo' = MergeStyle(f.url, f.selector, Base)
                            /\ called' = Append(called, f)
  OBVIOUS
<1>2. site' = site /\ World' = World /\ nesting_depth' = nesting_depth /\ merged' = merged
  BY DEF World
<1>3. Base \in DOMAIN site
  <2>1. World \in Worlds /\ World.site = site
    BY DEF Types, World
  <2> QED BY <2>1, BaseIsThere
<1>4. f.url \in Urls /\ f.selector \in StyleSelectors \cup {NoSelector}
  BY FeatureFields
<1>5. todo' \in Seq(Works(site))
  BY <1>1, <1>3, <1>4, MergeStyleType
<1>6. called' \in Seq(StyledFeatures)
  <2>1. called \in Seq(StyledFeatures)
    BY DEF Types
  <2> QED BY <1>1, <2>1
<1>7. todo' \in Seq(Works(site'))
  BY <1>2, <1>5
<1> QED BY <1>2, <1>6, <1>7 DEF Types

LEMMA TypesUrl == ASSUME Types, MergeStyleUrl PROVE Types'
<1> DEFINE w == Head(todo)
           S == Works(site)
<1>0. /\ todo \in Seq(S) /\ todo # <<>> /\ w.what = "url"
      /\ World \in Worlds /\ World.site = site
  BY DEF Types, MergeStyleUrl, World
<1>1. site' = site /\ World' = World /\ merged' = merged /\ called' = called
  BY DEF World, MergeStyleUrl
<1>2. nesting_depth' \in Int /\ nesting_depth' <= MaxNesting
  BY NestingAssumption DEF MergeStyleUrl, Counted, Types
<1>3. w \in S /\ Tail(todo) \in Seq(S)
  <2> HIDE DEF S
  <2> QED BY <1>0, TodoParts
<1>4. todo' \in Seq(S)
  <2>1. CASE todo' = Tail(todo)
    BY <1>3, <2>1
  <2>2. CASE ~ (todo' = Tail(todo))
    <3> DEFINE file == FileOf(w.url)
               s == SharedStyle(site, file, w.url.id)
    <3>1. todo' = SelectorWork(s, file) \o Tail(todo)
      BY <2>2 DEF MergeStyleUrl
    <3>2. s # NoSelector => s \in StyleSelectors /\ file \in DOMAIN site
      BY <1>0, SharedFields
    <3>3. SelectorWork(s, file) \in Seq(S)
      BY <3>2, SelectorWorkType
    <3> HIDE DEF S
    <3> QED BY <1>3, <3>1, <3>3, ConcatProperties
  <2> QED BY <2>1, <2>2
<1>5. todo' \in Seq(Works(site'))
  BY <1>1, <1>4
<1> QED BY <1>1, <1>2, <1>5 DEF Types

LEMMA TypesSelector == ASSUME Types, MergeStyleSelector PROVE Types'
<1> DEFINE w == Head(todo)
           S == Works(site)
<1>0. /\ todo \in Seq(S) /\ todo # <<>> /\ w.what = "selector"
      /\ merged \in Seq(Styles)
  BY DEF Types, MergeStyleSelector
<1>1. /\ site' = site /\ World' = World /\ called' = called
      /\ nesting_depth' = nesting_depth
  BY DEF World, MergeStyleSelector
<1>3. w \in S /\ Tail(todo) \in Seq(S)
  <2> HIDE DEF S
  <2> QED BY <1>0, TodoParts
<1>4. w.file \in DOMAIN site /\ w.selector \in StyleSelectors
  BY <1>0, <1>3, WorkFields
<1>5. todo' \in Seq(S) /\ merged' \in Seq(Styles)
  <2>1. CASE IsStyle(w.selector)
    <3>1. merged' = Append(merged, w.selector.style) /\ todo' = Tail(todo)
      <4>1. ~ IsStyleMap(w.selector)
        BY <1>4, <2>1, EitherSelector
      <4> QED BY <2>1, <4>1 DEF MergeStyleSelector
    <3>2. w.selector.style \in Styles
      BY <1>4, <2>1 DEF Styles
    <3> QED BY <1>0, <1>3, <3>1, <3>2
  <2>2. CASE ~ IsStyle(w.selector)
    <3>1. /\ IsStyleMap(w.selector) /\ merged' = merged
          /\ todo' = MergeStyleMap(w.selector, style_state, w.file) \o Tail(todo)
      BY <2>2 DEF MergeStyleSelector
    <3>2. MergeStyleMap(w.selector, style_state, w.file) \in Seq(S)
      BY <1>4, <3>1, MergeStyleMapType
    <3> HIDE DEF S
    <3> QED BY <1>0, <1>3, <3>1, <3>2, ConcatProperties
  <2> QED BY <2>1, <2>2
<1>6. todo' \in Seq(Works(site'))
  BY <1>1, <1>5
<1> QED BY <1>1, <1>5, <1>6 DEF Types

LEMMA TypesNext == ASSUME Types, [MergerNext]_mergerVars PROVE Types'
<1>1. CASE UNCHANGED mergerVars
  BY <1>1 DEF mergerVars, Types, World
<1>2. CASE MergerNext
  BY <1>2, TypesCall, TypesUrl, TypesSelector DEF MergerNext, Step
<1> QED BY <1>1, <1>2

(* The stack of calls is well formed: each entry is a url written in a     *)
(* file there is, or a StyleSelector; the count starts at MaxNesting.      *)
THEOREM MergerTypeOKAlways == MergerSpec => []TypeOK
<1>1. ASSUME Types PROVE TypeOK
  <2>1. /\ nesting_depth \in Int /\ nesting_depth <= MaxNesting
        /\ style_state \in States /\ has_cache \in BOOLEAN
    BY <1>1 DEF Types, World, Worlds
  <2>2. ASSUME NEW i \in DOMAIN todo
        PROVE  \/ todo[i].what = "url" /\ todo[i].file \in DOMAIN site
               \/ /\ todo[i].what = "selector"
                  /\ IsStyle(todo[i].selector) \/ IsStyleMap(todo[i].selector)
    <3>1. todo[i] \in Works(site)
      BY <1>1 DEF Types
    <3> QED BY <3>1, WorkFields, EitherSelector
  <2>3. merged \in Seq({merged[i] : i \in DOMAIN merged})
    BY <1>1 DEF Types
  <2> QED BY <2>1, <2>2, <2>3 DEF TypeOK
<1>2. MergerInit => Types
  BY TypesInit
<1>3. Types /\ [MergerNext]_mergerVars => Types'
  BY TypesNext
<1> QED BY <1>1, <1>2, <1>3, PTL DEF MergerSpec

-----------------------------------------------------------------------------
(* The last Style that sets a value is the one that shows.                 *)
LEMMA LastOneInit == MergerInit => LastOneWins
BY DEF MergerInit, LastOneWins, EmptyStyle

LEMMA LastOneMerge ==
    ASSUME Types, LastOneWins, NEW style \in Styles,
           merged' = Append(merged, style), resolved' = MergeElements(style, resolved)
    PROVE  LastOneWins'
<1> DEFINE N == Len(merged)
           m == Append(merged, style)
           r == MergeElements(style, resolved)
<1>1. /\ N \in Nat /\ DOMAIN merged = 1..N /\ DOMAIN m = 1..(N + 1)
      /\ m[N + 1] = style /\ \A i \in 1..N : m[i] = merged[i]
  <2>1. merged \in Seq(Styles)
    BY DEF Types
  <2> QED BY <2>1, AppendProperties
<1>2. /\ DOMAIN r = DOMAIN style \cup DOMAIN resolved
      /\ \A p \in DOMAIN r : r[p] = IF p \in DOMAIN style THEN style[p] ELSE resolved[p]
  BY DEF MergeElements
<1> HIDE DEF N, m, r
<1>3. DOMAIN resolved = UNION {DOMAIN merged[i] : i \in 1..N}
  BY <1>1 DEF LastOneWins
<1> DEFINE Sets(i) == DOMAIN m[i]
<1>4. /\ Sets(N + 1) = DOMAIN style /\ \A i \in 1..N : Sets(i) = DOMAIN merged[i]
      /\ N + 1 \in 1..(N + 1) /\ \A i \in 1..(N + 1) : i = N + 1 \/ i \in 1..N
      /\ \A i \in 1..N : i \in 1..(N + 1)
  BY <1>1
<1> HIDE DEF Sets
<1>5. DOMAIN r = UNION {DOMAIN m[i] : i \in DOMAIN m}
  <2>1. UNION {DOMAIN merged[i] : i \in 1..N} = UNION {Sets(i) : i \in 1..N}
    BY <1>4
  <2>2. UNION {Sets(i) : i \in 1..(N + 1)} = (UNION {Sets(i) : i \in 1..N}) \cup Sets(N + 1)
    <3> DEFINE I == 1..N
               J == 1..(N + 1)
               n == N + 1
    <3>1. n \in J /\ (\A i \in J : i = n \/ i \in I) /\ \A i \in I : i \in J
      BY <1>4
    <3> HIDE DEF I, J, n
    <3>2. \A p : (\E i \in J : p \in Sets(i)) <=> (\E i \in I : p \in Sets(i)) \/ p \in Sets(n)
      BY ONLY <3>1, Zenon
    <3>3. UNION {Sets(i) : i \in J} = (UNION {Sets(i) : i \in I}) \cup Sets(n)
      BY ONLY <3>2, Zenon
    <3> QED BY <3>3 DEF I, J, n
  <2>3. DOMAIN r = UNION {Sets(i) : i \in 1..(N + 1)}
    BY <1>2, <1>3, <1>4, <2>1, <2>2
  <2> QED BY <1>1, <2>3 DEF Sets
<1>6. ASSUME NEW p \in DOMAIN r
      PROVE  \E i \in DOMAIN m :
               /\ p \in DOMAIN m[i] /\ r[p] = m[i][p]
               /\ \A j \in DOMAIN m : p \in DOMAIN m[j] => j <= i
  <2>1. CASE p \in DOMAIN style
    <3>1. N + 1 \in DOMAIN m /\ \A j \in DOMAIN m : j <= N + 1
      BY <1>1
    <3> QED BY <1>1, <1>2, <2>1, <3>1
  <2>2. CASE p \notin DOMAIN style
    <3>1. p \in DOMAIN resolved /\ r[p] = resolved[p]
      BY <1>2, <2>2
    <3>2. PICK i \in 1..N : /\ p \in DOMAIN merged[i] /\ resolved[p] = merged[i][p]
                            /\ \A j \in 1..N : p \in DOMAIN merged[j] => j <= i
      BY <1>1, <3>1 DEF LastOneWins
    <3>3. i \in DOMAIN m
      BY <1>1
    <3>4. ASSUME NEW j \in DOMAIN m, p \in DOMAIN m[j] PROVE j <= i
      <4>1. j # N + 1
        BY <1>1, <2>2, <3>4
      <4>2. j \in 1..N
        BY <1>1, <4>1
      <4> QED BY <1>1, <3>2, <3>4, <4>2
    <3> QED BY <1>1, <3>1, <3>2, <3>3, <3>4
  <2> QED BY <2>1, <2>2
<1>7. merged' = m /\ resolved' = r
  BY DEF m, r
<1> QED BY <1>5, <1>6, <1>7 DEF LastOneWins

LEMMA MergerSelectorStep ==
    ASSUME Types, MergeStyleSelector
    PROVE  LET w == Head(todo) IN
           /\ todo # <<>> /\ w \in Works(site) /\ Tail(todo) \in Seq(Works(site))
           /\ w.what = "selector" /\ w.selector \in StyleSelectors /\ w.file \in DOMAIN site
           /\ \/ /\ IsStyle(w.selector) /\ w.selector.style \in Styles
                 /\ merged' = Append(merged, w.selector.style)
                 /\ resolved' = MergeElements(w.selector.style, resolved)
                 /\ todo' = Tail(todo)
              \/ /\ IsStyleMap(w.selector)
                 /\ merged' = merged /\ resolved' = resolved
                 /\ todo' = MergeStyleMap(w.selector, style_state, w.file) \o Tail(todo)
<1> DEFINE w == Head(todo)
           S == Works(site)
<1>0. todo \in Seq(S) /\ todo # <<>> /\ w.what = "selector"
  BY DEF Types, MergeStyleSelector
<1>1. w \in S /\ Tail(todo) \in Seq(S)
  <2> HIDE DEF S
  <2> QED BY <1>0, TodoParts
<1>2. w.file \in DOMAIN site /\ w.selector \in StyleSelectors
  BY <1>0, <1>1, WorkFields
<1>3. IsStyle(w.selector) => w.selector.style \in Styles
  BY <1>2 DEF Styles
<1>4. \/ /\ IsStyle(w.selector)
         /\ merged' = Append(merged, w.selector.style)
         /\ resolved' = MergeElements(w.selector.style, resolved)
         /\ todo' = Tail(todo)
      \/ /\ IsStyleMap(w.selector)
         /\ merged' = merged /\ resolved' = resolved
         /\ todo' = MergeStyleMap(w.selector, style_state, w.file) \o Tail(todo)
  BY DEF MergeStyleSelector
<1> QED BY <1>0, <1>1, <1>2, <1>3, <1>4

LEMMA LastOneNext == ASSUME Types, LastOneWins, [MergerNext]_mergerVars PROVE LastOneWins'
<1>1. CASE MergeStyleSelector
  <2>1. CASE merged' = merged /\ resolved' = resolved
    BY <2>1 DEF LastOneWins
  <2>2. CASE ~ (merged' = merged /\ resolved' = resolved)
    BY <1>1, <2>2, MergerSelectorStep, LastOneMerge
  <2> QED BY <2>1, <2>2
<1>2. CASE Call \/ MergeStyleUrl \/ UNCHANGED mergerVars
  <2>1. merged' = merged /\ resolved' = resolved
    BY <1>2 DEF Call, MergeStyleUrl, mergerVars
  <2> QED BY <2>1 DEF LastOneWins
<1> QED BY <1>1, <1>2 DEF MergerNext, Step

(* An element or field has the value of the last Style merged that sets    *)
(* it.                                                                     *)
THEOREM LastOneWinsAlways == MergerSpec => []LastOneWins
<1>1. MergerInit => Types /\ LastOneWins
  BY TypesInit, LastOneInit
<1>2. Types /\ LastOneWins /\ [MergerNext]_mergerVars => (Types /\ LastOneWins)'
  BY TypesNext, LastOneNext
<1> QED BY <1>1, <1>2, PTL DEF MergerSpec

-----------------------------------------------------------------------------
(* The inline Style of the Feature waits at the end of what is to do; then *)
(* its values are there to stay.                                           *)
InlineOf(calls) == calls[Len(calls)].selector

HasStyle(style) == \A p \in DOMAIN style : p \in DOMAIN resolved /\ resolved[p] = style[p]

Waits(ws, selector) ==
    ws # <<>> /\ ws[Len(ws)].what = "selector" /\ ws[Len(ws)].selector = selector

InlineWaits ==
    called # <<>> /\ IsStyle(InlineOf(called)) =>
        IF todo = <<>> THEN HasStyle(InlineOf(called).style) ELSE Waits(todo, InlineOf(called))

LEMMA WaitsBehind ==
    ASSUME NEW W, NEW vs \in Seq(W), NEW ws \in Seq(W), NEW selector, Waits(ws, selector)
    PROVE  Waits(vs \o ws, selector)
<1> DEFINE u == vs \o ws
<1>1. /\ Len(vs) \in Nat /\ Len(ws) \in Nat \ {0} /\ u \in Seq(W) /\ Len(u) = Len(vs) + Len(ws)
      /\ \A i \in 1..(Len(vs) + Len(ws)) : u[i] = IF i <= Len(vs) THEN vs[i] ELSE ws[i - Len(vs)]
  BY ConcatProperties DEF Waits
<1> HIDE DEF u
<1>2. Len(u) \in 1..(Len(vs) + Len(ws)) /\ ~ (Len(u) <= Len(vs)) /\ Len(u) - Len(vs) = Len(ws)
  BY <1>1
<1>3. u[Len(u)] = ws[Len(ws)] /\ u # <<>>
  BY <1>1, <1>2
<1> QED BY <1>3 DEF Waits, u

LEMMA WaitsInTail ==
    ASSUME NEW W, NEW ws \in Seq(W), NEW selector, Waits(ws, selector), Tail(ws) # <<>>
    PROVE  Waits(Tail(ws), selector)
<1>1. /\ Len(Tail(ws)) = Len(ws) - 1 /\ Len(ws) \in Nat \ {0} /\ Tail(ws) \in Seq(W)
      /\ \A i \in 1..Len(Tail(ws)) : Tail(ws)[i] = ws[i + 1]
  BY TodoParts DEF Waits
<1>2. Len(Tail(ws)) \in 1..Len(Tail(ws)) /\ Len(Tail(ws)) + 1 = Len(ws)
  BY <1>1
<1>3. Tail(ws)[Len(Tail(ws))] = ws[Len(ws)]
  BY <1>1, <1>2
<1> QED BY <1>3 DEF Waits

LEMMA OnlyOneWaits ==
    ASSUME NEW W, NEW ws \in Seq(W), NEW selector, Waits(ws, selector), Tail(ws) = <<>>
    PROVE  Head(ws).what = "selector" /\ Head(ws).selector = selector
<1> DEFINE rest == Tail(ws)
<1>1. Len(rest) = Len(ws) - 1 /\ Len(ws) \in Nat /\ ws[1] = Head(ws)
  BY TodoParts DEF Waits
<1>2. Len(rest) = 0
  <2>1. rest = <<>>
    OBVIOUS
  <2> HIDE DEF rest
  <2> QED BY <2>1
<1>3. Len(ws) = 1
  BY ONLY <1>1, <1>2
<1>4. ws[Len(ws)].what = "selector" /\ ws[Len(ws)].selector = selector
  BY DEF Waits
<1> QED BY ONLY <1>1, <1>3, <1>4

LEMMA InlineCall == ASSUME Types, Call PROVE InlineWaits'
<1>1. PICK f \in StyledFeatures : /\ todo' = MergeStyle(f.url, f.selector, Base)
                            /\ called' = Append(called, f)
  BY DEF Call
<1>2. InlineOf(called') = f.selector
  <2>1. called \in Seq(StyledFeatures)
    BY DEF Types
  <2> QED BY <1>1, <2>1 DEF InlineOf
<1>3. ASSUME IsStyle(f.selector) PROVE todo' # <<>> /\ Waits(todo', f.selector)
  <2>1. f.selector # NoSelector
    BY <1>3 DEF IsStyle
  <2> DEFINE u == [what |-> "url", url |-> f.url, file |-> Base]
             s == [what |-> "selector", selector |-> f.selector, file |-> Base]
  <2>2. todo' = <<u>> \o <<s>>
    BY <1>1, <2>1 DEF MergeStyle, UrlWork, SelectorWork
  <2>3. <<s>> \in Seq({u, s}) /\ <<u>> \in Seq({u, s})
    OBVIOUS
  <2>4. Waits(<<s>>, f.selector)
    BY DEF Waits
  <2> HIDE DEF u, s
  <2>5. Waits(<<u>> \o <<s>>, f.selector)
    BY <2>3, <2>4, WaitsBehind
  <2> QED BY <2>2, <2>5 DEF Waits
<1> QED BY <1>2, <1>3 DEF InlineWaits

LEMMA InlineMerge ==
    ASSUME NEW style, resolved' = MergeElements(style, resolved)
    PROVE  HasStyle(style)'
BY DEF HasStyle, MergeElements

LEMMA InlineWork ==
    ASSUME Types, InlineWaits, todo # <<>>, called' = called, NEW ws \in Seq(Works(site)),
           todo' = ws \o Tail(todo),
           Head(todo).what = "selector" /\ IsStyle(Head(todo).selector) =>
               /\ ws = <<>>
               /\ resolved' = MergeElements(Head(todo).selector.style, resolved)
    PROVE  InlineWaits'
<1> DEFINE S == Works(site)
           rest == Tail(todo)
<1>0. todo \in Seq(S)
  BY DEF Types
<1> SUFFICES ASSUME called # <<>>, IsStyle(InlineOf(called))
             PROVE  IF todo' = <<>> THEN HasStyle(InlineOf(called).style)'
                                    ELSE Waits(todo', InlineOf(called))
  BY DEF InlineWaits
<1>1. Waits(todo, InlineOf(called))
  BY DEF InlineWaits
<1> HIDE DEF S
<1>2. CASE rest # <<>>
  <2>1. rest \in Seq(S)
    BY <1>0, TodoParts
  <2>2. Waits(rest, InlineOf(called))
    BY <1>0, <1>1, <1>2, WaitsInTail
  <2>3. Waits(ws \o rest, InlineOf(called))
    BY <2>1, <2>2, WaitsBehind DEF S
  <2> QED BY <2>3 DEF Waits
<1>3. CASE rest = <<>>
  <2>1. Head(todo).what = "selector" /\ Head(todo).selector = InlineOf(called)
    BY <1>0, <1>1, <1>3, OnlyOneWaits
  <2>2. ws = <<>> /\ resolved' = MergeElements(InlineOf(called).style, resolved)
    BY <2>1
  <2>3. HasStyle(InlineOf(called).style)'
    BY <2>2, InlineMerge DEF HasStyle, MergeElements
  <2>4. todo' = <<>>
    BY <1>3, <2>2
  <2> QED BY <2>3, <2>4
<1> QED BY <1>2, <1>3

(* What a url leaves to do in its place.                                   *)
LEMMA MergerUrlStep ==
    ASSUME Types, MergeStyleUrl
    PROVE  LET w == Head(todo) IN
           /\ todo # <<>> /\ todo \in Seq(Works(site))
           /\ w \in Works(site) /\ Tail(todo) \in Seq(Works(site))
           /\ w.what = "url" /\ w.url \in Urls /\ w.file \in DOMAIN site
           /\ \/ DropUrl(w.url) /\ todo' = <<>> \o Tail(todo) /\ strayed' = strayed
              \/ /\ ~ DropUrl(w.url)
                 /\ todo' = SelectorWork(SharedStyle(site, FileOf(w.url), w.url.id),
                                         FileOf(w.url))
                              \o Tail(todo)
                 /\ strayed' = (strayed \/ w.file # Base)
<1> DEFINE w == Head(todo)
           S == Works(site)
<1>0. todo \in Seq(S) /\ todo # <<>> /\ w.what = "url"
  BY DEF Types, MergeStyleUrl
<1>1. w \in S /\ Tail(todo) \in Seq(S)
  <2> HIDE DEF S
  <2> QED BY <1>0, TodoParts
<1>2. w.file \in DOMAIN site /\ w.url \in Urls
  BY <1>0, <1>1, WorkFields
<1>3. <<>> \o Tail(todo) = Tail(todo)
  <2> HIDE DEF S
  <2> QED BY <1>1, ConcatEmptySeq
<1>4. \/ DropUrl(w.url) /\ todo' = Tail(todo) /\ strayed' = strayed
      \/ /\ ~ DropUrl(w.url)
         /\ todo' = SelectorWork(SharedStyle(site, FileOf(w.url), w.url.id),
                                         FileOf(w.url))
                      \o Tail(todo)
         /\ strayed' = (strayed \/ w.file # Base)
  BY DEF MergeStyleUrl
<1> HIDE DEF S
<1> QED BY <1>0, <1>1, <1>2, <1>3, <1>4 DEF S

LEMMA SharedWorkType ==
    ASSUME Types, NEW url
    PROVE  SelectorWork(SharedStyle(site, FileOf(url), url.id), FileOf(url))
             \in Seq(Works(site))
<1>1. World \in Worlds /\ World.site = site
  BY DEF Types, World
<1> DEFINE file == FileOf(url)
           s == SharedStyle(site, file, url.id)
<1>2. s # NoSelector => s \in StyleSelectors /\ file \in DOMAIN site
  BY <1>1, SharedFields
<1> HIDE DEF s, file
<1>3. SelectorWork(s, file) \in Seq(Works(site))
  BY <1>2, SelectorWorkType
<1> QED BY <1>3 DEF s, file

LEMMA InlineUrlStep == ASSUME Types, InlineWaits, MergeStyleUrl PROVE InlineWaits'
<1> DEFINE S == Works(site)
<1>1. todo # <<>> /\ Head(todo).what = "url" /\ called' = called
  BY DEF MergeStyleUrl
<1>2. PICK ws \in Seq(S) : todo' = ws \o Tail(todo)
  <2>1. <<>> \in Seq(S)
    OBVIOUS
  <2> HIDE DEF S
  <2> QED BY <2>1, MergerUrlStep, SharedWorkType DEF S
<1> HIDE DEF S
<1> QED BY <1>1, <1>2, InlineWork DEF S

LEMMA InlineSelectorStep ==
    ASSUME Types, InlineWaits, MergeStyleSelector PROVE InlineWaits'
<1> DEFINE S == Works(site)
           w == Head(todo)
<1>1. todo # <<>> /\ called' = called
  BY DEF MergeStyleSelector
<1>2. /\ Tail(todo) \in Seq(S) /\ w.selector \in StyleSelectors /\ w.file \in DOMAIN site
      /\ \/ /\ IsStyle(w.selector)
            /\ resolved' = MergeElements(w.selector.style, resolved)
            /\ todo' = Tail(todo)
         \/ /\ IsStyleMap(w.selector)
            /\ todo' = MergeStyleMap(w.selector, style_state, w.file) \o Tail(todo)
  <2> HIDE DEF S
  <2> QED BY MergerSelectorStep DEF S
<1>3. CASE IsStyle(w.selector)
  <2>1. /\ resolved' = MergeElements(w.selector.style, resolved)
        /\ todo' = Tail(todo)
    BY <1>2, <1>3, EitherSelector
  <2>2. <<>> \in Seq(S)
    OBVIOUS
  <2> HIDE DEF S
  <2>3. todo' = <<>> \o Tail(todo)
    BY <1>2, <2>1, ConcatEmptySeq
  <2> QED BY <1>1, <2>1, <2>2, <2>3, InlineWork DEF S
<1>4. CASE ~ IsStyle(w.selector)
  <2>1. /\ IsStyleMap(w.selector)
        /\ todo' = MergeStyleMap(w.selector, style_state, w.file) \o Tail(todo)
    BY <1>2, <1>4
  <2>2. MergeStyleMap(w.selector, style_state, w.file) \in Seq(S)
    BY <1>2, <2>1, MergeStyleMapType
  <2> HIDE DEF S
  <2> QED BY <1>1, <1>4, <2>1, <2>2, InlineWork DEF S
<1> QED BY <1>3, <1>4

LEMMA InlineWaitsInit == MergerInit => InlineWaits
BY DEF MergerInit, InlineWaits

LEMMA InlineWaitsNext == ASSUME Types, InlineWaits, [MergerNext]_mergerVars PROVE InlineWaits'
<1>1. CASE UNCHANGED mergerVars
  BY <1>1 DEF mergerVars, InlineWaits, HasStyle
<1>2. CASE MergerNext
  BY <1>2, InlineCall, InlineUrlStep, InlineSelectorStep DEF MergerNext, Step
<1> QED BY <1>1, <1>2

(* The inline Style of a Feature overrides what its styleUrl leads to.     *)
THEOREM InlineWinsAlways == MergerSpec => []InlineWins
<1>1. MergerInit => Types /\ InlineWaits
  BY TypesInit, InlineWaitsInit
<1>2. Types /\ InlineWaits /\ [MergerNext]_mergerVars => (Types /\ InlineWaits)'
  BY TypesNext, InlineWaitsNext
<1>3. Types /\ InlineWaits => InlineWins
  BY DEF InlineWaits, InlineWins, Returned, HasStyle, InlineOf
<1> QED BY <1>1, <1>2, <1>3, PTL DEF MergerSpec

-----------------------------------------------------------------------------
(* What is to do is worth: each url and each selector the Styles it stands *)
(* for at some level, and none has fewer levels left than the count.       *)
Of(world, w, level) ==
    IF w.what = "url" THEN StylesOfUrl(world, w.url, w.file, level)
                      ELSE StylesOfSelector(world, w.selector, w.file, level)

IsWorth(world, w, styles, depth) ==
    \E level \in 0..MaxNesting : depth <= level /\ styles = Of(world, w, level)

Owes(world, ws, owed, depth) ==
    /\ Len(owed) = Len(ws)
    /\ \A i \in 1..Len(ws) : IsWorth(world, ws[i], owed[i], depth)

Pays(world, ws, styles, depth) ==
    \E owed \in Seq(Seq(Styles)) : Owes(world, ws, owed, depth) /\ FlattenSeq(owed) = styles

LEMMA PaysType ==
    ASSUME NEW world, NEW ws, NEW styles, NEW depth, Pays(world, ws, styles, depth)
    PROVE  styles \in Seq(Styles)
BY FlattenType DEF Pays

LEMMA PaysNothing == ASSUME NEW world, NEW depth PROVE Pays(world, <<>>, <<>>, depth)
<1>1. <<>> \in Seq(Seq(Styles))
  OBVIOUS
<1>2. Owes(world, <<>>, <<>>, depth)
  BY DEF Owes
<1> QED BY <1>1, <1>2, FlattenEmpty DEF Pays

LEMMA PaysOnlyNothing ==
    ASSUME NEW world, NEW depth, NEW styles, Pays(world, <<>>, styles, depth)
    PROVE  styles = <<>>
<1>1. PICK owed \in Seq(Seq(Styles)) :
        Owes(world, <<>>, owed, depth) /\ FlattenSeq(owed) = styles
  BY DEF Pays
<1>2. Len(owed) = 0
  BY <1>1 DEF Owes
<1>3. owed = <<>>
  BY <1>2
<1> QED BY <1>1, <1>3, FlattenEmpty

LEMMA PaysOne ==
    ASSUME NEW world, NEW w, NEW depth, NEW styles \in Seq(Styles),
           IsWorth(world, w, styles, depth)
    PROVE  Pays(world, <<w>>, styles, depth)
<1>1. <<styles>> \in Seq(Seq(Styles)) /\ Len(<<styles>>) = 1 /\ <<styles>>[1] = styles
  OBVIOUS
<1>2. Len(<<w>>) = 1 /\ <<w>>[1] = w /\ \A i \in 1..1 : i = 1
  OBVIOUS
<1> DEFINE owed == <<styles>>
           ws == <<w>>
<1>3. Len(owed) = Len(ws) /\ \A i \in 1..Len(ws) : ws[i] = w /\ owed[i] = styles
  BY <1>1, <1>2
<1>4. FlattenSeq(owed) = styles
  BY FlattenSingle
<1>5. owed \in Seq(Seq(Styles))
  BY <1>1
<1> HIDE DEF owed, ws
<1>6. Owes(world, ws, owed, depth)
  BY <1>3 DEF Owes
<1>7. Pays(world, ws, styles, depth)
  BY <1>4, <1>5, <1>6 DEF Pays
<1> QED BY <1>7 DEF ws

LEMMA PaysBoth ==
    ASSUME NEW W, NEW world, NEW depth, NEW ws \in Seq(W), NEW vs \in Seq(W), NEW r, NEW q,
           Pays(world, ws, r, depth), Pays(world, vs, q, depth)
    PROVE  Pays(world, ws \o vs, r \o q, depth)
<1> DEFINE SS == Seq(Seq(Styles))
<1>1. PICK o \in SS : Owes(world, ws, o, depth) /\ FlattenSeq(o) = r
  BY DEF Pays
<1>2. PICK p \in SS : Owes(world, vs, p, depth) /\ FlattenSeq(p) = q
  BY DEF Pays
<1> DEFINE u == ws \o vs
           t == o \o p
           K == Len(ws)
           N == Len(vs)
<1>3. /\ K \in Nat /\ N \in Nat /\ Len(u) = K + N
      /\ \A i \in 1..(K + N) : u[i] = IF i <= K THEN ws[i] ELSE vs[i - K]
  BY ConcatProperties
<1>4. Len(o) = K /\ Len(p) = N
  BY <1>1, <1>2 DEF Owes
<1>5. /\ t \in SS /\ Len(t) = K + N
      /\ \A i \in 1..(K + N) : t[i] = IF i <= K THEN o[i] ELSE p[i - K]
  <2> DEFINE S == Seq(Styles)
  <2>1. o \in Seq(S) /\ p \in Seq(S)
    OBVIOUS
  <2> HIDE DEF S
  <2>2. /\ t \in Seq(S) /\ Len(t) = Len(o) + Len(p)
        /\ \A i \in 1..(Len(o) + Len(p)) : t[i] = IF i <= Len(o) THEN o[i] ELSE p[i - Len(o)]
    BY <2>1, ConcatProperties
  <2> HIDE DEF t, K, N
  <2> QED BY <1>4, <2>2 DEF S
<1>6. FlattenSeq(t) = r \o q
  BY <1>1, <1>2, FlattenConcat
<1>7. /\ \A i \in 1..K : IsWorth(world, ws[i], o[i], depth)
      /\ \A i \in 1..N : IsWorth(world, vs[i], p[i], depth)
  BY <1>1, <1>2 DEF Owes
<1> HIDE DEF u, t, K, N, SS
<1>8. ASSUME NEW i \in 1..(K + N) PROVE IsWorth(world, u[i], t[i], depth)
  <2>1. CASE i <= K
    <3>1. i \in 1..K
      BY <1>3, <2>1
    <3>2. u[i] = ws[i] /\ t[i] = o[i]
      BY <1>3, <1>5, <2>1
    <3> QED BY <1>7, <3>1, <3>2
  <2>2. CASE ~ (i <= K)
    <3>1. i - K \in 1..N
      BY <1>3, <2>2
    <3>2. u[i] = vs[i - K] /\ t[i] = p[i - K]
      BY <1>3, <1>5, <2>2
    <3> QED BY <1>7, <3>1, <3>2
  <2> QED BY <2>1, <2>2
<1>9. Owes(world, u, t, depth)
  BY <1>3, <1>5, <1>8 DEF Owes
<1>10. Pays(world, u, r \o q, depth)
  BY <1>5, <1>6, <1>9 DEF Pays, SS
<1> QED BY <1>10 DEF u

(* The count goes down.                                                    *)
LEMMA PaysLess ==
    ASSUME NEW world, NEW ws, NEW styles, NEW depth \in Int, NEW less \in Int,
           less <= depth,
           Pays(world, ws, styles, depth)
    PROVE  Pays(world, ws, styles, less)
<1>1. PICK owed \in Seq(Seq(Styles)) : Owes(world, ws, owed, depth) /\ FlattenSeq(owed) = styles
  BY DEF Pays
<1>2. ASSUME NEW w, NEW s, IsWorth(world, w, s, depth) PROVE IsWorth(world, w, s, less)
  <2>1. PICK level \in 0..MaxNesting : depth <= level /\ s = Of(world, w, level)
    BY <1>2 DEF IsWorth
  <2>2. less <= level
    BY <2>1, NestingAssumption
  <2> QED BY <2>1, <2>2 DEF IsWorth
<1>3. Owes(world, ws, owed, less)
  BY <1>1, <1>2 DEF Owes
<1> QED BY <1>1, <1>3 DEF Pays

(* The first, and the rest.                                                *)
LEMMA PaysFirst ==
    ASSUME NEW W, NEW world, NEW ws \in Seq(W), ws # <<>>, NEW depth, NEW styles,
           Pays(world, ws, styles, depth)
    PROVE  \E first, rest \in Seq(Styles) :
             /\ styles = first \o rest
             /\ IsWorth(world, Head(ws), first, depth)
             /\ Pays(world, Tail(ws), rest, depth)
<1> DEFINE S == Seq(Styles)
<1>1. PICK owed \in Seq(S) : Owes(world, ws, owed, depth) /\ FlattenSeq(owed) = styles
  BY DEF Pays
<1>2. /\ Len(Tail(ws)) = Len(ws) - 1 /\ Len(ws) \in Nat \ {0} /\ ws[1] = Head(ws)
      /\ \A i \in 1..Len(Tail(ws)) : Tail(ws)[i] = ws[i + 1]
  BY TodoParts
<1>3. Len(owed) = Len(ws) /\ \A i \in 1..Len(ws) : IsWorth(world, ws[i], owed[i], depth)
  BY <1>1 DEF Owes
<1>4. owed # <<>>
  <2>1. Len(owed) # 0
    <3> HIDE DEF S
    <3> QED BY ONLY <1>2, <1>3
  <2>2. Len(<<>>) = 0
    OBVIOUS
  <2> HIDE DEF S
  <2> QED BY ONLY <2>1, <2>2
<1> DEFINE first == Head(owed)
           others == Tail(owed)
<1> HIDE DEF S
<1>5. /\ first \in S /\ others \in Seq(S) /\ owed = <<first>> \o others
      /\ Len(others) = Len(owed) - 1 /\ owed[1] = first
      /\ \A i \in 1..Len(others) : others[i] = owed[i + 1]
  BY <1>4, TodoParts
<1> HIDE DEF first, others
<1>6. styles = first \o FlattenSeq(others)
  <2>1. <<first>> \in Seq(S)
    BY <1>5
  <2>2. FlattenSeq(<<first>> \o others) = FlattenSeq(<<first>>) \o FlattenSeq(others)
    BY <1>5, <2>1, FlattenConcat DEF S
  <2>3. FlattenSeq(<<first>>) = first
    BY <1>5, FlattenSingle DEF S
  <2> QED BY <1>1, <1>5, <2>2, <2>3
<1>7. FlattenSeq(others) \in S
  BY <1>5, FlattenType DEF S
<1>8. IsWorth(world, Head(ws), first, depth)
  <2>1. 1 \in 1..Len(ws)
    BY <1>2
  <2> QED BY <1>2, <1>3, <1>5, <2>1
<1>9. Owes(world, Tail(ws), others, depth)
  <2>1. Len(others) = Len(Tail(ws))
    BY <1>2, <1>3, <1>5
  <2>2. ASSUME NEW i \in 1..Len(Tail(ws)) PROVE IsWorth(world, Tail(ws)[i], others[i], depth)
    <3>1. i + 1 \in 1..Len(ws) /\ i \in 1..Len(others)
      <4> DEFINE m == Len(Tail(ws))
                 n == Len(ws)
      <4>1. m = n - 1 /\ n \in Nat /\ i \in 1..m
        BY <1>2
      <4> HIDE DEF m, n
      <4>2. i + 1 \in 1..n
        BY <4>1
      <4> QED BY <2>1, <4>2 DEF n
    <3>2. Tail(ws)[i] = ws[i + 1] /\ others[i] = owed[i + 1]
      BY <1>2, <1>5, <3>1
    <3> QED BY <1>3, <3>1, <3>2
  <2> QED BY <2>1, <2>2 DEF Owes
<1>10. Pays(world, Tail(ws), FlattenSeq(others), depth)
  BY <1>5, <1>9 DEF Pays, S
<1> QED BY <1>5, <1>6, <1>7, <1>8, <1>10 DEF S

-----------------------------------------------------------------------------
LEMMA UrlRuleHolds ==
    ASSUME NEW world \in Worlds, NEW file \in DOMAIN world.site,
           NEW level \in 0..MaxNesting,
           NEW url \in Urls
    PROVE  /\ StylesOfUrl(world, url, file, level) = UrlRule(world, url, file, level)
           /\ StylesOfUrl(world, url, file, level) \in Seq(Styles)
BY RulesAssumption

LEMMA SelectorRuleHolds ==
    ASSUME NEW world \in Worlds, NEW file \in DOMAIN world.site,
           NEW level \in 0..MaxNesting,
           NEW selector \in StyleSelectors
    PROVE  /\ StylesOfSelector(world, selector, file, level)
                = SelectorRule(world, selector, file, level)
           /\ StylesOfSelector(world, selector, file, level) \in Seq(Styles)
BY RulesAssumption

LEMMA InlineStylesType ==
    ASSUME NEW world \in Worlds, NEW file, NEW level \in 0..MaxNesting, NEW selector,
           selector # NoSelector => selector \in StyleSelectors /\ file \in DOMAIN world.site
    PROVE  StylesOfInline(world, selector, file, level) \in Seq(Styles)
<1>1. CASE selector = NoSelector
  BY <1>1 DEF StylesOfInline
<1>2. CASE selector # NoSelector
  BY <1>2, SelectorRuleHolds DEF StylesOfInline
<1> QED BY <1>1, <1>2

LEMMA PaysUrl ==
    ASSUME NEW world \in Worlds, NEW file \in DOMAIN world.site,
           NEW level \in 0..MaxNesting,
           NEW url \in Urls, NEW depth \in Int, depth <= level
    PROVE  Pays(world, UrlWork(url, file), StylesOfUrl(world, url, file, level), depth)
<1> DEFINE w == [what |-> "url", url |-> url, file |-> file]
           s == StylesOfUrl(world, url, file, level)
<1>1. s \in Seq(Styles)
  BY UrlRuleHolds
<1>2. s = Of(world, w, level)
  BY DEF Of
<1> HIDE DEF w, s
<1>3. IsWorth(world, w, s, depth)
  BY <1>2 DEF IsWorth
<1>4. Pays(world, <<w>>, s, depth)
  BY <1>1, <1>3, PaysOne
<1> QED BY <1>4 DEF UrlWork, w, s

LEMMA PaysSelector ==
    ASSUME NEW world \in Worlds, NEW file, NEW level \in 0..MaxNesting, NEW selector,
           selector # NoSelector => selector \in StyleSelectors /\ file \in DOMAIN world.site,
           NEW depth \in Int, depth <= level
    PROVE  Pays(world, SelectorWork(selector, file),
                StylesOfInline(world, selector, file, level), depth)
<1>1. CASE selector = NoSelector
  BY <1>1, PaysNothing DEF SelectorWork, StylesOfInline
<1>2. CASE selector # NoSelector
  <2> DEFINE w == [what |-> "selector", selector |-> selector, file |-> file]
             s == StylesOfSelector(world, selector, file, level)
  <2>1. s \in Seq(Styles)
    BY <1>2, SelectorRuleHolds
  <2>2. s = Of(world, w, level)
    BY DEF Of
  <2> HIDE DEF w, s
  <2>3. IsWorth(world, w, s, depth)
    BY <2>2 DEF IsWorth
  <2>4. Pays(world, <<w>>, s, depth)
    BY <2>1, <2>3, PaysOne
  <2> QED BY <1>2, <2>4 DEF SelectorWork, StylesOfInline, w, s
<1> QED BY <1>1, <1>2

LEMMA PaysMergeStyle ==
    ASSUME NEW world \in Worlds, NEW file \in DOMAIN world.site,
           NEW level \in 0..MaxNesting,
           NEW url \in Urls, NEW selector \in StyleSelectors \cup {NoSelector},
           NEW depth \in Int, depth <= level
    PROVE  Pays(world, MergeStyle(url, selector, file),
                StylesOfUrl(world, url, file, level)
                  \o StylesOfInline(world, selector, file, level),
                depth)
<1> DEFINE W == Works(world.site)
           a == UrlWork(url, file)
           b == SelectorWork(selector, file)
           r == StylesOfUrl(world, url, file, level)
           q == StylesOfInline(world, selector, file, level)
<1>1. a \in Seq(W) /\ b \in Seq(W)
  BY UrlWorkType, SelectorWorkType
<1>2. Pays(world, a, r, depth)
  BY PaysUrl
<1>3. Pays(world, b, q, depth)
  BY PaysSelector
<1> HIDE DEF W, a, b, r, q
<1>4. Pays(world, a \o b, r \o q, depth)
  BY <1>1, <1>2, <1>3, PaysBoth
<1> QED BY <1>4 DEF MergeStyle, a, b, r, q

(* Many, one after the other.                                              *)
LEMMA PaysJoin ==
    ASSUME NEW W, NEW world, NEW depth, NEW wss \in Seq(Seq(W)), NEW rss \in Seq(Seq(Styles)),
           Len(wss) = Len(rss),
           \A i \in 1..Len(wss) : Pays(world, wss[i], rss[i], depth)
    PROVE  Pays(world, FlattenSeq(wss), FlattenSeq(rss), depth)
<1> DEFINE N == Len(wss)
<1>1. PICK f : JoinsTo(wss, f) /\ FlattenSeq(wss) = f[N]
  BY FlattenIs
<1>2. PICK g : JoinsTo(rss, g) /\ FlattenSeq(rss) = g[Len(rss)]
  BY FlattenIs
<1>3. /\ N \in Nat /\ Len(rss) = N
      /\ \A i \in 1..N : wss[i] \in Seq(W) /\ Pays(world, wss[i], rss[i], depth)
  OBVIOUS
<1>4. \A i \in 0..N : f[i] \in Seq(W)
  BY <1>1, JoinsToTyped
<1>5. f[0] = <<>> /\ \A i \in 1..N : f[i] = f[i - 1] \o wss[i]
  BY <1>1 DEF JoinsTo
<1>6. g[0] = <<>> /\ \A i \in 1..N : g[i] = g[i - 1] \o rss[i]
  BY <1>2, <1>3 DEF JoinsTo
<1> HIDE DEF N
<1> DEFINE G == {i \in 0..N : Pays(world, f[i], g[i], depth)}
<1>7. 0 \in G
  <2>1. Pays(world, f[0], g[0], depth)
    BY <1>5, <1>6, PaysNothing
  <2>2. 0 \in 0..N
    BY <1>3
  <2> QED BY <2>1, <2>2
<1>8. ASSUME NEW i \in 1..N, i - 1 \in G PROVE i \in G
  <2>1. i - 1 \in 0..N /\ i \in 0..N
    BY <1>3
  <2>2. Pays(world, f[i - 1], g[i - 1], depth)
    BY <1>8
  <2>3. f[i - 1] \in Seq(W) /\ wss[i] \in Seq(W) /\ Pays(world, wss[i], rss[i], depth)
    BY <1>3, <1>4, <2>1
  <2>4. Pays(world, f[i - 1] \o wss[i], g[i - 1] \o rss[i], depth)
    BY <2>2, <2>3, PaysBoth
  <2>5. Pays(world, f[i], g[i], depth)
    BY <1>5, <1>6, <2>4
  <2> QED BY <2>1, <2>5
<1> HIDE DEF G
<1>9. Passes(N, G)
  BY <1>7, <1>8 DEF Passes
<1>10. \A i \in 0..N : i \in G
  BY ONLY <1>3, <1>9, UpTo
<1>11. N \in G
  BY <1>3, <1>10
<1>12. Pays(world, f[N], g[N], depth)
  BY <1>11 DEF G
<1> QED BY <1>1, <1>2, <1>3, <1>12

LEMMA PaysMap ==
    ASSUME NEW world \in Worlds, NEW file \in DOMAIN world.site,
           NEW level \in 0..MaxNesting,
           NEW map \in StyleSelectors, IsStyleMap(map), NEW depth \in Int, depth <= level
    PROVE  Pays(world, MergeStyleMap(map, world.style_state, file),
                SelectorRule(world, map, file, level), depth)
<1> DEFINE p == map.pairs
           W == Works(world.site)
           wss == PairWorks(map, world.style_state, file)
           Rule(i) == PairRule(world, p[i], file, level)
           rss == [i \in DOMAIN p |-> Rule(i)]
<1>1. /\ p \in Seq(Pairs) /\ DOMAIN p = 1..Len(p) /\ Len(p) \in Nat
      /\ \A i \in DOMAIN p : p[i].url \in Urls /\ p[i].selector \in StyleSelectors \cup {NoSelector}
  BY PairFields
<1>2. wss \in Seq(Seq(W)) /\ Len(wss) = Len(p)
  BY PairWorksType
<1>3. \A i \in DOMAIN p : wss[i] = PairWork(p[i], world.style_state, file)
  BY DEF PairWorks
<1>4. SelectorRule(world, map, file, level) = FlattenSeq(rss)
  BY EitherSelector DEF SelectorRule
<1>5. MergeStyleMap(map, world.style_state, file) = FlattenSeq(wss)
  BY MergeStyleMapIs
<1> HIDE DEF p, wss, W, Rule
<1>6. ASSUME NEW i \in DOMAIN p
      PROVE  Rule(i) \in Seq(Styles) /\ Pays(world, wss[i], Rule(i), depth)
  <2>1. CASE p[i].key = world.style_state
    <3> DEFINE r == StylesOfUrl(world, p[i].url, file, level)
               q == StylesOfInline(world, p[i].selector, file, level)
    <3>1. r \in Seq(Styles) /\ q \in Seq(Styles)
      BY <1>1, UrlRuleHolds, InlineStylesType
    <3>2. Pays(world, MergeStyle(p[i].url, p[i].selector, file), r \o q, depth)
      BY <1>1, PaysMergeStyle
    <3>3. Rule(i) = r \o q
      BY <2>1 DEF Rule, PairRule
    <3>4. wss[i] = MergeStyle(p[i].url, p[i].selector, file)
      BY <1>3, <2>1 DEF PairWork
    <3> HIDE DEF r, q
    <3>5. r \o q \in Seq(Styles)
      BY <3>1, ConcatProperties
    <3> QED BY <3>2, <3>3, <3>4, <3>5
  <2>2. CASE p[i].key # world.style_state
    <3>1. Rule(i) = <<>>
      BY <2>2 DEF Rule, PairRule
    <3>2. wss[i] = <<>>
      BY <1>3, <2>2 DEF PairWork
    <3>3. <<>> \in Seq(Styles)
      OBVIOUS
    <3> QED BY <3>1, <3>2, <3>3, PaysNothing
  <2> QED BY <2>1, <2>2
<1>7. rss \in Seq(Seq(Styles)) /\ Len(rss) = Len(p)
  <2> DEFINE S == Seq(Styles)
  <2>1. \A i \in 1..Len(p) : Rule(i) \in S
    BY <1>1, <1>6
  <2> HIDE DEF S
  <2>2. rss = [i \in 1..Len(p) |-> Rule(i)]
    BY <1>1
  <2>3. rss \in Seq(S) /\ Len(rss) = Len(p)
    BY <1>1, <2>1, <2>2
  <2> QED BY <2>3 DEF S
<1>8. \A i \in 1..Len(wss) : Pays(world, wss[i], rss[i], depth)
  BY <1>1, <1>2, <1>6
<1> HIDE DEF rss
<1>9. Pays(world, FlattenSeq(wss), FlattenSeq(rss), depth)
  BY <1>2, <1>7, <1>8, PaysJoin
<1> QED BY <1>4, <1>5, <1>9

-----------------------------------------------------------------------------
(* What was merged, and then what is still to do, is in what was promised, *)
(* and is all of it while the count has not run out.                       *)
Keeps(world, ws, done, promised, depth) ==
    \E rest \in Seq(Styles) :
        /\ Pays(world, ws, rest, depth)
        /\ Within(done \o rest, promised)
        /\ depth >= 0 => done \o rest = promised

PromiseInv == ~ strayed => Keeps(World, todo, merged, Promised, nesting_depth)

LEMMA StylesOfFeatureType ==
    ASSUME Types, NEW f \in StyledFeatures PROVE StylesOfFeature(f) \in Seq(Styles)
<1> DEFINE r == StylesOfUrl(World, f.url, Base, MaxNesting)
           q == StylesOfInline(World, f.selector, Base, MaxNesting)
<1>1. World \in Worlds /\ MaxNesting \in 0..MaxNesting
  BY NestingAssumption DEF Types
<1>2. Base \in DOMAIN World.site
  BY <1>1, BaseIsThere
<1>3. r \in Seq(Styles) /\ q \in Seq(Styles)
  BY <1>1, <1>2, FeatureFields, UrlRuleHolds, InlineStylesType
<1> HIDE DEF r, q
<1>4. r \o q \in Seq(Styles)
  BY <1>3, ConcatProperties
<1> QED BY <1>4 DEF StylesOfFeature, r, q

PromisedEach == [i \in DOMAIN called |-> StylesOfFeature(called[i])]

LEMMA PromisedType ==
    ASSUME Types PROVE PromisedEach \in Seq(Seq(Styles)) /\ Promised \in Seq(Styles)
<1> DEFINE S == Seq(Styles)
           Each(i) == StylesOfFeature(called[i])
           pp == [i \in DOMAIN called |-> Each(i)]
<1>1. called \in Seq(StyledFeatures)
  BY DEF Types
<1>2. \A i \in DOMAIN called : Each(i) \in S
  BY <1>1, StylesOfFeatureType
<1>3. pp = PromisedEach /\ FlattenSeq(pp) = Promised
  BY DEF Promised, PromisedEach
<1> HIDE DEF S, Each
<1>4. pp \in Seq(S)
  BY <1>1, <1>2
<1> HIDE DEF pp
<1>5. FlattenSeq(pp) \in Seq(Styles)
  BY <1>4, FlattenType DEF S
<1> QED BY <1>3, <1>4, <1>5 DEF S

LEMMA PromiseInit == MergerInit => PromiseInv
<1> SUFFICES ASSUME MergerInit PROVE Keeps(World, todo, merged, Promised, nesting_depth)
  BY DEF PromiseInv
<1>1. Types /\ todo = <<>> /\ merged = <<>> /\ called = <<>>
  BY TypesInit DEF MergerInit
<1>2. Promised = <<>>
  <2>1. [i \in DOMAIN called |-> StylesOfFeature(called[i])] = <<>>
    BY <1>1
  <2> QED BY <2>1, FlattenEmpty DEF Promised
<1>3. <<>> \in Seq(Styles) /\ merged \o <<>> = <<>>
  BY <1>1
<1>4. Within(<<>>, <<>>)
  BY <1>3, WithinSelf
<1>5. Pays(World, <<>>, <<>>, nesting_depth)
  BY PaysNothing
<1> QED BY <1>1, <1>2, <1>3, <1>4, <1>5 DEF Keeps

LEMMA PromiseCall == ASSUME Types, PromiseInv, Call PROVE PromiseInv'
<1>1. PICK f \in StyledFeatures : /\ todo' = MergeStyle(f.url, f.selector, Base)
                            /\ called' = Append(called, f)
  BY DEF Call
<1>2. /\ World' = World /\ nesting_depth' = nesting_depth /\ merged' = merged
      /\ strayed' = strayed /\ todo = <<>>
  BY DEF Call, World
<1> DEFINE more == StylesOfFeature(f)
<1>3. /\ called \in Seq(StyledFeatures) /\ merged \in Seq(Styles) /\ World \in Worlds
      /\ nesting_depth \in Int /\ nesting_depth <= MaxNesting
  BY DEF Types
<1>4. more \in Seq(Styles)
  BY StylesOfFeatureType
<1>5. Promised' = Promised \o more
  <2> DEFINE pp == PromisedEach
             qq == [i \in DOMAIN called' |-> StylesOfFeature(called'[i])]
  <2>1. Promised' = FlattenSeq(qq)
    BY <1>2 DEF Promised, StylesOfFeature
  <2>2. Promised = FlattenSeq(pp)
    BY DEF Promised, PromisedEach
  <2>3. qq = Append(pp, more)
    <3> DEFINE N == Len(called)
               Each(g) == StylesOfFeature(g)
    <3>1. /\ N \in Nat /\ DOMAIN called = 1..N /\ called' \in Seq(StyledFeatures)
          /\ DOMAIN called' = 1..(N + 1) /\ called'[N + 1] = f
          /\ \A i \in 1..N : called'[i] = called[i]
      BY <1>1, <1>3, AppendProperties
    <3> HIDE DEF N, Each
    <3>2. pp = [i \in 1..N |-> Each(called[i])] /\ qq = [i \in 1..(N + 1) |-> Each(called'[i])]
      BY <3>1 DEF PromisedEach, Each
    <3>3. pp \in Seq(Seq(Styles))
      BY PromisedType
    <3>4. Len(pp) = N
      BY <3>1, <3>2
    <3> DEFINE S == Seq(Styles)
               u == Append(pp, Each(f))
    <3> HIDE DEF pp, qq, S
    <3>5. /\ u \in Seq(S) /\ Len(u) = N + 1 /\ u[N + 1] = Each(f)
          /\ \A i \in 1..N : u[i] = pp[i]
      BY <1>4, <3>3, <3>4, AppendProperties DEF S, Each
    <3> HIDE DEF u
    <3>6. u = [i \in 1..(N + 1) |-> u[i]]
      BY <3>1, <3>5
    <3>7. ASSUME NEW i \in 1..(N + 1) PROVE u[i] = Each(called'[i])
      <4>1. CASE i = N + 1
        BY <3>1, <3>5, <4>1
      <4>2. CASE i # N + 1
        <5>1. i \in 1..N
          BY <3>1, <4>2
        <5>2. pp[i] = Each(called[i])
          BY ONLY <3>2, <5>1
        <5> QED BY <3>1, <3>5, <5>1, <5>2
      <4> QED BY <4>1, <4>2
    <3>8. u = qq
      BY ONLY <3>2, <3>6, <3>7
    <3> QED BY <3>8 DEF u, Each
  <2>4. pp \in Seq(Seq(Styles))
    BY PromisedType
  <2> HIDE DEF pp, qq
  <2>5. FlattenSeq(qq) = FlattenSeq(pp) \o more
    BY <1>4, <2>3, <2>4, FlattenAppend
  <2> QED BY <2>1, <2>2, <2>5
<1>6. Pays(World, todo', more, nesting_depth)
  <2>1. MaxNesting \in 0..MaxNesting /\ Base \in DOMAIN World.site
    BY <1>3, BaseIsThere, NestingAssumption
  <2> QED BY <1>1, <1>3, <2>1, FeatureFields, PaysMergeStyle DEF StylesOfFeature
<1> SUFFICES ASSUME ~ strayed PROVE Keeps(World, todo', merged, Promised \o more, nesting_depth)
  BY <1>2, <1>5 DEF PromiseInv
<1>7. PICK rest \in Seq(Styles) :
        /\ Pays(World, todo, rest, nesting_depth)
        /\ Within(merged \o rest, Promised)
        /\ nesting_depth >= 0 => merged \o rest = Promised
  BY DEF PromiseInv, Keeps
<1>8. rest = <<>> /\ merged \o rest = merged
  BY <1>2, <1>3, <1>7, PaysOnlyNothing, ConcatEmptySeq
<1>9. Promised \in Seq(Styles)
  BY PromisedType
<1> HIDE DEF more
<1>10. Within(merged \o more, Promised \o more)
  BY <1>3, <1>4, <1>7, <1>8, <1>9, WithinMore
<1>11. nesting_depth >= 0 => merged \o more = Promised \o more
  BY <1>7, <1>8
<1> QED BY <1>4, <1>6, <1>10, <1>11 DEF Keeps

(* The styles of the url that is dropped are dropped: it has none, or the  *)
(* count has run out.                                                      *)
LEMMA DroppedUrl ==
    ASSUME NEW world \in Worlds, NEW file \in DOMAIN world.site,
           NEW level \in 0..MaxNesting,
           NEW url \in Urls, url = NoUrl \/ (url.path # Here /\ ~ world.has_cache)
    PROVE  StylesOfUrl(world, url, file, level) = <<>>
BY UrlRuleHolds DEF UrlRule

LEMMA FollowedUrl ==
    ASSUME NEW world \in Worlds, NEW level \in 0..MaxNesting, level # 0,
           NEW url \in Urls, url # NoUrl, ~ (url.path # Here /\ ~ world.has_cache)
    PROVE  StylesOfUrl(world, url, Base, level)
             = StylesOfInline(world, SharedStyle(world.site, FileOf(url), url.id),
                                FileOf(url), level - 1)
BY BaseIsThere, UrlRuleHolds DEF UrlRule, FileOf

LEMMA PromiseUrl == ASSUME Types, PromiseInv, MergeStyleUrl PROVE PromiseInv'
<1> DEFINE W == Works(site)
           w == Head(todo)
           depth == nesting_depth - 1
           s == SharedStyle(site, FileOf(w.url), w.url.id)
           file == FileOf(w.url)
<1>1. /\ World' = World /\ Promised' = Promised /\ merged' = merged
      /\ nesting_depth' = depth
  BY DEF MergeStyleUrl, World, Promised, StylesOfFeature, Counted
<1>2. /\ World \in Worlds /\ World.site = site /\ World.has_cache = has_cache
      /\ merged \in Seq(Styles) /\ nesting_depth \in Int
      /\ depth \in Int /\ depth <= nesting_depth
  BY DEF Types, World
<1>3. /\ todo # <<>> /\ todo \in Seq(W) /\ Tail(todo) \in Seq(W)
      /\ w.what = "url" /\ w.url \in Urls /\ w.file \in DOMAIN site
      /\ \/ DropUrl(w.url) /\ todo' = <<>> \o Tail(todo) /\ strayed' = strayed
         \/ /\ ~ DropUrl(w.url)
            /\ todo' = SelectorWork(s, file) \o Tail(todo)
            /\ strayed' = (strayed \/ w.file # Base)
  BY MergerUrlStep
<1>4. Promised \in Seq(Styles)
  BY PromisedType
<1> SUFFICES ASSUME ~ strayed' PROVE Keeps(World, todo', merged, Promised, depth)
  BY <1>1 DEF PromiseInv
<1>5. ~ strayed
  BY <1>3
<1>6. PICK rest \in Seq(Styles) :
        /\ Pays(World, todo, rest, nesting_depth)
        /\ Within(merged \o rest, Promised)
        /\ nesting_depth >= 0 => merged \o rest = Promised
  BY <1>5 DEF PromiseInv, Keeps
<1> HIDE DEF W
<1>7. PICK first \in Seq(Styles), others \in Seq(Styles) :
        /\ rest = first \o others
        /\ IsWorth(World, w, first, nesting_depth)
        /\ Pays(World, Tail(todo), others, nesting_depth)
  BY <1>3, <1>6, PaysFirst
<1>8. PICK level \in 0..MaxNesting :
        nesting_depth <= level /\ first = StylesOfUrl(World, w.url, w.file, level)
  BY <1>3, <1>7 DEF IsWorth, Of
<1>9. Pays(World, Tail(todo), others, depth)
  BY <1>2, <1>7, PaysLess
<1>10. CASE DropUrl(w.url)
  <2>1. todo' = Tail(todo)
    BY <1>3, <1>10, ConcatEmptySeq
  <2>2. Within(merged \o others, Promised)
    BY <1>2, <1>4, <1>6, <1>7, WithinDrop
  <2>3. depth >= 0 => merged \o others = Promised
    <3> SUFFICES ASSUME depth >= 0 PROVE merged \o others = Promised
      OBVIOUS
    <3>1. ~ TooDeep /\ nesting_depth >= 0
      BY <1>2 DEF TooDeep, Counted
    <3>2. w.url = NoUrl \/ (w.url.path # Here /\ ~ World.has_cache)
      BY <1>2, <1>10, <3>1 DEF DropUrl
    <3>3. first = <<>>
      BY <1>2, <1>3, <1>8, <3>2, DroppedUrl
    <3>4. rest = others
      BY <1>7, <3>3, ConcatEmptySeq
    <3> QED BY <1>6, <3>1, <3>4
  <2> QED BY <1>9, <2>1, <2>2, <2>3 DEF Keeps
<1>11. CASE ~ DropUrl(w.url)
  <2>1. todo' = SelectorWork(s, file) \o Tail(todo) /\ w.file = Base
    BY <1>3, <1>11
  <2>2. /\ depth >= 0 /\ w.url # NoUrl /\ ~ (w.url.path # Here /\ ~ World.has_cache)
    BY <1>2, <1>11 DEF DropUrl, TooDeep, Counted
  <2>3. level # 0 /\ level - 1 \in 0..MaxNesting /\ depth <= level - 1
    BY <1>2, <1>8, <2>2, NestingAssumption
  <2>4. first = StylesOfInline(World, s, file, level - 1)
    BY <1>2, <1>3, <1>8, <2>1, <2>2, <2>3, FollowedUrl
  <2>5. s # NoSelector => s \in StyleSelectors /\ file \in DOMAIN World.site
    BY <1>2, SharedFields
  <2>6. SelectorWork(s, file) \in Seq(W)
    BY SharedWorkType DEF W
  <2> HIDE DEF s, file, depth
  <2>7. Pays(World, SelectorWork(s, file), first, depth)
    BY <1>2, <2>3, <2>4, <2>5, PaysSelector
  <2>8. Pays(World, todo', first \o others, depth)
    BY <1>3, <1>9, <2>1, <2>6, <2>7, PaysBoth
  <2>9. depth >= 0 => merged \o rest = Promised
    BY <1>2, <1>6, <2>2
  <2> QED BY <1>6, <1>7, <2>8, <2>9 DEF Keeps
<1> QED BY <1>10, <1>11

LEMMA PromiseSelector == ASSUME Types, PromiseInv, MergeStyleSelector PROVE PromiseInv'
<1> DEFINE W == Works(site)
           w == Head(todo)
<1>1. /\ World' = World /\ Promised' = Promised /\ nesting_depth' = nesting_depth
      /\ strayed' = strayed
  BY DEF MergeStyleSelector, World, Promised, StylesOfFeature
<1>2. /\ World \in Worlds /\ World.site = site /\ World.style_state = style_state
      /\ merged \in Seq(Styles) /\ nesting_depth \in Int /\ todo \in Seq(W)
  BY DEF Types, World
<1>3. /\ todo # <<>> /\ Tail(todo) \in Seq(W)
      /\ w.what = "selector" /\ w.selector \in StyleSelectors /\ w.file \in DOMAIN site
      /\ \/ /\ IsStyle(w.selector) /\ w.selector.style \in Styles
            /\ merged' = Append(merged, w.selector.style)
            /\ todo' = Tail(todo)
         \/ /\ IsStyleMap(w.selector)
            /\ merged' = merged
            /\ todo' = MergeStyleMap(w.selector, style_state, w.file) \o Tail(todo)
  BY MergerSelectorStep
<1> SUFFICES ASSUME ~ strayed PROVE Keeps(World, todo', merged', Promised, nesting_depth)
  BY <1>1 DEF PromiseInv
<1>6. PICK rest \in Seq(Styles) :
        /\ Pays(World, todo, rest, nesting_depth)
        /\ Within(merged \o rest, Promised)
        /\ nesting_depth >= 0 => merged \o rest = Promised
  BY DEF PromiseInv, Keeps
<1> HIDE DEF W
<1>7. PICK first \in Seq(Styles), others \in Seq(Styles) :
        /\ rest = first \o others
        /\ IsWorth(World, w, first, nesting_depth)
        /\ Pays(World, Tail(todo), others, nesting_depth)
  BY <1>2, <1>3, <1>6, PaysFirst
<1>8. PICK level \in 0..MaxNesting :
        nesting_depth <= level /\ first = StylesOfSelector(World, w.selector, w.file, level)
  BY <1>3, <1>7 DEF IsWorth, Of
<1>9. first = SelectorRule(World, w.selector, w.file, level)
  BY <1>2, <1>3, <1>8, SelectorRuleHolds
<1>10. CASE IsStyle(w.selector)
  <2>1. /\ merged' = Append(merged, w.selector.style)
        /\ todo' = Tail(todo) /\ w.selector.style \in Styles
    BY <1>3, <1>10, EitherSelector
  <2>2. first = <<w.selector.style>>
    BY <1>9, <1>10 DEF SelectorRule
  <2>3. merged' \o others = merged \o rest
    <3> DEFINE x == w.selector.style
    <3>1. merged' = merged \o <<x>>
      BY <1>2, <2>1
    <3>2. rest = <<x>> \o others /\ <<x>> \in Seq(Styles)
      BY <1>7, <2>1, <2>2
    <3> HIDE DEF x
    <3>3. (merged \o <<x>>) \o others = merged \o (<<x>> \o others)
      BY <1>2, <3>2, ConcatAssociative
    <3> QED BY <3>1, <3>2, <3>3
  <2> QED BY <1>6, <1>7, <2>1, <2>3 DEF Keeps
<1>11. CASE ~ IsStyle(w.selector)
  <2>1. /\ IsStyleMap(w.selector) /\ merged' = merged
        /\ todo' = MergeStyleMap(w.selector, style_state, w.file) \o Tail(todo)
    BY <1>3, <1>11
  <2>2. MergeStyleMap(w.selector, style_state, w.file) \in Seq(W)
    BY <1>3, <2>1, MergeStyleMapType DEF W
  <2>3. Pays(World, MergeStyleMap(w.selector, style_state, w.file), first, nesting_depth)
    BY <1>2, <1>3, <1>8, <1>9, <2>1, PaysMap
  <2>4. Pays(World, todo', first \o others, nesting_depth)
    BY <1>3, <1>7, <2>1, <2>2, <2>3, PaysBoth
  <2> QED BY <1>6, <1>7, <2>1, <2>4 DEF Keeps
<1> QED BY <1>10, <1>11

LEMMA PromiseNext == ASSUME Types, PromiseInv, [MergerNext]_mergerVars PROVE PromiseInv'
<1>1. CASE UNCHANGED mergerVars
  <2>1. /\ World' = World /\ todo' = todo /\ merged' = merged /\ strayed' = strayed
        /\ nesting_depth' = nesting_depth /\ Promised' = Promised
    BY <1>1 DEF mergerVars, World, Promised, StylesOfFeature
  <2> QED BY <2>1 DEF PromiseInv
<1>2. CASE MergerNext
  BY <1>2, PromiseCall, PromiseUrl, PromiseSelector DEF MergerNext, Step
<1> QED BY <1>1, <1>2

LEMMA PromiseKept == ASSUME Types, PromiseInv PROVE MergedAsPromised
<1> SUFFICES ASSUME ~ strayed
             PROVE  /\ IsSubsequence(merged, Promised)
                    /\ Returned /\ nesting_depth >= 0 => merged = Promised
  BY DEF MergedAsPromised
<1>1. PICK rest \in Seq(Styles) :
        /\ Pays(World, todo, rest, nesting_depth)
        /\ Within(merged \o rest, Promised)
        /\ nesting_depth >= 0 => merged \o rest = Promised
  BY DEF PromiseInv, Keeps
<1>2. merged \in Seq(Styles) /\ Promised \in Seq(Styles)
  BY PromisedType DEF Types
<1>3. IsSubsequence(merged, Promised)
  <2>1. Within(merged, Promised)
    BY <1>1, <1>2, WithinPrefix
  <2> QED BY <1>2, <2>1, WithinIsSubsequence
<1>4. ASSUME Returned, nesting_depth >= 0 PROVE merged = Promised
  <2>1. rest = <<>>
    BY <1>1, <1>4, PaysOnlyNothing DEF Returned
  <2>2. merged \o rest = merged
    BY <1>2, <2>1, ConcatEmptySeq
  <2> QED BY <1>1, <1>4, <2>2
<1> QED BY <1>3, <1>4

(* No Style is merged that does not apply, none twice, none out of order,  *)
(* and none is missing unless the count ran out.                           *)
THEOREM MergedAsPromisedAlways == MergerSpec => []MergedAsPromised
<1>1. MergerInit => Types /\ PromiseInv
  BY TypesInit, PromiseInit
<1>2. Types /\ PromiseInv /\ [MergerNext]_mergerVars => (Types /\ PromiseInv)'
  BY TypesNext, PromiseNext
<1>3. Types /\ PromiseInv => MergedAsPromised
  BY PromiseKept
<1> QED BY <1>1, <1>2, <1>3, PTL DEF MergerSpec
=============================================================================
