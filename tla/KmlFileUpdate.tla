--------------------------- MODULE KmlFileUpdate ---------------------------
(***************************************************************************)
(* A KmlFile and the UpdateProcessor that works on it: the elements of the *)
(* file, the map from ids to them that is made when the file is read, and  *)
(* the operations of an Update, each of which looks its target up in that  *)
(* map.  A client also uses the file's Containers directly.                *)
(*                                                                         *)
(* An element is a number.  A tree, be it a document or what an operation  *)
(* brings along, is a sequence of nodes in the order they are parsed:      *)
(*   [kind, id, targetId, field, parent, kids],                            *)
(* where parent (0 for none) and kids are numbers of the tree's nodes and  *)
(* field stands for the simple elements.  heap is such a sequence, but for *)
(* its order: every element the program ever made.                         *)
(***************************************************************************)
EXTENDS Integers, Sequences, FiniteSets, SequencesExt

CONSTANTS
    Ids, NoId,   \* the ids; NoId for an attribute that is not set
    Kinds, Fields, \* the types, the values of the simple elements
    NoField,     \* for an element without simple elements
    Documents,   \* the files
    Changes,     \* the children of a Change, a tree each
    Containers,  \* the children of a Create
    NewFeatures, \* what the client makes
    Maps,        \* the id maps of ProcessUpdateWithIdMap
    NoMap,       \* ProcessUpdate passes no map
    MaxCalls     \* a bound: the operations and calls of a run

VARIABLES
    heap,   \* the elements
    idMap,  \* object_id_map_
    held,   \* the elements the client has pointers to
    work,   \* the MergeElements that is under way, or Idle
    strays, \* the elements that misplaced ones were added to
    dropped, \* history: what was taken out of an array, and nobody points to
    call,   \* the operation begun last: <<name, id, features it brings>>
    calls   \* their number

vars == <<heap, idMap, held, work, strays, dropped, call, calls>>

Objects  == DOMAIN heap
Root     == 1
Nodes    == [kind : Kinds, id : Ids \cup {NoId}, targetId : Ids \cup {NoId},
             field : Fields, parent : Nat, kids : Seq(Nat)]
IsFeature(o)   == heap[o].kind \in {"Folder", "Placemark"}
IsContainer(o) == heap[o].kind = "Folder"

----------------------------------------------------------------------------
(* The nodes of a tree at and below node k are those from k up to, and     *)
(* without, the first one that hangs above k.                              *)
IsLastBelow(t, k, l) ==
  /\ \A n \in (k + 1)..l : t[n].parent >= k
  /\ l < Len(t) => t[l + 1].parent < k
LastBelow(t, k) == CHOOSE l \in k..Len(t) : IsLastBelow(t, k, l)

(* Every node but the first has a parent before it.  A child is a later    *)
(* node, of one parent, with nothing in between that hangs above the parent*)
IsTree(t) ==
  /\ t \in Seq(Nodes) /\ t # << >> /\ t[1].parent = 0
  /\ \A k \in 2..Len(t) : /\ t[k].parent \in 1..(k - 1)
                          /\ k \in Range(t[t[k].parent].kids)
  /\ \A k \in DOMAIN t :
       /\ \E l \in k..Len(t) : IsLastBelow(t, k, l)
       /\ \A i \in DOMAIN t[k].kids :
            LET j == t[k].kids[i] IN
              /\ j \in (k + 1)..Len(t) /\ t[j].parent = k
              /\ \A n \in (k + 1)..j : t[n].parent >= k
              /\ \A m \in DOMAIN t[k].kids : t[k].kids[m] = j => m = i

ASSUME TreesAssumption ==
  \A t \in Documents \cup Changes \cup Containers \cup NewFeatures : IsTree(t)

(* The schema: what stands below what, and a single one of it but for a    *)
(* Container.  A kml is the root of a document and has no id.              *)
Takes(parent, kid) ==
  \/ parent \in {"kml", "Folder"} /\ kid \in {"Folder", "Placemark"}
  \/ parent = "Placemark" /\ kid \in {"Point", "LineString"}

FollowsSchema(t) ==
  \A k \in DOMAIN t :
    /\ \A i \in DOMAIN t[k].kids : Takes(t[k].kind, t[t[k].kids[i]].kind)
    /\ t[k].kind # "Folder" => Len(t[k].kids) <= 1
    /\ t[k].kind = "kml" => k = 1 /\ t[k].id = NoId

ASSUME SchemaAssumption ==
  /\ \A t \in Documents \cup Changes \cup Containers \cup NewFeatures : FollowsSchema(t)
  /\ \A t \in Changes \cup Containers \cup NewFeatures : t[1].kind # "kml"
  /\ \A t \in Containers : t[1].kind = "Folder"

ASSUME IdsAssumption ==
  NoId \notin Ids /\ \A map \in Maps \ {NoMap} : \A i \in DOMAIN map : map[i] \in Ids

(* Clone, with what parse would do for the same text: the nodes at and     *)
(* below k as new elements that follow the first n ones.                   *)
Clone(t, k, n) ==
  [j \in 1..(LastBelow(t, k) - k + 1) |->
     LET node == t[k + j - 1] IN
     [node EXCEPT !.parent = IF j = 1 THEN 0 ELSE n + @ - k + 1,
                  !.kids   = [i \in DOMAIN @ |-> n + @[i] - k + 1]]]

(* SetParent: an element is given a parent once.                           *)
SlipMayAdopt(h, o) == TRUE
MayAdopt(h, o) == h[o].parent = 0

(* AddElement of an element to a parent of a kind that takes it: a feature *)
(* goes to the end of a Container's array (AddComplexChild), the feature   *)
(* of a kml or the geometry of a Placemark takes the place of the one that *)
(* was there (SetComplexChild).                                            *)
AddElement(h, p, o) ==
  IF MayAdopt(h, o)
  THEN [h EXCEPT ![o].parent = p,
                 ![p].kids = IF h[p].kind = "Folder" THEN Append(@, o) ELSE <<o>>]
  ELSE h

AddClone(h, p, t, k) == AddElement(h \o Clone(t, k, Len(h)), p, Len(h) + 1)

----------------------------------------------------------------------------
(* ObjectIdParserObserver, and MapIds on import: the last one wins.        *)
MapIds(t) ==
  [i \in {t[k].id : k \in DOMAIN t} \ {NoId} |->
     CHOOSE k \in DOMAIN t : t[k].id = i /\ \A l \in (k + 1)..Len(t) : t[l].id # i]

Idle == [src |-> << >>, into |-> << >>, seen |-> << >>]

Init ==
  /\ heap \in Documents
  /\ idMap = MapIds(heap)
  /\ held = {} /\ work = Idle /\ strays = {} /\ dropped = {}
  /\ call = <<"none", NoId, 0>> /\ calls = 0

(* GetTargetId and GetObjectById.                                          *)
GetTargetId(map, t) ==
  IF map = NoMap THEN t ELSE IF t \in DOMAIN map THEN map[t] ELSE NoId

Begin(name, id, new) ==
  /\ work = Idle /\ calls < MaxCalls
  /\ call' = <<name, id, new>> /\ calls' = calls + 1

----------------------------------------------------------------------------
(* MergeFields: the attributes of the node, whatever its kind, and the     *)
(* simple elements, all Features having the same, and all geometries.      *)
SameFields(kind, other) ==
  (kind \in {"Folder", "Placemark"}) = (other \in {"Folder", "Placemark"})

MergeFields(e, node) ==
  [e EXCEPT !.id       = IF node.id = NoId THEN @ ELSE node.id,
            !.targetId = IF node.targetId = NoId THEN @ ELSE node.targetId,
            !.field    = IF node.field = NoField \/ ~SameFields(e.kind, node.kind) THEN @ ELSE node.field]

(* ProcessUpdateChange for one child of the Change, which need not be of   *)
(* the target's kind.  The merge goes down the child's tree, one node at a *)
(* time; what a node is merged into, or 0, is in work.into, and the        *)
(* children that element had before those of the node are in work.seen.    *)
(* The code merges the fields of a node after its children: they do not    *)
(* touch each other.                                                       *)
Change(src, map) ==
  LET i == GetTargetId(map, src[1].targetId) IN
  /\ Begin("Change", i, 0)
  /\ IF i \in DOMAIN idMap
     THEN /\ heap' = [heap EXCEPT ![idMap[i]] = MergeFields(@, src[1])]
          /\ work' = [src |-> src, into |-> <<idMap[i]>>, seen |-> <<heap[idMap[i]].kids>>]
     ELSE UNCHANGED <<heap, work>>
  /\ UNCHANGED <<idMap, held, strays, dropped>>

Node == Len(work.into) + 1
Into == work.into[work.src[Node].parent]

(* The first child of the same type, if there was one.                     *)
Matches(kids, kind) == {k \in DOMAIN kids : heap[kids[k]].kind = kind}

Visited(o) ==
  work' = [work EXCEPT !.into = Append(@, o),
                       !.seen = Append(@, IF o = 0 THEN << >> ELSE heap[o].kids)]

(* A clone that the element does not take goes to its misplaced elements,  *)
(* without a parent.  They and what is below are not followed any further, *)
(* but the children of a misplaced element count as children of the one it *)
(* is in (GetChildElements): a node may be merged into one of those.       *)
MergeElements ==
  /\ work # Idle /\ Node <= Len(work.src)
  /\ LET node == work.src[Node]
         kids == work.seen[node.parent]
         same == Matches(kids, node.kind) IN
     \/ /\ Into = 0                \* cloned along with its parent
        /\ Visited(0) /\ UNCHANGED <<heap, strays>>
     \/ /\ Into # 0 /\ same # {}
        /\ LET o == kids[CHOOSE k \in same : \A l \in same : k <= l] IN
             /\ Visited(o)
             /\ heap' = [heap EXCEPT ![o] = MergeFields(@, node)]
             /\ UNCHANGED strays
     \/ /\ Into # 0 /\ same = {}
        /\ Visited(0)
        /\ \/ /\ Takes(heap[Into].kind, node.kind)
              /\ heap' = AddClone(heap, Into, work.src, Node)
              /\ UNCHANGED strays
           \/ /\ ~Takes(heap[Into].kind, node.kind)
              /\ strays' = strays \cup {Into}
              /\ UNCHANGED heap
           \/ /\ Into \in strays
              /\ UNCHANGED <<heap, strays>>
  /\ UNCHANGED <<idMap, held, dropped, call, calls>>

MergeEnds ==
  /\ work # Idle /\ Node > Len(work.src)
  /\ heap' = [heap EXCEPT ![work.into[1]].targetId = NoId]
  /\ work' = Idle
  /\ UNCHANGED <<idMap, held, strays, dropped, call, calls>>

----------------------------------------------------------------------------
(* CopyFeatures: the whole container is cloned but for its first node, and *)
(* the features of the source hang below the target.                       *)
CopyFeatures(h, c, src) ==
  LET n   == Len(h) - 1
      new == [j \in 1..(Len(src) - 1) |->
                [src[j + 1] EXCEPT
                   !.parent = IF @ = 1 THEN c ELSE n + @,
                   !.kids   = [i \in DOMAIN @ |-> n + @[i]]]]
  IN [h EXCEPT ![c].kids = @ \o [i \in DOMAIN src[1].kids |-> n + src[1].kids[i]]] \o new

Create(src, map) ==
  LET i == GetTargetId(map, src[1].targetId) IN
  /\ Begin("Create", i, Len(src[1].kids))
  /\ heap' = IF i \in DOMAIN idMap /\ IsContainer(idMap[i])
             THEN CopyFeatures(heap, idMap[i], src) ELSE heap
  /\ UNCHANGED <<idMap, held, work, strays, dropped>>

(* Reference counts: what is reached from some pointers stays; a parent_   *)
(* is no such pointer.                                                     *)
Reached(h, roots) ==
  LET Kids(s) == s \cup UNION {Range(h[o].kids) : o \in s}
      f[k \in 0..Len(h)] == IF k = 0 THEN roots ELSE Kids(f[k - 1])
  IN f[Len(h)]

Pointers == {Root} \cup Range(idMap) \cup held
Live     == Reached(heap, Pointers \cup (Range(work.into) \ {0})
                            \cup UNION {Range(s) : s \in Range(work.seen)})

Erase(h, c, k) == [h EXCEPT ![c].kids = RemoveAt(@, k)]

(* Container::DeleteFeatureById takes the first one of that id.            *)
SlipFirstWithId(c, i) == {k \in DOMAIN heap[c].kids : heap[heap[c].kids[k]].id = i /\ k > 1}
FirstWithId(c, i) ==
  {k \in DOMAIN heap[c].kids :
     /\ heap[heap[c].kids[k]].id = i
     /\ \A l \in 1..(k - 1) : heap[heap[c].kids[l]].id # i}

DeleteFeatureById(i) ==
  LET o == idMap[i]  p == heap[o].parent IN
  IF i \notin DOMAIN idMap \/ ~IsFeature(o) \/ p = 0 THEN heap
  ELSE IF heap[p].kind = "kml" THEN [heap EXCEPT ![p].kids = << >>]
  ELSE IF FirstWithId(p, i) = {} THEN heap
  ELSE Erase(heap, p, CHOOSE k \in FirstWithId(p, i) : TRUE)

(* What no array has any more, the map not and the client not, is released.*)
Drops ==
  dropped' = dropped \cup
    ((UNION {Range(heap[p].kids) \ Range(heap'[p].kids) : p \in Objects})
       \ (Range(idMap) \cup held'))

(* The map is not told.                                                    *)
SlipMapAfterDelete(i) == [j \in DOMAIN idMap \ {i} |-> idMap[j]]
MapAfterDelete(i) == idMap

(* The parent_ that is read was not released.  Otherwise the program is    *)
(* undefined, and ends here.                                               *)
Defined(i) ==
  i \in DOMAIN idMap /\ IsFeature(idMap[i]) => heap[idMap[i]].parent \in Live \cup {0}

Delete(t, map) ==
  LET i == GetTargetId(map, t) IN
  /\ Defined(i)
  /\ Begin("Delete", i, 0)
  /\ heap' = DeleteFeatureById(i)
  /\ idMap' = MapAfterDelete(i)
  /\ UNCHANGED <<held, work, strays>> /\ Drops

----------------------------------------------------------------------------
(* A client makes a feature, adds features, not the root, to containers not*)
(* below the feature, and takes them out of them.  It has the pointers of  *)
(* what it made, and that DeleteFeatureAt returned, if it keeps it.        *)
NewFeature(t) ==
  /\ Begin("client", NoId, 0)
  /\ heap' = heap \o Clone(t, 1, Len(heap))
  /\ held' = held \cup {Len(heap) + 1}
  /\ UNCHANGED <<idMap, work, strays, dropped>>

AddFeature(c, o) ==
  /\ IsContainer(c) /\ IsFeature(o) /\ o # Root /\ c \notin Reached(heap, {o})
  /\ Begin("client", NoId, 1)
  /\ heap' = AddElement(heap, c, o)
  /\ UNCHANGED <<idMap, held, work, strays, dropped>>

DeleteFeatureAt(c, k) ==
  /\ IsContainer(c) /\ k \in DOMAIN heap[c].kids
  /\ Begin("client", NoId, 0)
  /\ heap' = Erase(heap, c, k)
  /\ held' = held \/ held' = held \cup {heap[c].kids[k]}
  /\ UNCHANGED <<idMap, work, strays>> /\ Drops

Next ==
  \/ \E map \in Maps :
       \/ \E src \in Changes : Change(src, map)
       \/ \E src \in Containers : Create(src, map)
       \/ \E t \in Ids : Delete(t, map)
  \/ MergeElements \/ MergeEnds
  \/ \E t \in NewFeatures : NewFeature(t)
  \/ LET live == Live IN
     \/ \E c, o \in live : AddFeature(c, o)
     \/ \E c \in live : \E k \in DOMAIN heap[c].kids : DeleteFeatureAt(c, k)

Spec == Init /\ [][Next]_vars

----------------------------------------------------------------------------
(* An element stands in one place at most, below the element it has as its *)
(* parent: nothing that is moved, deleted and added again by any mix of    *)
(* Updates and calls ends up in two arrays, or twice in one.               *)
OneHome ==
  \A p \in Objects : \A k \in DOMAIN heap[p].kids :
    LET o == heap[p].kids[k] IN
      /\ o \in Objects /\ heap[o].parent = p
      /\ \A l \in DOMAIN heap[p].kids : heap[p].kids[l] = o => l = k

(* What DeleteFeatureById reads is there: the parent_ of a feature that    *)
(* can still be found, by its id or otherwise, is a plain pointer.  Its    *)
(* target is released in one case only: it was, or stood below, a feature  *)
(* that was dropped.  No Update drops what the map gives for its id, but   *)
(* one of two features of that id may be dropped for the other.            *)
ParentsLive ==
  LET live == Live  lost == Reached(heap, dropped) IN
  \A o \in live : IsFeature(o) => heap[o].parent \in live \cup lost \cup {0}

(* Every operation does to the file what UpdatePromise says of it.         *)
Seen(h) ==
  [o \in Reached(h, {Root}) |->
     [kind |-> h[o].kind, id |-> h[o].id, field |-> h[o].field,
      parent |-> h[o].parent, kids |-> h[o].kids]]

Promise == INSTANCE UpdatePromise WITH
             tree     <- Seen(heap),
             table    <- idMap,
             amending <- IF work = Idle THEN 0 ELSE work.into[1],
             call     <- call, Ids <- Ids, NoId <- NoId
StepsAsPromised == Promise!Spec
=============================================================================
