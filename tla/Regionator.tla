----------------------------- MODULE Regionator -----------------------------
(***************************************************************************)
(* The Regionator: a walk down a quadtree of Regions that asks a handler   *)
(* at each whether it has data, and writes one file per Region that has,   *)
(* with links to the files of its children.  The handlers are those that   *)
(* split a FeatureList: FeatureListRegionator, which sorts the list, aligns*)
(* the root with the world's quadtree and tells a progress monitor, and    *)
(* FeatureListRegionHandler on a Region of the client's, who may derive    *)
(* from it and show no Feature for a Region.                               *)
(*                                                                         *)
(* The client keeps its FeatureList and may have it regionated again, into *)
(* another directory.                                                      *)
(***************************************************************************)
EXTENDS Integers, Sequences, FiniteSets, SequencesExt, FiniteSetsExt

CONSTANTS
    Features,     \* the features
    Drawn,        \* the coordinates in each and in the features below it:
                  \* records of the class they are of, their kind, the points
    Score,        \* their scores
    Lists,        \* the FeatureLists
    MaxPers,      \* the features per Region that are asked for
    Regions,      \* the boxes of the client's Regions
    RootNames,    \* SetRootFilename: 0, or NoRootName if it is not called
    NoRootName,
    Half,         \* a bound: 180 degrees, on the grid on which the places are
    MaxDepth,     \* kAlignRegionMaxDepth
    MaxStack,     \* a bound: how many calls of _Regionate the process's stack holds
    MaxRounds     \* a bound: how often the client regionates its list

VARIABLES
    list,     \* the client's FeatureList
    parents,  \* the features that have a parent
    left,     \* the handler's feature_list_
    folders,  \* its feature_map_: from Region ids to what it shows
    stack,    \* the calls of _Regionate
    numbers,  \* qid_map_
    count,    \* region_count_
    files,    \* the files in the output directory, by name
    task,     \* what Regionate was called for
    rounds    \* how often

vars == <<list, parents, left, folders, stack, numbers, count, files, task, rounds>>

Quadrants == 1..4    \* NW, NE, SW, SE
Done      == 5       \* a call that has asked all its children

(* A box has its north above its south and its east right of its west.     *)
Boxes == {b \in [north : Int, south : Int, east : Int, west : Int] :
            b.north >= b.south /\ b.east >= b.west}

ASSUME RegionatorAssumption ==
  /\ \A f \in Features :
       /\ IsFiniteSet(Drawn[f])
       /\ \A d \in Drawn[f] : /\ IsFiniteSet(d.points)
                              /\ d.points \subseteq [lat : Int, lon : Int]
  /\ Score \in [Features -> Int]
  /\ \A l \in Lists : l \in Seq(Features) /\ IsInjective(l)
  /\ \A box \in Regions : box \in Boxes
  /\ MaxPers \subseteq Nat /\ NoRootName \notin Nat
  /\ Half \in Nat /\ MaxDepth \in Nat /\ MaxStack \in Nat

(* The other files have numbers for names, from 1 on; the client names the *)
(* root's.  SetRootFilename (regionator.h:75) takes one of those as well:  *)
(* with "2.kml" the root's file, the last, is written over a child's, and  *)
(* links to itself.  This is left out here.                                *)
ASSUME RootNameAssumption == RootNames \cap (Nat \ {0}) = {}

----------------------------------------------------------------------------
(* Bbox.  The quadtree's root is a square: 180 degrees to the north, too.  *)
(* Bounds starts with nothing at all and expands to hold all the points.   *)
World == [north |-> Half, south |-> -Half, east |-> Half, west |-> -Half]

Bounds(points) ==
  LET lats == {p.lat : p \in points}
      lons == {p.lon : p \in points}
  IN [north |-> Max({-Half} \cup lats), south |-> Min({Half} \cup lats),
      east |-> Max({-Half} \cup lons), west |-> Min({Half} \cup lons)]

Center(box) == [lat |-> (box.north + box.south) \div 2, lon |-> (box.east + box.west) \div 2]

(* GetFeatureBounds: what counts are the geometries of Placemarks, but for *)
(* the inner rings of a Polygon, and the Point of a PhotoOverlay.          *)
GeometryCounts(kind) ==
  kind \in {"Point", "LineString", "LinearRing", "outerBoundaryIs", "Location"}
Counts(d) ==
  \/ d.class = "Placemark" /\ GeometryCounts(d.kind)
  \/ d.class = "PhotoOverlay" /\ d.kind = "Point"
Points(f)  == UNION {d.points : d \in {e \in Drawn[f] : Counts(e)}}
Located(f) == Points(f) # {}

(* GetFeatureLatLon: the middle of its bounds.                             *)
Place == [f \in {g \in Features : Located(g)} |-> Center(Bounds(Points(f)))]

ContainsLatLon(box, f) ==
  /\ box.north >= Place[f].lat /\ box.south <= Place[f].lat
  /\ box.east >= Place[f].lon /\ box.west <= Place[f].lon

ContainedBy(r, box) ==
  /\ box.north >= r.north /\ box.south <= r.south
  /\ box.east >= r.east /\ box.west <= r.west

(* ComputeBoundingBox.                                                     *)
BoundingBox(l) == Bounds({Place[f] : f \in {g \in Range(l) : Located(g)}})

(* CreateChildRegion.                                                      *)
SlipQuarter(box, q) ==
  LET lat == Center(box).lat
      lon == Center(box).lon
  IN [north |-> IF q \in {1, 2} THEN box.north ELSE lat,
      south |-> IF q \in {1, 2} THEN lat ELSE box.south,
      east  |-> IF q = 4 THEN box.east ELSE lon,
      west  |-> IF q = 4 THEN lon ELSE box.west]
Quarter(box, q) ==
  LET lat == Center(box).lat
      lon == Center(box).lon
  IN [north |-> IF q \in {1, 2} THEN box.north ELSE lat,
      south |-> IF q \in {1, 2} THEN lat ELSE box.south,
      east  |-> IF q \in {2, 4} THEN box.east ELSE lon,
      west  |-> IF q \in {2, 4} THEN lon ELSE box.west]

(* AlignBbox: down to the quarter that holds it, NE, NW, SE and SW in turn.*)
Narrowed(box, r) ==
  LET In(q) == ContainedBy(r, Quarter(box, q)) IN
  IF In(2) THEN Quarter(box, 2) ELSE IF In(1) THEN Quarter(box, 1)
  ELSE IF In(4) THEN Quarter(box, 4) ELSE IF In(3) THEN Quarter(box, 3) ELSE box

Aligned(r) ==
  LET down[d \in 0..(MaxDepth + 1)] == IF d = 0 THEN World ELSE Narrowed(down[d - 1], r)
  IN down[MaxDepth + 1]

----------------------------------------------------------------------------
(* The features of l that are in S.                                        *)
Kept(l, S) ==
  LET kept[k \in 0..Len(l)] ==
        IF k = 0 THEN << >>
        ELSE IF l[k] \in S THEN Append(kept[k - 1], l[k]) ELSE kept[k - 1]
  IN kept[Len(l)]

(* FeatureList: Sort puts the highest score first, and is stable.          *)
Inserted(s, f) ==
  LET before == {g \in Features : Score[g] >= Score[f]}
  IN Append(Kept(s, before), f) \o Kept(s, Features \ before)
SlipSort(l) ==
  FoldLeft(LAMBDA s, f : Kept(s, {g \in Features : Score[g] <= Score[f]}) \o <<f>>
                           \o Kept(s, {g \in Features : Score[g] > Score[f]}), << >>, l)
Sort(l) ==
  LET sorted[k \in 0..Len(l)] ==
        IF k = 0 THEN << >> ELSE Inserted(sorted[k - 1], l[k])
  IN sorted[Len(l)]

Inside(box) == {f \in Features : Located(f) /\ ContainsLatLon(box, f)}

(* RegionSplit: the first max features in the box, or all of them.         *)
Split(l, box, max) ==
  LET in == Kept(l, Inside(box)) IN
  IF max = 0 \/ Len(in) <= max THEN in ELSE SubSeq(in, 1, max)

(* They are erased from the handler's list.  Slip: they stay in it.        *)
SlipWithout(l, s) == l
Without(l, s) == Kept(l, Features \ Range(s))

(* Save to a new Folder: what has a parent does not go into it.            *)
Save(s) == Kept(s, Features \ parents)

----------------------------------------------------------------------------
Root(box)     == [id |-> << >>, box |-> box]
Child(r, q)   == [id |-> Append(r.id, q), box |-> Quarter(r.box, q)]
Call(r)       == [region |-> r, next |-> 0, children |-> << >>]
Top           == Last(stack)
IsRoot(r)     == r.id = << >>
NoTask        == [sorted |-> FALSE, max |-> 0, name |-> NoRootName, region |-> World,
                  given |-> {}, refused |-> {}]

Init ==
  /\ list \in Lists /\ parents = {} /\ left = << >> /\ folders = << >>
  /\ stack = << >> /\ numbers = << >> /\ count = 0 /\ files = << >>
  /\ task = NoTask /\ rounds = 0

(* A new handler, with a copy of the list, and a new Regionator.  What is  *)
(* given is what is in the Region and can be put into a file.              *)
Start(l, box, sorted, max, name) ==
  /\ left' = l /\ folders' = << >> /\ stack' = <<Call(Root(box))>>
  /\ numbers' = << >> /\ count' = 0 /\ files' = << >>
  /\ task' = [sorted |-> sorted, max |-> max, name |-> name, region |-> box, refused |-> {},
              given |-> (Range(l) \cap Inside(box)) \ parents]

MayStart == stack = << >> /\ rounds < MaxRounds /\ rounds' = rounds + 1

(* FeatureListRegionator::Regionate and RegionateAligned.                  *)
RegionateAligned(max) ==
  /\ MayStart
  /\ list' = Sort(list)
  /\ LET box == BoundingBox(list) IN
     IF ContainedBy(box, World) THEN Start(list', Aligned(box), TRUE, max, NoRootName)
     ELSE UNCHANGED <<left, folders, stack, numbers, count, files, task>>
  /\ UNCHANGED parents

(* Regionate with a FeatureListRegionHandler.                              *)
Regionate(box, max, name) ==
  /\ MayStart
  /\ Start(list, box, FALSE, max, name)
  /\ UNCHANGED <<list, parents>>

(* _Regionate returns to Recurse, which goes on to the next quadrant.      *)
Advanced(c) == c.next + 1
Returned(s, r, hasData) ==
  IF Len(s) = 1 THEN << >>
  ELSE LET c == s[Len(s) - 1] IN
       Append(SubSeq(s, 1, Len(s) - 2),
              [c EXCEPT !.next = Advanced(c),
                        !.children = IF hasData THEN Append(@, r) ELSE @])

Return(hasData) == stack' = Returned(stack, Top.region, hasData)

(* The first lines of _Regionate, with HasData.  The progress monitor may  *)
(* say that this is enough: the Region then counts as one without data.    *)
HasData ==
  /\ stack # << >> /\ Top.next = 0
  /\ LET r == Top.region
         s == Split(left, r.box, task.max) IN
     \/ /\ s = << >>
        /\ Return(FALSE)
        /\ UNCHANGED <<parents, left, folders, numbers, count, task>>
     \/ /\ s # << >>
        /\ left' = Without(left, s)
        /\ parents' = parents \cup Range(s)
        /\ folders' = [i \in DOMAIN folders \cup {r.id} |-> IF i = r.id THEN Save(s) ELSE folders[i]]
        /\ \/ /\ count' = count + 1
              /\ numbers' = [i \in DOMAIN numbers \cup {r.id} |->
                               IF i = r.id THEN count' ELSE numbers[i]]
              /\ stack' = [stack EXCEPT ![Len(stack)].next = 1]
              /\ UNCHANGED task
           \/ /\ task.sorted
              /\ Return(FALSE)
              /\ task' = [task EXCEPT !.refused = @ \cup {r}]
              /\ UNCHANGED <<numbers, count>>
  /\ UNCHANGED <<list, files, rounds>>

(* Nothing in the code ends the recursion but Regions without data: when   *)
(* the process's stack is full, it goes no further.                        *)
Recurse ==
  /\ stack # << >> /\ Top.next \in Quadrants
  /\ Len(stack) < MaxStack
  /\ stack' = Append(stack, Call(Child(Top.region, Top.next)))
  /\ UNCHANGED <<list, parents, left, folders, numbers, count, files, task, rounds>>

SlipRegionFilename(r) ==
  IF task.name # NoRootName /\ IsRoot(r) THEN task.name ELSE Len(r.id) + 1
RegionFilename(r) ==
  IF task.name # NoRootName /\ IsRoot(r) THEN task.name ELSE numbers[r.id]

(* The rest of _Regionate: the document with its link to the root's file,  *)
(* GetFeature and SaveKml.                                                 *)
SlipDocument(r) ==
  [region |-> r,
   root   |-> IF task.name # NoRootName THEN task.name ELSE 1,
   links  |-> [k \in DOMAIN Top.children |->
                 [region |-> Top.children[k], href |-> numbers[r.id] + k]],
   shows  |-> folders[r.id]]
Document(r) ==
  [region |-> r,
   root   |-> IF task.name # NoRootName THEN task.name ELSE 1,
   links  |-> [k \in DOMAIN Top.children |->
                 [region |-> Top.children[k], href |-> RegionFilename(Top.children[k])]],
   shows  |-> folders[r.id]]

SaveKml ==
  /\ stack # << >> /\ Top.next = Done
  /\ LET r == Top.region
         name == RegionFilename(r) IN
     \/ /\ files' = [n \in DOMAIN files \cup {name} |-> IF n = name THEN Document(r) ELSE files[n]]
        /\ Return(TRUE)
        /\ UNCHANGED task
     \/ /\ ~task.sorted                  \* GetFeature returns NULL
        /\ Return(FALSE)
        /\ task' = [task EXCEPT !.refused = @ \cup {r}]
        /\ UNCHANGED files
  /\ UNCHANGED <<list, parents, left, folders, numbers, count, rounds>>

Walk == HasData \/ Recurse \/ SaveKml

Next ==
  \/ \E max \in MaxPers :
       \/ RegionateAligned(max)
       \/ \E box \in Regions, name \in RootNames : Regionate(box, max, name)
  \/ Walk

(* A call that was begun goes on.                                          *)
Spec == Init /\ [][Next]_vars /\ WF_vars(Walk)

----------------------------------------------------------------------------
Names == DOMAIN files
Ended == stack = << >> /\ rounds > 0

(* What a monitor's stop or a missing Feature takes away: the features of  *)
(* that Region, and those below it that nobody asked for.                  *)
Refused(f) ==
  \E r \in task.refused :
    \/ f \in Range(folders[r.id])
    \/ f \in Range(left) /\ ContainsLatLon(r.box, f)

(* Every feature of the list that is in the root's Region ends up in one   *)
(* file, in whose Region it is, also one that lies on the border of two or *)
(* four quadrants; and no file has more than was asked for.                *)
EachOnce ==
  /\ Ended => \A f \in task.given :
       LET shown == {n \in Names : f \in Range(files[n].shows)} IN
       /\ Cardinality(shown) = IF Refused(f) THEN 0 ELSE 1
       /\ \A n \in shown : ContainsLatLon(files[n].region.box, f)
  /\ task.max # 0 => \A n \in Names : Len(files[n].shows) <= task.max

(* A link names the file of the Region it is for, which was written before *)
(* it, and when all is done every file is reached: there is a link to it,  *)
(* unless it is the root's, or that Region's parent had no Feature.        *)
LinksMatchFiles ==
  /\ \A n \in Names : \A k \in DOMAIN files[n].links :
       LET link == files[n].links[k] IN
         /\ link.href \in Names /\ files[link.href].region = link.region
         /\ Front(link.region.id) = files[n].region.id
  /\ Ended => \A n \in Names :
       LET r == files[n].region IN
       \/ IsRoot(r)
       \/ \E p \in task.refused : p.id = Front(r.id)
       \/ \E m \in Names : \E k \in DOMAIN files[m].links : files[m].links[k].href = n
  /\ Ended => \A n, m \in Names :
       IsRoot(files[n].region) => files[m].root = n

(* No file is written over: one name for one Region.                       *)
NoFileTwice == [][stack # << >> => \A n \in Names : n \in DOMAIN files' /\ files'[n] = files[n]]_vars

(* The features with the higher scores are seen from farther away: no file *)
(* shows one that scores less than one in a file below it.                 *)
HigherFirst ==
  task.sorted =>
    \A n, m \in Names : IsStrictPrefix(files[n].region.id, files[m].region.id) =>
      \A f \in Range(files[n].shows), g \in Range(files[m].shows) : Score[f] >= Score[g]

(* The walk comes to an end within the bounds of the stack, however many   *)
(* features share a place: what a Region shows is erased from the list     *)
(* (feature_list.cc:99) that the next call's HasData looks at.             *)
WalkEnds == stack # << >> ~> stack = << >>
=============================================================================
