---------------------------- MODULE StyleObservers ----------------------------
(***************************************************************************)
(* SplitStyles and InlineStyles: a parse with one observer that moves the  *)
(* styles of Features into a Document, or back.  The environment brings    *)
(* the elements of a document one by one; plain is the tree the parser     *)
(* would build without an observer, tree the one it builds with it.        *)
(***************************************************************************)
EXTENDS Integers, Sequences, FiniteSets, SequencesExt

CONSTANTS
    Ids,            \* the ids of the document's StyleSelectors
    UniqueIds,      \* what CreateUniqueId makes of the counter 0, 1, ...: may overlap Ids
    NoId,           \* an element without id, a Feature without styleUrl
    NULL,           \* a Feature without StyleSelector; no Document yet
    MaxElements     \* bound on the size of the document

(* A StyleSelector is [id, means]: a Style of its own (a number), a        *)
(* StyleMap onto an id, or what the inliner makes of one: a set of Styles. *)
AllIds == Ids \cup ToSet(UniqueIds)

Meanings == [what : {"style"}, style : Nat] \cup [what : {"map"}, id : AllIds]
              \cup [what : {"resolved"}, styles : SUBSET Nat]

Selectors == [id : AllIds \cup {NoId}, means : Meanings]

(* The ids that CreateUniqueId makes of different counters are different.  *)
ASSUME UniqueIdsAssumption ==
    /\ UniqueIds \in Seq(AllIds)
    /\ \A i, j \in 1..Len(UniqueIds) : UniqueIds[i] = UniqueIds[j] => i = j

ASSUME NullAssumption == NoId \notin AllIds /\ NULL \notin Selectors /\ NULL \notin Nat

VARIABLES
    observer,       \* "splitter" or "inliner"
    open,           \* the numbers of the elements that have started, innermost last
    nodes,          \* what was started: [kind, in_update]
    plain, tree,    \* for each node: [url, selector, styles]
    early,          \* history: what each styleUrl meant in plain when it was read
    replaced,       \* history: [feature, selector], inline styles another one took the place of
    document,       \* document_: a node or NULL
    in_update,      \* in_update_
    shared,         \* shared_style_map_ of the splitter, shared_styles_ of the inliner
    id_counter,     \* id_counter_ of the splitter
    size            \* of the document so far: elements, StyleSelectors and styleUrls

vars == <<observer, open, nodes, plain, tree, early, replaced,
          document, in_update, shared, id_counter, size>>

Bare == [url |-> NoId, selector |-> NULL, styles |-> <<>>]

Init ==
    /\ observer \in {"splitter", "inliner"}
    /\ open = <<1>> /\ nodes = <<[kind |-> "kml", in_update |-> FALSE]>>
    /\ plain = <<Bare>> /\ tree = <<Bare>>
    /\ early = <<{}>> /\ replaced = {}
    /\ document = NULL /\ in_update = FALSE
    /\ shared = [i \in {} |-> NULL]
    /\ id_counter = 0
    /\ size = 1

-----------------------------------------------------------------------------
(* What StyleMaps lead to, however long a chain of them is.  named says    *)
(* which selectors an id stands for.                                       *)
Own(means) ==
    CASE means.what = "style" -> {means.style}
      [] means.what = "resolved" -> means.styles
      [] OTHER -> {}

Targets(means) == IF means.what = "map" THEN {means.id} ELSE {}

Following(named, i) == UNION {Targets(s.means) : s \in named[i]}

ClosedUnder(named, ids) == \A i \in ids : Following(named, i) \subseteq ids

Reached(named, from) ==
    {i \in AllIds : \A ids \in SUBSET AllIds :
        from \subseteq ids /\ ClosedUnder(named, ids) => i \in ids}

StylesOf(named, i) == UNION {Own(s.means) : s \in named[i]}

Means(named, means) ==
    Own(means) \cup UNION {StylesOf(named, i) : i \in Reached(named, Targets(means))}

(* The shared styles of a whole tree, and of a map.                        *)
StylesIn(t) == UNION {ToSet(t[n].styles) : n \in DOMAIN t}

SharedIn(t) == [i \in AllIds |-> {s \in StylesIn(t) : s.id = i}]

SharedOf(map) == [i \in AllIds |-> IF i \in DOMAIN map THEN {map[i]} ELSE {}]

MapTo(i) == [what |-> "map", id |-> i]

(* The Styles a Feature is drawn with: the shared ones, then the inline.   *)
Layer(styles) == IF styles = {} THEN <<>> ELSE <<styles>>

ByUrl(t, n) == IF t[n].url = NoId THEN {} ELSE Means(SharedIn(t), MapTo(t[n].url))

Inline(t, n) ==
    IF t[n].selector = NULL THEN {} ELSE Means(SharedIn(t), t[n].selector.means)

StyleOf(t, n) == Layer(ByUrl(t, n)) \o Layer(Inline(t, n))

Put(map, i, s) == [j \in DOMAIN map \cup {i} |-> IF j = i THEN s ELSE map[j]]

-----------------------------------------------------------------------------
Top == Last(open)
Kind == nodes[Top].kind
Grows == size < MaxElements /\ size' = size + 1

(* To the observers a Placemark is a Folder with nothing in it.            *)
Features == {"Document", "Folder"}
NonDocument == {"Folder"}

(* Where the parser expects what; a kml has one Feature.                   *)
Fits(kind) ==
    CASE kind = "Update" -> Kind = "kml" /\ \A n \in DOMAIN nodes : nodes[n].kind # "Update"
      [] kind \in Features ->
           \/ Kind \in {"Document", "Folder", "Update"}
           \/ Kind = "kml" /\ \A n \in DOMAIN nodes : nodes[n].kind \in Features => nodes[n].in_update

(* NewElement of either observer.  Slips: the Update is not noticed; any   *)
(* Feature becomes the home of the shared styles.                          *)
SlipEntered(kind) == in_update
EnteredUpdate(kind) == in_update \/ kind = "Update"

IsHome(kind) == document = NULL /\ kind = "Document"

NewElement(kind) ==
    /\ document' = IF IsHome(kind) THEN Len(nodes) + 1 ELSE document
    /\ in_update' = EnteredUpdate(kind)

StartElement(kind) ==
    /\ Grows /\ open # <<>> /\ Fits(kind)
    /\ open' = Append(open, Len(nodes) + 1)
    /\ nodes' = Append(nodes, [kind |-> kind,
                               in_update |-> nodes[Top].in_update \/ kind = "Update"])
    /\ plain' = Append(plain, Bare) /\ tree' = Append(tree, Bare)
    /\ early' = Append(early, {})
    /\ NewElement(kind)
    /\ UNCHANGED <<observer, replaced, shared, id_counter>>

(* The end of an element that is no leaf: EndElement of the splitter or    *)
(* AddChild of the inliner sees the Update out.  Slip: it does not.        *)
SlipNeverEnds == FALSE
UpdateEnds == Kind = "Update"

EndElement ==
    /\ open # <<>>
    /\ open' = Front(open)
    /\ in_update' = (in_update /\ ~ UpdateEnds)
    /\ UNCHANGED <<observer, nodes, plain, tree, early, replaced, document, shared, id_counter, size>>

-----------------------------------------------------------------------------
(* Feature::AddElement and Document::AddElement: a Feature has one         *)
(* StyleSelector, the last; a Document collects shared ones.               *)
AddSelector(t, n, s) ==
    IF nodes[n].kind = "Document" THEN [t EXCEPT ![n].styles = Append(@, s)]
                                  ELSE [t EXCEPT ![n].selector = s]

(* The splitter's EndElement for a StyleSelector: it goes to the Document  *)
(* under a new id and the Feature gets a styleUrl instead.  Slip: the      *)
(* Feature's own styleUrl is not looked at.                                *)
UniqueId == UniqueIds[id_counter + 1]

SlipHasUrl ==
    ~ in_update /\ document # NULL /\ Kind \in NonDocument /\ UniqueId \notin DOMAIN shared

Splits ==
    /\ ~ in_update /\ document # NULL /\ Kind \in NonDocument
    /\ tree[Top].url = NoId
    /\ UniqueId \notin DOMAIN shared

(* MergeElements copies the attributes too, the id included.               *)
NewId(s) == IF s.id = NoId THEN UniqueId ELSE s.id

Split(s) ==
    /\ Splits
    /\ id_counter' = id_counter + 1
    /\ shared' = Put(shared, NewId(s), [s EXCEPT !.id = NewId(s)])
    /\ tree' = [tree EXCEPT ![document].styles = Append(@, [s EXCEPT !.id = NewId(s)]),
                            ![Top].url = UniqueId]

(* The inliner's EndElement keeps a Document's styles to itself.           *)
Captures(s) == ~ in_update /\ Kind = "Document" /\ s.id # NoId

Capture(s) ==
    /\ Captures(s)
    /\ shared' = Put(shared, s.id, s)
    /\ UNCHANGED <<tree, id_counter>>

Untouched(s) ==
    /\ IF observer = "splitter" THEN ~ Splits ELSE ~ Captures(s)
    /\ tree' = AddSelector(tree, Top, s)
    /\ UNCHANGED <<shared, id_counter>>

(* A document in which no two StyleSelectors have one id.                  *)
InlineStyles ==
    ({plain[n].selector : n \in DOMAIN plain} \ {NULL}) \cup {r.selector : r \in replaced}

NewSelector(s) ==
    s.id # NoId =>
        /\ \A r \in InlineStyles : r.id # s.id
        /\ \A n \in DOMAIN plain :
              \A i \in DOMAIN plain[n].styles : plain[n].styles[i].id # s.id

(* A Feature may bring several: the last is its own.                       *)
Replaces == Kind # "Document" /\ plain[Top].selector # NULL
Old == [feature |-> Top, selector |-> plain[Top].selector]

StyleSelector(id, means) ==
    LET s == [id |-> id, means |-> means] IN
    /\ open # <<>> /\ Kind \in Features /\ Grows
    /\ id_counter < Len(UniqueIds)
    /\ NewSelector(s)
    /\ plain' = AddSelector(plain, Top, s)
    /\ replaced' = replaced \cup (IF Replaces THEN {Old} ELSE {})
    /\ \/ observer = "splitter" /\ Split(s)
       \/ observer = "inliner" /\ Capture(s)
       \/ Untouched(s)
    /\ UNCHANGED <<observer, open, nodes, early, document, in_update>>

-----------------------------------------------------------------------------
(* The inliner's EndElement for a styleUrl: a captured style is copied     *)
(* into the Feature as CreateResolvedStyleSelector resolves it.  Slip: as  *)
(* it is, StyleMaps not resolved.                                          *)
Inlines(id) == observer = "inliner" /\ ~ in_update /\ id \in DOMAIN shared

SlipUnresolved(id) == [id |-> NoId, means |-> shared[id].means]
Resolved(id) ==
    [id |-> NoId,
     means |-> [what |-> "resolved", styles |-> Means(SharedOf(shared), MapTo(id))]]

StyleUrl(id) ==
    /\ open # <<>> /\ Kind \in NonDocument /\ Grows
    /\ plain[Top].url = NoId
    /\ plain' = [plain EXCEPT ![Top].url = id]
    /\ early' = [early EXCEPT ![Top] = Means(SharedIn(plain), MapTo(id))]
    /\ tree' = IF Inlines(id) THEN [tree EXCEPT ![Top].selector = Resolved(id)]
                              ELSE [tree EXCEPT ![Top].url = id]
    /\ UNCHANGED <<observer, open, nodes, replaced, document, in_update, shared, id_counter>>

Next ==
    \/ \E kind \in Features \cup {"Update"} : StartElement(kind)
    \/ EndElement
    \/ \E id \in Ids \cup {NoId} :
         \/ StyleSelector(id, [what |-> "style", style |-> size])
         \/ \E to \in Ids : StyleSelector(id, MapTo(to))
    \/ \E id \in Ids : StyleUrl(id)

Spec == Init /\ [][Next]_vars

-----------------------------------------------------------------------------
Parsed == open = <<>>

(* What SplitStyles does not handle: a generated id that the document uses *)
(* too, an inline style with an id, a styleUrl after an inline style, a    *)
(* second inline style of a Feature (it has a styleUrl by then, and keeps  *)
(* it: style_splitter.cc:80), and a first Document that is in an Update.   *)
Generated == {UniqueIds[i] : i \in 1 .. id_counter}

Several(n) == \E r \in replaced : r.feature = n

Odd(n) ==
    \/ Several(n)
    \/ plain[n].selector # NULL /\ plain[n].selector.id # NoId
    \/ /\ plain[n].url # NoId /\ plain[n].selector # NULL
       /\ tree[n].selector = NULL /\ tree[n].url = plain[n].url

SelectorsIn(t) ==
    UNION {ToSet(t[n].styles) \cup ({t[n].selector} \ {NULL}) : n \in DOMAIN t}

IdsUsedIn(t) ==
    {s.id : s \in SelectorsIn(t)} \cup {t[n].url : n \in DOMAIN t}
        \cup {s.means.id : s \in {r \in SelectorsIn(t) : r.means.what = "map"}}

OddDocument ==
    \/ \E s \in InlineStyles : s.id # NoId
    \/ Generated \cap IdsUsedIn(plain) # {}
    \/ document # NULL /\ nodes[document].in_update

(* SplitStyles moves styles but changes none: every Feature is drawn as    *)
(* before (style_splitter.cc:75-98).                                       *)
SplitKeepsStyles ==
    Parsed /\ observer = "splitter" /\ ~ OddDocument =>
        \A n \in DOMAIN nodes : ~ Odd(n) => StyleOf(tree, n) = StyleOf(plain, n)

(* The conditions of style_splitter.h:42-47 are enough: no other inline    *)
(* style is left.                                                          *)
AllAreSplit ==
    Parsed /\ observer = "splitter" /\ ~ OddDocument =>
        \A n \in DOMAIN nodes :
            nodes[n].kind \in NonDocument /\ ~ nodes[n].in_update /\ ~ Several(n)
              /\ document # NULL /\ document < n /\ plain[n].url = NoId =>
                tree[n].selector = NULL

(* The guard is on just while an element of the Update is the innermost,   *)
(* and what is in the Update is as it was (style_splitter.cc:45,           *)
(* style_inliner.cc:66), at every moment and in every document, but for    *)
(* the splitter's own Document: it may be one of the Update's, and then    *)
(* gets more styles, after those it has.                                   *)
InUpdateNow == open # <<>> /\ nodes[Top].in_update

IsHomeOfMore(n) ==
    /\ observer = "splitter" /\ n = document
    /\ tree[n].url = plain[n].url /\ tree[n].selector = plain[n].selector
    /\ IsPrefix(plain[n].styles, tree[n].styles)

UpdatesUntouched ==
    /\ in_update = InUpdateNow
    /\ \A n \in DOMAIN nodes : nodes[n].in_update => tree[n] = plain[n] \/ IsHomeOfMore(n)

(* Shared styles that belong to an Update, which the inliner leaves there. *)
SharedInUpdate ==
    \E n \in DOMAIN nodes :
        nodes[n].in_update /\ \E s \in ToSet(plain[n].styles) : s.id # NoId

(* InlineStyles copies what a styleUrl stands for, style maps resolved,    *)
(* when all of it comes before the styleUrl (style_inliner.h:36), none of  *)
(* it in an Update, and the Feature has no style of its own.               *)
InlineKeepsStyles ==
    Parsed /\ observer = "inliner" /\ ~ SharedInUpdate =>
        \A n \in DOMAIN nodes :
            ~ nodes[n].in_update /\ plain[n].selector = NULL /\ plain[n].url # NoId
              /\ StyleOf(plain, n) = <<early[n]>> =>
                StyleOf(tree, n) = StyleOf(plain, n)

-----------------------------------------------------------------------------
(* "Set the feature's <styleUrl> to this new shared style."                *)
(* (style_splitter.cc:95): the styleUrl names a style of the Document.     *)
NewUrlsResolve ==
    Parsed /\ observer = "splitter" =>
        \A n \in DOMAIN nodes :
            plain[n].url = NoId /\ tree[n].url # NoId => SharedIn(tree)[tree[n].url] # {}

(* "Don't touch anything inside an <Update>." (style_splitter.cc:45)       *)
NothingTouched == \A n \in DOMAIN nodes : nodes[n].in_update => tree[n] = plain[n]
=============================================================================
