------------------------------ MODULE StyleMerger ------------------------------
(***************************************************************************)
(* kmlengine::StyleMerger: the style of a Feature, gathered from shared    *)
(* styles, style maps and other files.  The recursion of MergeStyle,       *)
(* MergeStyleUrl, MergeStyleSelector and MergeStyleMap is a stack of work  *)
(* still to do, next first; one step takes its head, as far as the next    *)
(* recursive call.  (Init, Next and Spec carry the name of the merger as   *)
(* Styles_proofs extends this module and StyleObservers.)                  *)
(***************************************************************************)
EXTENDS Integers, Sequences, SequencesExt

CONSTANTS
    Base,           \* base_url_: the file the Feature is in
    States,         \* the values of StyleStateEnum
    NoSelector,     \* NULL: no StyleSelector
    NoUrl,          \* a styleUrl that is empty, malformed or without fragment
    Here,           \* the path of a styleUrl that is only a fragment
    Urls,           \* the styleUrls there are: NoUrl or [path, id]
    StyleSelectors, \* the StyleSelectors there are
    Sites,          \* the possible contents of the files, see site
    StyledFeatures, \* what MergeStyle may be called with: [url, selector]
    MaxNesting,     \* nesting_depth of the constructor
    MaxCalls        \* bound on the calls of MergeStyle on one merger

ASSUME NestingAssumption == MaxNesting \in Nat /\ MaxCalls \in Nat

VARIABLES
    site,           \* file -> (id -> shared StyleSelector); a file that is not in
                    \* its domain cannot be fetched.  site[Base] is shared_style_map_
    has_cache,      \* kml_cache_ is not NULL
    style_state,    \* style_state_
    nesting_depth,  \* nesting_depth_: an int, goes below zero
    resolved,       \* resolved_style_: the paths of its elements, to their values
    todo,           \* the calls in progress: urls and selectors to merge, and the
                    \* file each was written in (history: the code has no such thing)
    merged,         \* history: the Styles merged so far, in order
    called,         \* history: the Features MergeStyle was called with
    strayed         \* history: a url written in another file was followed

mergerVars == <<site, has_cache, style_state, nesting_depth, resolved, todo, merged,
                called, strayed>>

EmptyStyle == [p \in {} |-> NoSelector]

MergerInit ==
    /\ site \in Sites
    /\ has_cache \in BOOLEAN
    /\ style_state \in States
    /\ nesting_depth = MaxNesting
    /\ resolved = EmptyStyle
    /\ todo = <<>> /\ merged = <<>> /\ called = <<>>
    /\ strayed = FALSE

-----------------------------------------------------------------------------
(* A StyleSelector is NoSelector, a Style [style |-> paths to values] or a *)
(* StyleMap [pairs |-> sequence of Pairs [key, url, selector]].            *)
IsStyle(selector)    == selector # NoSelector /\ "style" \in DOMAIN selector
IsStyleMap(selector) == selector # NoSelector /\ "pairs" \in DOMAIN selector

Pairs == [key : States, url : Urls, selector : StyleSelectors \cup {NoSelector}]

ASSUME SelectorsAssumption ==
    /\ \A s \in StyleSelectors :
         \/ IsStyle(s) /\ ~ IsStyleMap(s)
         \/ IsStyleMap(s) /\ ~ IsStyle(s) /\ s.pairs \in Seq(Pairs)
    /\ \A s \in Sites :
         /\ Base \in DOMAIN s
         /\ \A file \in DOMAIN s : \A id \in DOMAIN s[file] : s[file][id] \in StyleSelectors
    /\ StyledFeatures \subseteq [url : Urls, selector : StyleSelectors \cup {NoSelector}]

UrlWork(url, file) == <<[what |-> "url", url |-> url, file |-> file]>>

(* Merging a NULL selector does nothing.                                   *)
SlipAlwaysWork(selector, file) ==
    <<[what |-> "selector", selector |-> selector, file |-> file]>>

SelectorWork(selector, file) ==
    IF selector = NoSelector THEN <<>>
    ELSE <<[what |-> "selector", selector |-> selector, file |-> file]>>

(* MergeElements on Styles: every element and field of the source is set   *)
(* in the target, the rest of the target stays.  Slip: only what is new.   *)
SlipMergeNew(source, target) ==
    [p \in DOMAIN source \cup DOMAIN target |->
        IF p \in DOMAIN target THEN target[p] ELSE source[p]]

MergeElements(source, target) ==
    [p \in DOMAIN source \cup DOMAIN target |->
        IF p \in DOMAIN source THEN source[p] ELSE target[p]]

(* MergeStyle: the url first, so that the selector goes over it.           *)
SlipSelectorFirst(url, selector, file) == SelectorWork(selector, file) \o UrlWork(url, file)

MergeStyle(url, selector, file) == UrlWork(url, file) \o SelectorWork(selector, file)

(* MergeStyleMap: every Pair with the key, in order.                       *)
MergeStyleMap(map, state, file) ==
    FlattenSeq([i \in DOMAIN map.pairs |->
        IF map.pairs[i].key = state
          THEN MergeStyle(map.pairs[i].url, map.pairs[i].selector, file)
          ELSE <<>>])

(* uriparser and FetchKmlRelative: a path is relative to a directory.      *)
Locate(base, path) == [dir |-> base.dir \o path.dir, name |-> path.name]

SharedStyle(files, file, id) ==
    IF file \in DOMAIN files /\ id \in DOMAIN files[file] THEN files[file][id] ELSE NoSelector

-----------------------------------------------------------------------------
(* The application calls MergeStyle, once or several times.                *)
Call ==
    /\ todo = <<>> /\ Len(called) < MaxCalls
    /\ \E f \in StyledFeatures :
         /\ todo' = MergeStyle(f.url, f.selector, Base)
         /\ called' = Append(called, f)
    /\ UNCHANGED <<site, has_cache, style_state, nesting_depth, resolved, merged, strayed>>

(* MergeStyleUrl counts first and looks at the url afterwards.  Slips: the *)
(* count is lost; it gives up a level early.                               *)
SlipNotCounted == nesting_depth
Counted == nesting_depth - 1

SlipDeepEarly == Counted <= 0
TooDeep == Counted < 0

DropUrl(url) == TooDeep \/ (IF url = NoUrl THEN TRUE ELSE url.path # Here /\ ~ has_cache)

(* The file the url is looked up in: there is one shared_style_map_ and    *)
(* one base_url_, wherever the url was written.                            *)
FileOf(url) == IF url.path = Here THEN Base ELSE Locate(Base, url.path)

MergeStyleUrl ==
    /\ todo # <<>> /\ Head(todo).what = "url"
    /\ nesting_depth' = Counted
    /\ LET url == Head(todo).url IN
       \/ /\ DropUrl(url)
          /\ todo' = Tail(todo)
          /\ UNCHANGED strayed
       \/ /\ ~ DropUrl(url)
          /\ todo' = SelectorWork(SharedStyle(site, FileOf(url), url.id), FileOf(url))
                        \o Tail(todo)
          /\ strayed' = (strayed \/ Head(todo).file # Base)
    /\ UNCHANGED <<site, has_cache, style_state, resolved, merged, called>>

MergeStyleSelector ==
    /\ todo # <<>> /\ Head(todo).what = "selector"
    /\ LET selector == Head(todo).selector IN
       \/ /\ IsStyle(selector)
          /\ resolved' = MergeElements(selector.style, resolved)
          /\ merged' = Append(merged, selector.style)
          /\ todo' = Tail(todo)
       \/ /\ IsStyleMap(selector)
          /\ todo' = MergeStyleMap(selector, style_state, Head(todo).file) \o Tail(todo)
          /\ UNCHANGED <<resolved, merged>>
    /\ UNCHANGED <<site, has_cache, style_state, nesting_depth, called, strayed>>

Step == MergeStyleUrl \/ MergeStyleSelector

MergerNext == Call \/ Step

MergerSpec == MergerInit /\ [][MergerNext]_mergerVars

(* A call runs in its caller's thread, to its end.                         *)
FairSpec == MergerSpec /\ WF_mergerVars(Step)
=============================================================================
