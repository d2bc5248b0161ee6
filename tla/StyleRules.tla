------------------------------- MODULE StyleRules -------------------------------
(***************************************************************************)
(* What a resolved style should be, and that StyleMerger computes it.      *)
(* Nothing here models code: the reference says which Styles apply to a    *)
(* Feature and in which order, from the text of the files alone.           *)
(***************************************************************************)
EXTENDS StyleMerger

CONSTANTS
    StylesOfUrl(_, _, _, _), StylesOfSelector(_, _, _, _)

(* What does not change while a merger is used.                            *)
Worlds == [site : Sites, has_cache : BOOLEAN, style_state : States]
World  == [site |-> site, has_cache |-> has_cache, style_state |-> style_state]

StylesOfInline(world, selector, file, levels) ==
    IF selector = NoSelector THEN <<>> ELSE StylesOfSelector(world, selector, file, levels)

(* The Styles a url or a selector written in file stands for, following at *)
(* most so many levels of styleUrl below each other.  A url without a path *)
(* means the file it is written in, a relative one is relative to it.      *)
UrlRule(world, url, file, levels) ==
    IF levels = 0 \/ url = NoUrl \/ (url.path # Here /\ ~ world.has_cache)
      THEN <<>>
      ELSE LET target == IF url.path = Here THEN file ELSE Locate(file, url.path)
           IN  StylesOfInline(world, SharedStyle(world.site, target, url.id), target, levels - 1)

PairRule(world, pair, file, levels) ==
    IF pair.key # world.style_state THEN <<>>
    ELSE StylesOfUrl(world, pair.url, file, levels)
           \o StylesOfInline(world, pair.selector, file, levels)

SelectorRule(world, selector, file, levels) ==
    IF IsStyle(selector) THEN <<selector.style>>
    ELSE FlattenSeq([i \in DOMAIN selector.pairs |->
                        PairRule(world, selector.pairs[i], file, levels)])

Styles == {s.style : s \in {t \in StyleSelectors : IsStyle(t)}}

(* The two rules call each other.  An instance computes them recursively;  *)
(* what is proved holds of all that follow them.                           *)
ASSUME RulesAssumption ==
    \A world \in Worlds : \A file \in DOMAIN world.site, levels \in 0..MaxNesting :
        /\ \A url \in Urls :
             /\ StylesOfUrl(world, url, file, levels) = UrlRule(world, url, file, levels)
             /\ StylesOfUrl(world, url, file, levels) \in Seq(Styles)
        /\ \A selector \in StyleSelectors :
             /\ StylesOfSelector(world, selector, file, levels)
                  = SelectorRule(world, selector, file, levels)
             /\ StylesOfSelector(world, selector, file, levels) \in Seq(Styles)

StylesOfFeature(feature) ==
    StylesOfUrl(World, feature.url, Base, MaxNesting)
        \o StylesOfInline(World, feature.selector, Base, MaxNesting)

Promised == FlattenSeq([i \in DOMAIN called |-> StylesOfFeature(called[i])])

(* matched[k] is how many elements of s, from its first on, the first k    *)
(* elements of t have among them, in this order.                           *)
IsSubsequence(s, t) ==
    LET matched[k \in 0..Len(t)] ==
          IF k = 0 THEN 0
          ELSE LET n == matched[k - 1]
               IN  IF n < Len(s) /\ s[n + 1] = t[k] THEN n + 1 ELSE n
    IN  matched[Len(t)] = Len(s)

Returned == called # <<>> /\ todo = <<>>

-----------------------------------------------------------------------------
(* The stack of calls is well formed and the count never goes up.          *)
TypeOK ==
    /\ nesting_depth \in Int /\ nesting_depth <= MaxNesting
    /\ \A i \in DOMAIN todo :
         \/ todo[i].what = "url" /\ todo[i].file \in DOMAIN site
         \/ todo[i].what = "selector" /\ (IsStyle(todo[i].selector) \/ IsStyleMap(todo[i].selector))
    /\ style_state \in States /\ has_cache \in BOOLEAN
    /\ merged \in Seq({merged[i] : i \in DOMAIN merged})

(* No Style is merged that does not apply, none twice and none out of the *)
(* order the KML reference prescribes: shared before inline, Pairs in      *)
(* document order, only those of the state; and unless the count ran out   *)
(* (style_merger.cc:84) every one that applies is.  Styles of other files  *)
(* that refer to further styles are excluded here: FileOf looks those up   *)
(* in the Feature's own file (style_merger.cc:95, the TODO at :119).       *)
MergedAsPromised ==
    ~ strayed => \A promised \in {Promised} :
        /\ IsSubsequence(merged, promised)
        /\ Returned /\ nesting_depth >= 0 => merged = promised

(* An element or field of the resolved style has the value of the last     *)
(* Style that sets it, wherever that Style came from (merge.cc:123).       *)
LastOneWins ==
    /\ DOMAIN resolved = UNION {DOMAIN merged[i] : i \in DOMAIN merged}
    /\ \A p \in DOMAIN resolved :
         \E i \in DOMAIN merged :
            /\ p \in DOMAIN merged[i] /\ resolved[p] = merged[i][p]
            /\ \A j \in DOMAIN merged : p \in DOMAIN merged[j] => j <= i

(* The inline Style of a Feature overrides everything its styleUrl leads    *)
(* to, also after the count has run out (style_merger.cc:132).              *)
InlineWins ==
    Returned /\ IsStyle(called[Len(called)].selector) =>
        LET inline == called[Len(called)].selector.style
        IN  \A p \in DOMAIN inline : p \in DOMAIN resolved /\ resolved[p] = inline[p]

(* Resolution always ends, whatever cycles the styleUrls form within the   *)
(* file or through others (engine_constants.h:35).                         *)
Terminates == todo # <<>> ~> todo = <<>>
=============================================================================
