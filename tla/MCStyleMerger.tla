----------------------------- MODULE MCStyleMerger -----------------------------
EXTENDS StyleRules

CONSTANTS normal, highlight

Root      == [dir |-> <<"kml">>, name |-> "main"]
OtherPath == [dir |-> <<"styles">>, name |-> "other"]
Other     == Locate(Root, OtherPath)

Local(i)  == [path |-> Here, id |-> i]
Remote(i) == [path |-> OtherPath, id |-> i]

Style(f)            == [style |-> f]
Map(pairs)          == [pairs |-> pairs]
Pair(k, u, s)       == [key |-> k, url |-> u, selector |-> s]

Red  == Style([LineStyle |-> "set", color |-> "red"])
Wide == Style([LineStyle |-> "set", width |-> "wide"])
Blue == Style([PolyStyle |-> "set", color |-> "blue", width |-> "thin"])

(* What an id of the Feature's file can be: styles; a map onto other ids   *)
(* (onto itself too); pairs of one key, inline or not; a nested map; a map *)
(* onto another file.                                                      *)
SharedSelectors ==
    { Red,
      Map(<<Pair(normal, Local("a"), NoSelector), Pair(highlight, Local("b"), NoSelector)>>),
      Map(<<Pair(normal, Local("b"), Blue), Pair(normal, NoUrl, Wide)>>),
      Map(<<Pair(highlight, NoUrl,
               Map(<<Pair(highlight, Local("c"), NoSelector), Pair(normal, NoUrl, Red)>>)),
            Pair(normal, Local("c"), NoSelector), Pair(normal, Local("a"), Wide)>>),
      Map(<<Pair(normal, Remote("a"), NoSelector), Pair(highlight, Remote("b"), Wide)>>) }

Ids == {"a", "b", "c"}

OtherFile ==
    [a |-> Blue,
     b |-> Map(<<Pair(highlight, Local("a"), NoSelector), Pair(normal, NoUrl, Wide)>>)]

MCSites == {Root :> shared : shared \in [Ids -> SharedSelectors]}
           \cup {Root :> shared @@ Other :> OtherFile : shared \in [Ids -> SharedSelectors]}

MCFeatures ==
    { [url |-> Local("a"),  selector |-> NoSelector],
      [url |-> Local("b"),  selector |-> Blue],
      [url |-> Remote("b"), selector |-> Wide],
      [url |-> NoUrl,       selector |->
          Map(<<Pair(normal, NoUrl, Red), Pair(highlight, Local("c"), Wide)>>)] }

MCStates == {normal, highlight}

MCUrls == {NoUrl} \cup {Local(i) : i \in Ids} \cup {Remote(i) : i \in {"a", "b"}}

(* Those above and what they have inside.                                  *)
MCSelectors ==
    LET top == SharedSelectors \cup {OtherFile.a, OtherFile.b} \cup {f.selector : f \in MCFeatures}
        inside(s) == {s} \cup (IF IsStyleMap(s) THEN {p.selector : p \in ToSet(s.pairs)} ELSE {})
    IN  UNION {inside(s) : s \in UNION {inside(s) : s \in top}} \ {NoSelector}

RECURSIVE MCStylesOfUrl(_, _, _, _), MCStylesOf(_, _, _, _)

MCStylesOfUrl(world, url, file, levels) ==
    IF levels = 0 \/ url = NoUrl \/ (url.path # Here /\ ~ world.has_cache)
      THEN <<>>
      ELSE LET target == IF url.path = Here THEN file ELSE Locate(file, url.path)
           IN  MCStylesOf(world, SharedStyle(world.site, target, url.id), target, levels - 1)

MCStylesOf(world, selector, file, levels) ==
    CASE selector = NoSelector -> <<>>
      [] IsStyle(selector) -> <<selector.style>>
      [] IsStyleMap(selector) ->
           FlattenSeq([i \in DOMAIN selector.pairs |->
               IF selector.pairs[i].key # world.style_state THEN <<>>
               ELSE MCStylesOfUrl(world, selector.pairs[i].url, file, levels)
                      \o MCStylesOf(world, selector.pairs[i].selector, file, levels)])

(* Holds of every state; it keeps a mistake that never ends finite.        *)
Small == Len(todo) <= 12 /\ Len(merged) <= 16
=============================================================================
