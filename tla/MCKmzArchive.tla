---------------------------- MODULE MCKmzArchive ----------------------------
(***************************************************************************)
(* Six documents: one that links to a file in three ways, to one that is   *)
(* not there twice and to one above the base twice; one that links to a    *)
(* file called as the document in the archive, to an empty one, to one     *)
(* that is too large, to itself, and to the base; two with plain links,    *)
(* all there, and some from the root or above it; one with none; one that  *)
(* does not parse.                                                         *)
(***************************************************************************)
EXTENDS KmzArchive, TLC

Href(path) == [scheme |-> FALSE, rooted |-> FALSE, path |-> path]
FromRoot(path) == [Href(path) EXCEPT !.rooted = TRUE]

MCLinks ==
  "ways" :> <<Href(<<"x.png">>), Href(<<"f", "..", "x.png">>), Href(<<"lost.png">>), Href(<<"..", "x.png">>),
              Href(<<"x.png">>), Href(<<"lost.png">>), Href(<<"..", "x.png">>)>> @@
  "same" :> <<Href(<<"f", "a.kml">>), Href(<<"doc.kml">>), Href(<<"empty.png">>), Href(<<"big.png">>),
              Href(<<"f", "..">>), Href(<< >>)>> @@
  "good" :> <<Href(<<"f", "a.kml">>), [Href(<<"host">>) EXCEPT !.scheme = TRUE], Href(<<"x.png">>)>> @@
  "bad"  :> <<Href(<<"x.png">>), FromRoot(<<"x.png">>), FromRoot(<<"..", "x.png">>), FromRoot(<<"..", "y.png">>),
              FromRoot(<<"..", "y.png">>)>> @@
  "none" :> << >> @@ "deep" :> << >>
MCDocs == DOMAIN MCLinks

MCLocal == (<<"x.png">> :> "png") @@ (<<"f", "a.kml">> :> "bad") @@ (<<"doc.kml">> :> "none")
             @@ (<<"empty.png">> :> "nothing") @@ (<<"big.png">> :> "much") @@ (<< >> :> "nothing")
MCSizeOf == [d \in MCDocs \cup {"png", "nothing", "much"} |->
               CASE d = "nothing" -> 0 [] d = "png" -> 2 [] d = "much" -> 4 [] OTHER -> 1]
MCAdded == {[data |-> "png", rooted |-> FALSE, path |-> <<"x.png">>],
            [data |-> "bad", rooted |-> FALSE, path |-> <<"a.kml">>],
            [data |-> "png", rooted |-> FALSE, path |-> << >>],
            [data |-> "png", rooted |-> FALSE, path |-> <<"..", "x.png">>]}
=============================================================================
