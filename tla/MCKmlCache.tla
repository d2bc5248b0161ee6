------------------------------ MODULE MCKmlCache ------------------------------
(***************************************************************************)
(* A site with every case of the KMZ-aware search: an archive with a       *)
(* doc.kml, a sibling archive whose default file is not doc.kml, an        *)
(* archive without KML, a .kmz that is no archive, plain files, and names  *)
(* that exist in an archive, beside it, in both and in neither.            *)
(***************************************************************************)
EXTENDS KmlCache, TLC

Raw(d) == [zip |-> FALSE, data |-> d, toc |-> <<>>]
Zip(toc) == [zip |-> TRUE, data |-> "zip", toc |-> toc]
File(path, d) == [path |-> path, content |-> Raw(d)]

MCKmzNames == {"a.kmz", "b.kmz", "e.kmz", "n.kmz"}
MCKmlNames == {"doc.kml", "main.kml", "s.kml", "x.kml", "m.kml", "bad.kml"}
MCDocs == {"a:doc", "a:s", "b:main", "b:x", "s", "x"}

MCSite ==
    (<<"a.kmz">> :> Zip(<<File(<<"i">>, "a:i"), File(<<"doc.kml">>, "a:doc"),
                          File(<<"s.kml">>, "a:s")>>)) @@
    (<<"b.kmz">> :> Zip(<<[path |-> <<"u">>, content |-> NULL],
                          File(<<"f", "main.kml">>, "b:main"), File(<<"x.kml">>, "b:x")>>)) @@
    (<<"e.kmz">> :> Zip(<<File(<<"i">>, "e:i")>>)) @@
    (<<"n.kmz">> :> Raw("404")) @@
    (<<"s.kml">> :> Raw("s")) @@
    (<<"x.kml">> :> Raw("x")) @@
    (<<"bad.kml">> :> Raw("bad"))

MCFrags == {NoFrag, "f"}
MCSegments == MCKmzNames \cup MCKmlNames \cup {"i", "u", "f"}

Url(path) == [path |-> path, frag |-> NoFrag]
Href(path) == [abs |-> FALSE, up |-> 0, path |-> path, frag |-> NoFrag]

MCUrls == {Url(<<"a.kmz", "doc.kml">>), Url(<<"b.kmz", "f", "main.kml">>), Url(<<"s.kml">>),
           Url(<<"e.kmz">>)}

MCHrefs ==
    {NULL, Href(<<"s.kml">>), Href(<<"x.kml">>), Href(<<"m.kml">>), Href(<<"b.kmz">>),
     Href(<<"b.kmz", "m.kml">>), Href(<<"n.kmz">>), Href(<<"e.kmz">>),
     [Href(<<"bad.kml">>) EXCEPT !.up = 1],
     [Href(<<>>) EXCEPT !.frag = "f"], [Href(<<"x.kml">>) EXCEPT !.frag = "f"]}
=============================================================================
