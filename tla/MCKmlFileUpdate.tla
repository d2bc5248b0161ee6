-------------------------- MODULE MCKmlFileUpdate --------------------------
EXTENDS KmlFileUpdate

MCIds == {"f", "g", "p", "q"}
MCNoId == "-"
MCNoField == 0
MCFields == 0..3
MCKinds == {"kml", "Folder", "Placemark", "Point", "LineString"}

Made(kind, id, parent, kids) ==
  [kind |-> kind, id |-> id, targetId |-> MCNoId, field |-> 1, parent |-> parent, kids |-> kids]
Brought(kind, id, target, field, parent, kids) ==
  [kind |-> kind, id |-> id, targetId |-> target, field |-> field, parent |-> parent, kids |-> kids]

(* A kml with a Folder in a Folder, a Folder without a kml whose second    *)
(* child has no id but children that have, and one with two Folders of one *)
(* id, which in the map is the second's, and a child in the first.         *)
MCDocuments ==
  { << Made("kml", MCNoId, 0, <<2>>),
       Made("Folder", "f", 1, <<3, 5>>),
       Made("Placemark", "p", 2, <<4>>), Made("Point", MCNoId, 3, << >>),
       Made("Folder", "g", 2, <<6>>), Made("Placemark", "q", 5, << >>) >>,
    << Made("Folder", "f", 0, <<2, 3>>),
       Made("Placemark", "p", 1, << >>),
       Made("Folder", MCNoId, 1, <<4>>), Made("Placemark", "q", 3, << >>) >>,
    << Made("kml", MCNoId, 0, <<2>>),
       Made("Folder", "f", 1, <<3, 5>>),
       Made("Folder", "g", 2, <<4>>), Made("Placemark", "q", 3, << >>),
       Made("Folder", "g", 2, <<6>>), Made("Placemark", "p", 5, << >>) >> }

(* A Placemark with a geometry of either type, one that brings an id, a    *)
(* Folder that does, a Folder with two Placemarks, and a Placemark for a   *)
(* Folder, a Folder for a Placemark, with children that do not fit.        *)
MCChanges ==
  { << Brought("Placemark", MCNoId, "p", 2, 0, <<2>>),
       Brought(g, MCNoId, MCNoId, 2, 1, << >>) >> : g \in {"Point", "LineString"} }
  \cup {<< Brought(k, "g", t, MCNoField, 0, << >>) >> :
          <<k, t>> \in {<<"Placemark", "q">>, <<"Folder", "f">>}}
  \cup {<< Brought("Folder", MCNoId, "f", 2, 0, <<2, 3>>),
           Brought("Placemark", "q", MCNoId, 2, 1, << >>),
           Brought("Placemark", MCNoId, "g", 3, 1, <<4>>),
           Brought("Point", MCNoId, MCNoId, 3, 3, << >>) >>,
        << Brought("Placemark", MCNoId, "g", 2, 0, <<2>>),
           Brought("Point", MCNoId, MCNoId, 2, 1, << >>) >>,
        << Brought("Folder", MCNoId, "p", 3, 0, <<2>>),
           Brought("Placemark", "q", MCNoId, 3, 1, <<3>>),
           Brought("Point", MCNoId, MCNoId, 3, 2, << >>) >>}

(* A new Folder with a Placemark, an id the file has already, no such id.  *)
MCContainers ==
  { << Brought("Folder", MCNoId, t, MCNoField, 0, <<2>>),
       Brought("Placemark", i, MCNoId, 1, 1, << >>) >> : t \in {"f", "g"}, i \in {"p", MCNoId} }
  \cup {<< Brought("Folder", MCNoId, "f", MCNoField, 0, <<2, 4>>),
           Brought("Folder", "g", MCNoId, 1, 1, <<3>>),
           Brought("Placemark", MCNoId, MCNoId, 1, 2, << >>),
           Brought("Placemark", "q", MCNoId, 1, 1, << >>) >>}

MCNewFeatures == {<< Made("Placemark", "p", 0, << >>) >>,
                  << Made("Folder", MCNoId, 0, <<2>>), Made("Placemark", "q", 1, << >>) >>}

NoRemap == << >>
MCMaps == {NoRemap, [p |-> "q", f |-> "g"]}
=============================================================================
