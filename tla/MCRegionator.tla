---------------------------- MODULE MCRegionator ----------------------------
EXTENDS Regionator

(* 180 degrees are 2^28 units: the world is cut exactly for as often as    *)
(* alignment and the walk go down.                                         *)
MCFeatures == {"a", "b", "c", "d", "e"}
At(lat, lon) == [lat |-> lat * (Half \div 4), lon |-> lon * (Half \div 4)]

(* a and c are in one place: a Point, and a PhotoOverlay's; b is a line    *)
(* whose middle is the cross in the middle of the world, d a Folder on the *)
(* border of two quadrants, of a Model and a Polygon with a hole; e has an *)
(* Icon's bounds only, which do not count.                                 *)
One(class, kind, points) == [class |-> class, kind |-> kind, points |-> points]
MCDrawn ==
  [a |-> {One("Placemark", "Point", {At(1, 1)})},
   b |-> {One("Placemark", "LineString", {At(-2, 1), At(2, -1)})},
   c |-> {One("PhotoOverlay", "Point", {At(1, 1)})},
   d |-> {One("Placemark", "Location", {At(-1, 2)}),
          One("Placemark", "outerBoundaryIs", {At(1, 2), At(0, 1), At(0, 3)}),
          One("Placemark", "innerBoundaryIs", {At(3, 2)})},
   e |-> {One("GroundOverlay", "LatLonBox", {At(1, 1)})}]
MCScore == [a |-> 1, b |-> 2, c |-> 2, d |-> -1, e |-> 3]
MCLists == {<<"a", "b", "c", "d", "e">>, <<"e", "d", "c", "a">>, <<"a", "c">>, <<"e">>, <<"c", "b", "d">>}
MCRegions == {World,
              [north |-> Half \div 2, south |-> 0, east |-> Half \div 2, west |-> 0]}
MCNoRootName == -1
MCRootNames == {0, MCNoRootName}
=============================================================================
