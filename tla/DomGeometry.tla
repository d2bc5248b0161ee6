---------------------------- MODULE DomGeometry ----------------------------
(***************************************************************************)
(* The rows (see DomSchema) of the geometries and of the parts of a model. *)
(***************************************************************************)
EXTENDS DomSchema, Sequences

(* Coordinates parses its own character data into its array of tuples, and *)
(* writes these with no ElementSerializer.                                 *)
CoordinatesClass == Class(ElementClass, {"coordinates"}, {"text()"}, {}, {})
CoordinatesCode  ==
  [OwnText(ElementCode) EXCEPT !.accept = "Coordinates", !.keeps = FALSE]

GeometryClass == Class(ObjectClass, {"Geometry"}, {}, {}, {})
GeometryCode  == ObjectCode

AltitudeGeometryCommonClass ==
  Class(GeometryClass, {}, {"altitudeMode", "GxAltitudeMode"}, {}, {})
AltitudeGeometryCommonCode ==
  Part(GeometryCode, {"altitudeMode", "GxAltitudeMode"}, << >>, << >>)

ExtrudeGeometryCommonClass == Class(AltitudeGeometryCommonClass, {}, {"extrude"}, {}, {})
ExtrudeGeometryCommonCode  ==
  Part(AltitudeGeometryCommonCode, {"extrude"}, << >>, << >>)

CoordinatesGeometryCommonClass ==
  Class(ExtrudeGeometryCommonClass, {}, {}, {"coordinates"}, {})
CoordinatesGeometryCommonCode ==
  Part(ExtrudeGeometryCommonCode, {"coordinates"}, << >>, <<"coordinates">>)

PointClass == Class(CoordinatesGeometryCommonClass, {"Point"}, {}, {}, {})
PointCode  ==
  Code(CoordinatesGeometryCommonCode, "Point", {},
       <<"extrude", "altitudeMode", "GxAltitudeMode", "coordinates">>, << >>)

LineCommonClass == Class(CoordinatesGeometryCommonClass, {}, {"tessellate"}, {}, {})
LineCommonCode  ==
  Part(CoordinatesGeometryCommonCode, {"tessellate"},
       <<"extrude", "tessellate", "altitudeMode", "GxAltitudeMode", "coordinates">>, << >>)

LineStringClass == Class(LineCommonClass, {"LineString"}, {}, {}, {})
LineStringCode  == [LineCommonCode EXCEPT !.accept = "LineString"]
LinearRingClass == Class(LineCommonClass, {"LinearRing"}, {}, {}, {})
LinearRingCode  == [LineCommonCode EXCEPT !.accept = "LinearRing"]

BoundaryCommonClass == Class(ElementClass, {}, {}, {"LinearRing"}, {})
BoundaryCommonCode  == Part(ElementCode, {"LinearRing"}, <<"LinearRing">>, <<"LinearRing">>)

OuterBoundaryIsClass == Class(BoundaryCommonClass, {"outerBoundaryIs"}, {}, {}, {})
OuterBoundaryIsCode  == [BoundaryCommonCode EXCEPT !.accept = "OuterBoundaryIs"]
InnerBoundaryIsClass == Class(BoundaryCommonClass, {"innerBoundaryIs"}, {}, {}, {})
InnerBoundaryIsCode  == [BoundaryCommonCode EXCEPT !.accept = "InnerBoundaryIs"]

PolygonClass ==
  Class(ExtrudeGeometryCommonClass, {"Polygon"}, {"tessellate"}, {"outerBoundaryIs"},
        {"innerBoundaryIs"})
PolygonCode ==
  Code(ExtrudeGeometryCommonCode, "Polygon",
       {"tessellate", "outerBoundaryIs", "innerBoundaryIs"},
       <<"extrude", "tessellate", "altitudeMode", "GxAltitudeMode", "outerBoundaryIs",
         "innerBoundaryIs">>, <<"outerBoundaryIs", "innerBoundaryIs">>)

MultiGeometryClass == Class(GeometryClass, {"MultiGeometry"}, {}, {}, {"Geometry"})
MultiGeometryCode  ==
  Code(GeometryCode, "MultiGeometry", {"Geometry"}, <<"Geometry">>, <<"Geometry">>)

----------------------------------------------------------------------------
(* Model and its parts.                                                    *)
LocationClass == Class(ObjectClass, {"Location"}, {"longitude", "latitude", "altitude"}, {}, {})
LocationCode  ==
  Code(ObjectCode, "Location", {"longitude", "latitude", "altitude"},
       <<"longitude", "latitude", "altitude">>, << >>)

OrientationClass == Class(ObjectClass, {"Orientation"}, {"heading", "tilt", "roll"}, {}, {})
OrientationCode  ==
  Code(ObjectCode, "Orientation", {"heading", "tilt", "roll"},
       <<"heading", "tilt", "roll">>, << >>)

ScaleClass == Class(ObjectClass, {"Scale"}, {"x", "y", "z"}, {}, {})
ScaleCode  == Code(ObjectCode, "Scale", {"x", "y", "z"}, <<"x", "y", "z">>, << >>)

AliasClass == Class(ObjectClass, {"Alias"}, {"targetHref", "sourceHref"}, {}, {})
AliasCode  ==
  Code(ObjectCode, "Alias", {"targetHref", "sourceHref"},
       <<"targetHref", "sourceHref">>, << >>)

ResourceMapClass == Class(ObjectClass, {"ResourceMap"}, {}, {}, {"Alias"})
ResourceMapCode  == Code(ObjectCode, "ResourceMap", {"Alias"}, <<"Alias">>, <<"Alias">>)

ModelClass ==
  Class(AltitudeGeometryCommonClass, {"Model"}, {},
        {"Location", "Orientation", "Scale", "Link", "ResourceMap"}, {})
ModelCode ==
  Code(AltitudeGeometryCommonCode, "Model",
       {"Location", "Orientation", "Scale", "Link", "ResourceMap"},
       <<"altitudeMode", "GxAltitudeMode", "Location", "Orientation", "Scale", "Link",
         "ResourceMap">>,
       <<"Location", "Orientation", "Scale", "Link", "ResourceMap">>)

----------------------------------------------------------------------------
(* Tracks: the times, the positions and the angles are three arrays.       *)
GxTrackClass ==
  Class(AltitudeGeometryCommonClass, {"GxTrack"}, {}, {"Model", "ExtendedData"},
        {"when", "GxCoord", "GxAngles"})
GxTrackCode ==
  Code(AltitudeGeometryCommonCode, "GxTrack",
       {"when", "GxAngles", "GxCoord", "Model", "ExtendedData"},
       <<"altitudeMode", "GxAltitudeMode", "when", "GxCoord", "GxAngles", "Model",
         "ExtendedData">>, <<"Model", "ExtendedData">>)

GxMultiTrackClass ==
  Class(GeometryClass, {"GxMultiTrack"}, {"GxInterpolate"}, {}, {"GxTrack"})
GxMultiTrackCode ==
  Code(GeometryCode, "GxMultiTrack", {"GxInterpolate", "GxTrack"},
       <<"GxInterpolate", "GxTrack">>, <<"GxTrack">>)
=============================================================================
