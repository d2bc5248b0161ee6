---------------------------- MODULE DomFeatures ----------------------------
(***************************************************************************)
(* The rows (see DomSchema) of the features, of the overlays with their    *)
(* parts, of the network link classes and of kml itself.                   *)
(***************************************************************************)
EXTENDS DomSchema, Sequences

----------------------------------------------------------------------------
(* Parts of a feature.                                                     *)
SnippetCommonClass == Class(ElementClass, {}, {"text()", "@maxLines"}, {}, {})
SnippetCommonCode  ==
  OwnText(With(Part(ElementCode, {}, << >>, << >>), {"@maxLines"}))

SnippetClass     == Class(SnippetCommonClass, {"Snippet"}, {}, {}, {})
LinkSnippetClass == Class(SnippetCommonClass, {"linkSnippet"}, {}, {}, {})
SnippetCode      == [SnippetCommonCode EXCEPT !.accept = "Snippet"]
LinkSnippetCode  == [SnippetCommonCode EXCEPT !.accept = "LinkSnippet"]

AbstractLatLonBoxClass ==
  Class(ObjectClass, {"AbstractLatLonBox"}, {"north", "south", "east", "west"}, {}, {})
AbstractLatLonBoxCode ==
  Part(ObjectCode, {"north", "south", "east", "west"},
       <<"north", "south", "east", "west">>, << >>)

LatLonAltBoxClass ==
  Class(AbstractLatLonBoxClass, {"LatLonAltBox"},
        {"minAltitude", "maxAltitude", "altitudeMode", "GxAltitudeMode"}, {}, {})
LatLonAltBoxCode ==
  Code(AbstractLatLonBoxCode, "LatLonAltBox",
       {"minAltitude", "maxAltitude", "altitudeMode", "GxAltitudeMode"},
       AbstractLatLonBoxCode.writes
         \o <<"minAltitude", "maxAltitude", "altitudeMode", "GxAltitudeMode">>, << >>)

LodClass ==
  Class(ObjectClass, {"Lod"},
        {"minLodPixels", "maxLodPixels", "minFadeExtent", "maxFadeExtent"}, {}, {})
LodCode ==
  Code(ObjectCode, "Lod",
       {"minLodPixels", "maxLodPixels", "minFadeExtent", "maxFadeExtent"},
       <<"minLodPixels", "maxLodPixels", "minFadeExtent", "maxFadeExtent">>, << >>)

RegionClass == Class(ObjectClass, {"Region"}, {}, {"LatLonAltBox", "Lod"}, {})
RegionCode  ==
  Code(ObjectCode, "Region", {"LatLonAltBox", "Lod"},
       <<"LatLonAltBox", "Lod">>, <<"LatLonAltBox", "Lod">>)

----------------------------------------------------------------------------
(* Extended data and schemas.                                              *)
SimpleDataClass == Class(ElementClass, {"SimpleData"}, {"@name", "text()"}, {}, {})
(* Given a SimpleData, itself at its end tag, it takes its character data. *)
SimpleDataCode  ==
  [With(Code(ElementCode, "SimpleData", {"text()"}, <<"text()">>, << >>), {"@name"})
     EXCEPT !.drops = {"SimpleData"}]

GxSimpleArrayDataClass ==
  Class(ElementClass, {"GxSimpleArrayData"}, {"@name"}, {}, {"GxValue"})
GxSimpleArrayDataCode ==
  With(Code(ElementCode, "GxSimpleArrayData", {"GxValue"}, <<"GxValue">>, << >>),
       {"@name"})

SchemaDataClass ==
  Class(ObjectClass, {"SchemaData"}, {"@schemaUrl"}, {},
        {"SimpleData", "GxSimpleArrayData"})
SchemaDataCode ==
  With(Code(ObjectCode, "SchemaData", {"SimpleData", "GxSimpleArrayData"},
            <<"SimpleData", "GxSimpleArrayData">>,
            <<"SimpleData", "GxSimpleArrayData">>),
       {"@schemaUrl"})

DataClass ==
  Class(ObjectClass, {"Data"}, {"@name", "displayName", "value"}, {}, {})
DataCode ==
  With(Code(ObjectCode, "Data", {"displayName", "value"},
            <<"displayName", "value">>, << >>), {"@name"})

ExtendedDataClass == Class(ElementClass, {"ExtendedData"}, {}, {}, {"Data", "SchemaData"})
ExtendedDataCode  ==
  Code(ElementCode, "ExtendedData", {"Data", "SchemaData"},
       <<"Data", "SchemaData">>, <<"Data", "SchemaData">>)

MetadataClass == Class(ElementClass, {"Metadata"}, {}, {}, {})
MetadataCode  == Code(ElementCode, "Metadata", {}, << >>, << >>)

SimpleFieldClass ==
  Class(ElementClass, {"SimpleField"}, {"@type", "@name", "displayName"}, {}, {})
SimpleFieldCode ==
  With(Code(ElementCode, "SimpleField", {"displayName"}, <<"displayName">>, << >>),
       {"@type", "@name"})

GxSimpleArrayFieldClass == Class(SimpleFieldClass, {"GxSimpleArrayField"}, {}, {}, {})
GxSimpleArrayFieldCode  == [SimpleFieldCode EXCEPT !.accept = "GxSimpleArrayField"]

SchemaClass ==
  Class(ObjectClass, {"Schema"}, {"@name"}, {}, {"SimpleField", "GxSimpleArrayField"})
SchemaCode ==
  With(Code(ObjectCode, "Schema", {"SimpleField", "GxSimpleArrayField"},
            <<"SimpleField", "GxSimpleArrayField">>,
            <<"SimpleField", "GxSimpleArrayField">>), {"@name"})

----------------------------------------------------------------------------
(* class Feature.  Its <snippet> and <Metadata> are misplaced; the parts   *)
(* before and after the StyleSelector are the two functions Document calls.*)
FeatureClass ==
  Class(ObjectClass, {"Feature"},
        {"name", "visibility", "open", "address", "phoneNumber", "description",
         "styleUrl", "GxBalloonVisibility"},
        {"AtomAuthor", "AtomLink", "XalAddressDetails", "Snippet", "AbstractView",
         "TimePrimitive", "StyleSelector", "Region", "ExtendedData"}, {})

BeforeStyleSelector ==
  <<"name", "visibility", "open", "AtomAuthor", "AtomLink", "address",
    "phoneNumber", "XalAddressDetails", "Snippet", "description",
    "AbstractView", "TimePrimitive", "styleUrl">>
AfterStyleSelector == <<"Region", "ExtendedData", "GxBalloonVisibility">>

FeatureTakes ==
  {"AbstractView", "TimePrimitive", "StyleSelector", "name", "visibility", "open",
   "AtomAuthor", "AtomLink", "address", "XalAddressDetails", "phoneNumber",
   "Snippet", "description", "styleUrl", "Region", "ExtendedData",
   "GxBalloonVisibility"}

FeatureCode ==
  Part(ObjectCode, FeatureTakes,
       BeforeStyleSelector \o <<"StyleSelector">> \o AfterStyleSelector,
       <<"Snippet", "AbstractView", "TimePrimitive", "StyleSelector", "Region",
         "ExtendedData">>)

ContainerClass == Class(FeatureClass, {"Container"}, {}, {}, {"Feature"})
ContainerCode  ==
  Part(FeatureCode, {"Feature"}, FeatureCode.writes \o <<"Feature">>, <<"Feature">>)

(* Document has a list of shared styles beside the StyleSelector child it  *)
(* inherits from Feature: "StyleSelector[]" names the list.                *)
DocumentClass ==
  Class(ContainerClass, {"Document"}, {}, {}, {"Schema", "StyleSelector[]"})
DocumentCode ==
  Rehome(Code(ContainerCode, "Document", {"Schema", "StyleSelector"},
              BeforeStyleSelector \o <<"StyleSelector[]">> \o AfterStyleSelector
                \o <<"Schema", "Feature">>,
              <<"Schema", "StyleSelector[]">>),
         [StyleSelector |-> "StyleSelector[]"])

FolderClass == Class(ContainerClass, {"Folder"}, {}, {}, {})
FolderCode  == [ContainerCode EXCEPT !.accept = "Folder"]

PlacemarkClass == Class(FeatureClass, {"Placemark"}, {}, {"Geometry"}, {})
PlacemarkCode  ==
  Code(FeatureCode, "Placemark", {"Geometry"}, FeatureCode.writes \o <<"Geometry">>,
       <<"Geometry">>)

NetworkLinkClass ==
  Class(FeatureClass, {"NetworkLink"}, {"refreshVisibility", "flyToView"}, {"Link"}, {})
(* The deprecated <Url> goes into the member for the Link.                 *)
NetworkLinkCode ==
  Rehome(Code(FeatureCode, "NetworkLink",
              {"refreshVisibility", "flyToView", "Link", "Url"},
              FeatureCode.writes \o <<"refreshVisibility", "flyToView", "Link">>,
              <<"Link">>),
         [Url |-> "Link"])

----------------------------------------------------------------------------
(* Overlays.                                                               *)
Vec2Class ==
  Class(ElementClass, {"Vec2"}, {"@x", "@y", "@xunits", "@yunits"}, {}, {})
Vec2Code ==
  With(Code(ElementCode, "Vec2", {}, << >>, << >>), {"@x", "@y", "@xunits", "@yunits"})

OverlayXYClass  == Class(Vec2Class, {"overlayXY"}, {}, {}, {})
OverlayXYCode   == [Vec2Code EXCEPT !.accept = "OverlayXY"]
ScreenXYClass   == Class(Vec2Class, {"screenXY"}, {}, {}, {})
ScreenXYCode    == [Vec2Code EXCEPT !.accept = "ScreenXY"]
RotationXYClass == Class(Vec2Class, {"rotationXY"}, {}, {}, {})
RotationXYCode  == [Vec2Code EXCEPT !.accept = "RotationXY"]
SizeClass       == Class(Vec2Class, {"size"}, {}, {}, {})
SizeCode        == [Vec2Code EXCEPT !.accept = "Size"]
(* HotSpot does not override Accept.                                       *)
HotSpotClass    == Class(Vec2Class, {"hotSpot"}, {}, {}, {})
HotSpotCode     == Vec2Code

OverlayClass == Class(FeatureClass, {"Overlay"}, {"color", "drawOrder"}, {"Icon"}, {})
OverlayCode  ==
  Part(FeatureCode, {"color", "drawOrder", "Icon"},
       FeatureCode.writes \o <<"color", "drawOrder", "Icon">>, <<"Icon">>)

LatLonBoxClass == Class(AbstractLatLonBoxClass, {"LatLonBox"}, {"rotation"}, {}, {})
LatLonBoxCode  ==
  Code(AbstractLatLonBoxCode, "LatLonBox", {"rotation"},
       AbstractLatLonBoxCode.writes \o <<"rotation">>, << >>)

GxLatLonQuadClass == Class(ObjectClass, {"GxLatLonQuad"}, {}, {"coordinates"}, {})
GxLatLonQuadCode  ==
  Code(ObjectCode, "GxLatLonQuad", {"coordinates"}, <<"coordinates">>, <<"coordinates">>)

GroundOverlayClass ==
  Class(OverlayClass, {"GroundOverlay"}, {"altitude", "altitudeMode", "GxAltitudeMode"},
        {"LatLonBox", "GxLatLonQuad"}, {})
GroundOverlayCode ==
  Code(OverlayCode, "GroundOverlay",
       {"altitude", "altitudeMode", "GxAltitudeMode", "LatLonBox", "GxLatLonQuad"},
       OverlayCode.writes
         \o <<"altitude", "altitudeMode", "GxAltitudeMode", "LatLonBox", "GxLatLonQuad">>,
       <<"LatLonBox", "GxLatLonQuad">>)

ViewVolumeClass ==
  Class(ObjectClass, {"ViewVolume"},
        {"leftFov", "rightFov", "bottomFov", "topFov", "near"}, {}, {})
ViewVolumeCode ==
  Code(ObjectCode, "ViewVolume",
       {"leftFov", "rightFov", "bottomFov", "topFov", "near"},
       <<"leftFov", "rightFov", "bottomFov", "topFov", "near">>, << >>)

ImagePyramidClass ==
  Class(ObjectClass, {"ImagePyramid"},
        {"tileSize", "maxWidth", "maxHeight", "gridOrigin"}, {}, {})
ImagePyramidCode ==
  Code(ObjectCode, "ImagePyramid", {"tileSize", "maxWidth", "maxHeight", "gridOrigin"},
       <<"tileSize", "maxWidth", "maxHeight", "gridOrigin">>, << >>)

PhotoOverlayClass ==
  Class(OverlayClass, {"PhotoOverlay"}, {"rotation", "shape"},
        {"ViewVolume", "ImagePyramid", "Point"}, {})
PhotoOverlayCode ==
  Code(OverlayCode, "PhotoOverlay",
       {"rotation", "ViewVolume", "ImagePyramid", "Point", "shape"},
       OverlayCode.writes
         \o <<"rotation", "ViewVolume", "ImagePyramid", "Point", "shape">>,
       <<"ViewVolume", "ImagePyramid", "Point">>)

ScreenOverlayClass ==
  Class(OverlayClass, {"ScreenOverlay"}, {"rotation"},
        {"overlayXY", "screenXY", "rotationXY", "size"}, {})
ScreenOverlayCode ==
  Code(OverlayCode, "ScreenOverlay",
       {"overlayXY", "screenXY", "rotationXY", "size", "rotation"},
       OverlayCode.writes
         \o <<"overlayXY", "screenXY", "rotationXY", "size", "rotation">>,
       <<"overlayXY", "screenXY", "rotationXY", "size">>)

----------------------------------------------------------------------------
(* Update, NetworkLinkControl and kml.                                     *)
UpdateOperationClass == ElementClass
UpdateOperationCode  == Code(ElementCode, "UpdateOperation", {}, << >>, << >>)

CreateClass == Class(UpdateOperationClass, {"Create"}, {}, {}, {"Container"})
CreateCode  ==
  Code(UpdateOperationCode, "Create", {"Container"}, <<"Container">>, <<"Container">>)
DeleteClass == Class(UpdateOperationClass, {"Delete"}, {}, {}, {"Feature"})
DeleteCode  ==
  Code(UpdateOperationCode, "Delete", {"Feature"}, <<"Feature">>, <<"Feature">>)
ChangeClass == Class(UpdateOperationClass, {"Change"}, {}, {}, {"Object"})
ChangeCode  ==
  Code(UpdateOperationCode, "Change", {"Object"}, <<"Object">>, <<"Object">>)

(* The operations are one list, in document order.                         *)
UpdateClass == Class(ElementClass, {"Update"}, {"targetHref"}, {}, {"UpdateOperation"})
UpdateCode  ==
  Rehome(Code(ElementCode, "Update", {"targetHref", "Create", "Delete", "Change"},
              <<"targetHref", "UpdateOperation">>, <<"UpdateOperation">>),
         [t \in {"Create", "Delete", "Change"} |-> "UpdateOperation"])

NetworkLinkControlClass ==
  Class(ElementClass, {"NetworkLinkControl"},
        {"minRefreshPeriod", "maxSessionLength", "cookie", "message", "linkName",
         "linkDescription", "expires"},
        {"linkSnippet", "Update", "AbstractView"}, {})
NetworkLinkControlCode ==
  Code(ElementCode, "NetworkLinkControl",
       {"AbstractView", "minRefreshPeriod", "maxSessionLength", "cookie", "message",
        "linkName", "linkDescription", "linkSnippet", "expires", "Update"},
       <<"minRefreshPeriod", "maxSessionLength", "cookie", "message", "linkName",
         "linkDescription", "linkSnippet", "expires", "Update", "AbstractView">>,
       <<"linkSnippet", "Update", "AbstractView">>)

KmlClass == Class(ElementClass, {"kml"}, {"@hint"}, {"NetworkLinkControl", "Feature"}, {})
KmlCode  ==
  With(Code(ElementCode, "Kml", {"Feature", "NetworkLinkControl"},
            <<"NetworkLinkControl", "Feature">>, <<"NetworkLinkControl", "Feature">>),
       {"@hint"})
=============================================================================
