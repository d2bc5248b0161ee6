----------------------------- MODULE KmlSchema -----------------------------
(***************************************************************************)
(* The tables that hold the element classes together: the element names of *)
(* kml22.cc, the classes KmlFactory creates for them, and the Visit        *)
(* methods of Visitor.  An element type is named as its enumerator in      *)
(* kml22.h, without "Type_".                                               *)
(***************************************************************************)
EXTENDS DomExtensions, DomStyles, DomGeometry
LOCAL INSTANCE TLC

----------------------------------------------------------------------------
(* kKml22Elements: what the parser knows by name.  The abstract groups are *)
(* complex types for this table, and nothing else.                         *)
AbstractTypes ==
  {"ColorStyle", "Container", "Feature", "Geometry", "AbstractLatLonBox",
   "Object", "Overlay", "StyleSelector", "SubStyle", "TimePrimitive",
   "AbstractView", "BasicLink", "Vec2", "GxTourPrimitive"}

BigComplexTypes ==
  {"Alias", "BalloonStyle", "Camera", "Change", "Create", "Data", "Delete",
   "Document", "ExtendedData", "Folder", "GroundOverlay", "Icon", "IconStyle",
   "IconStyleIcon", "ImagePyramid", "ItemIcon", "LabelStyle", "LatLonAltBox",
   "LatLonBox", "LineString", "LineStyle", "LinearRing", "Link", "ListStyle",
   "Location", "Lod", "LookAt", "Metadata", "Model", "MultiGeometry",
   "NetworkLink", "NetworkLinkControl", "Orientation", "Pair", "PhotoOverlay",
   "Placemark", "Point", "PolyStyle", "Polygon", "Region", "ResourceMap",
   "Scale", "Schema", "SchemaData", "ScreenOverlay", "SimpleData",
   "SimpleField", "Snippet", "Style", "StyleMap", "TimeSpan", "TimeStamp",
   "Update", "Url", "ViewVolume"}

SmallComplexTypes ==
  {"coordinates", "hotSpot", "innerBoundaryIs", "kml", "linkSnippet",
   "outerBoundaryIs", "overlayXY", "rotationXY", "screenXY", "size"}

KmlSimpleTypes ==
  {"address", "altitude", "altitudeMode", "altitudeModeGroup", "begin",
   "bgColor", "bottomFov", "color", "colorMode", "cookie", "description",
   "displayMode", "displayName", "drawOrder", "east", "end", "expires",
   "extrude", "fill", "flyToView", "gridOrigin", "heading", "href",
   "httpQuery", "key", "latitude", "leftFov", "linkDescription", "linkName",
   "listItemType", "longitude", "maxAltitude", "maxFadeExtent", "maxHeight",
   "maxLength", "maxLodPixels", "maxSessionLength", "maxSnippetLines",
   "maxWidth", "message", "minAltitude", "minFadeExtent", "minLodPixels",
   "minRefreshPeriod", "name", "near", "north", "open", "outline",
   "phoneNumber", "range", "refreshInterval", "refreshMode",
   "refreshVisibility", "rightFov", "roll", "rotation", "scale", "shape",
   "snippet", "sourceHref", "south", "state", "styleUrl", "targetHref",
   "tessellate", "text", "textColor", "tileSize", "tilt", "topFov", "units",
   "value", "viewBoundScale", "viewFormat", "viewRefreshMode",
   "viewRefreshTime", "visibility", "west", "when", "width", "x", "y", "z"}

ExtensionComplexTypes ==
  {"AtomAuthor", "AtomCategory", "AtomContent", "AtomEntry", "AtomFeed",
   "AtomLink", "XalAddressDetails", "XalAdministrativeArea", "XalCountry",
   "XalLocality", "XalPostalCode", "XalSubAdministrativeArea",
   "XalThoroughfare", "GxAnimatedUpdate", "GxFlyTo", "GxLatLonQuad",
   "GxMultiTrack", "GxPlaylist", "GxSimpleArrayData", "GxSimpleArrayField",
   "GxSoundCue", "GxTimeSpan", "GxTimeStamp", "GxTour", "GxTourControl",
   "GxTrack", "GxWait"}

ExtensionSimpleTypes ==
  {"atomEmail", "atomId", "atomLabel", "atomName", "atomScheme",
   "atomSummary", "atomTerm", "atomTitle", "atomUpdated", "atomUri",
   "xalAdministrativeAreaName", "xalCountryNameCode", "xalLocalityName",
   "xalPostalCodeNumber", "xalSubAdministrativeAreaName",
   "xalThoroughfareName", "xalThoroughfareNumber", "GxAltitudeMode",
   "GxAngles", "GxBalloonVisibility", "GxCoord", "GxDuration", "GxFlyToMode",
   "GxH", "GxInterpolate", "GxPlayMode", "GxValue", "GxW", "GxX", "GxY"}

ComplexTypes ==
  AbstractTypes \cup BigComplexTypes \cup SmallComplexTypes \cup ExtensionComplexTypes
SimpleTypes == KmlSimpleTypes \cup ExtensionSimpleTypes

(* kKml22Enums: the simple types, and the units of the vec2 attributes,    *)
(* whose value must be one of a list.                                      *)
EnumTypes ==
  {"altitudeMode", "colorMode", "displayMode", "gridOrigin", "state",
   "listItemType", "refreshMode", "shape", "key", "viewRefreshMode",
   "GxAltitudeMode", "GxFlyToMode", "GxPlayMode", "@xunits", "@yunits"}

(* Those whose element sets has_x to what SetEnum answers.  ItemIcon reads *)
(* its state as a list of words and skips the words that are not listed.   *)
SetEnumTypes == EnumTypes \ {"state"}

(* The two IconStyleIcon warts: the name it is written under, and the type *)
(* an <Icon> has when its parent is an IconStyle.                          *)
ElementName(t) == IF t = "IconStyleIcon" THEN "Icon" ELSE t
TypeWithin(parent, name) ==
  IF parent = "IconStyle" /\ name = "Icon" THEN "IconStyleIcon" ELSE name

----------------------------------------------------------------------------
(* KmlFactory::CreateElementById: the type the switch knows, and the rows  *)
(* of the class of the element it returns.                                 *)
ClassOfAToL ==
  [Alias |-> AliasClass, AtomAuthor |-> AtomAuthorClass,
   AtomCategory |-> AtomCategoryClass, AtomContent |-> AtomContentClass,
   AtomEntry |-> AtomEntryClass, AtomFeed |-> AtomFeedClass,
   AtomLink |-> AtomLinkClass, BalloonStyle |-> BalloonStyleClass,
   Camera |-> CameraClass, Change |-> ChangeClass, Create |-> CreateClass,
   Data |-> DataClass, Delete |-> DeleteClass, Document |-> DocumentClass,
   ExtendedData |-> ExtendedDataClass, Folder |-> FolderClass,
   GroundOverlay |-> GroundOverlayClass, hotSpot |-> HotSpotClass,
   Icon |-> IconClass, IconStyle |-> IconStyleClass,
   IconStyleIcon |-> IconStyleIconClass, ImagePyramid |-> ImagePyramidClass,
   innerBoundaryIs |-> InnerBoundaryIsClass, ItemIcon |-> ItemIconClass,
   kml |-> KmlClass, LabelStyle |-> LabelStyleClass,
   LatLonBox |-> LatLonBoxClass, LatLonAltBox |-> LatLonAltBoxClass,
   LinearRing |-> LinearRingClass, LineString |-> LineStringClass,
   LineStyle |-> LineStyleClass, Link |-> LinkClass,
   linkSnippet |-> LinkSnippetClass, ListStyle |-> ListStyleClass,
   Location |-> LocationClass, Lod |-> LodClass, LookAt |-> LookAtClass]
ClassOfMToV ==
  [Metadata |-> MetadataClass, Model |-> ModelClass,
   MultiGeometry |-> MultiGeometryClass, NetworkLink |-> NetworkLinkClass,
   NetworkLinkControl |-> NetworkLinkControlClass,
   Orientation |-> OrientationClass,
   outerBoundaryIs |-> OuterBoundaryIsClass, overlayXY |-> OverlayXYClass,
   Pair |-> PairClass, PhotoOverlay |-> PhotoOverlayClass,
   Placemark |-> PlacemarkClass, Point |-> PointClass,
   Polygon |-> PolygonClass, PolyStyle |-> PolyStyleClass,
   Region |-> RegionClass, ResourceMap |-> ResourceMapClass,
   rotationXY |-> RotationXYClass, Scale |-> ScaleClass,
   ScreenOverlay |-> ScreenOverlayClass, coordinates |-> CoordinatesClass,
   screenXY |-> ScreenXYClass, Schema |-> SchemaClass,
   SchemaData |-> SchemaDataClass, Update |-> UpdateClass, Url |-> UrlClass,
   SimpleData |-> SimpleDataClass, SimpleField |-> SimpleFieldClass,
   size |-> SizeClass, Snippet |-> SnippetClass, Style |-> StyleClass,
   StyleMap |-> StyleMapClass, TimeSpan |-> TimeSpanClass,
   TimeStamp |-> TimeStampClass, ViewVolume |-> ViewVolumeClass]
ClassOfExtensions ==
  [XalAddressDetails |-> XalAddressDetailsClass,
   XalAdministrativeArea |-> XalAdministrativeAreaClass,
   XalCountry |-> XalCountryClass, XalLocality |-> XalLocalityClass,
   XalPostalCode |-> XalPostalCodeClass,
   XalSubAdministrativeArea |-> XalSubAdministrativeAreaClass,
   XalThoroughfare |-> XalThoroughfareClass,
   GxAnimatedUpdate |-> GxAnimatedUpdateClass, GxFlyTo |-> GxFlyToClass,
   GxLatLonQuad |-> GxLatLonQuadClass, GxMultiTrack |-> GxMultiTrackClass,
   GxPlaylist |-> GxPlaylistClass,
   GxSimpleArrayData |-> GxSimpleArrayDataClass,
   GxSimpleArrayField |-> GxSimpleArrayFieldClass,
   GxSoundCue |-> GxSoundCueClass, GxTimeSpan |-> GxTimeSpanClass,
   GxTimeStamp |-> GxTimeStampClass, GxTour |-> GxTourClass,
   GxTourControl |-> GxTourControlClass, GxTrack |-> GxTrackClass,
   GxWait |-> GxWaitClass]
ClassOf == ClassOfAToL @@ ClassOfMToV @@ ClassOfExtensions

CodeOf ==
  [Alias |-> AliasCode, AtomAuthor |-> AtomAuthorCode,
   AtomCategory |-> AtomCategoryCode, AtomContent |-> AtomContentCode,
   AtomEntry |-> AtomEntryCode, AtomFeed |-> AtomFeedCode,
   AtomLink |-> AtomLinkCode, BalloonStyle |-> BalloonStyleCode,
   Camera |-> CameraCode, Change |-> ChangeCode, Create |-> CreateCode,
   Data |-> DataCode, Delete |-> DeleteCode, Document |-> DocumentCode,
   ExtendedData |-> ExtendedDataCode, Folder |-> FolderCode,
   GroundOverlay |-> GroundOverlayCode, Icon |-> IconCode,
   IconStyle |-> IconStyleCode, IconStyleIcon |-> IconStyleIconCode,
   ImagePyramid |-> ImagePyramidCode, ItemIcon |-> ItemIconCode,
   LabelStyle |-> LabelStyleCode, LatLonBox |-> LatLonBoxCode,
   LatLonAltBox |-> LatLonAltBoxCode, LinearRing |-> LinearRingCode,
   LineString |-> LineStringCode, LineStyle |-> LineStyleCode,
   Link |-> LinkCode, ListStyle |-> ListStyleCode, Location |-> LocationCode,
   Lod |-> LodCode, LookAt |-> LookAtCode, Metadata |-> MetadataCode,
   Model |-> ModelCode, MultiGeometry |-> MultiGeometryCode,
   NetworkLink |-> NetworkLinkCode,
   NetworkLinkControl |-> NetworkLinkControlCode,
   Orientation |-> OrientationCode, Pair |-> PairCode,
   PhotoOverlay |-> PhotoOverlayCode, Placemark |-> PlacemarkCode,
   PolyStyle |-> PolyStyleCode, Point |-> PointCode, Polygon |-> PolygonCode,
   Region |-> RegionCode, ResourceMap |-> ResourceMapCode,
   Scale |-> ScaleCode, Schema |-> SchemaCode, SchemaData |-> SchemaDataCode,
   ScreenOverlay |-> ScreenOverlayCode, SimpleData |-> SimpleDataCode,
   SimpleField |-> SimpleFieldCode, Snippet |-> SnippetCode,
   Style |-> StyleCode, StyleMap |-> StyleMapCode, TimeSpan |-> TimeSpanCode,
   TimeStamp |-> TimeStampCode, ViewVolume |-> ViewVolumeCode,
   Update |-> UpdateCode, Url |-> UrlCode, coordinates |-> CoordinatesCode,
   hotSpot |-> HotSpotCode, innerBoundaryIs |-> InnerBoundaryIsCode,
   kml |-> KmlCode, linkSnippet |-> LinkSnippetCode,
   overlayXY |-> OverlayXYCode, outerBoundaryIs |-> OuterBoundaryIsCode,
   rotationXY |-> RotationXYCode, screenXY |-> ScreenXYCode,
   size |-> SizeCode, XalAddressDetails |-> XalAddressDetailsCode,
   XalAdministrativeArea |-> XalAdministrativeAreaCode,
   XalCountry |-> XalCountryCode, XalLocality |-> XalLocalityCode,
   XalPostalCode |-> XalPostalCodeCode,
   XalSubAdministrativeArea |-> XalSubAdministrativeAreaCode,
   XalThoroughfare |-> XalThoroughfareCode,
   GxAnimatedUpdate |-> GxAnimatedUpdateCode, GxFlyTo |-> GxFlyToCode,
   GxLatLonQuad |-> GxLatLonQuadCode, GxMultiTrack |-> GxMultiTrackCode,
   GxPlaylist |-> GxPlaylistCode, GxSimpleArrayData |-> GxSimpleArrayDataCode,
   GxSimpleArrayField |-> GxSimpleArrayFieldCode,
   GxSoundCue |-> GxSoundCueCode, GxTimeSpan |-> GxTimeSpanCode,
   GxTimeStamp |-> GxTimeStampCode, GxTour |-> GxTourCode,
   GxTourControl |-> GxTourControlCode, GxTrack |-> GxTrackCode,
   GxWait |-> GxWaitCode]

(* What IsA answers for an element of type t; a Field is its own type only.*)
TypesOf(t) ==
  {t} \cup (IF t \in DOMAIN ClassOf THEN ClassOf[t].is ELSE ElementClass.is)

(* The casts of kml_cast that ask IsA; all others ask for the type itself, *)
(* so that a GxSimpleArrayField is no SimpleField to them.                 *)
GroupCasts ==
  {"AbstractLatLonBox", "AbstractView", "ColorStyle", "Container", "Feature",
   "Geometry", "GxTourPrimitive", "Object", "Overlay", "StyleSelector",
   "SubStyle", "TimePrimitive"}
TakenAs(t) == {t} \cup (TypesOf(t) \cap GroupCasts)

----------------------------------------------------------------------------
(* Visitor: each Visit method calls the one for the class above it.        *)
VisitsAToGr ==
  [AbstractLatLonBox |-> "Object", AbstractLink |-> "BasicLink",
   AbstractView |-> "Object", Alias |-> "Object",
   BalloonStyle |-> "SubStyle", BasicLink |-> "Object",
   Camera |-> "AbstractView", Change |-> "UpdateOperation",
   ColorStyle |-> "SubStyle", Container |-> "Feature",
   Coordinates |-> "Element", Create |-> "UpdateOperation",
   Data |-> "Object", Delete |-> "UpdateOperation",
   Document |-> "Container", ExtendedData |-> "Element",
   Feature |-> "Object", Field |-> "Element", Folder |-> "Container",
   Geometry |-> "Object", GroundOverlay |-> "Overlay"]
VisitsGxToIm ==
  [GxAnimatedUpdate |-> "GxTourPrimitive", GxFlyTo |-> "GxTourPrimitive",
   GxLatLonQuad |-> "Object", GxMultiTrack |-> "Geometry",
   GxPlaylist |-> "Object", GxSimpleArrayData |-> "Element",
   GxSimpleArrayField |-> "SimpleField", GxSoundCue |-> "GxTourPrimitive",
   GxTimeSpan |-> "TimeSpan", GxTimeStamp |-> "TimeStamp",
   GxTour |-> "Feature", GxTourControl |-> "GxTourPrimitive",
   GxTourPrimitive |-> "Object", GxTrack |-> "Geometry",
   GxWait |-> "GxTourPrimitive", HotSpot |-> "Vec2",
   Icon |-> "AbstractLink", IconStyle |-> "ColorStyle",
   IconStyleIcon |-> "BasicLink", ImagePyramid |-> "Object"]
VisitsInToPh ==
  [InnerBoundaryIs |-> "Element", ItemIcon |-> "Object", Kml |-> "Element",
   LabelStyle |-> "ColorStyle", LatLonAltBox |-> "AbstractLatLonBox",
   LatLonBox |-> "AbstractLatLonBox", LineString |-> "Geometry",
   LineStyle |-> "ColorStyle", LinearRing |-> "Geometry",
   Link |-> "AbstractLink", LinkSnippet |-> "Element",
   ListStyle |-> "SubStyle", Location |-> "Object", Lod |-> "Object",
   LookAt |-> "AbstractView", Metadata |-> "Element", Model |-> "Geometry",
   MultiGeometry |-> "Geometry", NetworkLink |-> "Feature",
   NetworkLinkControl |-> "Element", Object |-> "Element",
   Orientation |-> "Object", OuterBoundaryIs |-> "Element",
   Overlay |-> "Feature", OverlayXY |-> "Vec2", Pair |-> "Object",
   PhotoOverlay |-> "Overlay"]
VisitsPlToV ==
  [Placemark |-> "Feature", Point |-> "Geometry",
   PolyStyle |-> "ColorStyle", Polygon |-> "Geometry", Region |-> "Object",
   ResourceMap |-> "Object", RotationXY |-> "Vec2", Scale |-> "Object",
   Schema |-> "Object", SchemaData |-> "Object",
   ScreenOverlay |-> "Overlay", ScreenXY |-> "Vec2",
   SimpleData |-> "Element", SimpleField |-> "Element", Size |-> "Vec2",
   Snippet |-> "Element", Style |-> "StyleSelector",
   StyleMap |-> "StyleSelector", StyleSelector |-> "Object",
   SubStyle |-> "Object", TimePrimitive |-> "Object",
   TimeSpan |-> "TimePrimitive", TimeStamp |-> "TimePrimitive",
   Update |-> "Element", UpdateOperation |-> "Element",
   Url |-> "AbstractLink", Vec2 |-> "Element", ViewVolume |-> "Object"]
VisitCalls == VisitsAToGr @@ VisitsGxToIm @@ VisitsInToPh @@ VisitsPlToV
=============================================================================
