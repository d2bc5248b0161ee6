----------------------------- MODULE DomStyles -----------------------------
(***************************************************************************)
(* The rows (see DomSchema) of the styles, the links, the time primitives  *)
(* and the views.                                                          *)
(***************************************************************************)
EXTENDS DomSchema, Sequences

----------------------------------------------------------------------------
(* Links.                                                                  *)
BasicLinkClass == Class(ObjectClass, {"BasicLink"}, {"href"}, {}, {})
BasicLinkCode  == Code(ObjectCode, "BasicLink", {"href"}, <<"href">>, << >>)

AbstractLinkClass ==
  Class(BasicLinkClass, {},
        {"refreshMode", "refreshInterval", "viewRefreshMode", "viewRefreshTime",
         "viewBoundScale", "viewFormat", "httpQuery"}, {}, {})
AbstractLinkCode ==
  Part(BasicLinkCode,
       {"refreshMode", "refreshInterval", "viewRefreshMode", "viewRefreshTime",
        "viewBoundScale", "viewFormat", "httpQuery"},
       BasicLinkCode.writes
         \o <<"refreshMode", "refreshInterval", "viewRefreshMode", "viewRefreshTime",
              "viewBoundScale", "viewFormat", "httpQuery">>, << >>)

LinkClass == Class(AbstractLinkClass, {"Link"}, {}, {}, {})
LinkCode  == [AbstractLinkCode EXCEPT !.accept = "Link"]
IconClass == Class(AbstractLinkClass, {"Icon"}, {}, {}, {})
IconCode  == [AbstractLinkCode EXCEPT !.accept = "Icon"]
UrlClass  == Class(AbstractLinkClass, {"Url"}, {}, {}, {})
UrlCode   == [AbstractLinkCode EXCEPT !.accept = "Url"]

IconStyleIconClass ==
  Class(BasicLinkClass, {"IconStyleIcon"}, {"GxX", "GxY", "GxW", "GxH"}, {}, {})
IconStyleIconCode ==
  Code(BasicLinkCode, "IconStyleIcon", {"GxX", "GxY", "GxW", "GxH"},
       BasicLinkCode.writes \o <<"GxX", "GxY", "GxW", "GxH">>, << >>)

----------------------------------------------------------------------------
(* Sub styles.                                                             *)
SubStyleClass == Class(ObjectClass, {"SubStyle"}, {}, {}, {})
SubStyleCode  == ObjectCode

ColorStyleClass == Class(SubStyleClass, {"ColorStyle"}, {"color", "colorMode"}, {}, {})
ColorStyleCode  ==
  Part(SubStyleCode, {"color", "colorMode"}, <<"color", "colorMode">>, << >>)

IconStyleClass ==
  Class(ColorStyleClass, {"IconStyle"}, {"scale", "heading"},
        {"IconStyleIcon", "hotSpot"}, {})
IconStyleCode ==
  Code(ColorStyleCode, "IconStyle", {"scale", "heading", "IconStyleIcon", "hotSpot"},
       ColorStyleCode.writes \o <<"scale", "heading", "IconStyleIcon", "hotSpot">>,
       <<"IconStyleIcon", "hotSpot">>)

LabelStyleClass == Class(ColorStyleClass, {"LabelStyle"}, {"scale"}, {}, {})
LabelStyleCode  ==
  Code(ColorStyleCode, "LabelStyle", {"scale"}, ColorStyleCode.writes \o <<"scale">>,
       << >>)

LineStyleClass == Class(ColorStyleClass, {"LineStyle"}, {"width"}, {}, {})
LineStyleCode  ==
  Code(ColorStyleCode, "LineStyle", {"width"}, ColorStyleCode.writes \o <<"width">>,
       << >>)

PolyStyleClass == Class(ColorStyleClass, {"PolyStyle"}, {"fill", "outline"}, {}, {})
PolyStyleCode  ==
  Code(ColorStyleCode, "PolyStyle", {"fill", "outline"},
       ColorStyleCode.writes \o <<"fill", "outline">>, << >>)

BalloonStyleClass ==
  Class(SubStyleClass, {"BalloonStyle"},
        {"bgColor", "textColor", "text", "displayMode"}, {}, {})
BalloonStyleCode ==
  Code(SubStyleCode, "BalloonStyle", {"bgColor", "textColor", "text", "displayMode"},
       <<"bgColor", "textColor", "text", "displayMode">>, << >>)

(* <state> is a list of words in one element: one value for this model.    *)
ItemIconClass == Class(ObjectClass, {"ItemIcon"}, {"state", "href"}, {}, {})
ItemIconCode  == Code(ObjectCode, "ItemIcon", {"state", "href"}, <<"state", "href">>, << >>)

ListStyleClass ==
  Class(SubStyleClass, {"ListStyle"}, {"listItemType", "bgColor", "maxSnippetLines"},
        {}, {"ItemIcon"})
ListStyleCode ==
  Code(SubStyleCode, "ListStyle",
       {"listItemType", "bgColor", "ItemIcon", "maxSnippetLines"},
       <<"listItemType", "bgColor", "ItemIcon", "maxSnippetLines">>, <<"ItemIcon">>)

----------------------------------------------------------------------------
(* Style selectors.                                                        *)
StyleSelectorClass == Class(ObjectClass, {"StyleSelector"}, {}, {}, {})
StyleSelectorCode  == ObjectCode

StyleClass ==
  Class(StyleSelectorClass, {"Style"}, {},
        {"IconStyle", "LabelStyle", "LineStyle", "PolyStyle", "BalloonStyle",
         "ListStyle"}, {})
StyleCode ==
  Code(StyleSelectorCode, "Style",
       {"IconStyle", "LabelStyle", "LineStyle", "PolyStyle", "BalloonStyle",
        "ListStyle"},
       <<"IconStyle", "LabelStyle", "LineStyle", "PolyStyle", "BalloonStyle",
         "ListStyle">>,
       <<"IconStyle", "LabelStyle", "LineStyle", "PolyStyle", "BalloonStyle",
         "ListStyle">>)

PairClass == Class(ObjectClass, {"Pair"}, {"key", "styleUrl"}, {"StyleSelector"}, {})
PairCode  ==
  Code(ObjectCode, "Pair", {"StyleSelector", "key", "styleUrl"},
       <<"key", "styleUrl", "StyleSelector">>, <<"StyleSelector">>)

StyleMapClass == Class(StyleSelectorClass, {"StyleMap"}, {}, {}, {"Pair"})
StyleMapCode  == Code(StyleSelectorCode, "StyleMap", {"Pair"}, <<"Pair">>, <<"Pair">>)

----------------------------------------------------------------------------
(* Time primitives and views.                                              *)
TimePrimitiveClass == Class(ObjectClass, {"TimePrimitive"}, {}, {}, {})
TimePrimitiveCode  == ObjectCode

TimeSpanClass  == Class(TimePrimitiveClass, {"TimeSpan"}, {"begin", "end"}, {}, {})
TimeSpanCode   ==
  Code(TimePrimitiveCode, "TimeSpan", {"begin", "end"}, <<"begin", "end">>, << >>)
TimeStampClass == Class(TimePrimitiveClass, {"TimeStamp"}, {"when"}, {}, {})
TimeStampCode  == Code(TimePrimitiveCode, "TimeStamp", {"when"}, <<"when">>, << >>)

GxTimeSpanClass  == Class(TimeSpanClass, {"GxTimeSpan"}, {}, {}, {})
GxTimeSpanCode   == [TimeSpanCode EXCEPT !.accept = "GxTimeSpan"]
GxTimeStampClass == Class(TimeStampClass, {"GxTimeStamp"}, {}, {}, {})
GxTimeStampCode  == [TimeStampCode EXCEPT !.accept = "GxTimeStamp"]

AbstractViewClass == Class(ObjectClass, {"AbstractView"}, {}, {"TimePrimitive"}, {})
AbstractViewCode  ==
  Part(ObjectCode, {"TimePrimitive"}, <<"TimePrimitive">>, <<"TimePrimitive">>)

AbstractViewCommonClass ==
  Class(AbstractViewClass, {},
        {"longitude", "latitude", "altitude", "heading", "tilt", "altitudeMode",
         "GxAltitudeMode"}, {}, {})
(* Without Serialize of its own: LookAt and Camera write their last field  *)
(* between SerializeBeforeR and SerializeAfterR.                           *)
BeforeR == AbstractViewCode.writes
             \o <<"longitude", "latitude", "altitude", "heading", "tilt">>
AfterR  == <<"altitudeMode", "GxAltitudeMode">>
AbstractViewCommonCode ==
  Part(AbstractViewCode,
       {"longitude", "latitude", "altitude", "heading", "tilt", "altitudeMode",
        "GxAltitudeMode"}, BeforeR \o AfterR, << >>)

LookAtClass == Class(AbstractViewCommonClass, {"LookAt"}, {"range"}, {}, {})
LookAtCode  ==
  Code(AbstractViewCommonCode, "LookAt", {"range"}, BeforeR \o <<"range">> \o AfterR, << >>)
CameraClass == Class(AbstractViewCommonClass, {"Camera"}, {"roll"}, {}, {})
CameraCode  ==
  Code(AbstractViewCommonCode, "Camera", {"roll"}, BeforeR \o <<"roll">> \o AfterR, << >>)
=============================================================================
