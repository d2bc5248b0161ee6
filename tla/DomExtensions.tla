--------------------------- MODULE DomExtensions ---------------------------
(***************************************************************************)
(* The rows (see DomSchema) of the classes of the other namespaces: Atom,  *)
(* xAL, and the tours of Google's gx extensions.                           *)
(***************************************************************************)
EXTENDS DomFeatures

----------------------------------------------------------------------------
(* Atom.  None of these classes overrides Accept or AcceptChildren.        *)
AtomAuthorClass ==
  Class(ElementClass, {"AtomAuthor"}, {"atomName", "atomUri", "atomEmail"}, {}, {})
AtomAuthorCode ==
  Part(ElementCode, {"atomEmail", "atomName", "atomUri"},
       <<"atomName", "atomUri", "atomEmail">>, << >>)

AtomCategoryClass ==
  Class(ElementClass, {"AtomCategory"}, {"@term", "@scheme", "@label"}, {}, {})
AtomCategoryCode == With(ElementCode, {"@term", "@scheme", "@label"})

AtomContentClass == Class(ElementClass, {"AtomContent"}, {"@src", "@type"}, {}, {})
AtomContentCode  == With(ElementCode, {"@src", "@type"})

AtomLinkClass ==
  Class(ElementClass, {"AtomLink"},
        {"@href", "@rel", "@type", "@hreflang", "@title", "@length"}, {}, {})
AtomLinkCode ==
  With(ElementCode, {"@href", "@rel", "@type", "@hreflang", "@title", "@length"})

AtomCommonClass ==
  Class(ElementClass, {}, {"atomId", "atomTitle", "atomUpdated"}, {},
        {"AtomCategory", "AtomLink"})
AtomCommonCode ==
  Part(ElementCode, {"atomId", "atomTitle", "atomUpdated", "AtomCategory", "AtomLink"},
       <<"atomId", "atomTitle", "atomUpdated", "AtomCategory", "AtomLink">>, << >>)

AtomEntryClass ==
  Class(AtomCommonClass, {"AtomEntry"}, {"atomSummary"}, {"AtomContent"}, {})
AtomEntryCode ==
  Part(AtomCommonCode, {"atomSummary", "AtomContent"},
       AtomCommonCode.writes \o <<"atomSummary", "AtomContent">>, << >>)

AtomFeedClass == Class(AtomCommonClass, {"AtomFeed"}, {}, {}, {"AtomEntry"})
AtomFeedCode  ==
  Part(AtomCommonCode, {"AtomEntry"}, AtomCommonCode.writes \o <<"AtomEntry">>, << >>)

----------------------------------------------------------------------------
(* xAL, the same.  XalLocality takes a name that it does not write.        *)
XalAddressDetailsClass == Class(ElementClass, {"XalAddressDetails"}, {}, {"XalCountry"}, {})
XalAddressDetailsCode  == Part(ElementCode, {"XalCountry"}, <<"XalCountry">>, << >>)

XalCountryClass ==
  Class(ElementClass, {"XalCountry"}, {"xalCountryNameCode"},
        {"XalAdministrativeArea"}, {})
XalCountryCode ==
  Part(ElementCode, {"xalCountryNameCode", "XalAdministrativeArea"},
       <<"xalCountryNameCode", "XalAdministrativeArea">>, << >>)

XalAdministrativeAreaClass ==
  Class(ElementClass, {"XalAdministrativeArea"}, {"xalAdministrativeAreaName"},
        {"XalLocality", "XalSubAdministrativeArea"}, {})
XalAdministrativeAreaCode ==
  Part(ElementCode,
       {"xalAdministrativeAreaName", "XalLocality", "XalSubAdministrativeArea"},
       <<"xalAdministrativeAreaName", "XalLocality", "XalSubAdministrativeArea">>, << >>)

XalSubAdministrativeAreaClass ==
  Class(ElementClass, {"XalSubAdministrativeArea"}, {"xalSubAdministrativeAreaName"},
        {"XalLocality"}, {})
XalSubAdministrativeAreaCode ==
  Part(ElementCode, {"xalSubAdministrativeAreaName", "XalLocality"},
       <<"xalSubAdministrativeAreaName", "XalLocality">>, << >>)

XalLocalityClass ==
  Class(ElementClass, {"XalLocality"}, {"xalLocalityName"},
        {"XalThoroughfare", "XalPostalCode"}, {})
XalLocalityCode ==
  Part(ElementCode, {"xalLocalityName", "XalPostalCode", "XalThoroughfare"},
       <<"XalThoroughfare", "XalPostalCode">>, << >>)

XalPostalCodeClass ==
  Class(ElementClass, {"XalPostalCode"}, {"xalPostalCodeNumber"}, {}, {})
XalPostalCodeCode ==
  Part(ElementCode, {"xalPostalCodeNumber"}, <<"xalPostalCodeNumber">>, << >>)

XalThoroughfareClass ==
  Class(ElementClass, {"XalThoroughfare"},
        {"xalThoroughfareName", "xalThoroughfareNumber"}, {}, {})
XalThoroughfareCode ==
  Part(ElementCode, {"xalThoroughfareName", "xalThoroughfareNumber"},
       <<"xalThoroughfareNumber", "xalThoroughfareName">>, << >>)

----------------------------------------------------------------------------
(* Tours.                                                                  *)
GxTourClass == Class(FeatureClass, {"GxTour"}, {}, {"GxPlaylist"}, {})
GxTourCode  ==
  Code(FeatureCode, "GxTour", {"GxPlaylist"}, FeatureCode.writes \o <<"GxPlaylist">>,
       <<"GxPlaylist">>)

GxPlaylistClass == Class(ObjectClass, {"GxPlaylist"}, {}, {}, {"GxTourPrimitive"})
GxPlaylistCode  ==
  Code(ObjectCode, "GxPlaylist", {"GxTourPrimitive"}, <<"GxTourPrimitive">>,
       <<"GxTourPrimitive">>)

GxTourPrimitiveClass == Class(ObjectClass, {"GxTourPrimitive"}, {}, {}, {})

GxTourPrimitiveCommonClass == Class(GxTourPrimitiveClass, {}, {"GxDuration"}, {}, {})
GxTourPrimitiveCommonCode  == Part(ObjectCode, {"GxDuration"}, <<"GxDuration">>, << >>)

GxAnimatedUpdateClass ==
  Class(GxTourPrimitiveCommonClass, {"GxAnimatedUpdate"}, {}, {"Update"}, {})
GxAnimatedUpdateCode ==
  Code(GxTourPrimitiveCommonCode, "GxAnimatedUpdate", {"Update"},
       <<"GxDuration", "Update">>, <<"Update">>)

GxFlyToClass ==
  Class(GxTourPrimitiveCommonClass, {"GxFlyTo"}, {"GxFlyToMode"}, {"AbstractView"}, {})
GxFlyToCode ==
  Code(GxTourPrimitiveCommonCode, "GxFlyTo", {"GxFlyToMode", "AbstractView"},
       <<"GxDuration", "GxFlyToMode", "AbstractView">>, <<"AbstractView">>)

GxWaitClass == Class(GxTourPrimitiveCommonClass, {"GxWait"}, {}, {}, {})
GxWaitCode  == Code(GxTourPrimitiveCommonCode, "GxWait", {}, <<"GxDuration">>, << >>)

GxSoundCueClass == Class(GxTourPrimitiveClass, {"GxSoundCue"}, {"href"}, {}, {})
GxSoundCueCode  == Code(ObjectCode, "GxSoundCue", {"href"}, <<"href">>, << >>)

GxTourControlClass == Class(GxTourPrimitiveClass, {"GxTourControl"}, {"GxPlayMode"}, {}, {})
GxTourControlCode  ==
  Code(ObjectCode, "GxTourControl", {"GxPlayMode"}, <<"GxPlayMode">>, << >>)
=============================================================================
