---------------------------- MODULE MCDomElement ----------------------------
EXTENDS DomElement, KmlSchema

(* The classes of the factory, and one simple element as a Field.          *)
FieldTypes == {"name"}
MCClasses  == DOMAIN ClassOf \cup FieldTypes
MCClassRow == [t \in MCClasses |-> IF t \in FieldTypes THEN FieldClass ELSE ClassOf[t]]
MCCodeRow  == [t \in MCClasses |-> IF t \in FieldTypes THEN FieldCode ELSE CodeOf[t]]
MCKnown    == ((ComplexTypes \cup SimpleTypes) \ AbstractTypes) \cup {"text()"}

(* What XalLocality takes and does not write.                              *)
MCUnwritten == {<<"XalLocality", "xalLocalityName">>}
(* No AcceptChildren visits an Atom or an xAL element.                     *)
MCUnvisited ==
  {"AtomAuthor", "AtomCategory", "AtomContent", "AtomEntry", "AtomFeed",
   "AtomLink", "XalAddressDetails", "XalAdministrativeArea", "XalCountry",
   "XalLocality", "XalPostalCode", "XalSubAdministrativeArea",
   "XalThoroughfare"}

(* The tables satisfy what the theorems assume of them.                    *)
ASSUME TablesAssumption == Covered /\ WrittenApart /\ VisitsReach /\ CallsReach

(* A child of every type the class takes (of every concrete one of a       *)
(* group), of a few it may not take, and unknown ones.                     *)
Strays == {"ItemIcon", "Update", "cookie", "LineString", "SimpleData", "?unknown"}
Kinds(c) == ({t \in MCKnown : Slots(c, t) # {}} \cup Strays \cup {c}) \ {"text()"}
Bodies(c) ==
  LET plain == {[type |-> t, ok |-> TRUE] : t \in Kinds(c) \ {"IconStyleIcon"}}
      icon  == IF c = "IconStyle" THEN {[type |-> "IconStyleIcon", ok |-> TRUE]} ELSE {}
      bad   == {[type |-> t, ok |-> FALSE] : t \in Kinds(c) \cap SetEnumTypes}
  IN SeqOf(plain \cup icon \cup bad, 2)

MCInputs(c) ==
  LET Placed(b) == [k \in DOMAIN b |-> [type |-> b[k].type, ok |-> b[k].ok, id |-> k]]
      Ended(b)  == IF "text()" \in MCClassRow[c].value
                   THEN Append(b, [type |-> "text()", ok |-> TRUE]) ELSE b
      known     == {[type |-> a, ok |-> TRUE] : a \in MCCodeRow[c].attrs}
      all       == IF c \in FieldTypes THEN {}
                   ELSE known \cup {[type |-> "@unknown", ok |-> TRUE]}
      bad       == {[type |-> a, ok |-> FALSE] : a \in MCCodeRow[c].attrs \cap SetEnumTypes}
  IN {[attrs |-> all, body |-> Placed(Ended(b))] : b \in Bodies(c)}
       \cup {[attrs |-> a, body |-> Placed(Ended(<< >>))] : a \in {{}, bad}}
=============================================================================
