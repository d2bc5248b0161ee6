----------------------------- MODULE DomSchema -----------------------------
(***************************************************************************)
(* How the element classes of kml/dom are described: two rows for a class, *)
(* both built on the row of its C++ base class.                            *)
(*                                                                         *)
(* A "class" row is the declaration in the header: the element types IsA   *)
(* answers TRUE for, and the members the class keeps.  All the accessors   *)
(* of dom follow one of three schemes, which is what the row records:      *)
(*   value  x_ and has_x_ (set_x, clear_x, has_x),                         *)
(*   child  one child element (set_x through SetComplexChild, clear_x),    *)
(*   list   an array (add_x, mostly through AddComplexChild).              *)
(* A member is named by the element type it holds; "@id" is an attribute   *)
(* and "text()" the character data of an element that keeps its own.       *)
(*                                                                         *)
(* A "code" row is the implementation:                                     *)
(*   attrs    what ParseAttributes cuts and SerializeAttributes sets,      *)
(*   takes    the types AddElement puts into a member,                     *)
(*   writes   the members in the order Serialize writes them,              *)
(*   visits   the children in the order AcceptChildren visits them,        *)
(*   accept   the Visit method that Accept calls,                          *)
(*   homes    the member a taken type goes to, when it is not its own,     *)
(*   drops    the types whose elements AddElement forgets,                 *)
(*   keeps    FALSE when Serialize writes no attributes and not what       *)
(*            SerializeUnknown writes.                                     *)
(* The two rows are compared with each other by the runs: nothing here     *)
(* says that what is taken is also written or visited.                     *)
(***************************************************************************)
LOCAL INSTANCE Sequences

(* A class adds to its base the types it is, and its members.              *)
Class(base, is, value, child, list) ==
  [is    |-> base.is \cup is,       value |-> base.value \cup value,
   child |-> base.child \cup child, list  |-> base.list \cup list]

(* AddElement passes what it does not take to the base's AddElement, and   *)
(* AcceptChildren calls the base's first; Serialize is given in full.      *)
Part(base, takes, writes, visits) ==
  [base EXCEPT !.takes = @ \cup takes, !.writes = writes, !.visits = @ \o visits]

(* The same for a class that overrides Accept.                             *)
Code(base, accept, takes, writes, visits) ==
  [Part(base, takes, writes, visits) EXCEPT !.accept = accept]

(* A class that overrides ParseAttributes and SerializeAttributes.         *)
With(code, attrs) == [code EXCEPT !.attrs = @ \cup attrs]

(* A class whose AddElement puts some types into a member of another name. *)
Rehome(code, homes) == [code EXCEPT !.homes = homes]

(* A class whose AddElement keeps nothing of what it is given but uses the *)
(* call to take its own character data.  It is given itself at its end     *)
(* tag: what it takes then is "text()".                                    *)
OwnText(code) ==
  [code EXCEPT !.takes  = @ \cup {"text()"}, !.drops = {"Element"},
               !.writes = @ \o <<"text()">>]

----------------------------------------------------------------------------
(* class Element: everything it is given is misplaced.                     *)
ElementClass == [is |-> {"Element"}, value |-> {}, child |-> {}, list |-> {}]
ElementCode  == [attrs |-> {}, takes |-> {}, homes |-> << >>, drops |-> {}, keeps |-> TRUE,
                 writes |-> << >>, visits |-> << >>, accept |-> "Element"]

(* class Field: a simple element.  It keeps what it is given as any        *)
(* Element does, but writes its character data and nothing else.           *)
FieldClass == Class(ElementClass, {}, {"text()"}, {}, {})
FieldCode  == [Part(ElementCode, {"text()"}, <<"text()">>, << >>) EXCEPT !.keeps = FALSE]

(* class Object: the two attributes every KML object may have.             *)
ObjectClass == Class(ElementClass, {"Object"}, {"@id", "@targetId"}, {}, {})
ObjectCode  == With(Part(ElementCode, {}, << >>, << >>), {"@id", "@targetId"})
=============================================================================
