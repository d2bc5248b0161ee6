----------------------------- MODULE MCKmlHandler -----------------------------
(***************************************************************************)
(* Bounded instances of KmlHandler: which names occur in the documents.    *)
(* X is unknown until a Schema names it as a field of S, Y stays unknown,  *)
(* an observer stops the parse at a Folder, another after a name.          *)
(***************************************************************************)
EXTENDS KmlHandler

AllComplex == {"Document", "Placemark", "Schema", "SimpleField", "Folder"}
AllSimple == {"description", "name"}
AllUnknown == {"X", "S", "Y"}

(* The documents of the run: a Document that declares one Schema, first,   *)
(* with one SimpleField, the old style way; or, one tag shorter, no Schema *)
(* at all and no names that matter to one.                                 *)
IsOldStyle == Len(doc) >= 2 /\ doc[2].name = "Schema"

Documents ==
    /\ Len(doc) <= IF IsOldStyle THEN MaxTags ELSE MaxTags - 1
    /\ Tags # {} => doc[1].name = "Document"
    /\ IsOldStyle => /\ old_schema_name # ""
                     /\ Len(doc) >= 3 => doc[3].name = "SimpleField"
    /\ \A t \in Tags \ (1..(IF IsOldStyle THEN 3 ELSE 1)) :
          doc[t].name \notin {"Document", "Schema", "SimpleField"} \cup
                             (IF IsOldStyle THEN {} ELSE {"S", "Y"})

(* The smallest sets of names for the disagreement with the comment.       *)
SchemaComplex == {"Document", "Placemark", "Schema", "SimpleField"}
SchemaUnknown == {"X", "S", "Y"}
===============================================================================
