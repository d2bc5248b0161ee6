--------------------------- MODULE UpdatePromise ---------------------------
(***************************************************************************)
(* What a KmlFile promises to those who process Updates against it: which  *)
(* elements each operation may touch, and which it must.                   *)
(*                                                                         *)
(* The state is the tree a client sees from the root of the file.  The     *)
(* operations find their targets in the table of ids made when the file    *)
(* was read: what an Update created never gets into it, and what was       *)
(* deleted may stay in it.                                                 *)
(***************************************************************************)
EXTENDS Integers, Sequences, FiniteSets, SequencesExt

CONSTANTS Ids, NoId
VARIABLES
    tree,     \* the elements in the file: [kind, id, field, parent, kids]
    table,    \* the element each id was given when the file was read
    amending, \* the element a Change is being merged into, or 0
    call      \* what was asked last: <<operation, id, features it brings>>

vars == <<tree, table, amending, call>>

IsFeature(e)  == e.kind \in {"Folder", "Placemark"}
IsGeometry(e) == e.kind \in {"Point", "LineString"}

(* The elements of a tree at and below one.                                *)
Below(t, o) ==
  LET Kids(s) == s \cup UNION {Range(t[p].kids) : p \in s}
      f[k \in 0..Cardinality(DOMAIN t)] == IF k = 0 THEN {o} ELSE Kids(f[k - 1])
  IN f[Cardinality(DOMAIN t)]

(* t becomes u as the feature o leaves its parent, with all below it.      *)
Removed(t, u, o) ==
  LET p == t[o].parent  gone == Below(t, o) IN
  /\ DOMAIN u = DOMAIN t \ gone
  /\ \A e \in DOMAIN u \ {p} : u[e] = t[e]
  /\ \E k \in DOMAIN t[p].kids :
       t[p].kids[k] = o /\ u[p] = [t[p] EXCEPT !.kids = RemoveAt(@, k)]

(* New features, n of them, stand after those the container has.           *)
Appended(t, u, c, n) ==
  /\ \A e \in DOMAIN t \ {c} : e \in DOMAIN u /\ u[e] = t[e]
  /\ c \in DOMAIN u /\ Len(u[c].kids) = Len(t[c].kids) + n
  /\ IsPrefix(t[c].kids, u[c].kids)
  /\ u[c] = [t[c] EXCEPT !.kids = u[c].kids]
  /\ \A e \in DOMAIN u \ DOMAIN t : u[e].parent \notin DOMAIN t \ {c}

(* What the merge of a Change may do to the elements at and below o: give  *)
(* them other fields and ids and add children, but take no feature away;   *)
(* a geometry gives way to one of another kind.                            *)
Amended(t, u, o) ==
  LET below == Below(t, o) IN
  /\ \A e \in DOMAIN t \ below : e \in DOMAIN u /\ u[e] = t[e]
  /\ \A e \in below : ~IsGeometry(t[e]) =>
       /\ e \in DOMAIN u /\ u[e].kind = t[e].kind /\ u[e].parent = t[e].parent
       /\ t[e].kind = "Folder" => IsPrefix(t[e].kids, u[e].kids)
  /\ \A n \in DOMAIN u \ DOMAIN t : u[n].parent \notin DOMAIN t \ below

(* The tree still has the element under the id it was read with, and no    *)
(* sibling before it has that id too.                                      *)
Addressed(t, i) ==
  /\ i \in DOMAIN table /\ table[i] \in DOMAIN t
  /\ LET o == table[i]  p == t[o].parent IN
       /\ t[o].id = i /\ IsFeature(t[o]) /\ p # 0
       /\ \A k, l \in DOMAIN t[p].kids :
            t[p].kids[l] = o /\ k < l => t[t[p].kids[k]].id # i

Step(name, i) ==
  /\ amending = 0 /\ (name # "Change" => amending' = 0)
  /\ call'[1] = name /\ call'[2] = i

Brought == call'[3]

(* Otherwise a feature may go that has the id by now, or the one the table *)
(* has for it, whatever its id is by now, if that is all there is in a kml.*)
Delete(i) ==
  /\ Step("Delete", i)
  /\ \E t \in {tree}, u \in {tree'} :
     IF Addressed(t, i) THEN Removed(t, u, table[i])
     ELSE \/ u = t
          \/ \E o \in DOMAIN t :
               /\ IsFeature(t[o]) /\ t[o].parent # 0 /\ Removed(t, u, o)
               /\ \/ t[o].id = i
                  \/ i \in DOMAIN table /\ o = table[i] /\ t[t[o].parent].kind = "kml"

Create(i) ==
  /\ Step("Create", i)
  /\ \E t \in {tree}, u \in {tree'} :
     IF i \in DOMAIN table /\ table[i] \in DOMAIN t /\ t[table[i]].kind = "Folder"
     THEN Appended(t, u, table[i], Brought) ELSE u = t

AmendedIfThere(o) ==
  \E t \in {tree}, u \in {tree'} : IF o \in DOMAIN t THEN Amended(t, u, o) ELSE u = t

Change(i) ==
  /\ Step("Change", i)
  /\ IF i \in DOMAIN table THEN amending' = table[i] /\ AmendedIfThere(table[i])
                           ELSE amending' = 0 /\ UNCHANGED tree

(* The rest of the merge.                                                  *)
Merge ==
  /\ amending # 0 /\ amending' \in {0, amending} /\ UNCHANGED call
  /\ AmendedIfThere(amending)

(* The client's own calls of a Container.                                  *)
Client ==
  /\ Step("client", NoId)
  /\ \E t \in {tree}, u \in {tree'} :
     \/ u = t
     \/ \E c \in DOMAIN t : t[c].kind = "Folder" /\ Appended(t, u, c, 1)
     \/ \E o \in DOMAIN t : IsFeature(t[o]) /\ t[o].parent # 0 /\ Removed(t, u, o)

Init == amending = 0 /\ call = <<"none", NoId, 0>>

Next ==
  /\ \A i \in DOMAIN table' : i \in DOMAIN table /\ table'[i] = table[i]
  /\ \/ \E i \in Ids \cup {NoId} : Delete(i) \/ Create(i) \/ Change(i)
     \/ Merge \/ Client

Spec == Init /\ [][Next]_vars
=============================================================================
