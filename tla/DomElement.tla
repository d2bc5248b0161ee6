----------------------------- MODULE DomElement -----------------------------
(***************************************************************************)
(* The engine all the element classes of kml/dom share: a parse hands an   *)
(* element its attributes and its children one by one (ParseAttributes,    *)
(* AddElement, AddUnknownElement), Serialize writes what it keeps, and a   *)
(* Visitor sees its children through Accept and AcceptChildren.  What is   *)
(* written is then parsed and written again, Rounds times in all.          *)
(*                                                                         *)
(* The classes are constants, described by rows as in DomSchema, so that   *)
(* what is proved here holds for every table of classes that satisfies the *)
(* assumptions; the runs take the tables of KmlSchema.                     *)
(*                                                                         *)
(* A child is an item: its element type, the position it had in the first  *)
(* text as its id, and whether its character data is a word the schema     *)
(* lists, which matters for the enum types only.  An item of a type the    *)
(* schema does not know is unknown: a whole subtree kept as raw text.      *)
(* "text()" stands for the element's own character data, which comes with  *)
(* its end tag.                                                            *)
(***************************************************************************)
EXTENDS Integers, Sequences, FiniteSets, SequencesExt

CONSTANTS
    Classes,          \* the types KmlFactory creates
    ClassRow, CodeRow,\* their rows
    KnownTypes,       \* the element types with a name in kml22.cc, and "text()"
    Enums,            \* those that are read with SetEnum
    IsA(_),           \* the types for which IsA answers TRUE
    As(_),            \* the types a child is taken as: its own and its groups
    NameOf(_),        \* the name a type is written under
    ReadAs(_, _),     \* the type that is read for a name, given the parent
    MethodAbove,      \* the Visit method each Visit method of Visitor calls
    Unwritten,        \* <<class, type>>: what a class takes and never writes
    Unvisited,        \* the types no AcceptChildren passes on
    Inputs(_),        \* the texts a run tries for a class
    Rounds            \* how often the element is written

VARIABLES
    class,    \* the type of the element
    texts,    \* the text it is parsed from, and the texts it was written as:
              \* [attrs, body]
    round,    \* which of them is being parsed
    next,     \* the index in its body of the child that is parsed next; 0
              \* before ParseAttributes
    held,     \* the element's members, each a sequence of items
    attributes, \* its attributes, the known and the unknown ones
    misplaced, unknown, \* the children it has no member for
    visited   \* the Visit methods called by a visit of the element as it is
              \* now: << <<id, method>>, ... >>, 0 for the element itself

element == <<held, attributes, misplaced, unknown>>
vars == <<class, texts, round, next, element, visited>>

Members(c) == ClassRow[c].value \cup ClassRow[c].child \cup ClassRow[c].list

----------------------------------------------------------------------------
(* Where AddElement puts an item: the case labels and casts of the class   *)
(* and of its base classes, as types.                                      *)
Slots(c, t) == CodeRow[c].takes \cap As(t)
Slot(c, t)  == CHOOSE s \in Slots(c, t) : TRUE

Home(c, t) ==
  IF Slot(c, t) \in DOMAIN CodeRow[c].homes THEN CodeRow[c].homes[Slot(c, t)]
                                            ELSE Slot(c, t)
Known(i)    == i.type \in KnownTypes
Taken(c, i) == Known(i) /\ Slots(c, i.type) # {}
IsBad(i)    == i.type \in Enums /\ ~i.ok

(* An element that uses AddElement for its own text forgets the child.     *)
Dropped(c, i) == Known(i) /\ ~Taken(c, i) /\ CodeRow[c].drops \cap IsA(i.type) # {}

ASSUME SchemaAssumption ==
  \A c \in Classes :
    /\ \A t \in KnownTypes : Slots(c, t) # {} => Home(c, t) \in Members(c)
    /\ CodeRow[c].writes \in Seq(Members(c)) /\ CodeRow[c].visits \in Seq(Members(c))

Items == [type : STRING, ok : BOOLEAN, id : Nat \ {0}]

(* A text has different ids for its children, and the types the parser     *)
(* finds: those it finds again for the names they are written under.       *)
ASSUME InputsAssumption ==
  \A c \in Classes : \A t \in Inputs(c) :
    /\ t = [attrs |-> t.attrs, body |-> t.body] /\ t.body \in Seq(Items)
    /\ \A i \in Range(t.body) : ReadAs(c, NameOf(i.type)) = i.type
    /\ \A j, k \in DOMAIN t.body : t.body[j].id = t.body[k].id => j = k

ASSUME RoundsAssumption == Rounds \in Nat \ {0}

----------------------------------------------------------------------------
Init ==
  /\ class \in Classes
  /\ texts \in {<<t>> : t \in Inputs(class)}
  /\ round = 1 /\ next = 0
  /\ held = [m \in Members(class) |-> << >>]
  /\ attributes = {} /\ misplaced = << >> /\ unknown = << >>
  /\ visited = << >>

Text   == texts[round]
Cur    == Text.body[next]
More   == next \in DOMAIN Text.body
Parsed == next > Len(Text.body)

HandOver == next' = next + 1 /\ UNCHANGED <<class, texts, round, visited>>

(* ParseAttributes cuts the attributes the class knows, where a vec2 drops *)
(* units it does not know, and keeps the others as unknown attributes.     *)
ParseAttributes ==
  /\ next = 0
  /\ attributes' = {a \in Text.attrs : ~(a.type \in CodeRow[class].attrs /\ IsBad(a))}
  /\ HandOver /\ UNCHANGED <<held, misplaced, unknown>>

(* What a member holds after it was given an item: an array both, a single *)
(* member the last one.  has_x_ = element->SetEnum(&x_): a word that is    *)
(* not in the schema's list takes away the value an earlier one gave.      *)
SlipGiven(c, m, s, i) == Append(s, i)
SlipFirstInList(c, m, s, i) ==
  IF m \in ClassRow[c].list THEN <<i>> \o s ELSE IF IsBad(i) THEN << >> ELSE <<i>>
SlipKeepsLast(c, m, s, i) == IF IsBad(i) THEN << >> ELSE <<i>>
Given(c, m, s, i) ==
  IF m \in ClassRow[c].list THEN Append(s, i)
  ELSE IF IsBad(i) THEN << >> ELSE <<i>>

Take ==
  /\ More /\ Taken(class, Cur)
  /\ held' = [held EXCEPT ![Home(class, Cur.type)] =
                Given(class, Home(class, Cur.type), @, Cur)]
  /\ HandOver /\ UNCHANGED <<attributes, misplaced, unknown>>

Drop ==
  /\ More /\ Dropped(class, Cur)
  /\ HandOver /\ UNCHANGED element

Misplace ==
  /\ More /\ Known(Cur) /\ ~Taken(class, Cur) /\ ~Dropped(class, Cur)
  /\ misplaced' = Append(misplaced, Cur)
  /\ HandOver /\ UNCHANGED <<held, attributes, unknown>>

AddUnknownElement ==
  /\ More /\ ~Known(Cur)
  /\ unknown' = Append(unknown, Cur)
  /\ HandOver /\ UNCHANGED <<held, attributes, misplaced>>

AddElement == Take \/ Drop \/ Misplace

----------------------------------------------------------------------------
(* What some members hold, in this order.                                  *)
InOrder(members) == FlattenSeq([k \in DOMAIN members |-> held[members[k]]])

(* SerializeUnknown: the misplaced elements, then the unknown ones.        *)
SlipSerializeUnknown == unknown
SerializeUnknown == misplaced \o unknown

(* The members in the order of the class' Serialize, which is framed by an *)
(* ElementSerializer for the attributes and what is unknown.               *)
Serialized ==
  LET code == CodeRow[class] IN
  IF code.keeps
  THEN [attrs |-> attributes, body |-> InOrder(code.writes) \o SerializeUnknown]
  ELSE [attrs |-> {}, body |-> InOrder(code.writes)]

Serialize ==
  /\ Parsed /\ Len(texts) = round
  /\ texts' = Append(texts, Serialized)
  /\ visited' = << >>
  /\ UNCHANGED <<class, round, next, element>>

(* What was written is parsed by a new element of the class: the types are *)
(* found from the names.                                                   *)
Reread(t) ==
  LET Again(i) == [i EXCEPT !.type = ReadAs(class, NameOf(i.type))]
  IN [t EXCEPT !.body = [k \in DOMAIN t.body |-> Again(t.body[k])]]

Reparse ==
  /\ Len(texts) = round + 1 /\ round < Rounds
  /\ texts' = [texts EXCEPT ![round + 1] = Reread(@)]
  /\ round' = round + 1 /\ next' = 0
  /\ held' = [m \in Members(class) |-> << >>]
  /\ attributes' = {} /\ misplaced' = << >> /\ unknown' = << >>
  /\ visited' = << >>
  /\ UNCHANGED class

----------------------------------------------------------------------------
(* Each Visit method of Visitor calls the one for the class above it.      *)
Methods == {"Element"} \cup DOMAIN MethodAbove
CallsUp[v \in Methods] ==
  IF v = "Element" THEN <<v>> ELSE <<v>> \o CallsUp[MethodAbove[v]]

(* element->Accept(visitor).                                               *)
CallsOf(t) == CallsUp[IF t \in Classes THEN CodeRow[t].accept ELSE "Element"]

Accept(t, id) == [k \in DOMAIN CallsOf(t) |-> <<id, CallsOf(t)[k]>>]

(* element->AcceptChildren(driver), the children having none themselves.   *)
SlipAllButLast ==
  LET children == InOrder(CodeRow[class].visits)
  IN FlattenSeq([k \in 1..(Len(children) - 1) |-> Accept(children[k].type, children[k].id)])

AcceptChildren ==
  LET children == InOrder(CodeRow[class].visits)
  IN FlattenSeq([k \in DOMAIN children |-> Accept(children[k].type, children[k].id)])

(* SimplePreorderDriver and SimplePostorderDriver.                         *)
VisitPreorder ==
  /\ Parsed /\ visited = << >>
  /\ visited' = Accept(class, 0) \o AcceptChildren
  /\ UNCHANGED <<class, texts, round, next, element>>

VisitPostorder ==
  /\ Parsed /\ visited = << >>
  /\ visited' = AcceptChildren \o Accept(class, 0)
  /\ UNCHANGED <<class, texts, round, next, element>>

Next == \/ ParseAttributes \/ AddElement \/ AddUnknownElement
        \/ Serialize \/ Reparse \/ VisitPreorder \/ VisitPostorder

Spec == Init /\ [][Next]_vars

----------------------------------------------------------------------------
(* Every part of the element has its shape: a member the class keeps one   *)
(* of never holds two children (the set_x and clear_x of the headers).     *)
TypeOK ==
  /\ class \in Classes
  /\ round \in 1..Rounds /\ Len(texts) \in {round, round + 1}
  /\ next \in 0..(Len(Text.body) + 1)
  /\ DOMAIN held = Members(class)
  /\ \A m \in Members(class) \ ClassRow[class].list : Len(held[m]) <= 1

(* What the element will write of its children.                            *)
Holds(i) ==
  \/ \E m \in Range(CodeRow[class].writes) : i \in Range(held[m])
  \/ CodeRow[class].keeps /\ i \in Range(misplaced) \cup Range(unknown)

(* The ways the code has to forget a child that was parsed: the class uses *)
(* AddElement for its own text, or writes nothing but its members, or does *)
(* not write this type; or only one is kept, and this one was no word of   *)
(* the schema or a later one took its place.                               *)
Forgettable(k) ==
  LET b == Text.body  c == class
      Single(j) == Taken(c, b[j]) /\ Home(c, b[j].type) \notin ClassRow[c].list
  IN \/ Dropped(c, b[k])
     \/ ~CodeRow[c].keeps /\ ~Taken(c, b[k])
     \/ <<c, b[k].type>> \in Unwritten
     \/ Single(k) /\ IsBad(b[k])
     \/ Single(k) /\ \E j \in (k + 1)..(next - 1) :
                        Single(j) /\ Home(c, b[j].type) = Home(c, b[k].type)

(* The table of classes writes what it takes.                              *)
Covered ==
  \A c \in Classes : \A t \in KnownTypes :
    Slots(c, t) # {} /\ <<c, t>> \notin Unwritten
      => Home(c, t) \in Range(CodeRow[c].writes)

(* Every child that was parsed is held for writing, wherever it stood and  *)
(* whatever came after it, but for the ways Forgettable lists: no type is  *)
(* taken by AddElement into a member that Serialize leaves out, and        *)
(* nothing falls between the classes of a hierarchy.                       *)
NothingLost ==
  \A k \in 1..(next - 1) : Forgettable(k) \/ Holds(Text.body[k])

(* No class writes a member twice.                                         *)
WrittenApart ==
  \A c \in Classes : LET w == CodeRow[c].writes IN
    \A j, k \in DOMAIN w : w[j] = w[k] => j = k

(* AcceptChildren passes on each member of a class' children once, and     *)
(* Accept calls the method of every group a class belongs to.              *)
VisitsReach ==
  \A c \in Classes : LET v == CodeRow[c].visits IN
    /\ \A j, k \in DOMAIN v : v[j] = v[k] => j = k
    /\ \A t \in (KnownTypes \cap Classes) \ Unvisited :
         Slots(c, t) # {} /\ Home(c, t) \notin ClassRow[c].value => Home(c, t) \in Range(v)

CallsReach ==
  /\ \A t \in Classes : CallsOf(t) \in Seq(Methods)
  /\ CallsUp["Element"] \in Seq(Methods)
  /\ \A t \in Classes \ Unvisited : \A g \in IsA(t) \cap Methods :
       /\ g \in Range(CallsOf(t))
       /\ \A j, k \in DOMAIN CallsOf(t) : CallsOf(t)[j] = g /\ CallsOf(t)[k] = g => j = k

(* Serialize writes each thing the element holds once, and nothing else:   *)
(* no class repeats what the Serialize of its base has written.            *)
WrittenOnce ==
  Len(texts) > round =>
    LET b == texts[round + 1].body IN
      /\ \A i, j \in DOMAIN b : b[i] = b[j] => i = j
      /\ Range(b) = {i \in Range(Text.body) : Holds(i)}

(* What is written is read back as it was: parsing it and writing it again *)
(* gives the same text, the misplaced and the unknown children and the     *)
(* attributes included.                                                    *)
RoundTrip ==
  round = 2 /\ Len(texts) = 3 => Reread(texts[3]) = texts[2]

(* A visit of the element reaches every child it keeps in a member, once,  *)
(* by the method for its own class and by the one for every group (Object, *)
(* Feature, Geometry, ...) it belongs to, as visitor.h promises to those   *)
(* who override one; the types of Unvisited are the exceptions.            *)
ChildrenVisited ==
  visited # << >> =>
    LET Visits(id, v) == {n \in DOMAIN visited : visited[n] = <<id, v>>}
        Kept == UNION {Range(held[m]) : m \in Members(class) \ ClassRow[class].value}
    IN \A i \in Kept :
         i.type \in Classes \ Unvisited =>
           \A g \in IsA(i.type) \cap Methods : Cardinality(Visits(i.id, g)) = 1
=============================================================================
