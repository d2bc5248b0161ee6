------------------------------ MODULE KmlHandler ------------------------------
(***************************************************************************)
(* kmldom::KmlHandler, the expat handler that turns the event stream of an *)
(* XML document into the element tree.  The environment is expat: it       *)
(* produces any well-formed document, one event a step, with at most       *)
(* MaxTags tags and MaxTexts runs of text.  A tag is known by its number,  *)
(* so that the tree the handler builds can be compared with the document.  *)
(***************************************************************************)
EXTENDS Integers, Sequences, FiniteSets

CONSTANTS
    Complex,       \* names of concrete complex elements of the schema
    Simple,        \* names of simple elements, description among them
    Unknown,       \* names the schema does not have
    OldName,       \* the name= of a <Schema parent="..."> of the old style
    FieldName,     \* the name= of its <SimpleField>
    Vetoed,        \* names some ParserObserver::EndElement returns false for
    Stopping,      \* names some ParserObserver::NewElement returns false for
    Unwanted,      \* names some ParserObserver::AddChild returns false for
    MaxNesting,    \* kMaxNestingDepth
    UIntSize,      \* unsigned int counts modulo this
    MaxTags, MaxTexts

Names == Complex \cup Simple \cup Unknown

ASSUME NameAssumption ==
    /\ Simple \cap {"Schema", "Placemark", "SimpleField"} = {} /\ "Placemark" \in Complex
    /\ Complex \cap Simple = {} /\ Unknown \cap (Complex \cup Simple \cup {"description"}) = {}
    /\ OldName \notin {"Schema", "description", ""}
ASSUME BoundAssumption ==
    /\ {MaxNesting, MaxTags, MaxTexts, UIntSize} \subseteq Nat
    /\ UIntSize > 2 * (MaxTags + 1)

VARIABLES
    (* the document so far *)
    doc,        \* tag -> [name, parent, cls]: what expat has started
    open,       \* the tags not yet ended, outermost first
    texts,      \* how many runs of text there have been
    (* KmlHandler *)
    stack,      \* stack_, an element is known by its tag
    char_data,  \* char_data_, each string as a sequence of tokens
    skip_depth, in_description, nesting_depth, in_old_schema_placemark,
    old_schema_name, simplefield_name_vec, simpledata_vec,
    (* the element tree *)
    type,       \* tag -> the type its element was created with
    added,      \* <<parent, child>>: AddElement was called
    content,    \* tag -> the char data its element was given
    unknown,    \* [at, xml]: AddUnknownElement was called
    (* how the parse stands *)
    phase,      \* "run", "stopping" (XML_StopParser was called and the end of
                \* an empty tag is still to come), "stopped", "done", "lost":
                \* KmlStream's input broke off in the middle,
                \* "undefined": a null or empty-stack access happened
    confused    \* history: the document had one of the shapes that defeat the
                \* handler: markup inside a child of an old Placemark substitute,
                \* a description in a description in an unknown element, an
                \* old style Schema and a tag too deep, or such a Schema inside
                \* an element that has the name it gives to its Placemarks

document == <<doc, open, texts>>
handler == <<stack, char_data, skip_depth, in_description, nesting_depth,
             in_old_schema_placemark, old_schema_name, simplefield_name_vec, simpledata_vec>>
tree == <<type, added, content, unknown>>
vars == <<document, handler, tree, phase, confused>>

Top(s) == s[Len(s)]
Pop(s) == SubSeq(s, 1, Len(s) - 1)
With(f, x, v) == [y \in DOMAIN f \cup {x} |-> IF y = x THEN v ELSE f[y]]
AppendTop(s, x) == [s EXCEPT ![Len(s)] = Append(@, x)]

(* Slip: a counter that does not wrap. *)
SlipDec(k) == k - 1

Inc(k) == (k + 1) % UIntSize
Dec(k) == (k + UIntSize - 1) % UIntSize

NoTag == 0

Init ==
    /\ doc = <<>> /\ open = <<>> /\ texts = 0
    /\ stack = <<>> /\ char_data = <<>>
    /\ skip_depth = 0 /\ in_description = 0 /\ nesting_depth = 0
    /\ in_old_schema_placemark = FALSE
    /\ old_schema_name = "" /\ simplefield_name_vec = {} /\ simpledata_vec = <<>>
    /\ type = <<>> /\ added = {} /\ content = <<>> /\ unknown = {}
    /\ phase = "run" /\ confused = FALSE

-----------------------------------------------------------------------------
(* StartElement(name, attrs); parent says that attrs has parent=.          *)

n == Len(doc) + 1   \* the tag that starts

Cls(name, old) ==
    IF name = old \/ name \in Complex \cup Simple THEN "known"
    ELSE IF old # "" /\ name \in simplefield_name_vec THEN "field"
    ELSE "unknown"

ExpatStarts(name, old) ==
    /\ phase = "run" /\ Len(doc) < MaxTags
    /\ open # <<>> \/ doc = <<>>
    /\ doc' = Append(doc, [name |-> name, cls |-> Cls(name, old),
                           parent |-> IF open = <<>> THEN NoTag ELSE Top(open)])
    /\ open' = Append(open, n)
    /\ nesting_depth' = nesting_depth + 1
    /\ UNCHANGED texts

StartTag(tag) == [start |-> TRUE, of |-> tag]
EndTag(tag) == [start |-> FALSE, of |-> tag]
Text(tag) == [text |-> texts + 1, in |-> tag]

(* Nesting is checked first: nothing but the counter changes.              *)
StartTooDeep(name) ==
    /\ ExpatStarts(name, old_schema_name)
    /\ nesting_depth + 1 > MaxNesting
    /\ phase' = "stopping"
    /\ confused' = (confused \/ old_schema_name # "")
    /\ UNCHANGED <<stack, char_data, skip_depth, in_description, in_old_schema_placemark,
                   old_schema_name, simplefield_name_vec, simpledata_vec, tree>>

(* Slip: a description in a description is not counted. *)
SlipNoInner(name) == in_description

InnerDescription(name) ==
    IF in_description > 0 /\ name = "description" THEN Inc(in_description)
                                                  ELSE in_description

(* Inside an unknown element or a description everything is text.          *)
StartSkipped(name) ==
    /\ ExpatStarts(name, old_schema_name)
    /\ nesting_depth + 1 <= MaxNesting
    /\ skip_depth > 0
    /\ in_description' = InnerDescription(name)
    /\ char_data' = AppendTop(char_data, StartTag(n))
    /\ skip_depth' = Inc(skip_depth)
    /\ UNCHANGED <<stack, in_old_schema_placemark, old_schema_name, simplefield_name_vec,
                   simpledata_vec, tree, phase, confused>>

(* What the three kinds of tag that are not skipped have in common.        *)
FindOldSchemaParentName(name, parent) ==
    IF name = "Schema" /\ parent THEN OldName ELSE old_schema_name

InsideNamesake(name, parent) ==
    /\ name = "Schema" /\ parent
    /\ \E i \in DOMAIN stack : doc[stack[i]].name = OldName /\ type[stack[i]] # "Placemark"

StartGathered(name, parent) ==
    /\ ExpatStarts(name, FindOldSchemaParentName(name, parent))
    /\ nesting_depth + 1 <= MaxNesting
    /\ skip_depth = 0
    /\ old_schema_name' = FindOldSchemaParentName(name, parent)
    /\ confused' = (confused \/ in_old_schema_placemark \/ InsideNamesake(name, parent))
    /\ UNCHANGED simplefield_name_vec

(* A known element, or the tag that stands for a Placemark.                *)
StartKnown(name, parent) ==
    /\ StartGathered(name, parent)
    /\ Cls(name, old_schema_name') = "known"
    /\ char_data' = Append(char_data, <<>>)
    /\ stack' = Append(stack, n)
    /\ type' = With(type, n, IF name = old_schema_name' THEN "Placemark" ELSE name)
    /\ skip_depth' = IF name = "description" THEN 1 ELSE 0
    /\ in_description' = IF name = "description" THEN Inc(InnerDescription(name))
                                                 ELSE in_description
    /\ phase' = IF name \in Stopping THEN "stopping" ELSE phase
    /\ UNCHANGED <<in_old_schema_placemark, simpledata_vec, added, content, unknown>>

(* A child of the old Placemark substitute, wherever it occurs.            *)
StartOldChild(name) ==
    /\ StartGathered(name, FALSE)
    /\ Cls(name, old_schema_name) = "field"
    /\ char_data' = Append(char_data, <<>>)
    /\ in_old_schema_placemark' = TRUE
    /\ simpledata_vec' = Append(simpledata_vec, [of |-> n, text |-> <<>>, owner |-> NoTag])
    /\ UNCHANGED <<stack, skip_depth, in_description, tree, phase>>

(* An unknown element: as the root it ends the parse, below it is text.    *)
StartUnknown(name) ==
    /\ StartGathered(name, FALSE)
    /\ Cls(name, old_schema_name) = "unknown"
    /\ in_old_schema_placemark' = (in_old_schema_placemark /\ old_schema_name = "")
    /\ \/ /\ stack = <<>>
          /\ char_data' = Append(char_data, <<>>)
          /\ phase' = "stopping"
          /\ UNCHANGED skip_depth
       \/ /\ stack # <<>>
          /\ char_data' = Append(char_data, <<StartTag(n)>>)
          /\ skip_depth' = 1
          /\ UNCHANGED phase
    /\ UNCHANGED <<stack, in_description, simpledata_vec, tree>>

-----------------------------------------------------------------------------
(* EndElement(name) of the innermost open tag.                             *)

ending == Top(open)
endName == doc[ending].name

ExpatEnds ==
    /\ phase \in {"run", "stopping"} /\ open # <<>>
    /\ open' = Pop(open)
    /\ nesting_depth' = nesting_depth - 1
    /\ UNCHANGED <<doc, texts>>

(* Slip: every </description> leaves the description. *)
SlipDescriptionSkip == IF endName = "description" THEN Dec(skip_depth) ELSE skip_depth

EndedDescription == IF endName = "description" THEN Dec(in_description) ELSE in_description

DescriptionSkip ==
    IF endName = "description" /\ EndedDescription = 0 THEN Dec(skip_depth) ELSE skip_depth

AfterEnd ==
    IF phase = "stopping" THEN "stopped" ELSE IF Len(open) = 1 THEN "done" ELSE "run"

(* in_description_ is decremented below zero twice: a description inside a *)
(* description inside an unknown element.                                  *)
DescriptionConfused == EndedDescription \in (UIntSize \div 2)..(UIntSize - 2)

EndUndefined ==
    /\ phase' = "undefined"
    /\ UNCHANGED <<tree, stack, char_data, skip_depth, in_old_schema_placemark,
                   simplefield_name_vec, simpledata_vec>>

(* The end of a skipped tag; the outermost unknown one hands its text on.  *)
EndSkipped ==
    /\ DescriptionSkip > 0
    /\ LET xml == AppendTop(char_data, EndTag(ending)) IN
       \/ char_data = <<>> /\ EndUndefined
       \/ /\ char_data # <<>> /\ DescriptionSkip > 1
          /\ char_data' = xml
          /\ skip_depth' = Dec(DescriptionSkip)
          /\ phase' = AfterEnd
          /\ UNCHANGED <<tree, stack, in_old_schema_placemark, simplefield_name_vec,
                         simpledata_vec>>
       \/ /\ char_data # <<>> /\ DescriptionSkip = 1 /\ stack = <<>>
          /\ EndUndefined
       \/ /\ char_data # <<>> /\ DescriptionSkip = 1 /\ stack # <<>>
          /\ char_data' = Pop(char_data)
          /\ skip_depth' = 0
          /\ unknown' = unknown \cup {[at |-> Top(stack), xml |-> Top(xml)]}
          /\ phase' = AfterEnd
          /\ UNCHANGED <<type, added, content, stack, in_old_schema_placemark,
                         simplefield_name_vec, simpledata_vec>>

(* expat ends an empty tag after XML_StopParser: nothing is on the stack.  *)
EndStopped ==
    /\ DescriptionSkip = 0 /\ stack = <<>>
    /\ phase' = AfterEnd
    /\ skip_depth' = 0
    /\ UNCHANGED <<tree, stack, char_data, in_old_schema_placemark, simplefield_name_vec,
                   simpledata_vec>>

(* Slip: the flag survives the child. *)
SlipStillInChild == in_old_schema_placemark

AfterOldChild == FALSE

EndOldChild ==
    /\ DescriptionSkip = 0 /\ stack # <<>>
    /\ in_old_schema_placemark /\ simpledata_vec # <<>>
    /\ simpledata_vec' = [simpledata_vec EXCEPT ![Len(simpledata_vec)].text = Top(char_data)]
    /\ char_data' = Pop(char_data)
    /\ in_old_schema_placemark' = AfterOldChild
    /\ skip_depth' = 0
    /\ phase' = AfterEnd
    /\ UNCHANGED <<tree, stack, simplefield_name_vec>>

(* HandleOldSchemaEndElement: the names of the schema's SimpleFields.      *)
FieldsOf(schema) ==
    IF \E c \in DOMAIN type : <<schema, c>> \in added /\ type[c] = "SimpleField"
      THEN {FieldName} ELSE {}

(* HandleOldSchemaParentEndElement: add_simpledata of every element so far *)
(* to a SchemaData of this placemark; one that has a parent is refused.    *)
(* Slip: the last element only.                                            *)
SlipLastAdopted(placemark) ==
    [i \in DOMAIN simpledata_vec |->
        IF i = Len(simpledata_vec) THEN [simpledata_vec[i] EXCEPT !.owner = placemark]
                                   ELSE simpledata_vec[i]]

Adopted(placemark) ==
    [i \in DOMAIN simpledata_vec |->
        IF simpledata_vec[i].owner = NoTag
          THEN [simpledata_vec[i] EXCEPT !.owner = placemark]
          ELSE simpledata_vec[i]]

(* Slip: the observers' veto is not asked for. *)
SlipHanded(parent, child) == {<<parent, child>>}

(* Parent's AddElement is called unless an observer's EndElement objects.  *)
Handed(parent, child) == IF type[child] \in Vetoed THEN {} ELSE {<<parent, child>>}

(* The end of a known element: the top of the stack is taken to be it.     *)
EndKnown ==
    LET child == Top(stack)
        oldSchema == old_schema_name # "" /\ endName = "Schema"
        oldParent == old_schema_name # "" /\ endName = old_schema_name
        null == (oldSchema /\ type[child] # "Schema") \/
                (oldParent /\ type[child] # "Placemark")
    IN
    /\ DescriptionSkip = 0 /\ stack # <<>>
    /\ ~ (in_old_schema_placemark /\ simpledata_vec # <<>>)
    /\ \/ /\ char_data = <<>> \/ null
          /\ EndUndefined
       \/ /\ char_data # <<>> /\ ~ null
          /\ content' = With(content, child, Top(char_data))
          /\ char_data' = Pop(char_data)
          /\ simplefield_name_vec' = simplefield_name_vec \cup
                                       (IF oldSchema THEN FieldsOf(child) ELSE {})
          /\ simpledata_vec' = IF oldParent THEN Adopted(child) ELSE simpledata_vec
          /\ IF Len(stack) >= 2
               THEN /\ stack' = Pop(stack)
                    /\ added' = added \cup Handed(stack[Len(stack) - 1], child)
                    /\ phase' = IF type[child] \in Unwanted THEN "stopped" ELSE AfterEnd
               ELSE UNCHANGED <<stack, added>> /\ phase' = AfterEnd
          /\ skip_depth' = 0
          /\ UNCHANGED <<type, unknown, in_old_schema_placemark>>

EndElement ==
    /\ ExpatEnds
    /\ in_description' = EndedDescription
    /\ confused' = (confused \/ DescriptionConfused)
    /\ UNCHANGED old_schema_name
    /\ EndSkipped \/ EndStopped \/ EndOldChild \/ EndKnown

(* CharData(s): s is the text of the innermost open tag.                   *)
CharData ==
    /\ phase = "run" /\ open # <<>> /\ texts < MaxTexts
    /\ texts' = texts + 1
    /\ IF char_data = <<>>
         THEN phase' = "undefined" /\ UNCHANGED char_data
         ELSE char_data' = AppendTop(char_data, Text(Top(open))) /\ UNCHANGED phase
    /\ UNCHANGED <<doc, open, stack, skip_depth, in_description, nesting_depth,
                   in_old_schema_placemark, old_schema_name, simplefield_name_vec,
                   simpledata_vec, tree, confused>>

(* The tag XML_StopParser was called in was not empty: no event follows.   *)
ParserStops ==
    /\ phase = "stopping" /\ phase' = "stopped"
    /\ UNCHANGED <<document, handler, tree, confused>>

(* ParseFromIstream leaves its loop when the stream is not good any more,   *)
(* whether it was at its end or failed.                                    *)
InputFails ==
    /\ phase = "run" /\ phase' = "lost"
    /\ UNCHANGED <<document, handler, tree, confused>>

Start(name, parent) ==
    \/ ~ parent /\ StartTooDeep(name)
    \/ ~ parent /\ StartSkipped(name)
    \/ StartKnown(name, parent)
    \/ ~ parent /\ StartOldChild(name)
    \/ ~ parent /\ StartUnknown(name)

Next ==
    \/ \E name \in Names, parent \in BOOLEAN :
          /\ parent => name = "Schema"
          /\ Start(name, parent)
    \/ EndElement
    \/ CharData
    \/ ParserStops
    \/ InputFails

Spec == Init /\ [][Next]_vars

(* What Parse returns; ParseFromIstream does not look at why it ended.     *)
PopRoot == IF Len(stack) = 1 THEN stack[1] ELSE NoTag
Result == IF phase \in {"done", "lost"} THEN PopRoot ELSE NoTag

-----------------------------------------------------------------------------
(* What the document says, read off doc alone.                             *)

Tags == DOMAIN doc
IsDescription(t) == doc[t].name = "description"

(* The tags that become elements: known ones, below known ones, outside    *)
(* descriptions.                                                           *)
kept[t \in Tags] ==
    /\ doc[t].cls = "known"
    /\ doc[t].parent # NoTag => kept[doc[t].parent] /\ ~ IsDescription(doc[t].parent)

Kept == {t \in Tags : kept[t]}

(* The tags t is made of: itself and all that is inside it.                *)
Below(t) ==
    LET below[u \in Tags] == u = t \/ (doc[u].parent # NoTag /\ below[doc[u].parent])
    IN  {u \in Tags : below[u]}

(* The tags whose markup is kept as text of the element they stand in.     *)
Foreign(cls) ==
    {t \in Tags : /\ doc[t].cls = cls
                  /\ doc[t].parent \in Kept /\ ~ IsDescription(doc[t].parent)}

IsStart(token) == "start" \in DOMAIN token /\ token.start
IsText(token) == "text" \in DOMAIN token

Tokens(xml) == {xml[i] : i \in DOMAIN xml}
TextsOf(xml) == {token.text : token \in {x \in Tokens(xml) : IsText(x)}}

(* xml is the complete, properly nested markup of the tags ts. *)
IsMarkupOf(xml, ts) ==
    /\ \A i, j \in DOMAIN xml : xml[i] = xml[j] => i = j
    /\ {token.of : token \in {x \in Tokens(xml) : IsStart(x)}} = ts
    /\ \A t \in ts : \E i, j \in DOMAIN xml :
          /\ i < j /\ xml[i] = StartTag(t) /\ xml[j] = EndTag(t)
          /\ \A u \in ts : u \in Below(t) <=>
                \E k \in i..j : xml[k] \in {StartTag(u), EndTag(u)}
    /\ \A token \in Tokens(xml) : IsText(token) => token.in \in ts

(* xml is what stands between the tags of t. *)
IsInside(xml, t) == IsMarkupOf(<<StartTag(t)>> \o Append(xml, EndTag(t)), Below(t))

-----------------------------------------------------------------------------
IsToken(x) ==
    \/ IsText(x) /\ x \in [text : 1..MaxTexts, in : Tags]
    \/ x \in [start : BOOLEAN, of : Tags]

IsString(s) == s \in Seq({x \in Tokens(s) : IsToken(x)})

(* The types of the handler's state; the stack holds open elements and the *)
(* two depth counters stay in range.                                       *)
TypeOK ==
    /\ Len(doc) <= MaxTags /\ texts \in 0..MaxTexts
    /\ \A t \in Tags : doc[t] \in [name : Names, cls : {"known", "field", "unknown"},
                                   parent : 0..(t - 1)]
    /\ \A i \in DOMAIN open : open[i] \in Tags
    /\ \A i \in DOMAIN stack : stack[i] \in DOMAIN type
    /\ \A i \in DOMAIN char_data : IsString(char_data[i])
    /\ skip_depth \in 0..MaxTags /\ in_description \in 0..(UIntSize - 1)
    /\ nesting_depth \in 0..(MaxNesting + 1)
    /\ in_old_schema_placemark \in BOOLEAN /\ confused \in BOOLEAN
    /\ old_schema_name \in {"", OldName} /\ simplefield_name_vec \subseteq {FieldName}
    /\ \A i \in DOMAIN simpledata_vec :
          /\ simpledata_vec[i].of \in Tags /\ IsString(simpledata_vec[i].text)
          /\ simpledata_vec[i].owner \in {NoTag} \cup DOMAIN type
    /\ \A t \in DOMAIN type : t \in Tags /\ type[t] \in Complex \cup Simple
    /\ \A pair \in added : {pair[1], pair[2]} \subseteq DOMAIN type
    /\ \A t \in DOMAIN content : t \in DOMAIN type /\ IsString(content[t])
    /\ \A u \in unknown : u.at \in DOMAIN type /\ IsString(u.xml)
    /\ phase \in {"run", "stopping", "stopped", "done", "lost", "undefined"}

(* Between two events the two stacks and the counters agree with the tags  *)
(* that are open: stack_ is the known ones, skip_depth_ counts the others, *)
(* char_data_ has one string for each element and one for the tag that is  *)
(* being turned into text.  Each of the eight early returns of             *)
(* StartElement and EndElement has to leave it so.                         *)
KnownDepth ==
    Cardinality({k \in DOMAIN open :
        \A i \in 1..k : doc[open[i]].cls = "known" /\ (i < k => ~ IsDescription(open[i]))})

InSync ==
    phase = "run" /\ ~ confused =>
        LET k == KnownDepth
            rest == Len(open) - k
        IN  /\ stack = SubSeq(open, 1, k)
            /\ nesting_depth = Len(open)
            /\ \/ k > 0 /\ IsDescription(open[k]) /\ ~ in_old_schema_placemark
                  /\ skip_depth = 1 + rest /\ Len(char_data) = k
               \/ rest = 0 /\ (k > 0 => ~ IsDescription(open[k])) /\ ~ in_old_schema_placemark
                  /\ skip_depth = 0 /\ Len(char_data) = k
               \/ rest = 1 /\ doc[open[k + 1]].cls = "field" /\ in_old_schema_placemark
                  /\ skip_depth = 0 /\ Len(char_data) = k + 1
               \/ rest > 0 /\ doc[open[k + 1]].cls = "unknown" /\ ~ in_old_schema_placemark
                  /\ skip_depth = rest /\ Len(char_data) = k + 1

(* Parsing a whole document gives its root, and the tree below it has      *)
(* exactly the parent and child pairs of the document's known tags, but    *)
(* for the children an observer's EndElement rejected.  What a broken      *)
(* stream gives, if anything, is the root with those whose tags have ended.*)
TreeIsDocument ==
    Result # NoTag \/ phase = "done" =>
        \/ confused
        \/ /\ Result = 1
           /\ DOMAIN type = Kept
           /\ added = {<<doc[t].parent, t>> : t \in {u \in Kept \ {1} : /\ type[u] \notin Vetoed
                                                                     /\ u \notin Tokens(open)}}

(* Unknown markup survives: each unknown tag in a known element is handed  *)
(* to that element, once, as its complete and properly nested text, and    *)
(* nothing else is.  It holds at every moment for what has been handed on. *)
UnknownIntact ==
    phase \in {"run", "done"} /\ ~ confused =>
        /\ \A u \in unknown :
              /\ u.xml # <<>> /\ IsStart(Head(u.xml))
              /\ u.at = doc[Head(u.xml).of].parent
              /\ IsMarkupOf(u.xml, Below(Head(u.xml).of))
        /\ \A u, v \in unknown : Head(u.xml) = Head(v.xml) => u = v
        /\ {Head(u.xml).of : u \in unknown} = Foreign("unknown") \ Tokens(open)

(* No text is lost, doubled or given to a wrong element: an element gets   *)
(* its own text, a description that of its markup too, and when the parse  *)
(* is over every run of text is in exactly one place.                      *)
TextsInPlace ==
    phase = "done" /\ ~ confused =>
        LET strings == {<<"content", t, content[t]>> : t \in DOMAIN content} \cup
                       {<<"unknown", u.at, u.xml>> : u \in unknown} \cup
                       {<<"simpledata", simpledata_vec[i].of, simpledata_vec[i].text>> :
                            i \in DOMAIN simpledata_vec}
        IN  /\ \A t \in DOMAIN content :
                  IF IsDescription(t) THEN IsInside(content[t], t)
                    ELSE \A token \in Tokens(content[t]) : IsText(token) /\ token.in = t
            /\ \A i \in DOMAIN simpledata_vec : \A token \in Tokens(simpledata_vec[i].text) :
                  IsText(token) /\ token.in = simpledata_vec[i].of
            /\ \A i \in 1..texts :
                  Cardinality({s \in strings : i \in TextsOf(s[3])}) = 1

(* Every child of an old style Placemark substitute ends up, as SimpleData,*)
(* in the Placemark it is a child of, unless another substitute is nested  *)
(* in that one.                                                            *)
OldDataReachesPlacemark ==
    phase = "done" /\ ~ confused =>
        \A i \in DOMAIN simpledata_vec :
            LET p == doc[simpledata_vec[i].of].parent
                IsOld(t) == doc[t].cls = "known" /\ doc[t].name = OldName
            IN  IsOld(p) =>
                    /\ simpledata_vec[i].owner # NoTag
                    /\ IsOld(simpledata_vec[i].owner)
                    /\ \/ simpledata_vec[i].owner = p
                       \/ \E t \in Below(p) \ {p} : IsOld(t)

(* The handler never pops an empty stack nor uses the result of a failed   *)
(* downcast: no event of a document that is not confused does.              *)
NeverUndefined == phase = "undefined" => confused

(* kml_handler.cc, HandleOldSchemaParentEndElement: "We've reached the     *)
(* closing tag of the old placemark substitute element": the element it is *)
(* given is that Placemark, not a null one.                                *)
PlacemarkIsReached == phase # "undefined"
=============================================================================
