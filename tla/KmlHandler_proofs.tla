-------------------------- MODULE KmlHandler_proofs --------------------------
(***************************************************************************)
(* The two stacks and the counters of the handler agree with the tags that *)
(* are open, it never pops an empty stack nor uses a null, the element     *)
(* tree is the document's, and every text and piece of unknown markup ends *)
(* where it belongs: for documents of any size and depth and for any       *)
(* schema and observers, as long as the document is not confused.  The     *)
(* types of the state, and the range of its counters, hold for all.        *)
(***************************************************************************)
EXTENDS KmlHandler, FiniteSetTheorems, SequenceTheorems, NaturalsInduction, TLAPS

(* A sequence, of whatever its elements are.                               *)
IsList(s) == \E S : s \in Seq(S)

-----------------------------------------------------------------------------
(* The document: tags are numbered as they start, and the open ones are a  *)
(* path down from the root.                                                *)
OpenIsPath ==
  /\ open \in Seq(Nat \ {0}) /\ Len(open) <= Len(doc)
  /\ \A i \in DOMAIN open :
       /\ open[i] <= Len(doc)
       /\ doc[open[i]].parent = IF i = 1 THEN NoTag ELSE open[i - 1]
  /\ \A i, j \in DOMAIN open : i < j => open[i] < open[j]
  /\ open # << >> => open[1] = 1

TagIsPlaced(t) ==
  /\ doc[t].parent \in 0..(t - 1)
  /\ doc[t].parent = NoTag <=> t = 1
  /\ IsDescription(t) => doc[t].cls = "known"

DocShape ==
  /\ IsList(doc) /\ Len(doc) <= MaxTags
  /\ OpenIsPath
  /\ \A t \in Tags : TagIsPlaced(t)
  /\ phase = "run" /\ open = << >> => doc = << >>

(* Between two events the first k open tags are known, and the handler is  *)
(* in one of four modes.  in_description_ is unsigned: a </description> in *)
(* an unknown element takes it from 0 to the greatest of them, the next    *)
(* <description> takes it back.                                            *)
Balanced == in_description \in {0, UIntSize - 1}

InnerDescriptions(k) == {i \in (k + 1)..Len(open) : IsDescription(open[i])}

InDescription(k) ==
  /\ k > 0 /\ IsDescription(open[k]) /\ ~ in_old_schema_placemark
  /\ skip_depth = 1 + (Len(open) - k) /\ Len(char_data) = k
  /\ in_description = 1 + Cardinality(InnerDescriptions(k))

InElement(k) ==
  /\ Len(open) = k /\ (k > 0 => ~ IsDescription(open[k])) /\ ~ in_old_schema_placemark
  /\ skip_depth = 0 /\ Len(char_data) = k
  /\ Balanced

InOldChild(k) ==
  /\ k > 0 /\ Len(open) = k + 1 /\ ~ IsDescription(open[k])
  /\ doc[open[k + 1]].cls = "field" /\ in_old_schema_placemark
  /\ skip_depth = 0 /\ Len(char_data) = k + 1 /\ simpledata_vec # << >>
  /\ Balanced

InUnknown(k) ==
  /\ k > 0 /\ Len(open) > k /\ ~ IsDescription(open[k])
  /\ doc[open[k + 1]].cls = "unknown" /\ ~ in_old_schema_placemark
  /\ skip_depth = Len(open) - k /\ Len(char_data) = k + 1
  /\ Balanced

Path(k) ==
  /\ stack = SubSeq(open, 1, k)
  /\ open # << >> => k > 0
  /\ \A i \in 1..k : doc[open[i]].cls = "known" /\ (i < k => ~ IsDescription(open[i]))

Lists == IsList(char_data) /\ IsList(simpledata_vec)

Sync(k) ==
  /\ Path(k) /\ nesting_depth = Len(open) /\ Lists
  /\ InDescription(k) \/ InElement(k) \/ InOldChild(k) \/ InUnknown(k)

(* The elements on the stack can be cast to what their names say.          *)
Fits(t) ==
  /\ doc[t].name = "Schema" => type[t] = "Schema"
  /\ old_schema_name # "" /\ doc[t].name = OldName => type[t] = "Placemark"

TypesFit(k) ==
  /\ old_schema_name \in {"", OldName} /\ (k = 0 => old_schema_name = "")
  /\ \A i \in 1..k : Fits(open[i])

(* The element tree, so far.                                               *)
Created ==
  /\ DOMAIN type \subseteq Tags
  /\ \A t \in Tags :
       t \in DOMAIN type <=>
         /\ doc[t].cls = "known"
         /\ doc[t].parent # NoTag => /\ doc[t].parent \in DOMAIN type
                                     /\ ~ IsDescription(doc[t].parent)

IsOpen(t) == \E i \in DOMAIN open : open[i] = t

Handable == {u \in DOMAIN type \ {1} : type[u] \notin Vetoed /\ ~ IsOpen(u)}

Attached == added = {<<doc[t].parent, t>> : t \in Handable}

Tree(k) ==
  /\ Created /\ Attached
  /\ \A i \in DOMAIN open : open[i] \in DOMAIN type <=> i <= k

(* When XML_StopParser has been called in a tag, its end does no harm.     *)
EndsWell ==
  \/ /\ stack # << >> /\ char_data # << >>
     /\ \/ old_schema_name = ""
        \/ open # << >> /\ Top(stack) = Top(open)
             /\ old_schema_name = OldName /\ Fits(Top(open))
  \/ stack = << >> /\ skip_depth = 0 /\ Balanced

Finished ==
  Result # NoTag \/ phase = "done" => Result = 1 /\ Created /\ Attached

Live(k) == k \in 0..Len(open) /\ Sync(k) /\ TypesFit(k) /\ Tree(k)

IInv ==
  /\ DocShape
  /\ confused \in BOOLEAN
  /\ phase = "run" /\ ~ confused => \E k \in 0..Len(open) : Live(k)
  /\ phase = "stopping" /\ ~ confused => EndsWell
  /\ phase \in {"done", "lost"} /\ ~ confused => Finished
  /\ phase = "undefined" => confused

-----------------------------------------------------------------------------
(* Lists.                                                                  *)
LEMMA EmptyIsList == IsList(<< >>)
<1> << >> \in Seq({})
  OBVIOUS
<1> QED BY DEF IsList

LEMMA AppendIsList ==
    ASSUME NEW s, IsList(s), NEW x
    PROVE  /\ IsList(Append(s, x)) /\ Len(Append(s, x)) = Len(s) + 1
           /\ DOMAIN s = 1..Len(s) /\ DOMAIN Append(s, x) = 1..(Len(s) + 1)
           /\ Append(s, x) # << >> /\ Len(s) \in Nat
           /\ \A i \in 1..Len(s) : Append(s, x)[i] = s[i]
           /\ Append(s, x)[Len(s) + 1] = x
<1>1. PICK S : s \in Seq(S)
  BY DEF IsList
<1> DEFINE T == S \cup {x}
<1>2. s \in Seq(T) /\ x \in T
  BY <1>1
<1> HIDE DEF T
<1>3. Append(s, x) \in Seq(T)
  BY <1>2
<1>4. /\ Len(Append(s, x)) = Len(s) + 1 /\ Len(s) \in Nat
      /\ DOMAIN s = 1..Len(s) /\ DOMAIN Append(s, x) = 1..(Len(s) + 1)
      /\ \A i \in 1..Len(s) : Append(s, x)[i] = s[i]
      /\ Append(s, x)[Len(s) + 1] = x
  BY <1>2
<1>5. Append(s, x) # << >>
  BY <1>3, <1>4
<1> QED BY <1>3, <1>4, <1>5 DEF IsList

LEMMA TopIsList ==
    ASSUME NEW s, IsList(s), s # << >>, NEW x
    PROVE  /\ IsList(AppendTop(s, x)) /\ Len(AppendTop(s, x)) = Len(s)
           /\ AppendTop(s, x) # << >>
<1>1. PICK S : s \in Seq(S)
  BY DEF IsList
<1> DEFINE T == S \cup {Append(s[Len(s)], x)}
<1>2. s \in Seq(T) /\ Append(s[Len(s)], x) \in T
  BY <1>1
<1> HIDE DEF T
<1>3. Len(s) \in DOMAIN s
  BY <1>1, EmptySeq
<1>4. AppendTop(s, x) \in Seq(T) /\ Len(AppendTop(s, x)) = Len(s)
  BY <1>2, <1>3 DEF AppendTop
<1> QED BY <1>3, <1>4, <1>1 DEF IsList

LEMMA SetIsList ==
    ASSUME NEW s, IsList(s), NEW x, NEW i
    PROVE  IsList([s EXCEPT ![i].text = x]) /\ Len([s EXCEPT ![i].text = x]) = Len(s)
<1>1. PICK S : s \in Seq(S)
  BY DEF IsList
<1> DEFINE T == S \cup {[s[i] EXCEPT !.text = x]}
<1>2. s \in Seq(T) /\ [s[i] EXCEPT !.text = x] \in T
  BY <1>1
<1> DEFINE y == [s[i] EXCEPT !.text = x]
<1>3. [s EXCEPT ![i].text = x] = [s EXCEPT ![i] = y]
  OBVIOUS
<1> HIDE DEF T, y
<1>4. y \in T
  BY <1>2 DEF y
<1>5. [s EXCEPT ![i] = y] \in Seq(T) /\ Len([s EXCEPT ![i] = y]) = Len(s)
  <2>1. CASE i \in 1..Len(s)
    BY <1>2, <1>4, <2>1, ExceptSeq
  <2>2. CASE i \notin 1..Len(s)
    <3>1. s = [j \in 1..Len(s) |-> s[j]] /\ DOMAIN s = 1..Len(s)
      BY <1>2
    <3>2. [s EXCEPT ![i] = y] = s
      BY <3>1, <2>2
    <3> QED BY <3>2, <1>2
  <2> QED BY <2>1, <2>2
<1> QED BY <1>3, <1>5 DEF IsList

LEMMA PopIsList ==
    ASSUME NEW s, IsList(s), s # << >>
    PROVE  IsList(Pop(s)) /\ Len(Pop(s)) = Len(s) - 1 /\ Len(s) \in Nat /\ Len(s) > 0
<1>1. PICK S : s \in Seq(S)
  BY DEF IsList
<1>2. Len(s) \in Nat /\ Len(s) > 0
  BY <1>1, EmptySeq
<1>3. \A i \in 1..(Len(s) - 1) : s[i] \in S
  BY <1>1, <1>2
<1>4. SubSeq(s, 1, Len(s) - 1) \in Seq(S) /\ Len(SubSeq(s, 1, Len(s) - 1)) = Len(s) - 1
  <2> DEFINE m == Len(s) - 1
  <2>1. m \in Nat /\ \A i \in 1..m : s[i] \in S
    BY <1>2, <1>3
  <2> HIDE DEF m
  <2>2. SubSeq(s, 1, m) \in Seq(S) /\ Len(SubSeq(s, 1, m)) = IF 1 <= m THEN m - 1 + 1 ELSE 0
    BY <2>1, SubSeqProperties
  <2>3. Len(SubSeq(s, 1, m)) = m
    BY <2>1, <2>2
  <2> QED BY <2>2, <2>3 DEF m
<1> QED BY <1>2, <1>4 DEF IsList, Pop

LEMMA AdoptedIsList ==
    ASSUME NEW p, IsList(simpledata_vec) PROVE IsList(Adopted(p))
<1>1. PICK S : simpledata_vec \in Seq(S)
  BY DEF IsList
<1> DEFINE T == S \cup {[e EXCEPT !.owner = p] : e \in S}
<1>2. /\ Len(simpledata_vec) \in Nat /\ DOMAIN simpledata_vec = 1..Len(simpledata_vec)
      /\ \A i \in DOMAIN simpledata_vec : simpledata_vec[i] \in S
  BY <1>1
<1>3. Adopted(p) \in [1..Len(simpledata_vec) -> T]
  BY <1>2 DEF Adopted
<1> HIDE DEF T
<1>4. Adopted(p) \in Seq(T)
  BY <1>2, <1>3, SeqDef
<1> QED BY <1>4 DEF IsList

(* The unsigned counters, away from the wrap and at it.                    *)
LEMMA Counting ==
    /\ UIntSize \in Nat /\ MaxTags \in Nat /\ UIntSize > 2 * (MaxTags + 1)
    /\ \A k \in Nat : k + 1 < UIntSize => Inc(k) = k + 1
    /\ Inc(UIntSize - 1) = 0 /\ Dec(0) = UIntSize - 1
    /\ \A k \in Nat : k > 0 /\ k < UIntSize => Dec(k) = k - 1
<1>1. UIntSize \in Nat /\ MaxTags \in Nat /\ UIntSize > 2 * (MaxTags + 1)
  BY BoundAssumption
<1>2. \A k \in Nat : k + 1 < UIntSize => Inc(k) = k + 1
  BY <1>1 DEF Inc
<1>3. Inc(UIntSize - 1) = 0
  BY <1>1 DEF Inc
<1>4. Dec(0) = UIntSize - 1
  BY <1>1 DEF Dec
<1>5. \A k \in Nat : k > 0 /\ k < UIntSize => Dec(k) = k - 1
  <2> SUFFICES ASSUME NEW k \in Nat, k > 0, k < UIntSize PROVE Dec(k) = k - 1
    OBVIOUS
  <2>1. k + UIntSize - 1 = (k - 1) + UIntSize /\ k - 1 \in 0..(UIntSize - 1)
    BY <1>1
  <2>2. ((k - 1) + UIntSize) % UIntSize = k - 1
    BY <1>1, <2>1
  <2> QED BY <2>1, <2>2 DEF Dec
<1> QED BY <1>1, <1>2, <1>3, <1>4, <1>5

-----------------------------------------------------------------------------
(* What expat does to the document when a tag starts, and when one ends.   *)
LEMMA DocFacts ==
    ASSUME DocShape
    PROVE  /\ Len(doc) \in Nat /\ DOMAIN doc = 1..Len(doc)
           /\ Len(open) \in Nat /\ DOMAIN open = 1..Len(open)
           /\ n \in Nat \ {0} /\ n \notin DOMAIN doc
           /\ \A i \in 1..Len(open) : open[i] \in 1..Len(doc)
           /\ open # << >> <=> Len(open) > 0
           /\ open # << >> => Top(open) = open[Len(open)]
<1>1. Len(doc) \in Nat /\ DOMAIN doc = 1..Len(doc)
  BY AppendIsList DEF DocShape
<1>2. open \in Seq(Nat \ {0}) /\ Len(open) \in Nat /\ DOMAIN open = 1..Len(open)
  BY DEF DocShape, OpenIsPath
<1>3. open # << >> <=> Len(open) > 0
  BY <1>2, EmptySeq
<1>4. \A i \in 1..Len(open) : open[i] \in 1..Len(doc)
  BY <1>1, <1>2 DEF DocShape, OpenIsPath
<1>5. n \in Nat \ {0} /\ n \notin DOMAIN doc
  BY <1>1 DEF n
<1> QED BY <1>1, <1>2, <1>3, <1>4, <1>5 DEF Top

LEMMA StartFacts ==
    ASSUME DocShape, NEW name \in Names, NEW old, ExpatStarts(name, old)
    PROVE  /\ Len(open') = Len(open) + 1 /\ DOMAIN open' = 1..(Len(open) + 1)
           /\ open' \in Seq(Nat \ {0}) /\ open' # << >>
           /\ \A i \in 1..Len(open) : open'[i] = open[i]
           /\ open'[Len(open) + 1] = n
           /\ DOMAIN doc' = DOMAIN doc \cup {n} /\ Len(doc') = n
           /\ \A t \in DOMAIN doc : doc'[t] = doc[t]
           /\ doc'[n].name = name /\ doc'[n].cls = Cls(name, old)
           /\ doc'[n].parent = IF open = << >> THEN NoTag ELSE open[Len(open)]
           /\ IsList(doc')
           /\ open = << >> => Len(doc) = 0
<1> USE DocFacts
<1> DEFINE entry == [name |-> name, cls |-> Cls(name, old),
                     parent |-> IF open = << >> THEN NoTag ELSE Top(open)]
<1>1. doc' = Append(doc, entry) /\ open' = Append(open, n) /\ phase = "run"
  BY DEF ExpatStarts
<1>2. /\ entry.name = name /\ entry.cls = Cls(name, old)
      /\ entry.parent = IF open = << >> THEN NoTag ELSE open[Len(open)]
  OBVIOUS
<1> HIDE DEF entry
<1>3. open \in Seq(Nat \ {0}) /\ IsList(doc) /\ (open = << >> => doc = << >>)
  BY <1>1 DEF DocShape, OpenIsPath
<1>4. /\ Len(open') = Len(open) + 1 /\ DOMAIN open' = 1..(Len(open) + 1)
      /\ open' \in Seq(Nat \ {0}) /\ open' # << >>
      /\ \A i \in 1..Len(open) : open'[i] = open[i]
      /\ open'[Len(open) + 1] = n
  BY <1>1, <1>3
<1>5. /\ IsList(doc') /\ Len(doc') = n
      /\ DOMAIN doc' = 1..(Len(doc) + 1)
      /\ \A t \in DOMAIN doc : doc'[t] = doc[t]
      /\ doc'[n] = entry
  BY <1>1, <1>3, AppendIsList DEF n
<1>6. DOMAIN doc' = DOMAIN doc \cup {n}
  BY <1>5 DEF n
<1> QED BY <1>2, <1>3, <1>4, <1>5, <1>6

LEMMA StartDocShape ==
    ASSUME DocShape, NEW name \in Names, NEW old, ExpatStarts(name, old)
    PROVE  DocShape'
<1> USE DocFacts, StartFacts
<1>1. Len(doc') <= MaxTags /\ Len(open') <= Len(doc')
  BY BoundAssumption DEF ExpatStarts, DocShape, OpenIsPath, n
<1>2. OpenIsPath'
  <2>1. ASSUME NEW i \in DOMAIN open'
        PROVE  /\ open'[i] <= Len(doc')
               /\ doc'[open'[i]].parent = IF i = 1 THEN NoTag ELSE open'[i - 1]
    <3>1. CASE i = Len(open) + 1
      <4>1. open'[i] = n
        BY <3>1
      <4>2. CASE open = << >>
        BY <3>1, <4>1, <4>2 DEF n
      <4>3. CASE open # << >>
        BY <3>1, <4>1, <4>3 DEF n
      <4> QED BY <4>2, <4>3
    <3>2. CASE i \in 1..Len(open)
      <4>1. /\ open'[i] = open[i] /\ doc'[open[i]] = doc[open[i]]
            /\ i # 1 => open'[i - 1] = open[i - 1]
        BY SMTT(40), <3>2
      <4> QED BY SMTT(40), <3>2, <4>1 DEF DocShape, OpenIsPath, n
    <3> QED BY <3>1, <3>2
  <2>2. ASSUME NEW i \in DOMAIN open', NEW j \in DOMAIN open', i < j
        PROVE  open'[i] < open'[j]
    <3>1. i \in 1..Len(open) /\ open'[i] = open[i] /\ open[i] \in 1..Len(doc)
      BY <2>2
    <3>2. CASE j = Len(open) + 1
      BY <3>1, <3>2 DEF n
    <3>3. CASE j \in 1..Len(open)
      <4>1. open'[j] = open[j]
        BY <3>3
      <4>2. open[i] < open[j]
        BY <2>2, <3>1, <3>3 DEF DocShape, OpenIsPath
      <4> QED BY <3>1, <4>1, <4>2
    <3> QED BY <2>2, <3>2, <3>3
  <2>3. open'[1] = 1
    <3>1. CASE open = << >>
      BY <3>1 DEF n
    <3>2. CASE open # << >>
      BY SMTT(40), <3>2 DEF DocShape, OpenIsPath
    <3> QED BY <3>1, <3>2
  <2> QED BY <1>1, <2>1, <2>2, <2>3 DEF OpenIsPath
<1>3. ASSUME NEW t \in Tags' PROVE TagIsPlaced(t)'
  <2>1. CASE t \in DOMAIN doc
    BY <2>1 DEF DocShape, Tags, TagIsPlaced, IsDescription
  <2>2. CASE t = n
    <3>1. doc'[n].name = "description" => doc'[n].cls = "known"
      BY NameAssumption DEF Names, Cls
    <3>2. CASE open = << >>
      BY <2>2, <3>1, <3>2 DEF TagIsPlaced, IsDescription, NoTag, n
    <3>3. CASE open # << >>
      <4>1. doc'[n].parent \in 1..(n - 1)
        BY <3>3 DEF n
      <4> QED BY <2>2, <3>1, <4>1 DEF TagIsPlaced, IsDescription, NoTag
    <3> QED BY <3>2, <3>3
  <2> QED BY <1>3, <2>1, <2>2 DEF Tags
<1> QED BY <1>1, <1>2, <1>3 DEF DocShape

LEMMA EndFacts ==
    ASSUME DocShape, ExpatEnds
    PROVE  /\ Len(open) > 0 /\ Len(open') = Len(open) - 1 /\ DOMAIN open' = 1..(Len(open) - 1)
           /\ \A i \in 1..(Len(open) - 1) : open'[i] = open[i]
           /\ open' = << >> <=> Len(open) = 1
           /\ open' \in Seq(Nat \ {0}) /\ doc' = doc
           /\ ending = open[Len(open)] /\ endName = doc[open[Len(open)]].name
           /\ nesting_depth' = nesting_depth - 1
<1> USE DocFacts
<1>1. open' = SubSeq(open, 1, Len(open) - 1) /\ open # << >> /\ doc' = doc
  BY DEF ExpatEnds, Pop
<1> DEFINE m == Len(open) - 1
<1>2. m \in Nat /\ Len(open) = m + 1
  BY <1>1
<1>3. \A i \in 1..m : open[i] \in Nat \ {0}
  BY DEF DocShape, OpenIsPath
<1> HIDE DEF m
<1>4. /\ SubSeq(open, 1, m) \in Seq(Nat \ {0})
      /\ Len(SubSeq(open, 1, m)) = IF 1 <= m THEN m - 1 + 1 ELSE 0
      /\ \A i \in 1..(m - 1 + 1) : SubSeq(open, 1, m)[i] = open[1 + i - 1]
  BY <1>2, <1>3, SubSeqProperties
<1>5. open' = SubSeq(open, 1, m)
  BY <1>1 DEF m
<1>6. open' \in Seq(Nat \ {0}) /\ Len(open') = m /\ \A i \in 1..m : open'[i] = open[i]
  BY <1>2, <1>4, <1>5
<1>7. DOMAIN open' = 1..m /\ (open' = << >> <=> m = 0)
  BY <1>2, <1>6, EmptySeq
<1>8. m = Len(open) - 1
  BY DEF m
<1>9. ending = open[Len(open)] /\ endName = doc[open[Len(open)]].name
  BY <1>1 DEF ending, endName, Top
<1>10. nesting_depth' = nesting_depth - 1
  BY DEF ExpatEnds
<1> QED BY <1>1, <1>2, <1>6, <1>7, <1>8, <1>9, <1>10

LEMMA EndDocShape ==
    ASSUME DocShape, ExpatEnds, phase' = "run" => Len(open) # 1
    PROVE  DocShape'
<1> USE DocFacts, EndFacts
<1>1. OpenIsPath'
  <2>1. ASSUME NEW i \in DOMAIN open'
        PROVE  /\ open'[i] <= Len(doc')
               /\ doc'[open'[i]].parent = IF i = 1 THEN NoTag ELSE open'[i - 1]
    <3>1. i \in 1..(Len(open) - 1) /\ i \in DOMAIN open /\ (i # 1 => i - 1 \in 1..(Len(open) - 1))
      BY SMTT(40), <2>1
    <3>2. open'[i] = open[i] /\ (i # 1 => open'[i - 1] = open[i - 1])
      BY <3>1
    <3> QED BY <3>1, <3>2 DEF DocShape, OpenIsPath
  <2>2. ASSUME NEW i \in DOMAIN open', NEW j \in DOMAIN open', i < j
        PROVE  open'[i] < open'[j]
    <3>1. i \in DOMAIN open /\ j \in DOMAIN open /\ open'[i] = open[i] /\ open'[j] = open[j]
      BY SMTT(40), <2>2
    <3> QED BY <2>2, <3>1 DEF DocShape, OpenIsPath
  <2>3. open' # << >> => open'[1] = 1
    BY SMTT(40) DEF DocShape, OpenIsPath
  <2>4. Len(open') <= Len(doc')
    BY DEF DocShape, OpenIsPath
  <2> QED BY <2>1, <2>2, <2>3, <2>4 DEF OpenIsPath
<1> QED BY <1>1 DEF DocShape, TagIsPlaced, IsDescription, Tags

-----------------------------------------------------------------------------
(* The stack is the first k open tags.                                     *)
LEMMA SamePrefix ==
    ASSUME NEW s \in Seq(Nat \ {0}), NEW t \in Seq(Nat \ {0}), NEW k \in Nat,
           k <= Len(s), k <= Len(t), \A i \in 1..k : s[i] = t[i]
    PROVE  SubSeq(s, 1, k) = SubSeq(t, 1, k)
<1>1. \A i \in 1..k : s[i] \in Nat \ {0} /\ t[i] \in Nat \ {0}
  OBVIOUS
<1>2. /\ SubSeq(s, 1, k) \in Seq(Nat \ {0})
      /\ Len(SubSeq(s, 1, k)) = IF 1 <= k THEN k - 1 + 1 ELSE 0
      /\ \A i \in 1..(k - 1 + 1) : SubSeq(s, 1, k)[i] = s[1 + i - 1]
  BY <1>1, SubSeqProperties
<1>3. /\ SubSeq(t, 1, k) \in Seq(Nat \ {0})
      /\ Len(SubSeq(t, 1, k)) = IF 1 <= k THEN k - 1 + 1 ELSE 0
      /\ \A i \in 1..(k - 1 + 1) : SubSeq(t, 1, k)[i] = t[1 + i - 1]
  BY <1>1, SubSeqProperties
<1>4. Len(SubSeq(s, 1, k)) = k /\ Len(SubSeq(t, 1, k)) = k
  BY <1>2, <1>3
<1>5. \A i \in 1..k : SubSeq(s, 1, k)[i] = SubSeq(t, 1, k)[i]
  BY <1>2, <1>3
<1> QED BY <1>2, <1>3, <1>4, <1>5, SeqEqual

LEMMA PrefixFacts ==
    ASSUME NEW s \in Seq(Nat \ {0}), NEW k \in Nat, k <= Len(s)
    PROVE  /\ SubSeq(s, 1, k) \in Seq(Nat \ {0})
           /\ Len(SubSeq(s, 1, k)) = k
           /\ \A i \in 1..k : SubSeq(s, 1, k)[i] = s[i]
<1>1. \A i \in 1..k : s[i] \in Nat \ {0}
  OBVIOUS
<1>2. /\ SubSeq(s, 1, k) \in Seq(Nat \ {0})
      /\ Len(SubSeq(s, 1, k)) = IF 1 <= k THEN k - 1 + 1 ELSE 0
      /\ \A i \in 1..(k - 1 + 1) : SubSeq(s, 1, k)[i] = s[1 + i - 1]
  BY <1>1, SubSeqProperties
<1> QED BY <1>2

LEMMA StackFacts ==
    ASSUME DocShape, NEW k \in 0..Len(open), Path(k)
    PROVE  /\ stack \in Seq(Nat \ {0}) /\ Len(stack) = k /\ DOMAIN stack = 1..k
           /\ \A i \in 1..k : stack[i] = open[i]
           /\ stack = << >> <=> k = 0
           /\ k = 0 <=> open = << >>
           /\ k > 0 => Top(stack) = open[k]
<1>1. open \in Seq(Nat \ {0}) /\ stack = SubSeq(open, 1, k) /\ k \in Nat /\ k <= Len(open)
  BY DocFacts DEF DocShape, OpenIsPath, Path
<1>2. /\ stack \in Seq(Nat \ {0}) /\ Len(stack) = k
      /\ \A i \in 1..k : stack[i] = open[i]
  BY <1>1, PrefixFacts
<1>3. DOMAIN stack = 1..k /\ (stack = << >> <=> k = 0)
  BY <1>1, <1>2, EmptySeq
<1>4. k = 0 <=> open = << >>
  BY <1>1, DocFacts DEF Path
<1> QED BY SMTT(40), <1>1, <1>2, <1>3, <1>4 DEF Top

LEMMA StartPath ==
    ASSUME DocShape, NEW k \in 0..Len(open), Path(k), k > 0, stack' = stack,
           NEW name \in Names, NEW old, ExpatStarts(name, old)
    PROVE  Path(k)'
<1> USE DocFacts, StartFacts
<1>1. open \in Seq(Nat \ {0}) /\ k \in Nat /\ k <= Len(open)
  BY DEF DocShape, OpenIsPath
<1>2. SubSeq(open', 1, k) = SubSeq(open, 1, k)
  BY SMTT(40), <1>1, SamePrefix
<1>3. ASSUME NEW i \in 1..k
      PROVE  doc'[open'[i]].cls = "known" /\ (i < k => ~ IsDescription(open[i])')
  <2>1. open'[i] = open[i] /\ doc'[open[i]] = doc[open[i]]
    BY SMTT(40), <1>1
  <2> QED BY <2>1 DEF Path, IsDescription
<1> QED BY <1>1, <1>2, <1>3 DEF Path

LEMMA StartPathKnown ==
    ASSUME DocShape, NEW k \in 0..Len(open), Path(k), Len(open) = k,
           k > 0 => ~ IsDescription(open[k]), stack' = Append(stack, n),
           NEW name \in Names, NEW old, ExpatStarts(name, old), Cls(name, old) = "known"
    PROVE  Path(k + 1)'
<1> USE DocFacts, StartFacts
<1>1. /\ open' \in Seq(Nat \ {0}) /\ k \in Nat /\ k + 1 = Len(open')
      /\ open \in Seq(Nat \ {0})
  BY DEF DocShape, OpenIsPath
<1>2. open' = Append(open, n)
  BY DEF ExpatStarts
<1>3. SubSeq(open', 1, k + 1) = open' /\ SubSeq(open, 1, k) = open
  BY <1>1, SubSeqFull
<1>4. stack' = SubSeq(open', 1, k + 1)
  BY <1>2, <1>3 DEF Path
<1>5. ASSUME NEW i \in 1..(k + 1)
      PROVE  doc'[open'[i]].cls = "known" /\ (i < k + 1 => ~ IsDescription(open[i])')
  <2>1. CASE i = k + 1
    BY <1>1, <2>1
  <2>2. CASE i \in 1..k
    <3>1. open'[i] = open[i] /\ doc'[open[i]] = doc[open[i]]
      BY <2>2
    <3>2. doc[open[i]].cls = "known" /\ ~ IsDescription(open[i])
      BY <1>1, <2>2 DEF Path
    <3> QED BY <3>1, <3>2 DEF IsDescription
  <2> QED BY <1>1, <2>1, <2>2
<1> QED BY <1>1, <1>4, <1>5 DEF Path

LEMMA EndPath ==
    ASSUME DocShape, NEW k \in 0..Len(open), Path(k), k < Len(open), k > 0, stack' = stack,
           ExpatEnds
    PROVE  Path(k)'
<1> USE DocFacts, EndFacts
<1>1. open \in Seq(Nat \ {0}) /\ k \in Nat /\ k <= Len(open)
  BY DEF DocShape, OpenIsPath
<1>2. k <= Len(open') /\ open' \in Seq(Nat \ {0})
  BY <1>1
<1>3. ASSUME NEW i \in 1..k PROVE open'[i] = open[i]
  <2>1. i \in 1..(Len(open) - 1)
    BY <1>1
  <2> QED BY <2>1
<1>4. SubSeq(open', 1, k) = SubSeq(open, 1, k)
  BY <1>1, <1>2, <1>3, SamePrefix
<1>5. ASSUME NEW i \in 1..k
      PROVE  doc'[open'[i]].cls = "known" /\ (i < k => ~ IsDescription(open[i])')
  <2>1. open'[i] = open[i]
    BY <1>3
  <2> QED BY <2>1 DEF Path, IsDescription
<1> QED BY <1>1, <1>4, <1>5 DEF Path

LEMMA EndPathKnown ==
    ASSUME DocShape, NEW k \in 0..Len(open), Path(k), k = Len(open), k > 1, stack' = Pop(stack),
           ExpatEnds
    PROVE  Path(k - 1)'
<1> USE DocFacts, EndFacts
<1>1. /\ open \in Seq(Nat \ {0}) /\ k \in Nat /\ k - 1 \in Nat /\ k - 1 = Len(open')
      /\ open' \in Seq(Nat \ {0})
  BY DEF DocShape, OpenIsPath
<1>2. SubSeq(open', 1, k - 1) = SubSeq(open, 1, k - 1)
  BY <1>1, SamePrefix
<1>3. stack = open
  BY <1>1, SubSeqFull DEF Path
<1>4. stack' = SubSeq(open', 1, k - 1)
  BY <1>2, <1>3 DEF Pop
<1>5. ASSUME NEW i \in 1..(k - 1)
      PROVE  doc'[open'[i]].cls = "known" /\ (i < k - 1 => ~ IsDescription(open[i])')
  <2>1. open'[i] = open[i]
    BY <1>1
  <2> QED BY <1>1, <2>1 DEF Path, IsDescription
<1> QED BY SMTT(40), <1>1, <1>4, <1>5 DEF Path

-----------------------------------------------------------------------------
(* The tags that are open, and those an element can be a child of.         *)
LEMMA StartOpens ==
    ASSUME DocShape, NEW name \in Names, NEW old, ExpatStarts(name, old)
    PROVE  /\ DOMAIN open' = DOMAIN open \cup {Len(open) + 1}
           /\ Len(open) + 1 \notin DOMAIN open /\ open'[Len(open) + 1] = n
           /\ \A i \in DOMAIN open : open'[i] = open[i] /\ open[i] \in DOMAIN doc
           /\ \A u \in DOMAIN doc : IsOpen(u)' <=> IsOpen(u)
           /\ \A u : u = n => IsOpen(u)'
           /\ open # << >> => /\ Len(open) \in DOMAIN open /\ open[Len(open)] # NoTag
                              /\ doc'[n].parent = open[Len(open)]
<1> USE DocFacts, StartFacts
<1>1. /\ DOMAIN open' = DOMAIN open \cup {Len(open) + 1}
      /\ Len(open) + 1 \notin DOMAIN open /\ open'[Len(open) + 1] = n
  <2>1. \A m \in Nat : 1..(m + 1) = (1..m) \cup {m + 1} /\ m + 1 \notin 1..m
    OBVIOUS
  <2> QED BY <2>1
<1>2. \A i \in DOMAIN open : open'[i] = open[i] /\ open[i] \in DOMAIN doc
  OBVIOUS
<1>3. \A u \in DOMAIN doc : IsOpen(u)' <=> IsOpen(u)
  BY <1>1, <1>2 DEF IsOpen
<1>4. \A u : u = n => IsOpen(u)'
  BY <1>1 DEF IsOpen
<1>5. ASSUME open # << >>
      PROVE  Len(open) \in DOMAIN open /\ open[Len(open)] # NoTag
  BY SMTT(40), <1>5 DEF NoTag
<1> QED BY <1>1, <1>2, <1>3, <1>4, <1>5

LEMMA EndOpens ==
    ASSUME DocShape, ExpatEnds
    PROVE  /\ DOMAIN open = DOMAIN open' \cup {Len(open)}
           /\ Len(open) \notin DOMAIN open' /\ doc' = doc
           /\ \A i \in DOMAIN open' : open'[i] = open[i] /\ i < Len(open)
           /\ \A u : IsOpen(u)' <=> IsOpen(u) /\ u # open[Len(open)]
<1> USE DocFacts, EndFacts
<1>1. /\ DOMAIN open = DOMAIN open' \cup {Len(open)}
      /\ Len(open) \notin DOMAIN open' /\ doc' = doc
  OBVIOUS
<1>2. ASSUME NEW i \in DOMAIN open'
      PROVE  open'[i] = open[i] /\ i < Len(open) /\ open[i] # open[Len(open)]
  <2>1. i \in 1..(Len(open) - 1)
    OBVIOUS
  <2>2. i \in DOMAIN open /\ Len(open) \in DOMAIN open /\ i < Len(open)
    BY <2>1
  <2>3. open[i] < open[Len(open)] /\ open[i] \in Nat /\ open[Len(open)] \in Nat
    BY <2>2 DEF DocShape, OpenIsPath
  <2> QED BY <2>1, <2>2, <2>3
<1>3. \A u : IsOpen(u)' <=> IsOpen(u) /\ u # open[Len(open)]
  BY <1>1, <1>2 DEF IsOpen
<1> QED BY <1>1, <1>2, <1>3

LEMMA TagFacts ==
    ASSUME DocShape, DOMAIN type \subseteq Tags
    PROVE  /\ n \notin DOMAIN doc /\ n \notin DOMAIN type /\ n # NoTag
           /\ \A t \in DOMAIN type : t \in DOMAIN doc
           /\ \A t \in DOMAIN doc : /\ doc[t].parent # n /\ t # NoTag
                                    /\ doc[t].parent # NoTag => doc[t].parent \in DOMAIN doc
<1> USE DocFacts
<1>1. n \notin DOMAIN doc /\ n \notin DOMAIN type /\ n # NoTag
  BY DEF Tags, NoTag
<1>2. ASSUME NEW t \in DOMAIN doc
      PROVE  /\ doc[t].parent # n /\ t # NoTag
             /\ doc[t].parent # NoTag => doc[t].parent \in DOMAIN doc
  <2>1. doc[t].parent \in 0..(t - 1)
    BY DEF DocShape, TagIsPlaced, Tags
  <2> QED BY <2>1 DEF NoTag, n
<1> QED BY <1>1, <1>2 DEF Tags

(* The tree, when a tag starts that is no element.                         *)
MadeOf(t) ==
  /\ doc[t].cls = "known"
  /\ doc[t].parent # NoTag => doc[t].parent \in DOMAIN type /\ ~ IsDescription(doc[t].parent)

LEMMA CreatedIsMade ==
    Created <=> DOMAIN type \subseteq Tags /\ \A t \in Tags : t \in DOMAIN type <=> MadeOf(t)
BY DEF Created, MadeOf

LEMMA SameAttached ==
    ASSUME Attached, Handable' = Handable, added' = added,
           \A t \in DOMAIN type : doc'[t] = doc[t]
    PROVE  Attached'
<1>1. \A t \in Handable : doc'[t].parent = doc[t].parent
  BY DEF Handable
<1>2. {<<doc'[t].parent, t>> : t \in Handable'} = {<<doc[t].parent, t>> : t \in Handable}
  BY <1>1
<1> QED BY <1>2 DEF Attached

LEMMA StartUncreated ==
    ASSUME DocShape, NEW k \in 0..Len(open), Tree(k), k > 0,
           NEW name \in Names, NEW old, ExpatStarts(name, old),
           type' = type, added' = added,
           Cls(name, old) # "known" \/ Len(open) > k \/ IsDescription(open[k])
    PROVE  Tree(k)'
<1>1. /\ DOMAIN type \subseteq Tags /\ open # << >> /\ Len(open) \in Nat /\ k <= Len(open)
  BY DocFacts DEF Tree, Created
<1> USE StartOpens, TagFacts, <1>1
<1>2. \A t \in DOMAIN doc : doc'[t] = doc[t]
  BY StartFacts
<1>3. DOMAIN doc' = DOMAIN doc \cup {n} /\ doc'[n].cls = Cls(name, old)
  BY StartFacts
<1>4. ASSUME NEW t \in DOMAIN doc PROVE t \in DOMAIN type' <=> MadeOf(t)'
  <2>1. t \in DOMAIN type <=> MadeOf(t)
    BY CreatedIsMade DEF Tree, Tags
  <2> QED BY <1>2, <2>1 DEF MadeOf, IsDescription
<1>5. ASSUME NEW t, t = n PROVE ~ MadeOf(t)'
  <2>1. doc'[t].cls = Cls(name, old) /\ doc'[t].parent = open[Len(open)]
    BY <1>3, <1>5
  <2>2. CASE Cls(name, old) # "known"
    BY <2>1, <2>2 DEF MadeOf
  <2>3. CASE Len(open) > k
    <3>1. open[Len(open)] \notin DOMAIN type
      BY <2>3 DEF Tree
    <3> QED BY <2>1, <3>1 DEF MadeOf
  <2>4. CASE Len(open) = k /\ IsDescription(open[k])
    <3>1. doc'[open[Len(open)]].name = "description"
      BY <1>2, <2>4 DEF IsDescription
    <3> QED BY <2>1, <3>1 DEF MadeOf, IsDescription
  <2> QED BY <2>2, <2>3, <2>4
<1>6. Created'
  <2>1. \A t \in Tags' : t \in DOMAIN type' <=> MadeOf(t)'
    BY <1>3, <1>4, <1>5 DEF Tags
  <2>2. DOMAIN type' \subseteq Tags'
    BY <1>3 DEF Tags
  <2> QED BY <2>1, <2>2, CreatedIsMade DEF Created, MadeOf
<1>7. Handable' = Handable
  <2>1. \A u \in DOMAIN type : IsOpen(u)' <=> IsOpen(u)
    OBVIOUS
  <2> QED BY <2>1 DEF Handable
<1>8. Attached'
  BY <1>2, <1>7, SameAttached DEF Tree
<1>9. ASSUME NEW i \in DOMAIN open' PROVE open'[i] \in DOMAIN type' <=> i <= k
  <2>1. CASE i = Len(open) + 1
    BY <2>1
  <2>2. CASE i \in DOMAIN open
    BY <2>2 DEF Tree
  <2> QED BY <2>1, <2>2
<1> QED BY <1>6, <1>8, <1>9 DEF Tree

LEMMA EndUncreated ==
    ASSUME DocShape, NEW k \in 0..Len(open), Tree(k), k < Len(open), ExpatEnds,
           type' = type, added' = added
    PROVE  Tree(k)'
<1>0. k \in Nat /\ Len(open) \in Nat
  BY DocFacts
<1> USE EndOpens
<1>1. Created'
  BY DEF Tree, Created, IsDescription, Tags
<1>2. open[Len(open)] \notin DOMAIN type
  <2>1. ~ (Len(open) <= k) /\ Len(open) \in DOMAIN open
    BY <1>0
  <2> QED BY <2>1 DEF Tree
<1>3. Handable' = Handable
  <2>1. \A u \in DOMAIN type : IsOpen(u)' <=> IsOpen(u)
    BY <1>2
  <2> QED BY <2>1 DEF Handable
<1>4. Attached'
  BY <1>3, SameAttached DEF Tree
<1>5. ASSUME NEW i \in DOMAIN open' PROVE open'[i] \in DOMAIN type' <=> i <= k
  BY DEF Tree
<1> QED BY <1>1, <1>4, <1>5 DEF Tree

(* The tree, when an element starts and when it ends.                      *)
LEMMA StartCreated ==
    ASSUME DocShape, NEW k \in 0..Len(open), Tree(k), k = Len(open),
           NEW name \in Names, NEW old, ExpatStarts(name, old), Cls(name, old) = "known",
           k > 0 => ~ IsDescription(open[k]),
           NEW made, type' = With(type, n, made), added' = added
    PROVE  /\ Tree(k + 1)'
           /\ type'[n] = made /\ \A t \in DOMAIN type : type'[t] = type[t]
<1>1. /\ DOMAIN type \subseteq Tags /\ Len(open) \in Nat /\ k \in Nat
      /\ k > 0 <=> open # << >>
  BY DocFacts DEF Tree, Created
<1> USE StartOpens, TagFacts, <1>1
<1>2. \A t \in DOMAIN doc : doc'[t] = doc[t]
  BY StartFacts
<1>3. /\ DOMAIN doc' = DOMAIN doc \cup {n} /\ doc'[n].cls = Cls(name, old)
      /\ open = << >> => doc'[n].parent = NoTag
  BY StartFacts
<1>4. /\ DOMAIN type' = DOMAIN type \cup {n}
      /\ type'[n] = made /\ \A t \in DOMAIN type : type'[t] = type[t]
  <2>1. n \notin DOMAIN type
    OBVIOUS
  <2>2. type' = [t \in DOMAIN type \cup {n} |-> IF t = n THEN made ELSE type[t]]
    BY DEF With
  <2> HIDE DEF n
  <2> QED BY ONLY <2>1, <2>2
<1>5. ASSUME NEW t \in DOMAIN doc PROVE t \in DOMAIN type' <=> MadeOf(t)'
  <2>1. t \in DOMAIN type <=> MadeOf(t)
    BY CreatedIsMade DEF Tree, Tags
  <2>2. t # n /\ doc'[t] = doc[t] /\ doc[t].parent # n
    BY <1>2
  <2>3. doc[t].parent # NoTag => doc'[doc[t].parent] = doc[doc[t].parent]
    BY <1>2
  <2> QED BY <1>4, <2>1, <2>2, <2>3 DEF MadeOf, IsDescription
<1>6. ASSUME NEW t, t = n PROVE MadeOf(t)'
  <2>1. CASE open = << >>
    BY <1>3, <1>6, <2>1 DEF MadeOf
  <2>2. CASE open # << >>
    <3>1. doc'[t].parent = open[k] /\ k \in DOMAIN open /\ open[k] \in DOMAIN doc
      BY <1>6, <2>2
    <3>2. open[k] \in DOMAIN type'
      BY <3>1, <1>4 DEF Tree
    <3>3. ~ IsDescription(open[k])
      BY <2>2
    <3>4. doc'[open[k]].name # "description"
      BY <3>1, <3>3, <1>2 DEF IsDescription
    <3> QED BY <1>3, <1>6, <3>1, <3>2, <3>4 DEF MadeOf, IsDescription
  <2> QED BY <2>1, <2>2
<1>7. Created'
  <2>1. \A t \in Tags' : t \in DOMAIN type' <=> MadeOf(t)'
    BY <1>3, <1>4, <1>5, <1>6 DEF Tags
  <2>2. DOMAIN type' \subseteq Tags'
    BY <1>3, <1>4 DEF Tags
  <2> QED BY <2>1, <2>2, CreatedIsMade DEF Created, MadeOf
<1>8. Handable' = Handable
  <2>1. \A u \in DOMAIN type : (IsOpen(u)' <=> IsOpen(u)) /\ type'[u] = type[u]
    BY <1>4
  <2>2. \A u : u = n => IsOpen(u)'
    OBVIOUS
  <2> QED BY <1>4, <2>1, <2>2 DEF Handable
<1>9. Attached'
  BY <1>2, <1>8, SameAttached DEF Tree
<1>10. ASSUME NEW i \in DOMAIN open' PROVE open'[i] \in DOMAIN type' <=> i <= k + 1
  <2>1. CASE i = Len(open) + 1
    BY <1>4, <2>1
  <2>2. CASE i \in DOMAIN open
    <3>1. i \in 1..k /\ open'[i] = open[i] /\ open[i] \in DOMAIN type
      BY <2>2, DocFacts DEF Tree
    <3> QED BY <1>4, <3>1
  <2> QED BY <2>1, <2>2
<1> QED BY <1>4, <1>7, <1>9, <1>10 DEF Tree

LEMMA EndCreated ==
    ASSUME DocShape, NEW k \in 0..Len(open), Tree(k), k = Len(open), ExpatEnds,
           type' = type,
           added' = IF k >= 2 THEN added \cup Handed(open[k - 1], open[k]) ELSE added
    PROVE  Tree(k - 1)'
<1>1. Created'
  BY EndOpens DEF Tree, Created, IsDescription, Tags
<1>2. k \in DOMAIN open /\ open[k] \in DOMAIN type /\ k \in Nat /\ open[k] \in Nat
  <2>1. k \in DOMAIN open /\ k \in Nat /\ open[k] \in Nat
    BY DocFacts, EndFacts
  <2> QED BY <2>1 DEF Tree
<1>3. \A u \in DOMAIN type : IsOpen(u)' <=> IsOpen(u) /\ u # open[k]
  BY EndOpens
<1>4. IsOpen(open[k])
  BY <1>2 DEF IsOpen
<1>5. open[k] = 1 <=> k = 1
  <2>1. open[1] = 1
    BY <1>2 DEF DocShape, OpenIsPath
  <2>2. CASE k > 1
    <3>1. 1 \in DOMAIN open /\ 1 < k
      BY <1>2, <2>2, DocFacts
    <3>2. open[1] < open[k]
      BY <1>2, <3>1 DEF DocShape, OpenIsPath
    <3> QED BY <1>2, <2>1, <2>2, <3>2
  <2>3. CASE k = 1
    BY <2>1, <2>3
  <2> QED BY <1>2, <2>2, <2>3, DocFacts
<1>6. Handable' = IF k >= 2 /\ type[open[k]] \notin Vetoed THEN Handable \cup {open[k]} ELSE Handable
  <2>1. k >= 2 <=> open[k] # 1
    BY <1>2, <1>5, DocFacts
  <2> QED BY <2>1, <1>2, <1>3, <1>4 DEF Handable
<1>7. Attached'
  <2>1. added = {<<doc[t].parent, t>> : t \in Handable} /\ doc' = doc
    BY EndOpens DEF Tree, Attached
  <2>2. CASE k >= 2 /\ type[open[k]] \notin Vetoed
    <3>1. k # 1
      BY <1>2, <2>2
    <3>2. doc[open[k]].parent = open[k - 1]
      BY <1>2, <3>1 DEF DocShape, OpenIsPath
    <3>3. added' = added \cup {<<doc[open[k]].parent, open[k]>>}
      BY <2>2, <3>2 DEF Handed
    <3> QED BY <1>6, <2>1, <2>2, <3>3 DEF Attached
  <2>3. CASE ~ (k >= 2 /\ type[open[k]] \notin Vetoed)
    <3>1. added' = added
      BY <2>3 DEF Handed
    <3> QED BY <1>6, <2>1, <2>3, <3>1 DEF Attached
  <2> QED BY <2>2, <2>3
<1>8. ASSUME NEW i \in DOMAIN open' PROVE open'[i] \in DOMAIN type' <=> i <= k - 1
  <2>1. i \in DOMAIN open /\ open'[i] = open[i] /\ i <= k - 1 /\ i <= k
    BY EndOpens, DocFacts
  <2> QED BY <2>1 DEF Tree
<1> QED BY <1>1, <1>7, <1>8 DEF Tree

-----------------------------------------------------------------------------
(* StartElement, from a state in which all is well.                        *)
LEMMA LiveFacts ==
    ASSUME DocShape, NEW k \in 0..Len(open), Live(k)
    PROVE  /\ k \in Nat /\ Len(open) \in Nat /\ k <= Len(open)
           /\ k = 0 <=> open = << >>
           /\ stack = << >> <=> k = 0
           /\ Len(stack) = k
           /\ k > 0 => Top(stack) = open[k] /\ char_data # << >>
<1>1. Path(k) /\ (InDescription(k) \/ InElement(k) \/ InOldChild(k) \/ InUnknown(k))
  BY DEF Live, Sync
<1>2. k \in Nat /\ Len(open) \in Nat /\ k <= Len(open)
  BY DocFacts
<1>3. Len(char_data) \in {k, k + 1}
  BY <1>1 DEF InDescription, InElement, InOldChild, InUnknown
<1>4. k > 0 => char_data # << >>
  <2>1. char_data = << >> => Len(char_data) = 0
    BY EmptySeq
  <2> QED BY <1>2, <1>3, <2>1
<1> QED BY <1>1, <1>2, <1>4, StackFacts

LEMMA TooDeepEndsWell ==
    ASSUME DocShape, NEW k \in 0..Len(open), Live(k), NEW name \in Names, StartTooDeep(name),
           ~ confused'
    PROVE  EndsWell' /\ phase' = "stopping"
<1> USE LiveFacts
<1>1. /\ stack' = stack /\ char_data' = char_data /\ skip_depth' = skip_depth
      /\ in_description' = in_description /\ old_schema_name' = old_schema_name
      /\ old_schema_name = "" /\ phase' = "stopping"
  BY DEF StartTooDeep
<1>2. CASE k > 0
  <2>1. stack # << >> /\ char_data # << >>
    BY <1>2
  <2> QED BY <1>1, <2>1 DEF EndsWell
<1>3. CASE k = 0
  <2>1. InElement(k)
    BY <1>3 DEF Live, Sync, InDescription, InOldChild, InUnknown
  <2>2. skip_depth = 0 /\ Balanced
    BY <2>1 DEF InElement
  <2> QED BY <1>1, <1>3, <2>2 DEF EndsWell, Balanced
<1> QED BY <1>2, <1>3

(* What a tag that is no element leaves alone.                             *)
LEMMA StartKeepsLive ==
    ASSUME DocShape, NEW k \in 0..Len(open), Live(k), k > 0,
           NEW name \in Names, NEW old, ExpatStarts(name, old),
           type' = type, added' = added, stack' = stack, old_schema_name' = old_schema_name,
           Cls(name, old) # "known" \/ Len(open) > k \/ IsDescription(open[k])
    PROVE  /\ Path(k)' /\ TypesFit(k)' /\ Tree(k)' /\ nesting_depth' = Len(open')
           /\ Len(open') = Len(open) + 1 /\ Len(open') < UIntSize
           /\ \A i \in 1..Len(open) : IsDescription(open[i])' <=> IsDescription(open[i])
           /\ \A i \in 1..Len(open) : doc'[open'[i]].cls = doc[open[i]].cls
           /\ (doc'[open'[Len(open) + 1]].name = "description" <=> name = "description")
           /\ doc'[open'[Len(open) + 1]].cls = Cls(name, old)
           /\ k \in 0..Len(open')
<1> USE DocFacts, StartFacts
<1>1. Path(k)'
  BY StartPath DEF Live, Sync
<1>2. Tree(k)'
  BY StartUncreated DEF Live
<1>3. ASSUME NEW i \in 1..Len(open)
      PROVE  /\ open'[i] = open[i] /\ doc'[open[i]] = doc[open[i]]
  OBVIOUS
<1>4. TypesFit(k)'
  <2>1. TypesFit(k)
    BY DEF Live
  <2>2. ASSUME NEW i \in 1..k PROVE Fits(open[i])'
    <3>1. i \in 1..Len(open)
      OBVIOUS
    <3>2. open'[i] = open[i] /\ doc'[open[i]] = doc[open[i]]
      BY <1>3, <3>1
    <3>3. Fits(open[i])
      BY <2>1 DEF TypesFit
    <3> QED BY <3>2, <3>3 DEF Fits
  <2> QED BY <2>1, <2>2 DEF TypesFit
<1>5. nesting_depth' = Len(open')
  BY DEF ExpatStarts, Live, Sync
<1>6. Len(open') < UIntSize
  <2>1. /\ Len(open) <= Len(doc) /\ Len(doc) < MaxTags /\ Len(open') = Len(open) + 1
        /\ Len(open) \in Nat /\ Len(doc) \in Nat
    BY DEF DocShape, OpenIsPath, ExpatStarts
  <2> QED BY ONLY <2>1, Counting
<1>7. k \in 0..Len(open')
  OBVIOUS
<1>8. \A i \in 1..Len(open) : IsDescription(open[i])' <=> IsDescription(open[i])
  BY SMTT(40), <1>3 DEF IsDescription
<1>9. \A i \in 1..Len(open) : doc'[open'[i]].cls = doc[open[i]].cls
  BY <1>3
<1>10. /\ (doc'[open'[Len(open) + 1]].name = "description" <=> name = "description")
       /\ doc'[open'[Len(open) + 1]].cls = Cls(name, old)
  OBVIOUS
<1> QED BY <1>1, <1>2, <1>4, <1>5, <1>6, <1>7, <1>8, <1>9, <1>10

LEMMA InnerIsFinite ==
    ASSUME NEW k \in Nat, Len(open) \in Nat
    PROVE  /\ IsFiniteSet(InnerDescriptions(k))
           /\ Cardinality(InnerDescriptions(k)) \in Nat
           /\ k <= Len(open) => Cardinality(InnerDescriptions(k)) <= Len(open) - k
<1>1. /\ IsFiniteSet((k + 1)..Len(open))
      /\ Cardinality((k + 1)..Len(open)) = IF k + 1 > Len(open) THEN 0 ELSE Len(open) - (k + 1) + 1
  <2>1. k + 1 \in Int /\ Len(open) \in Int
    OBVIOUS
  <2> QED BY ONLY <2>1, FS_Interval, Zenon
<1>2. InnerDescriptions(k) \subseteq (k + 1)..Len(open)
  BY DEF InnerDescriptions
<1>3. /\ IsFiniteSet(InnerDescriptions(k))
      /\ Cardinality(InnerDescriptions(k)) <= Cardinality((k + 1)..Len(open))
  BY <1>1, <1>2, FS_Subset
<1>4. Cardinality(InnerDescriptions(k)) \in Nat
  BY <1>3, FS_CardinalityType
<1> QED BY <1>1, <1>3, <1>4

LEMMA SkippedLive ==
    ASSUME DocShape, NEW k \in 0..Len(open), Live(k), NEW name \in Names, StartSkipped(name)
    PROVE  Live(k)'
<1>0. InDescription(k) \/ InUnknown(k)
  BY DEF Live, Sync, StartSkipped, InElement, InOldChild
<1>1. k > 0 /\ k \in Nat /\ Len(open) \in Nat /\ k <= Len(open)
  BY <1>0, LiveFacts DEF InDescription, InUnknown
<1>2. /\ ExpatStarts(name, old_schema_name)
      /\ type' = type /\ added' = added /\ stack' = stack /\ old_schema_name' = old_schema_name
      /\ in_old_schema_placemark' = in_old_schema_placemark /\ simpledata_vec' = simpledata_vec
      /\ in_description' = InnerDescription(name) /\ skip_depth' = Inc(skip_depth)
      /\ char_data' = AppendTop(char_data, StartTag(n))
  BY DEF StartSkipped, tree
<1>3. Cls(name, old_schema_name) # "known" \/ Len(open) > k \/ IsDescription(open[k])
  BY <1>0 DEF InDescription, InUnknown
<1>4. /\ Path(k)' /\ TypesFit(k)' /\ Tree(k)' /\ nesting_depth' = Len(open')
      /\ Len(open') = Len(open) + 1 /\ Len(open') < UIntSize
      /\ \A i \in 1..Len(open) : IsDescription(open[i])' <=> IsDescription(open[i])
      /\ \A i \in 1..Len(open) : doc'[open'[i]].cls = doc[open[i]].cls
      /\ (doc'[open'[Len(open) + 1]].name = "description" <=> name = "description")
      /\ k \in 0..Len(open')
  BY <1>1, <1>2, <1>3, StartKeepsLive
<1>5. /\ IsList(char_data') /\ Len(char_data') = Len(char_data) /\ IsList(simpledata_vec')
  <2>1. char_data # << >> /\ IsList(char_data) /\ IsList(simpledata_vec)
    BY <1>1, LiveFacts DEF Live, Sync, Lists
  <2> QED BY <1>2, <2>1, TopIsList
<1>6. CASE InDescription(k)
  <2> DEFINE c == Cardinality(InnerDescriptions(k))
  <2>1. /\ IsDescription(open[k]) /\ ~ in_old_schema_placemark
        /\ skip_depth = 1 + (Len(open) - k) /\ Len(char_data) = k
        /\ in_description = 1 + c
    BY <1>6 DEF InDescription
  <2>2. c \in Nat /\ c <= Len(open) - k /\ IsFiniteSet(InnerDescriptions(k))
    BY <1>1, InnerIsFinite
  <2>3. skip_depth' = 1 + (Len(open') - k)
    BY <1>1, <1>2, <1>4, <2>1, Counting
  <2>4. in_description' = IF name = "description" THEN 1 + (c + 1) ELSE 1 + c
    <3>0. in_description \in Nat /\ in_description > 0 /\ in_description + 1 < UIntSize
      BY <1>1, <1>4, <2>1, <2>2, Counting
    <3>1. in_description > 0 /\ Inc(in_description) = in_description + 1
      BY <3>0, Counting
    <3> QED BY <1>2, <2>1, <2>2, <3>1 DEF InnerDescription
  <2>5. InnerDescriptions(k)' = IF name = "description"
                                  THEN InnerDescriptions(k) \cup {Len(open) + 1}
                                  ELSE InnerDescriptions(k)
    <3>1. (k + 1)..Len(open') = ((k + 1)..Len(open)) \cup {Len(open) + 1}
      BY <1>1, <1>4
    <3>2. \A i \in (k + 1)..Len(open) : i \in 1..Len(open) /\ i # Len(open) + 1
      BY <1>1
    <3>3. \A i \in (k + 1)..Len(open) : IsDescription(open[i])' <=> IsDescription(open[i])
      BY <1>4, <3>2
    <3>4. InnerDescriptions(k)' = {i \in (k + 1)..Len(open') : doc'[open'[i]].name = "description"}
      BY DEF InnerDescriptions, IsDescription
    <3>5. InnerDescriptions(k) = {i \in (k + 1)..Len(open) : doc'[open'[i]].name = "description"}
      BY <3>3 DEF InnerDescriptions, IsDescription
    <3> QED BY <1>4, <3>1, <3>4, <3>5
  <2>6. Cardinality(InnerDescriptions(k)') = IF name = "description" THEN c + 1 ELSE c
    <3>1. Len(open) + 1 \notin InnerDescriptions(k)
      BY <1>1 DEF InnerDescriptions
    <3> QED BY <2>2, <2>5, <3>1, FS_AddElement
  <2>7. IsDescription(open[k])'
    BY <1>1, <1>4, <2>1
  <2>8. in_description' = 1 + Cardinality(InnerDescriptions(k)')
    BY <2>4, <2>6
  <2>9. InDescription(k)'
    BY <1>1, <1>2, <1>5, <2>1, <2>3, <2>7, <2>8 DEF InDescription
  <2> QED BY <1>4, <1>5, <2>9 DEF Live, Sync, Lists
<1>7. CASE InUnknown(k)
  <2>1. skip_depth' = Len(open') - k
    BY <1>1, <1>2, <1>4, <1>7, Counting DEF InUnknown
  <2>2. Balanced'
    BY <1>2, <1>7, Counting DEF InUnknown, Balanced, InnerDescription
  <2>3. ~ IsDescription(open[k])' /\ doc'[open'[k + 1]].cls = "unknown" /\ Len(open') > k
    BY <1>1, <1>4, <1>7 DEF InUnknown
  <2>4. InUnknown(k)'
    BY <1>1, <1>2, <1>5, <1>7, <2>1, <2>2, <2>3 DEF InUnknown
  <2> QED BY <1>4, <1>5, <2>4 DEF Live, Sync, Lists
<1> QED BY <1>0, <1>6, <1>7

(* A tag that is not skipped starts in an element.                         *)
LEMMA GatheredInElement ==
    ASSUME DocShape, NEW k \in 0..Len(open), Live(k),
           NEW name \in Names, NEW parent, StartGathered(name, parent), confused \in BOOLEAN,
           ~ confused'
    PROVE  /\ InElement(k) /\ k = Len(open) /\ ~ InsideNamesake(name, parent)
           /\ ExpatStarts(name, old_schema_name') /\ ~ confused
           /\ old_schema_name' = IF name = "Schema" /\ parent THEN OldName ELSE old_schema_name
<1>1. ~ in_old_schema_placemark /\ skip_depth = 0 /\ ~ InsideNamesake(name, parent) /\ ~ confused
  BY DEF StartGathered
<1>2. InElement(k)
  <2>1. ~ InDescription(k)
    BY <1>1, DocFacts DEF InDescription
  <2>2. ~ InUnknown(k)
    <3>1. k \in Nat /\ Len(open) \in Nat
      BY DocFacts
    <3> QED BY <1>1, <3>1 DEF InUnknown
  <2>3. ~ InOldChild(k)
    BY <1>1 DEF InOldChild
  <2> QED BY <2>1, <2>2, <2>3 DEF Live, Sync
<1> QED BY <1>1, <1>2 DEF InElement, StartGathered, FindOldSchemaParentName

LEMMA KnownLive ==
    ASSUME DocShape, NEW k \in 0..Len(open), Live(k), confused \in BOOLEAN,
           NEW name \in Names, NEW parent \in BOOLEAN, StartKnown(name, parent), ~ confused'
    PROVE  (k + 1) \in 0..Len(open') /\ Live(k + 1)' /\ EndsWell'
<1>1. /\ InElement(k) /\ k = Len(open) /\ ~ InsideNamesake(name, parent)
      /\ ExpatStarts(name, old_schema_name')
      /\ old_schema_name' = IF name = "Schema" /\ parent THEN OldName ELSE old_schema_name
  BY GatheredInElement DEF StartKnown
<1>2. /\ Cls(name, old_schema_name') = "known"
      /\ char_data' = Append(char_data, << >>) /\ stack' = Append(stack, n)
      /\ type' = With(type, n, IF name = old_schema_name' THEN "Placemark" ELSE name)
      /\ added' = added /\ simpledata_vec' = simpledata_vec
      /\ skip_depth' = IF name = "description" THEN 1 ELSE 0
      /\ in_description' = IF name = "description" THEN Inc(InnerDescription(name))
                                                   ELSE in_description
      /\ in_old_schema_placemark' = in_old_schema_placemark
  BY DEF StartKnown
<1>3. /\ Path(k) /\ Tree(k) /\ TypesFit(k) /\ IsList(char_data) /\ IsList(simpledata_vec)
      /\ nesting_depth = Len(open)
  BY DEF Live, Sync, Lists
<1>4. /\ ~ in_old_schema_placemark /\ Len(char_data) = k /\ Balanced
      /\ k > 0 => ~ IsDescription(open[k])
  BY <1>1 DEF InElement
<1>5. k \in Nat /\ Len(open) \in Nat /\ Len(open') = k + 1 /\ k + 1 > 0
  BY <1>1, DocFacts, StartFacts
<1>6. Path(k + 1)'
  BY <1>1, <1>2, <1>3, <1>4, StartPathKnown
<1>7. /\ Tree(k + 1)'
      /\ type'[n] = IF name = old_schema_name' THEN "Placemark" ELSE name
      /\ \A t \in DOMAIN type : type'[t] = type[t]
  BY <1>1, <1>2, <1>3, <1>4, StartCreated
<1>8. Lists' /\ Len(char_data') = k + 1 /\ char_data' # << >>
  BY <1>2, <1>3, <1>4, AppendIsList DEF Lists
<1>9. nesting_depth' = Len(open')
  BY <1>1, <1>3, <1>5 DEF ExpatStarts
<1>10. ASSUME NEW i \in 1..k
       PROVE  open'[i] = open[i] /\ doc'[open[i]] = doc[open[i]] /\ type'[open[i]] = type[open[i]]
  <2>1. i \in 1..Len(open) /\ i \in DOMAIN open
    BY <1>1, <1>5, DocFacts
  <2>2. open[i] \in DOMAIN type
    BY <1>3, <2>1 DEF Tree
  <2> QED BY <1>1, <1>7, <2>1, <2>2, DocFacts, StartFacts
<1>11. open'[k + 1] = n /\ doc'[n].name = name
  BY <1>1, StartFacts
<1>12. TypesFit(k + 1)'
  <2>1. old_schema_name' \in {"", OldName}
    BY <1>1, <1>3 DEF TypesFit
  <2>2. ASSUME NEW i \in 1..k PROVE Fits(open[i])'
    <3>1. Fits(open[i])
      BY <1>3 DEF TypesFit
    <3>2. CASE old_schema_name' = old_schema_name
      BY <1>10, <3>1, <3>2 DEF Fits
    <3>3. CASE old_schema_name' # old_schema_name
      <4>1. name = "Schema" /\ parent /\ old_schema_name' = OldName
        BY <1>1, <3>3
      <4>2. i \in DOMAIN stack /\ stack[i] = open[i]
        BY <1>3, <1>5, StackFacts
      <4>3. doc[open[i]].name = OldName => type[open[i]] = "Placemark"
        BY <1>1, <4>1, <4>2 DEF InsideNamesake
      <4> QED BY <1>10, <3>1, <4>1, <4>3 DEF Fits
    <3> QED BY <3>2, <3>3
  <2>3. Fits(open[k + 1])'
    <3>1. name = "Schema" => name # old_schema_name'
      BY <2>1, NameAssumption
    <3>2. old_schema_name' # "" /\ name = OldName => name = old_schema_name'
      BY <2>1
    <3>3. /\ doc'[open'[k + 1]].name = name
          /\ type'[open'[k + 1]] = IF name = old_schema_name' THEN "Placemark" ELSE name
      BY <1>7, <1>11
    <3> QED BY <3>1, <3>2, <3>3 DEF Fits
  <2>4. \A i \in 1..(k + 1) : i = k + 1 \/ i \in 1..k
    BY <1>5
  <2>5. \A i \in 1..(k + 1) : Fits(open[i])'
    BY <2>2, <2>3, <2>4
  <2>6. k + 1 # 0
    BY <1>5
  <2> QED BY <2>1, <2>5, <2>6 DEF TypesFit
<1>13. ASSUME name = "description" PROVE Sync(k + 1)'
  <2>1. InnerDescriptions(k + 1)' = {}
    BY <1>5 DEF InnerDescriptions
  <2>2. Cardinality(InnerDescriptions(k + 1)') = 0
    BY <2>1, FS_EmptySet
  <2>3. in_description' = 1
    <3>1. CASE in_description = 0
      BY <1>2, <1>13, <3>1, Counting DEF InnerDescription
    <3>2. CASE in_description = UIntSize - 1
      <4>1. in_description > 0 /\ Inc(in_description) = 0
        BY <3>2, Counting
      <4> QED BY <1>2, <1>13, <4>1, Counting DEF InnerDescription
    <3> QED BY <1>4, <3>1, <3>2 DEF Balanced
  <2>4. doc'[open'[k + 1]].name = "description"
    BY <1>11, <1>13
  <2>5. InDescription(k + 1)'
    BY <1>2, <1>4, <1>5, <1>8, <1>13, <2>2, <2>3, <2>4 DEF InDescription, IsDescription
  <2> QED BY <1>5, <1>6, <1>8, <1>9, <2>5 DEF Sync
<1>14. ASSUME name # "description" PROVE Sync(k + 1)'
  <2>1. doc'[open'[k + 1]].name # "description"
    BY <1>11, <1>14
  <2>2. Balanced'
    BY <1>2, <1>4, <1>14 DEF Balanced
  <2>3. InElement(k + 1)'
    BY <1>2, <1>4, <1>5, <1>8, <1>14, <2>1, <2>2 DEF InElement, IsDescription
  <2> QED BY <1>5, <1>6, <1>8, <1>9, <2>3 DEF Sync
<1>15. EndsWell'
  <2>1. stack' # << >> /\ Top(stack') = n /\ open' # << >> /\ Top(open') = n
    <3>1. IsList(stack)
      BY <1>3, StackFacts DEF IsList
    <3>2. stack' # << >> /\ Top(stack') = n
      BY <1>2, <3>1, AppendIsList DEF Top
    <3>3. open' # << >> /\ Top(open') = n
      BY <1>1, <1>5, <1>11, StartFacts DEF Top
    <3> QED BY <3>2, <3>3
  <2>2. Fits(open[k + 1])'
    <3>1. k + 1 \in 1..(k + 1)
      BY <1>5
    <3> QED BY <1>12, <3>1 DEF TypesFit
  <2>3. /\ doc'[n].name = "Schema" => type'[n] = "Schema"
        /\ old_schema_name' # "" /\ doc'[n].name = OldName => type'[n] = "Placemark"
    BY <1>11, <2>2 DEF Fits
  <2>4. old_schema_name' \in {"", OldName}
    BY <1>12 DEF TypesFit
  <2> QED BY <1>8, <2>1, <2>3, <2>4 DEF EndsWell, Fits
<1>16. Sync(k + 1)'
  BY <1>13, <1>14
<1> QED BY <1>5, <1>7, <1>12, <1>15, <1>16 DEF Live

LEMMA OldChildLive ==
    ASSUME DocShape, NEW k \in 0..Len(open), Live(k), confused \in BOOLEAN,
           NEW name \in Names, StartOldChild(name), ~ confused'
    PROVE  Live(k)' /\ k \in 0..Len(open')
<1>1. /\ InElement(k) /\ k = Len(open) /\ ExpatStarts(name, old_schema_name')
      /\ old_schema_name' = old_schema_name
  BY GatheredInElement DEF StartOldChild
<1>2. /\ Cls(name, old_schema_name) = "field"
      /\ char_data' = Append(char_data, << >>) /\ stack' = stack
      /\ in_old_schema_placemark' = TRUE /\ simpledata_vec' # << >> /\ IsList(simpledata_vec')
      /\ skip_depth' = skip_depth /\ in_description' = in_description
      /\ type' = type /\ added' = added
  <2>1. IsList(simpledata_vec)
    BY DEF Live, Sync, Lists
  <2> QED BY <2>1, AppendIsList DEF StartOldChild, tree
<1>3. k > 0
  <2>1. old_schema_name # ""
    BY <1>2 DEF Cls
  <2>2. k # 0
    BY <2>1 DEF Live, TypesFit
  <2> QED BY <2>2, DocFacts
<1>4. /\ Path(k)' /\ TypesFit(k)' /\ Tree(k)' /\ nesting_depth' = Len(open')
      /\ Len(open') = Len(open) + 1
      /\ \A i \in 1..Len(open) : IsDescription(open[i])' <=> IsDescription(open[i])
      /\ doc'[open'[Len(open) + 1]].cls = Cls(name, old_schema_name)
      /\ k \in 0..Len(open')
  BY <1>1, <1>2, <1>3, StartKeepsLive
<1>5. Len(char_data') = k + 1 /\ IsList(char_data')
  BY <1>1, <1>2, AppendIsList DEF Live, Sync, Lists, InElement
<1>6. k \in 1..Len(open) /\ k \in Nat
  BY <1>1, <1>3, DocFacts
<1>7. InOldChild(k)'
  <2>1. Len(open') = k + 1 /\ ~ IsDescription(open[k])' /\ doc'[open'[k + 1]].cls = "field"
    BY <1>1, <1>2, <1>3, <1>4, <1>6 DEF InElement
  <2>2. skip_depth' = 0 /\ Balanced'
    BY <1>1, <1>2 DEF InElement, Balanced
  <2> QED BY <1>2, <1>3, <1>5, <2>1, <2>2 DEF InOldChild
<1>8. Lists'
  BY <1>2, <1>5 DEF Lists
<1> QED BY <1>4, <1>7, <1>8 DEF Live, Sync

LEMMA UnknownLive ==
    ASSUME DocShape, NEW k \in 0..Len(open), Live(k), confused \in BOOLEAN, phase = "run",
           NEW name \in Names, StartUnknown(name), ~ confused'
    PROVE  IF phase' = "run" THEN Live(k)' /\ k \in 0..Len(open')
                             ELSE phase' = "stopping" /\ EndsWell'
<1>1. /\ InElement(k) /\ k = Len(open) /\ ExpatStarts(name, old_schema_name')
      /\ old_schema_name' = old_schema_name
  BY GatheredInElement DEF StartUnknown
<1>2. /\ Cls(name, old_schema_name) = "unknown"
      /\ stack' = stack /\ in_description' = in_description
      /\ type' = type /\ added' = added /\ simpledata_vec' = simpledata_vec
  BY DEF StartUnknown, tree
<1>3. ~ in_old_schema_placemark' /\ skip_depth = 0 /\ Balanced'
  <2>1. ~ in_old_schema_placemark /\ skip_depth = 0 /\ Balanced
    BY <1>1 DEF InElement
  <2> QED BY <1>2, <2>1 DEF Balanced, StartUnknown
<1>4. CASE stack = << >>
  BY <1>2, <1>3, <1>4 DEF StartUnknown, EndsWell
<1>5. CASE stack # << >>
  <2>1. /\ char_data' = Append(char_data, <<StartTag(n)>>) /\ skip_depth' = 1 /\ phase' = phase
    BY <1>5 DEF StartUnknown
  <2>2. k > 0 /\ k \in 1..Len(open) /\ k \in Nat
    BY <1>5, LiveFacts
  <2>3. /\ Path(k)' /\ TypesFit(k)' /\ Tree(k)' /\ nesting_depth' = Len(open')
        /\ Len(open') = Len(open) + 1
        /\ \A i \in 1..Len(open) : IsDescription(open[i])' <=> IsDescription(open[i])
        /\ doc'[open'[Len(open) + 1]].cls = Cls(name, old_schema_name)
        /\ k \in 0..Len(open')
    BY <1>1, <1>2, <2>2, StartKeepsLive
  <2>4. Len(char_data') = k + 1 /\ IsList(char_data')
    BY <1>1, <2>1, AppendIsList DEF Live, Sync, Lists, InElement
  <2>5. Lists'
    BY <1>2, <2>4 DEF Lists, Live, Sync
  <2>6. InUnknown(k)'
    <3>1. Len(open') = k + 1 /\ ~ IsDescription(open[k])' /\ doc'[open'[k + 1]].cls = "unknown"
      BY <1>1, <1>2, <2>2, <2>3 DEF InElement
    <3>2. skip_depth' = Len(open') - k /\ Len(open') > k
      BY <2>1, <2>2, <3>1
    <3> QED BY <1>3, <2>2, <2>4, <3>1, <3>2 DEF InUnknown
  <2> QED BY <2>1, <2>3, <2>5, <2>6 DEF Live, Sync
<1> QED BY <1>4, <1>5

LEMMA StartIInv ==
    ASSUME IInv, NEW name \in Names, NEW parent \in BOOLEAN, parent => name = "Schema",
           Start(name, parent)
    PROVE  IInv'
<1>1. phase = "run" /\ \E old : ExpatStarts(name, old)
  BY DEF Start, StartTooDeep, StartSkipped, StartKnown, StartOldChild, StartUnknown,
         StartGathered, ExpatStarts
<1>2. DocShape'
  BY <1>1, StartDocShape DEF IInv
<1>3. confused' \in BOOLEAN /\ (confused => confused') /\ phase' \in {"run", "stopping"}
  <2>1. CASE StartTooDeep(name)
    BY <2>1 DEF StartTooDeep, IInv
  <2>2. CASE StartSkipped(name)
    BY <1>1, <2>2 DEF StartSkipped, IInv
  <2>3. CASE StartKnown(name, parent)
    BY <1>1, <2>3 DEF StartKnown, StartGathered, IInv
  <2>4. CASE StartOldChild(name)
    BY <1>1, <2>4 DEF StartOldChild, StartGathered, IInv
  <2>5. CASE StartUnknown(name)
    BY <1>1, <2>5 DEF StartUnknown, StartGathered, IInv
  <2> QED BY <2>1, <2>2, <2>3, <2>4, <2>5 DEF Start
<1>4. ASSUME ~ confused'
      PROVE  /\ phase' = "run" => \E k \in 0..Len(open') : Live(k)'
             /\ phase' = "stopping" => EndsWell'
  <2>1. DocShape /\ confused \in BOOLEAN
    BY DEF IInv
  <2>2. PICK k \in 0..Len(open) : Live(k)
    BY <1>1, <1>3, <1>4 DEF IInv
  <2>3. CASE StartTooDeep(name)
    BY <1>4, <2>1, <2>2, <2>3, TooDeepEndsWell
  <2>4. CASE StartSkipped(name)
    <3>1. Live(k)' /\ phase' = phase
      BY <2>1, <2>2, <2>4, SkippedLive DEF StartSkipped
    <3>2. k \in 0..Len(open')
      BY <2>1, <2>4, DocFacts, StartFacts DEF StartSkipped
    <3> QED BY <1>1, <3>1, <3>2
  <2>5. CASE StartKnown(name, parent)
    BY <1>4, <2>1, <2>2, <2>5, KnownLive
  <2>6. CASE StartOldChild(name)
    <3>1. Live(k)' /\ k \in 0..Len(open') /\ phase' = phase
      BY <1>4, <2>1, <2>2, <2>6, OldChildLive DEF StartOldChild
    <3> QED BY <1>1, <3>1
  <2>7. CASE StartUnknown(name)
    BY <1>1, <1>4, <2>1, <2>2, <2>7, UnknownLive
  <2> QED BY <2>3, <2>4, <2>5, <2>6, <2>7 DEF Start
<1> QED BY <1>2, <1>3, <1>4 DEF IInv

-----------------------------------------------------------------------------
(* EndElement, from a state in which all is well.                          *)
LEMMA EndKeepsLive ==
    ASSUME DocShape, NEW k \in 0..Len(open), Live(k), k > 0, k < Len(open), ExpatEnds,
           type' = type, added' = added, stack' = stack, old_schema_name' = old_schema_name
    PROVE  /\ Path(k)' /\ TypesFit(k)' /\ Tree(k)' /\ nesting_depth' = Len(open')
           /\ Len(open') = Len(open) - 1 /\ k \in 0..Len(open')
           /\ \A i \in 1..(Len(open) - 1) : IsDescription(open[i])' <=> IsDescription(open[i])
           /\ \A i \in 1..(Len(open) - 1) : doc'[open'[i]].cls = doc[open[i]].cls
<1> USE DocFacts, EndFacts
<1>1. Path(k)'
  BY EndPath DEF Live, Sync
<1>2. Tree(k)'
  BY EndUncreated DEF Live
<1>3. ASSUME NEW i \in 1..(Len(open) - 1)
      PROVE  /\ open'[i] = open[i] /\ doc'[open[i]] = doc[open[i]]
  OBVIOUS
<1>4. TypesFit(k)'
  <2>1. TypesFit(k)
    BY DEF Live
  <2>2. ASSUME NEW i \in 1..k PROVE Fits(open[i])'
    <3>1. i \in 1..(Len(open) - 1)
      OBVIOUS
    <3>2. open'[i] = open[i] /\ doc'[open[i]] = doc[open[i]]
      BY <1>3, <3>1
    <3>3. Fits(open[i])
      BY <2>1 DEF TypesFit
    <3> QED BY <3>2, <3>3 DEF Fits
  <2> QED BY <2>1, <2>2 DEF TypesFit
<1>5. nesting_depth' = Len(open')
  BY DEF Live, Sync
<1>6. k \in 0..Len(open')
  OBVIOUS
<1>7. \A i \in 1..(Len(open) - 1) : IsDescription(open[i])' <=> IsDescription(open[i])
  BY <1>3 DEF IsDescription
<1>8. \A i \in 1..(Len(open) - 1) : doc'[open'[i]].cls = doc[open[i]].cls
  BY <1>3
<1> QED BY <1>1, <1>2, <1>4, <1>5, <1>6, <1>7, <1>8

(* The only alternative of EndElement that is taken in each of the modes.  *)
Ended ==
  /\ ExpatEnds /\ in_description' = EndedDescription
  /\ old_schema_name' = old_schema_name /\ phase = "run"

LEMMA InnerEndsHow ==
    ASSUME DocShape, NEW k \in 0..Len(open), Live(k), InDescription(k), k < Len(open),
           Ended, EndSkipped \/ EndStopped \/ EndOldChild \/ EndKnown
    PROVE  LET c == Cardinality(InnerDescriptions(k)) IN
           /\ Len(open) \in InnerDescriptions(k) <=> endName = "description"
           /\ endName = "description" => c > 0
           /\ EndedDescription = IF endName = "description" THEN c ELSE 1 + c
           /\ DescriptionSkip = skip_depth /\ skip_depth \in Nat /\ skip_depth > 1
           /\ EndSkipped
<1> DEFINE c == Cardinality(InnerDescriptions(k))
<1>1. /\ IsDescription(open[k]) /\ ~ in_old_schema_placemark /\ k > 0
      /\ skip_depth = 1 + (Len(open) - k) /\ Len(char_data) = k
      /\ in_description = 1 + c
  BY DEF InDescription
<1>2. /\ k \in Nat /\ Len(open) \in Nat /\ ExpatEnds
      /\ stack # << >> /\ char_data # << >>
  BY <1>1, LiveFacts DEF Ended
<1>3. c \in Nat /\ c <= Len(open) - k /\ IsFiniteSet(InnerDescriptions(k))
  BY <1>2, InnerIsFinite
<1>4. Len(open) <= MaxTags
  BY BoundAssumption, DocFacts DEF DocShape, OpenIsPath
<1>5. endName = doc[open[Len(open)]].name
  BY <1>2, EndFacts
<1>6. Len(open) \in InnerDescriptions(k) <=> endName = "description"
  BY <1>2, <1>5 DEF InnerDescriptions, IsDescription
<1>7. endName = "description" => c > 0
  <2>1. c = 0 => InnerDescriptions(k) = {}
    BY <1>3, FS_EmptySet
  <2> QED BY <1>3, <1>6, <2>1
<1>8. EndedDescription = IF endName = "description" THEN c ELSE 1 + c
  <2>1. endName = "description" => Dec(in_description) = c
    <3>1. in_description \in Nat /\ in_description > 0 /\ in_description < UIntSize
      <4>1. c <= MaxTags - 1 /\ MaxTags \in Nat /\ UIntSize \in Nat /\ UIntSize > 2 * (MaxTags + 1)
        BY <1>1, <1>2, <1>3, <1>4, Counting
      <4> HIDE DEF c
      <4> QED BY ONLY <4>1, <1>1, <1>3
    <3> QED BY <1>1, <1>3, <3>1, Counting
  <2> QED BY <1>1, <2>1 DEF EndedDescription
<1>9. DescriptionSkip = skip_depth /\ skip_depth \in Nat /\ skip_depth > 1
  BY <1>1, <1>2, <1>3, <1>7, <1>8 DEF DescriptionSkip
<1>10. EndSkipped
  <2>1. DescriptionSkip # 0
    BY <1>9
  <2>2. ~ EndStopped /\ ~ EndOldChild
    BY <2>1 DEF EndStopped, EndOldChild
  <2>3. ~ EndKnown
    BY <2>1, Zenon DEF EndKnown
  <2> QED BY <2>2, <2>3
<1> QED BY <1>6, <1>7, <1>8, <1>9, <1>10

LEMMA InnerEndsLive ==
    ASSUME DocShape, NEW k \in 0..Len(open), Live(k), InDescription(k), k < Len(open),
           Ended, EndSkipped \/ EndStopped \/ EndOldChild \/ EndKnown
    PROVE  Live(k)' /\ k \in 0..Len(open') /\ phase' = "run"
<1> DEFINE c == Cardinality(InnerDescriptions(k))
<1>1. /\ IsDescription(open[k]) /\ ~ in_old_schema_placemark /\ k > 0
      /\ skip_depth = 1 + (Len(open) - k) /\ Len(char_data) = k
      /\ in_description = 1 + c
  BY DEF InDescription
<1>2. /\ k \in Nat /\ Len(open) \in Nat /\ ExpatEnds
      /\ stack # << >> /\ char_data # << >>
  BY <1>1, LiveFacts DEF Ended
<1>3. c \in Nat /\ c <= Len(open) - k /\ IsFiniteSet(InnerDescriptions(k))
  BY <1>2, InnerIsFinite
<1>4. Len(open) <= MaxTags
  BY BoundAssumption, DocFacts DEF DocShape, OpenIsPath
<1>6. /\ Len(open) \in InnerDescriptions(k) <=> endName = "description"
      /\ endName = "description" => c > 0
  BY InnerEndsHow
<1>8. EndedDescription = IF endName = "description" THEN c ELSE 1 + c
  BY InnerEndsHow
<1>9. DescriptionSkip = skip_depth /\ skip_depth \in Nat /\ skip_depth > 1 /\ EndSkipped
  BY InnerEndsHow
<1>11. /\ char_data' = AppendTop(char_data, EndTag(ending)) /\ skip_depth' = Dec(skip_depth)
       /\ phase' = AfterEnd /\ type' = type /\ added' = added /\ stack' = stack
       /\ in_old_schema_placemark' = in_old_schema_placemark
       /\ simpledata_vec' = simpledata_vec
  BY <1>2, <1>9 DEF EndSkipped, tree
<1>12. phase' = "run"
  BY <1>1, <1>2, <1>11 DEF AfterEnd, Ended
<1>13. /\ Path(k)' /\ TypesFit(k)' /\ Tree(k)' /\ nesting_depth' = Len(open')
       /\ Len(open') = Len(open) - 1 /\ k \in 0..Len(open')
       /\ \A i \in 1..(Len(open) - 1) : IsDescription(open[i])' <=> IsDescription(open[i])
  BY <1>1, <1>2, <1>11, EndKeepsLive DEF Ended
<1>14. skip_depth' = 1 + (Len(open') - k)
  <2>1. skip_depth < UIntSize
    BY <1>1, <1>2, <1>4, Counting
  <2> QED BY <1>1, <1>2, <1>9, <1>11, <1>13, <2>1, Counting
<1>15. InnerDescriptions(k)' = InnerDescriptions(k) \ {Len(open)}
  <2>1. (k + 1)..Len(open') = ((k + 1)..Len(open)) \ {Len(open)}
    BY <1>2, <1>13
  <2>2. \A i \in ((k + 1)..Len(open)) \ {Len(open)} : i \in 1..(Len(open) - 1)
    BY <1>2
  <2>3. \A i \in ((k + 1)..Len(open)) \ {Len(open)} :
            IsDescription(open[i])' <=> IsDescription(open[i])
    BY <1>13, <2>2
  <2>4. InnerDescriptions(k)' = {i \in (k + 1)..Len(open') : doc'[open'[i]].name = "description"}
    BY DEF InnerDescriptions, IsDescription
  <2>5. InnerDescriptions(k) \ {Len(open)} =
          {i \in ((k + 1)..Len(open)) \ {Len(open)} : doc'[open'[i]].name = "description"}
    BY <2>3 DEF InnerDescriptions, IsDescription
  <2> QED BY <2>1, <2>4, <2>5
<1>16. Cardinality(InnerDescriptions(k)') = IF endName = "description" THEN c - 1 ELSE c
  <2>1. CASE endName = "description"
    BY <1>3, <1>6, <1>15, <2>1, FS_RemoveElement
  <2>2. CASE endName # "description"
    <3>1. InnerDescriptions(k)' = InnerDescriptions(k)
      BY <1>6, <1>15, <2>2
    <3> QED BY <2>2, <3>1
  <2> QED BY <2>1, <2>2
<1>17. in_description' = 1 + Cardinality(InnerDescriptions(k)')
  BY <1>3, <1>6, <1>8, <1>16 DEF Ended
<1>18. IsList(char_data') /\ Len(char_data') = k /\ Lists'
  <2>1. IsList(char_data) /\ IsList(simpledata_vec)
    BY DEF Live, Sync, Lists
  <2> QED BY <1>1, <1>2, <1>11, <2>1, TopIsList DEF Lists
<1>19. IsDescription(open[k])'
  <2>1. k \in 1..(Len(open) - 1)
    BY <1>1, <1>2
  <2> QED BY <1>1, <1>13, <2>1
<1>20. InDescription(k)'
  BY <1>1, <1>11, <1>14, <1>17, <1>18, <1>19 DEF InDescription
<1> QED BY <1>12, <1>13, <1>18, <1>20 DEF Live, Sync

LEMMA UnknownEndsHow ==
    ASSUME DocShape, NEW k \in 0..Len(open), Live(k), InUnknown(k), ~ DescriptionConfused,
           Ended, EndSkipped \/ EndStopped \/ EndOldChild \/ EndKnown
    PROVE  /\ EndedDescription \in {0, UIntSize - 1}
           /\ DescriptionSkip = skip_depth /\ skip_depth \in Nat /\ skip_depth > 0
           /\ EndSkipped
<1>1. /\ k > 0 /\ Len(open) > k /\ ~ IsDescription(open[k])
      /\ doc[open[k + 1]].cls = "unknown" /\ ~ in_old_schema_placemark
      /\ skip_depth = Len(open) - k /\ Len(char_data) = k + 1
      /\ Balanced
  BY DEF InUnknown
<1>2. /\ k \in Nat /\ Len(open) \in Nat /\ ExpatEnds
      /\ stack # << >> /\ char_data # << >>
  BY <1>1, LiveFacts DEF Ended
<1>3. Len(open) <= MaxTags
  BY BoundAssumption, DocFacts DEF DocShape, OpenIsPath
<1>4. EndedDescription \in {0, UIntSize - 1} /\ (endName = "description" => EndedDescription # 0)
  <2>1. CASE endName # "description"
    BY <1>1, <2>1 DEF EndedDescription, Balanced
  <2>2. CASE endName = "description" /\ in_description = 0
    BY <2>2, Counting DEF EndedDescription
  <2>3. CASE endName = "description" /\ in_description = UIntSize - 1
    <3>1. EndedDescription = Dec(UIntSize - 1)
      BY <2>3 DEF EndedDescription
    <3>2. Dec(UIntSize - 1) = UIntSize - 2 /\ UIntSize - 2 >= 0 /\ UIntSize \in Nat
      <4>1. UIntSize \in Nat /\ UIntSize - 1 \in Nat /\ UIntSize - 1 > 0 /\ UIntSize - 1 < UIntSize
        BY Counting
      <4>2. Dec(UIntSize - 1) = (UIntSize - 1) - 1
        BY <4>1, Counting
      <4> QED BY <4>1, <4>2
    <3>3. UIntSize \div 2 <= UIntSize - 2 /\ UIntSize \div 2 \in Int
      <4>1. UIntSize \in Nat /\ UIntSize >= 4
        <5>1. MaxTags > 0
          BY <1>1, <1>2, <1>3, Counting
        <5> QED BY <5>1, Counting
      <4> QED BY ONLY <4>1
    <3>4. EndedDescription \in (UIntSize \div 2)..(UIntSize - 2)
      BY <3>1, <3>2, <3>3
    <3> QED BY <3>4 DEF DescriptionConfused
  <2> QED BY <1>1, <2>1, <2>2, <2>3 DEF Balanced
<1>5. DescriptionSkip = skip_depth /\ skip_depth \in Nat /\ skip_depth > 0
  BY <1>1, <1>2, <1>4 DEF DescriptionSkip
<1>6. EndSkipped
  <2>1. DescriptionSkip # 0
    BY <1>5
  <2>2. ~ EndStopped /\ ~ EndOldChild
    BY <2>1 DEF EndStopped, EndOldChild
  <2>3. ~ EndKnown
    BY <2>1, Zenon DEF EndKnown
  <2> QED BY <2>2, <2>3
<1> QED BY <1>4, <1>5, <1>6

LEMMA UnknownEndsLive ==
    ASSUME DocShape, NEW k \in 0..Len(open), Live(k), InUnknown(k), ~ DescriptionConfused,
           Ended, EndSkipped \/ EndStopped \/ EndOldChild \/ EndKnown
    PROVE  Live(k)' /\ k \in 0..Len(open') /\ phase' = "run"
<1>1. /\ k > 0 /\ Len(open) > k /\ ~ IsDescription(open[k])
      /\ doc[open[k + 1]].cls = "unknown" /\ ~ in_old_schema_placemark
      /\ skip_depth = Len(open) - k /\ Len(char_data) = k + 1
      /\ Balanced
  BY DEF InUnknown
<1>2. /\ k \in Nat /\ Len(open) \in Nat /\ ExpatEnds
      /\ stack # << >> /\ char_data # << >>
  BY <1>1, LiveFacts DEF Ended
<1>3. Len(open) <= MaxTags
  BY BoundAssumption, DocFacts DEF DocShape, OpenIsPath
<1>4. EndedDescription \in {0, UIntSize - 1}
  BY UnknownEndsHow
<1>5. DescriptionSkip = skip_depth /\ skip_depth \in Nat /\ skip_depth > 0 /\ EndSkipped
  BY UnknownEndsHow
<1>7. /\ phase' = AfterEnd /\ type' = type /\ added' = added /\ stack' = stack
      /\ in_old_schema_placemark' = in_old_schema_placemark
      /\ simpledata_vec' = simpledata_vec
      /\ skip_depth > 1 => /\ char_data' = AppendTop(char_data, EndTag(ending))
                           /\ skip_depth' = Dec(skip_depth)
      /\ skip_depth = 1 => char_data' = Pop(char_data) /\ skip_depth' = 0
  BY <1>2, <1>5 DEF EndSkipped, tree
<1>8. phase' = "run"
  BY <1>1, <1>2, <1>7 DEF AfterEnd, Ended
<1>9. /\ Path(k)' /\ TypesFit(k)' /\ Tree(k)' /\ nesting_depth' = Len(open')
      /\ Len(open') = Len(open) - 1 /\ k \in 0..Len(open')
      /\ \A i \in 1..(Len(open) - 1) : IsDescription(open[i])' <=> IsDescription(open[i])
      /\ \A i \in 1..(Len(open) - 1) : doc'[open'[i]].cls = doc[open[i]].cls
  BY <1>1, <1>2, <1>7, EndKeepsLive DEF Ended
<1>10. Balanced'
  BY <1>4 DEF Balanced, Ended
<1>11. ~ IsDescription(open[k])'
  <2>1. k \in 1..(Len(open) - 1)
    BY <1>1, <1>2
  <2> QED BY <1>1, <1>9, <2>1
<1>12. IsList(char_data) /\ IsList(simpledata_vec)
  BY DEF Live, Sync, Lists
<1>13. ASSUME skip_depth > 1 PROVE InUnknown(k)' /\ Lists'
  <2>1. char_data' = AppendTop(char_data, EndTag(ending)) /\ skip_depth' = skip_depth - 1
    <3>1. skip_depth \in Nat /\ skip_depth < UIntSize
      BY <1>1, <1>2, <1>3, <1>5, Counting
    <3> QED BY <1>7, <1>13, <3>1, Counting
  <2>2. IsList(char_data') /\ Len(char_data') = k + 1
    BY <1>1, <1>2, <1>12, <2>1, TopIsList
  <2>3. Len(open') > k /\ skip_depth' = Len(open') - k
    BY <1>1, <1>2, <1>9, <1>13, <2>1
  <2>4. doc'[open'[k + 1]].cls = "unknown"
    <3>1. k + 1 \in 1..(Len(open) - 1)
      BY <1>1, <1>2, <1>13
    <3> QED BY <1>1, <1>9, <3>1
  <2> QED BY <1>1, <1>7, <1>10, <1>11, <1>12, <2>2, <2>3, <2>4 DEF InUnknown, Lists
<1>14. ASSUME skip_depth = 1 PROVE InElement(k)' /\ Lists'
  <2>1. char_data' = Pop(char_data) /\ skip_depth' = 0
    BY <1>7, <1>14
  <2>2. IsList(char_data') /\ Len(char_data') = k
    BY <1>1, <1>2, <1>12, <2>1, PopIsList
  <2>3. Len(open') = k
    BY <1>1, <1>2, <1>9, <1>14
  <2> QED BY <1>1, <1>7, <1>10, <1>11, <1>12, <2>1, <2>2, <2>3 DEF InElement, Lists
<1>15. skip_depth > 1 \/ skip_depth = 1
  BY <1>5
<1> QED BY <1>8, <1>9, <1>13, <1>14, <1>15 DEF Live, Sync

LEMMA OldChildEndsHow ==
    ASSUME DocShape, NEW k \in 0..Len(open), Live(k), InOldChild(k),
           Ended, EndSkipped \/ EndStopped \/ EndOldChild \/ EndKnown
    PROVE  EndedDescription = in_description /\ EndOldChild
<1>1. /\ k > 0 /\ Len(open) = k + 1 /\ ~ IsDescription(open[k])
      /\ doc[open[k + 1]].cls = "field" /\ in_old_schema_placemark
      /\ skip_depth = 0 /\ Len(char_data) = k + 1 /\ simpledata_vec # << >>
      /\ Balanced
  BY DEF InOldChild
<1>2. /\ k \in Nat /\ Len(open) \in Nat /\ ExpatEnds
      /\ stack # << >> /\ char_data # << >>
  BY <1>1, LiveFacts DEF Ended
<1>3. endName # "description"
  <2>1. open[k + 1] \in Tags
    BY <1>1, <1>2, DocFacts DEF Tags
  <2>2. ~ IsDescription(open[k + 1])
    BY <1>1, <2>1 DEF DocShape, TagIsPlaced
  <2> QED BY <1>1, <1>2, <2>2, EndFacts DEF IsDescription
<1>4. DescriptionSkip = 0 /\ EndedDescription = in_description
  BY <1>1, <1>3 DEF DescriptionSkip, EndedDescription
<1>5. EndOldChild
  <2>1. ~ (DescriptionSkip > 0)
    BY <1>4
  <2>2. ~ EndSkipped
    BY <2>1 DEF EndSkipped
  <2>3. ~ EndStopped
    BY <1>2 DEF EndStopped
  <2>4. ~ EndKnown
    BY <1>1, Zenon DEF EndKnown
  <2> QED BY <2>2, <2>3, <2>4
<1> QED BY <1>4, <1>5

LEMMA OldChildEndsLive ==
    ASSUME DocShape, NEW k \in 0..Len(open), Live(k), InOldChild(k),
           Ended, EndSkipped \/ EndStopped \/ EndOldChild \/ EndKnown
    PROVE  Live(k)' /\ k \in 0..Len(open') /\ phase' = "run"
<1>1. /\ k > 0 /\ Len(open) = k + 1 /\ ~ IsDescription(open[k])
      /\ doc[open[k + 1]].cls = "field" /\ in_old_schema_placemark
      /\ skip_depth = 0 /\ Len(char_data) = k + 1 /\ simpledata_vec # << >>
      /\ Balanced
  BY DEF InOldChild
<1>2. /\ k \in Nat /\ Len(open) \in Nat /\ ExpatEnds
      /\ stack # << >> /\ char_data # << >>
  BY <1>1, LiveFacts DEF Ended
<1>4. EndedDescription = in_description /\ EndOldChild
  BY OldChildEndsHow
<1>6. /\ phase' = AfterEnd /\ type' = type /\ added' = added /\ stack' = stack
      /\ in_old_schema_placemark' = AfterOldChild
      /\ simpledata_vec' = [simpledata_vec EXCEPT ![Len(simpledata_vec)].text = Top(char_data)]
      /\ char_data' = Pop(char_data) /\ skip_depth' = 0
  BY <1>4 DEF EndOldChild, tree
<1>7. phase' = "run" /\ ~ in_old_schema_placemark'
  BY <1>1, <1>2, <1>6 DEF AfterEnd, AfterOldChild, Ended
<1>8. /\ Path(k)' /\ TypesFit(k)' /\ Tree(k)' /\ nesting_depth' = Len(open')
      /\ Len(open') = Len(open) - 1 /\ k \in 0..Len(open')
      /\ \A i \in 1..(Len(open) - 1) : IsDescription(open[i])' <=> IsDescription(open[i])
  BY <1>1, <1>2, <1>6, EndKeepsLive DEF Ended
<1>9. ~ IsDescription(open[k])' /\ Len(open') = k
  <2>1. k \in 1..(Len(open) - 1)
    BY <1>1, <1>2
  <2> QED BY <1>1, <1>2, <1>8, <2>1
<1>10. Balanced'
  BY <1>1, <1>4 DEF Balanced, Ended
<1>11. IsList(char_data) /\ IsList(simpledata_vec)
  BY DEF Live, Sync, Lists
<1>12. IsList(char_data') /\ Len(char_data') = k
  BY <1>1, <1>2, <1>6, <1>11, PopIsList
<1>13. Lists'
  BY <1>6, <1>11, <1>12, SetIsList DEF Lists
<1>14. InElement(k)'
  BY <1>6, <1>7, <1>9, <1>10, <1>12 DEF InElement
<1> QED BY <1>7, <1>8, <1>13, <1>14 DEF Live, Sync

LEMMA KnownEndsHow ==
    ASSUME DocShape, NEW k \in 0..Len(open), Live(k), InElement(k) \/ InDescription(k),
           k = Len(open), Ended, EndSkipped \/ EndStopped \/ EndOldChild \/ EndKnown
    PROVE  /\ EndedDescription \in {0, UIntSize - 1} /\ EndKnown
           /\ old_schema_name # "" /\ endName = "Schema" => type[open[k]] = "Schema"
           /\ old_schema_name # "" /\ endName = old_schema_name => type[open[k]] = "Placemark"
<1>1. /\ k \in Nat /\ Len(open) \in Nat /\ ExpatEnds /\ k > 0
      /\ stack # << >> /\ char_data # << >> /\ Top(stack) = open[k] /\ Len(stack) = k
  <2>1. ExpatEnds /\ Len(open) > 0
    BY EndFacts DEF Ended
  <2> QED BY <2>1, LiveFacts
<1>2. endName = doc[open[k]].name /\ ~ in_old_schema_placemark /\ Len(char_data) = k
  BY <1>1, EndFacts DEF InElement, InDescription
<1>3. DescriptionSkip = 0 /\ EndedDescription \in {0, UIntSize - 1}
  <2>1. CASE InElement(k)
    <3>1. skip_depth = 0 /\ endName # "description" /\ in_description \in {0, UIntSize - 1}
      BY <1>1, <1>2, <2>1 DEF InElement, IsDescription, Balanced
    <3> QED BY <3>1 DEF DescriptionSkip, EndedDescription
  <2>2. CASE InDescription(k)
    <3>1. endName = "description" /\ skip_depth = 1
          /\ in_description = 1 + Cardinality(InnerDescriptions(k))
      BY <1>1, <1>2, <2>2 DEF InDescription, IsDescription
    <3>2. InnerDescriptions(k) = {}
      BY <1>1 DEF InnerDescriptions
    <3>3. in_description = 1
      BY <3>1, <3>2, FS_EmptySet
    <3>4. Dec(1) = 0
      BY Counting
    <3> QED BY <3>1, <3>3, <3>4 DEF DescriptionSkip, EndedDescription
  <2> QED BY <2>1, <2>2
<1>4. EndKnown
  <2>1. ~ (DescriptionSkip > 0)
    BY <1>3
  <2>2. ~ EndSkipped
    BY <2>1 DEF EndSkipped
  <2>3. ~ EndStopped
    BY <1>1 DEF EndStopped
  <2>4. ~ EndOldChild
    BY <1>2 DEF EndOldChild
  <2> QED BY <2>2, <2>3, <2>4
<1>5. /\ old_schema_name # "" /\ endName = "Schema" => type[open[k]] = "Schema"
      /\ old_schema_name # "" /\ endName = old_schema_name => type[open[k]] = "Placemark"
  <2>1. k \in 1..k
    BY <1>1
  <2>2. Fits(open[k]) /\ old_schema_name \in {"", OldName}
    BY <2>1 DEF Live, TypesFit
  <2> QED BY <1>2, <2>2 DEF Fits
<1> QED BY <1>3, <1>4, <1>5

LEMMA KnownEndsWell ==
    ASSUME DocShape, NEW k \in 0..Len(open), Live(k), InElement(k) \/ InDescription(k),
           k = Len(open), Ended, EndSkipped \/ EndStopped \/ EndOldChild \/ EndKnown
    PROVE  /\ phase' = "run" => k > 1 /\ (k - 1) \in 0..Len(open') /\ Live(k - 1)'
           /\ phase' \in {"run", "stopped", "done"}
           /\ phase' = "done" => Finished'
<1>1. /\ k \in Nat /\ Len(open) \in Nat /\ ExpatEnds /\ k > 0
      /\ stack # << >> /\ char_data # << >> /\ Top(stack) = open[k] /\ Len(stack) = k
  <2>1. ExpatEnds /\ Len(open) > 0
    BY EndFacts DEF Ended
  <2> QED BY <2>1, LiveFacts
<1>2. endName = doc[open[k]].name /\ ~ in_old_schema_placemark /\ Len(char_data) = k
  BY <1>1, EndFacts DEF InElement, InDescription
<1>3. EndedDescription \in {0, UIntSize - 1} /\ EndKnown
  BY KnownEndsHow
<1>5. /\ old_schema_name # "" /\ endName = "Schema" => type[open[k]] = "Schema"
      /\ old_schema_name # "" /\ endName = old_schema_name => type[open[k]] = "Placemark"
  BY KnownEndsHow
<1>6. /\ char_data' = Pop(char_data)
      /\ simpledata_vec' \in {simpledata_vec, Adopted(open[k])}
      /\ IF k >= 2
           THEN /\ stack' = Pop(stack)
                /\ added' = added \cup Handed(stack[k - 1], open[k])
                /\ phase' = IF type[open[k]] \in Unwanted THEN "stopped" ELSE AfterEnd
           ELSE stack' = stack /\ added' = added /\ phase' = AfterEnd
      /\ skip_depth' = 0 /\ type' = type /\ in_old_schema_placemark' = in_old_schema_placemark
  BY <1>1, <1>3, <1>5 DEF EndKnown
<1>7. /\ k >= 2 => phase' \in {"run", "stopped"}
      /\ k < 2 => phase' = "done"
  BY <1>1, <1>6 DEF AfterEnd, Ended
<1>8. Tree(k - 1)'
  <2>1. k >= 2 => stack[k - 1] = open[k - 1]
    <3>1. k >= 2 => k - 1 \in 1..k
      BY <1>1
    <3> QED BY <3>1, StackFacts DEF Live, Sync
  <2>2. added' = IF k >= 2 THEN added \cup Handed(open[k - 1], open[k]) ELSE added
    BY <1>6, <2>1
  <2> QED BY <1>1, <1>6, <2>2, EndCreated DEF Live
<1>9. ASSUME k < 2 PROVE Finished'
  <2>1. k = 1
    BY <1>1, <1>9
  <2>2. open[1] = 1
    BY <1>1, DocFacts DEF DocShape, OpenIsPath
  <2>3. stack' = stack /\ Len(stack) = 1 /\ stack[1] = 1
    BY <1>1, <1>6, <2>1, <2>2, StackFacts DEF Live, Sync
  <2>4. phase' = "done"
    BY <1>7, <1>9
  <2>5. Result' = 1
    BY <2>3, <2>4 DEF Result, PopRoot
  <2> QED BY <1>8, <2>5 DEF Finished, Tree
<1>10. ASSUME k >= 2 PROVE (k - 1) \in 0..Len(open') /\ Live(k - 1)'
  <2>1. Path(k - 1)'
    BY <1>1, <1>6, <1>10, EndPathKnown DEF Live, Sync
  <2>2. /\ Len(open') = k - 1 /\ k - 1 \in Nat /\ k - 1 > 0 /\ doc' = doc
        /\ \A i \in 1..(k - 1) : open'[i] = open[i]
        /\ nesting_depth' = nesting_depth - 1
    BY <1>1, <1>10, EndFacts
  <2>3. nesting_depth' = Len(open')
    BY <1>1, <2>2 DEF Live, Sync
  <2>4. Lists' /\ Len(char_data') = k - 1
    <3>1. IsList(char_data) /\ IsList(simpledata_vec)
      BY DEF Live, Sync, Lists
    <3>2. IsList(char_data') /\ Len(char_data') = k - 1
      BY <1>1, <1>2, <1>6, <3>1, PopIsList
    <3>3. IsList(simpledata_vec')
      BY <1>6, <3>1, AdoptedIsList
    <3> QED BY <3>2, <3>3 DEF Lists
  <2>5. Balanced'
    BY <1>3 DEF Balanced, Ended
  <2>6. ~ IsDescription(open[k - 1])'
    <3>1. k - 1 \in 1..k /\ k - 1 < k
      BY <1>1, <1>10
    <3>2. ~ IsDescription(open[k - 1])
      BY <3>1 DEF Live, Sync, Path
    <3> QED BY <2>2, <3>2 DEF IsDescription
  <2>7. InElement(k - 1)'
    BY <1>2, <1>6, <2>2, <2>4, <2>5, <2>6 DEF InElement
  <2>8. TypesFit(k - 1)'
    <3>1. TypesFit(k) /\ old_schema_name' = old_schema_name
      BY DEF Live, Ended
    <3>2. ASSUME NEW i \in 1..(k - 1) PROVE Fits(open[i])'
      <4>1. i \in 1..k /\ open'[i] = open[i]
        BY <1>1, <2>2
      <4>2. Fits(open[i])
        BY <3>1, <4>1 DEF TypesFit
      <4> QED BY <1>6, <2>2, <3>1, <4>1, <4>2 DEF Fits
    <3>3. k - 1 # 0
      BY <2>2
    <3> QED BY <3>1, <3>2, <3>3 DEF TypesFit
  <2>9. Sync(k - 1)'
    BY <2>1, <2>3, <2>4, <2>7 DEF Sync
  <2> QED BY <1>8, <2>2, <2>8, <2>9 DEF Live
<1>11. k < 2 \/ (k >= 2 /\ k > 1)
  BY <1>1
<1> QED BY <1>7, <1>9, <1>10, <1>11

(* The one more event after XML_StopParser.                                *)
LEMMA StoppedEndsWell ==
    ASSUME EndsWell, phase = "stopping", ExpatEnds,
           EndSkipped \/ EndStopped \/ EndOldChild \/ EndKnown
    PROVE  phase' = "stopped"
<1>1. AfterEnd = "stopped"
  BY DEF AfterEnd
<1>2. CASE stack # << >> /\ char_data # << >>
  <2>1. CASE EndSkipped
    BY <1>1, <1>2, <2>1 DEF EndSkipped
  <2>2. CASE EndStopped \/ EndOldChild
    BY <1>1, <2>2 DEF EndStopped, EndOldChild
  <2>3. CASE EndKnown
    <3>1. /\ old_schema_name # "" /\ endName = "Schema" => type[Top(stack)] = "Schema"
          /\ old_schema_name # "" /\ endName = old_schema_name => type[Top(stack)] = "Placemark"
      <4>1. CASE old_schema_name = ""
        BY <4>1
      <4>2. CASE /\ open # << >> /\ Top(stack) = Top(open)
                 /\ old_schema_name = OldName /\ Fits(Top(open))
        <5>1. endName = doc[Top(open)].name
          BY DEF endName, ending
        <5>2. /\ doc[Top(open)].name = "Schema" => type[Top(open)] = "Schema"
              /\ old_schema_name # "" /\ doc[Top(open)].name = OldName => type[Top(open)] = "Placemark"
          BY <4>2 DEF Fits
        <5>3. Top(stack) = Top(open) /\ old_schema_name = OldName
          BY <4>2
        <5>4. old_schema_name # "" /\ endName = "Schema" => type[Top(stack)] = "Schema"
          BY <5>1, <5>2, <5>3, Zenon
        <5>5. old_schema_name # "" /\ endName = old_schema_name => type[Top(stack)] = "Placemark"
          BY <5>1, <5>2, <5>3, Zenon
        <5> QED BY <5>4, <5>5, Zenon
      <4> QED BY <1>2, <4>1, <4>2 DEF EndsWell
    <3>2. phase' \in {"stopped", AfterEnd}
      BY <1>2, <2>3, <3>1 DEF EndKnown
    <3> QED BY <1>1, <3>2
  <2> QED BY <2>1, <2>2, <2>3
<1>3. CASE stack = << >> /\ skip_depth = 0 /\ Balanced
  <2>1. EndSkipped => phase' = "stopped"
    <3>1. SUFFICES ASSUME EndSkipped PROVE FALSE
      OBVIOUS
    <3>2. DescriptionSkip > 0
      BY <3>1 DEF EndSkipped
    <3>3. endName = "description" /\ EndedDescription = 0 /\ Dec(in_description) = 0
      BY <1>3, <3>2 DEF DescriptionSkip, EndedDescription
    <3>4. UIntSize \in Nat /\ UIntSize > 2 /\ in_description \in {0, UIntSize - 1} /\ MaxTags \in Nat
      <4>1. open # << >>
        BY DEF ExpatEnds
      <4> QED BY <1>3, Counting DEF Balanced
    <3>5. Dec(0) = UIntSize - 1
      BY Counting
    <3>6. Dec(UIntSize - 1) = UIntSize - 1 - 1
      <4>1. UIntSize - 1 \in Nat /\ UIntSize - 1 > 0 /\ UIntSize - 1 < UIntSize
        BY <3>4
      <4> QED BY <4>1, Counting
    <3> QED BY <3>3, <3>4, <3>5, <3>6
  <2>2. CASE EndStopped
    BY <1>1, <2>2 DEF EndStopped
  <2>3. ~ EndOldChild
    BY <1>3 DEF EndOldChild
  <2>4. ~ EndKnown
    BY <1>3, Zenon DEF EndKnown
  <2> QED BY <2>1, <2>2, <2>3, <2>4
<1> QED BY <1>2, <1>3 DEF EndsWell

LEMMA EndIInv == ASSUME IInv, EndElement PROVE IInv'
<1>1. /\ DocShape /\ confused \in BOOLEAN /\ ExpatEnds /\ phase \in {"run", "stopping"}
      /\ EndSkipped \/ EndStopped \/ EndOldChild \/ EndKnown
      /\ in_description' = EndedDescription /\ old_schema_name' = old_schema_name
      /\ confused' = (confused \/ DescriptionConfused)
  BY DEF EndElement, ExpatEnds, IInv
<1>2. phase' \in {AfterEnd, "stopped", "undefined"}
  <2>1. CASE EndSkipped
    BY <2>1 DEF EndSkipped, EndUndefined
  <2>2. CASE EndStopped \/ EndOldChild
    BY <2>2 DEF EndStopped, EndOldChild
  <2>3. CASE EndKnown
    BY <2>3 DEF EndKnown, EndUndefined
  <2> QED BY <1>1, <2>1, <2>2, <2>3
<1>3. DocShape'
  <2>1. phase' = "run" => Len(open) # 1
    BY <1>2 DEF AfterEnd
  <2> QED BY <1>1, <2>1, EndDocShape
<1>4. confused' \in BOOLEAN /\ (~ confused' => ~ confused /\ ~ DescriptionConfused)
  BY <1>1
<1>5. phase' # "stopping"
  BY <1>2 DEF AfterEnd
<1>6. ASSUME ~ confused'
      PROVE  /\ phase' = "run" => \E k \in 0..Len(open') : Live(k)'
             /\ phase' \in {"done", "lost"} => Finished'
             /\ phase' # "undefined"
  <2>1. CASE phase = "stopping"
    <3>1. EndsWell
      BY <1>4, <1>6, <2>1 DEF IInv
    <3>2. phase' = "stopped"
      BY <1>1, <2>1, <3>1, StoppedEndsWell
    <3> QED BY <3>2
  <2>2. CASE phase = "run"
    <3>1. PICK k \in 0..Len(open) : Live(k)
      BY <1>4, <1>6, <2>2 DEF IInv
    <3>2. Ended /\ ~ DescriptionConfused
      BY <1>1, <1>4, <1>6, <2>2 DEF Ended
    <3>3. k \in Nat /\ Len(open) \in Nat /\ k <= Len(open)
      BY <1>1, <3>1, LiveFacts
    <3>4. CASE InDescription(k) /\ k < Len(open)
      BY <1>1, <3>1, <3>2, <3>4, InnerEndsLive
    <3>5. CASE InUnknown(k)
      BY <1>1, <3>1, <3>2, <3>5, UnknownEndsLive
    <3>6. CASE InOldChild(k)
      BY <1>1, <3>1, <3>2, <3>6, OldChildEndsLive
    <3>7. CASE (InElement(k) \/ InDescription(k)) /\ k = Len(open)
      <4>1. /\ phase' = "run" => k > 1 /\ (k - 1) \in 0..Len(open') /\ Live(k - 1)'
            /\ phase' \in {"run", "stopped", "done"}
            /\ phase' = "done" => Finished'
        BY <1>1, <3>1, <3>2, <3>7, KnownEndsWell
      <4> QED BY <4>1
    <3>8. InElement(k) => k = Len(open)
      BY DEF InElement
    <3>9. InDescription(k) \/ InElement(k) \/ InOldChild(k) \/ InUnknown(k)
      BY <3>1 DEF Live, Sync
    <3> QED BY <3>3, <3>4, <3>5, <3>6, <3>7, <3>8, <3>9
  <2> QED BY <1>1, <2>1, <2>2
<1> QED BY <1>3, <1>4, <1>5, <1>6 DEF IInv

-----------------------------------------------------------------------------
(* The other events.                                                       *)
LEMMA TextIInv == ASSUME IInv, CharData PROVE IInv'
<1>1. /\ phase = "run" /\ doc' = doc /\ open' = open /\ stack' = stack
      /\ skip_depth' = skip_depth /\ in_description' = in_description
      /\ nesting_depth' = nesting_depth /\ in_old_schema_placemark' = in_old_schema_placemark
      /\ old_schema_name' = old_schema_name /\ simpledata_vec' = simpledata_vec
      /\ type' = type /\ added' = added /\ confused' = confused /\ open # << >>
  BY DEF CharData, tree
<1>2. DocShape'
  BY <1>1 DEF IInv, DocShape, OpenIsPath, TagIsPlaced, IsDescription, Tags
<1>3. ASSUME ~ confused'
      PROVE  phase' = "run" /\ \E k \in 0..Len(open') : Live(k)'
  <2>1. PICK k \in 0..Len(open) : Live(k)
    BY <1>1, <1>3 DEF IInv
  <2>2. char_data # << >> /\ IsList(char_data)
    BY <1>1, <2>1, LiveFacts DEF IInv, Live, Sync, Lists
  <2>3. phase' = "run" /\ char_data' = AppendTop(char_data, Text(Top(open)))
    BY <1>1, <2>2 DEF CharData
  <2>4. IsList(char_data') /\ Len(char_data') = Len(char_data)
    BY <2>2, <2>3, TopIsList
  <2>5. Path(k)' /\ Lists' /\ nesting_depth' = Len(open')
    BY <1>1, <2>1, <2>4 DEF Live, Sync, Path, Lists, IsDescription
  <2>6. InDescription(k) => InDescription(k)'
    BY <1>1, <2>4 DEF InDescription, InnerDescriptions, IsDescription
  <2>7. /\ InElement(k) => InElement(k)'
        /\ InOldChild(k) => InOldChild(k)'
        /\ InUnknown(k) => InUnknown(k)'
    BY <1>1, <2>4 DEF InElement, InOldChild, InUnknown, IsDescription, Balanced
  <2>8. TypesFit(k)'
    BY <1>1, <2>1 DEF Live, TypesFit, Fits
  <2>9. Tree(k)'
    <3>1. \A u : IsOpen(u)' <=> IsOpen(u)
      BY <1>1 DEF IsOpen
    <3>2. Handable' = Handable
      BY <1>1, <3>1 DEF Handable
    <3> QED BY <1>1, <2>1, <3>2 DEF Live, Tree, Created, Attached, IsDescription, Tags
  <2>10. Sync(k)'
    <3>1. InDescription(k) \/ InElement(k) \/ InOldChild(k) \/ InUnknown(k)
      BY <2>1 DEF Live, Sync
    <3>2. InDescription(k)' \/ InElement(k)' \/ InOldChild(k)' \/ InUnknown(k)'
      BY <3>1, <2>6, <2>7
    <3> QED BY <2>5, <3>2 DEF Sync
  <2>11. Live(k)' /\ k \in 0..Len(open')
    BY <1>1, <2>8, <2>9, <2>10 DEF Live
  <2> QED BY <2>3, <2>11
<1>4. phase' \in {"run", "undefined"}
  BY <1>1 DEF CharData
<1> QED BY <1>1, <1>2, <1>3, <1>4 DEF IInv

LEMMA InitIInv == Init => IInv
<1> SUFFICES ASSUME Init PROVE IInv
  OBVIOUS
<1>1. /\ doc = << >> /\ open = << >> /\ stack = << >> /\ char_data = << >>
      /\ simpledata_vec = << >> /\ skip_depth = 0 /\ in_description = 0 /\ nesting_depth = 0
      /\ ~ in_old_schema_placemark /\ old_schema_name = "" /\ type = << >> /\ added = {}
      /\ phase = "run" /\ confused = FALSE
  BY DEF Init
<1>2. /\ IsList(doc) /\ Len(doc) = 0 /\ DOMAIN doc = {} /\ DOMAIN open = {} /\ DOMAIN type = {}
      /\ open \in Seq(Nat \ {0}) /\ Len(open) = 0 /\ Len(char_data) = 0
  <2>1. /\ IsList(<< >>) /\ Len(<< >>) = 0 /\ DOMAIN << >> = {}
        /\ << >> \in Seq(Nat \ {0})
    BY EmptyIsList
  <2> QED BY <1>1, <2>1
<1>3. DocShape
  <2>1. OpenIsPath
    <3>1. Len(open) <= Len(doc)
      BY ONLY <1>2
    <3>2. open = << >>
      BY <1>1
    <3> QED BY ONLY <3>1, <3>2, <1>2 DEF OpenIsPath
  <2>2. 0 <= MaxTags
    BY Counting
  <2> QED BY <1>1, <1>2, <2>1, <2>2 DEF DocShape, Tags
<1>4. stack = SubSeq(open, 1, 0)
  <2>1. SubSeq(<< >>, 1, 0) = << >>
    OBVIOUS
  <2> QED BY <1>1, <2>1
<1>0. \A i \in 1..0 : FALSE
  OBVIOUS
<1>5. Path(0)
  BY <1>0, <1>1, <1>4 DEF Path
<1>6. InElement(0)
  <2>1. Balanced /\ skip_depth = 0 /\ ~ in_old_schema_placemark
    BY <1>1 DEF Balanced
  <2> QED BY ONLY <1>2, <2>1 DEF InElement
<1>7. Sync(0)
  BY <1>1, <1>2, <1>5, <1>6, EmptyIsList DEF Sync, Lists
<1>8. TypesFit(0)
  BY <1>0, <1>1 DEF TypesFit
<1>9. Handable = {}
  BY <1>2 DEF Handable
<1>10. Tree(0)
  BY <1>1, <1>2, <1>9 DEF Tree, Created, Attached, Tags
<1>11. Live(0) /\ 0 \in 0..Len(open)
  BY <1>2, <1>7, <1>8, <1>10 DEF Live
<1> QED BY <1>1, <1>3, <1>11 DEF IInv

LEMMA FailsIInv == ASSUME IInv, InputFails PROVE IInv'
<1>1. /\ phase = "run" /\ phase' = "lost" /\ doc' = doc /\ open' = open /\ stack' = stack
      /\ type' = type /\ added' = added /\ confused' = confused
  BY DEF InputFails, document, handler, tree
<1>2. DocShape'
  BY <1>1 DEF IInv, DocShape, OpenIsPath, TagIsPlaced, IsDescription, Tags
<1>3. ASSUME ~ confused' PROVE Finished'
  <2>1. PICK k \in 0..Len(open) : Live(k)
    BY <1>1, <1>3 DEF IInv
  <2>2. Created' /\ Attached'
    <3>1. \A u : IsOpen(u)' <=> IsOpen(u)
      BY <1>1 DEF IsOpen
    <3>2. Handable' = Handable
      BY <1>1, <3>1 DEF Handable
    <3> QED BY <1>1, <2>1, <3>2 DEF Live, Tree, Created, Attached, IsDescription, Tags
  <2>3. Result' # NoTag => Result' = 1
    <3>1. SUFFICES ASSUME Len(stack) = 1 PROVE stack[1] = 1
      BY <1>1 DEF Result, PopRoot
    <3>2. k = 1 /\ stack[1] = open[1] /\ open # << >>
      BY <2>1, <3>1, StackFacts DEF Live, Sync, IInv
    <3> QED BY <3>2 DEF IInv, DocShape, OpenIsPath
  <2> QED BY <1>1, <2>2, <2>3 DEF Finished
<1> QED BY <1>1, <1>2, <1>3 DEF IInv

LEMMA StutterIInv == ASSUME IInv, UNCHANGED vars PROVE IInv'
<1>1. /\ doc' = doc /\ open' = open /\ stack' = stack /\ char_data' = char_data
      /\ skip_depth' = skip_depth /\ in_description' = in_description
      /\ nesting_depth' = nesting_depth /\ in_old_schema_placemark' = in_old_schema_placemark
      /\ old_schema_name' = old_schema_name /\ simpledata_vec' = simpledata_vec
      /\ type' = type /\ added' = added /\ phase' = phase /\ confused' = confused
  BY DEF vars, document, handler, tree
<1>2. DocShape'
  BY <1>1 DEF IInv, DocShape, OpenIsPath, TagIsPlaced, IsDescription, Tags
<1>3. Created' = Created /\ Attached' = Attached /\ \A k : Tree(k)' = Tree(k)
  BY <1>1 DEF Tree, Created, Attached, Handable, IsOpen, IsDescription, Tags
<1>4. EndsWell' = EndsWell /\ Finished' = Finished
  BY <1>1, <1>3 DEF EndsWell, Finished, Result, PopRoot, Fits, Balanced
<1>5. \A k : Live(k)' = Live(k)
  <2>1. ASSUME NEW k PROVE Sync(k)' = Sync(k)
    BY <1>1 DEF Sync, Path, Lists, InDescription, InElement, InOldChild, InUnknown,
                InnerDescriptions, IsDescription, Balanced
  <2>2. ASSUME NEW k PROVE TypesFit(k)' = TypesFit(k)
    BY <1>1 DEF TypesFit, Fits
  <2> QED BY <1>1, <1>3, <2>1, <2>2 DEF Live
<1> QED BY <1>1, <1>2, <1>4, <1>5 DEF IInv

LEMMA NextIInv == IInv /\ [Next]_vars => IInv'
<1> SUFFICES ASSUME IInv, [Next]_vars PROVE IInv'
  OBVIOUS
<1>1. ASSUME NEW name \in Names, NEW parent \in BOOLEAN, parent => name = "Schema",
             Start(name, parent)
      PROVE  IInv'
  BY <1>1, StartIInv
<1>2. CASE EndElement
  BY <1>2, EndIInv
<1>3. CASE CharData
  BY <1>3, TextIInv
<1>4. CASE ParserStops
  <2>1. /\ phase' = "stopped" /\ doc' = doc /\ open' = open /\ confused' = confused
    BY <1>4 DEF ParserStops, document
  <2>2. DocShape'
    BY <2>1 DEF IInv, DocShape, OpenIsPath, TagIsPlaced, IsDescription, Tags
  <2> QED BY <2>1, <2>2 DEF IInv
<1>5. CASE InputFails
  BY <1>5, FailsIInv
<1>6. CASE UNCHANGED vars
  BY <1>6, StutterIInv
<1> QED BY <1>1, <1>2, <1>3, <1>4, <1>5, <1>6 DEF Next

(* Between two events of a document that is not confused the handler is in *)
(* one of four situations (in an element, in a description, in an unknown  *)
(* element, in a child named by an old style Schema), and in each stack_,  *)
(* char_data_, the counters and the tree are what the open tags say.       *)
THEOREM HandlerInv == Spec => []IInv
BY InitIInv, NextIInv, PTL DEF Spec

(* The prefix of the open tags Live speaks of is the one InSync measures.  *)
LEMMA KnownDepthIs ==
    ASSUME DocShape, NEW k \in 0..Len(open), Live(k) PROVE KnownDepth = k
<1> DEFINE deep(j) == \A i \in 1..j :
                        doc[open[i]].cls = "known" /\ (i < j => ~ IsDescription(open[i]))
<1>1. k \in Nat /\ Len(open) \in Nat /\ k <= Len(open) /\ DOMAIN open = 1..Len(open)
  BY DocFacts
<1>2. ASSUME NEW j \in 1..Len(open), j <= k PROVE deep(j)
  <2>1. \A i \in 1..j : i \in 1..k /\ (i < j => i < k)
    BY <1>1, <1>2
  <2> QED BY <2>1 DEF Live, Sync, Path
<1>3. ASSUME NEW j \in 1..Len(open), j > k PROVE ~ deep(j)
  <2>1. k + 1 \in 1..j
    BY <1>1, <1>3
  <2>2. CASE InDescription(k)
    <3>1. k \in 1..j /\ k < j
      BY <1>1, <1>3, <2>2 DEF InDescription
    <3> QED BY <2>2, <3>1 DEF InDescription
  <2>3. CASE InElement(k)
    BY <1>1, <1>3, <2>3 DEF InElement
  <2>4. CASE InOldChild(k)
    BY <2>1, <2>4 DEF InOldChild
  <2>5. CASE InUnknown(k)
    BY <2>1, <2>5 DEF InUnknown
  <2> QED BY <2>2, <2>3, <2>4, <2>5 DEF Live, Sync
<1> HIDE DEF deep
<1>4. {j \in DOMAIN open : deep(j)} = 1..k
  <2>1. \A j \in 1..k : j \in 1..Len(open) /\ j <= k
    BY <1>1
  <2>2. \A j \in 1..Len(open) : j \in 1..k \/ j > k
    BY <1>1
  <2> QED BY <1>1, <1>2, <1>3, <2>1, <2>2
<1>5. Cardinality(1..k) = k
  <2>1. Cardinality(1..k) = IF 1 > k THEN 0 ELSE k - 1 + 1
    BY <1>1, FS_Interval
  <2> QED BY <1>1, <2>1
<1> QED BY <1>4, <1>5 DEF KnownDepth, deep

(* Stacks and counters agree with the open tags: see InSync.  The early    *)
(* returns of StartElement and EndElement, which push and pop some of them *)
(* only, keep them in step.                                                *)
THEOREM StacksInSync == Spec => []InSync
<1>1. IInv => InSync
  <2> SUFFICES ASSUME IInv, phase = "run", ~ confused PROVE InSync
    BY DEF InSync
  <2>1. PICK k \in 0..Len(open) : Live(k)
    BY DEF IInv
  <2>2. KnownDepth = k
    BY <2>1, KnownDepthIs DEF IInv
  <2>3. k \in Nat /\ Len(open) \in Nat /\ k <= Len(open)
    BY <2>1, LiveFacts DEF IInv
  <2>4. stack = SubSeq(open, 1, k) /\ nesting_depth = Len(open)
    BY <2>1 DEF Live, Sync, Path
  <2> DEFINE rest == Len(open) - k
  <2>5. \/ k > 0 /\ IsDescription(open[k]) /\ ~ in_old_schema_placemark
             /\ skip_depth = 1 + rest /\ Len(char_data) = k
        \/ rest = 0 /\ (k > 0 => ~ IsDescription(open[k])) /\ ~ in_old_schema_placemark
             /\ skip_depth = 0 /\ Len(char_data) = k
        \/ rest = 1 /\ doc[open[k + 1]].cls = "field" /\ in_old_schema_placemark
             /\ skip_depth = 0 /\ Len(char_data) = k + 1
        \/ rest > 0 /\ doc[open[k + 1]].cls = "unknown" /\ ~ in_old_schema_placemark
             /\ skip_depth = rest /\ Len(char_data) = k + 1
    <3>1. CASE InDescription(k)
      BY <3>1 DEF InDescription
    <3>2. CASE InElement(k)
      BY <2>3, <3>2 DEF InElement
    <3>3. CASE InOldChild(k)
      BY <2>3, <3>3 DEF InOldChild
    <3>4. CASE InUnknown(k)
      BY <2>3, <3>4 DEF InUnknown
    <3> QED BY <2>1, <3>1, <3>2, <3>3, <3>4 DEF Live, Sync
  <2> QED BY <2>2, <2>4, <2>5 DEF InSync
<1> QED BY <1>1, HandlerInv, PTL

(* No event of a document that is not confused makes the handler pop an    *)
(* empty stack or use the null of a failed downcast: see NeverUndefined.   *)
THEOREM NothingUndefined == Spec => []NeverUndefined
<1>1. IInv => NeverUndefined
  BY DEF IInv, NeverUndefined
<1> QED BY <1>1, HandlerInv, PTL

-----------------------------------------------------------------------------
(* A set of naturals that is not empty has a smallest element.             *)
LEMMA SmallestNat ==
    ASSUME NEW T \in SUBSET Nat, T # {}
    PROVE  \E m \in T : \A i \in T : m <= i
<1> DEFINE R == OpToRel(<, Nat)
<1>1. \E m \in T : \A i \in T : ~ (<<i, m>> \in R)
  BY NatLessThanWellFounded, WFMin
<1>2. \A m, i \in T : ~ (<<i, m>> \in R) => m <= i
  BY DEF OpToRel
<1> QED BY <1>1, <1>2

(* The recursion along the parents that says what becomes an element.      *)
LEMMA KeptIsCreated ==
    ASSUME DocShape, Created PROVE Kept = DOMAIN type
<1> DEFINE F(g) == [t \in Tags |->
                      /\ doc[t].cls = "known"
                      /\ doc[t].parent # NoTag =>
                           g[doc[t].parent] /\ ~ IsDescription(doc[t].parent)]
           made == [t \in Tags |-> t \in DOMAIN type]
<1>1. Tags \subseteq Nat /\ \A t \in Tags : doc[t].parent \in 0..(t - 1)
      /\ (doc[t].parent # NoTag => doc[t].parent \in Tags /\ doc[t].parent < t)
  <2>1. Tags = 1..Len(doc) /\ Len(doc) \in Nat
    BY DocFacts DEF Tags
  <2>2. ASSUME NEW t \in Tags PROVE doc[t].parent \in 0..(t - 1)
    BY DEF DocShape, TagIsPlaced
  <2> QED BY <2>1, <2>2 DEF NoTag
<1>2. made = F(made)
  <2>1. ASSUME NEW t \in Tags
        PROVE  (t \in DOMAIN type) = (/\ doc[t].cls = "known"
                                      /\ doc[t].parent # NoTag =>
                                           made[doc[t].parent] /\ ~ IsDescription(doc[t].parent))
    <3>1. doc[t].parent # NoTag => (made[doc[t].parent] <=> doc[t].parent \in DOMAIN type)
      BY <1>1
    <3> HIDE DEF made
    <3>2. t \in DOMAIN type <=> (/\ doc[t].cls = "known"
                                 /\ doc[t].parent # NoTag =>
                                      made[doc[t].parent] /\ ~ IsDescription(doc[t].parent))
      BY <3>1 DEF Created
    <3> DEFINE P == t \in DOMAIN type
               Q == /\ doc[t].cls = "known"
                    /\ doc[t].parent # NoTag =>
                         made[doc[t].parent] /\ ~ IsDescription(doc[t].parent)
    <3>3. P <=> Q
      BY <3>2
    <3>4. P \in BOOLEAN /\ Q \in BOOLEAN
      OBVIOUS
    <3> HIDE DEF P, Q
    <3>5. P = Q
      BY <3>3, <3>4
    <3> QED BY <3>5 DEF P, Q
  <2> QED BY <2>1
<1> HIDE DEF made
<1>3. kept = F(kept)
  BY <1>2 DEF kept
<1> HIDE DEF F
<1>4. \A t \in Tags : kept[t] <=> F(kept)[t]
  BY <1>3
<1>5. ASSUME NEW t \in Tags
      PROVE  kept[t] <=> /\ doc[t].cls = "known"
                         /\ doc[t].parent # NoTag =>
                              kept[doc[t].parent] /\ ~ IsDescription(doc[t].parent)
  BY <1>4 DEF F
<1> DEFINE Wrong == {t \in Tags : ~ (kept[t] <=> t \in DOMAIN type)}
<1>6. Wrong = {}
  <2> SUFFICES ASSUME Wrong # {} PROVE FALSE
    OBVIOUS
  <2>1. PICK t \in Wrong : \A u \in Wrong : t <= u
    BY <1>1, SmallestNat
  <2>2. doc[t].parent # NoTag => doc[t].parent \in Tags /\ doc[t].parent \notin Wrong
    BY <1>1, <2>1
  <2>3. doc[t].parent # NoTag => (kept[doc[t].parent] <=> doc[t].parent \in DOMAIN type)
    BY <2>2
  <2>4. t \in Tags /\ ~ (kept[t] <=> t \in DOMAIN type)
    OBVIOUS
  <2> QED BY <1>5, <2>3, <2>4 DEF Created
<1> QED BY <1>6 DEF Kept, Created

(* The tree Parse hands out is the document's: see TreeIsDocument.         *)
THEOREM TreeOfTheDocument == Spec => []TreeIsDocument
<1>1. IInv => TreeIsDocument
  <2> SUFFICES ASSUME IInv, Result # NoTag \/ phase = "done", ~ confused
               PROVE  /\ Result = 1
                      /\ DOMAIN type = Kept
                      /\ added = {<<doc[t].parent, t>> :
                                    t \in {u \in Kept \ {1} : /\ type[u] \notin Vetoed
                                                              /\ u \notin Tokens(open)}}
    BY DEF TreeIsDocument
  <2>1. phase \in {"done", "lost"}
    BY DEF Result
  <2>2. Result = 1 /\ Created /\ Attached
    BY <2>1 DEF IInv, Finished
  <2>3. DOMAIN type = Kept
    BY <2>2, KeptIsCreated DEF IInv
  <2>4. \A u : u \in Tokens(open) <=> IsOpen(u)
    BY DEF Tokens, IsOpen
  <2>5. Handable = {u \in Kept \ {1} : type[u] \notin Vetoed /\ u \notin Tokens(open)}
    BY <2>3, <2>4 DEF Handable
  <2> QED BY <2>2, <2>3, <2>5 DEF Attached
<1> QED BY <1>1, HandlerInv, PTL

-----------------------------------------------------------------------------
(* What is inside a tag, along the parents.                                 *)
(* From u up to t, along the parents.                                      *)
Climbs(t, u) ==
  \E m \in Nat : \E c \in [0..m -> Tags] :
     c[0] = u /\ c[m] = t /\ \A i \in 0..(m - 1) : c[i + 1] = doc[c[i]].parent

LEMMA ClimbsStep ==
    ASSUME NEW t \in Tags, NEW u \in Tags, NoTag \notin Tags
    PROVE  Climbs(t, u) <=> u = t \/ (doc[u].parent \in Tags /\ Climbs(t, doc[u].parent))
<1>1. ASSUME u = t PROVE Climbs(t, u)
  <2> DEFINE c == [i \in 0..0 |-> u]
  <2>1. c \in [0..0 -> Tags] /\ c[0] = u /\ \A i \in 0..(0 - 1) : c[i + 1] = doc[c[i]].parent
    OBVIOUS
  <2> HIDE DEF c
  <2> QED BY <1>1, <2>1 DEF Climbs
<1>2. ASSUME doc[u].parent \in Tags, Climbs(t, doc[u].parent) PROVE Climbs(t, u)
  <2> DEFINE p == doc[u].parent
  <2>0. PICK m \in Nat : \E c \in [0..m -> Tags] :
          c[0] = p /\ c[m] = t /\ \A i \in 0..(m - 1) : c[i + 1] = doc[c[i]].parent
    BY <1>2 DEF Climbs
  <2>1. PICK c \in [0..m -> Tags] :
          c[0] = p /\ c[m] = t /\ \A i \in 0..(m - 1) : c[i + 1] = doc[c[i]].parent
    BY <2>0
  <2> DEFINE d == [i \in 0..(m + 1) |-> IF i = 0 THEN u ELSE c[i - 1]]
  <2>2. d \in [0..(m + 1) -> Tags]
    <3>1. \A i \in 0..(m + 1) : i # 0 => i - 1 \in 0..m
      OBVIOUS
    <3> QED BY <3>1
  <2>3. d[0] = u /\ d[m + 1] = t
    BY <2>1
  <2>4. ASSUME NEW i \in 0..((m + 1) - 1) PROVE d[i + 1] = doc[d[i]].parent
    <3>1. CASE i = 0
      BY <2>1, <3>1
    <3>2. CASE i # 0
      <4>1. i - 1 \in 0..(m - 1) /\ d[i + 1] = c[i] /\ d[i] = c[i - 1] /\ (i - 1) + 1 = i
        BY <3>2
      <4> HIDE DEF d
      <4>2. c[(i - 1) + 1] = doc[c[i - 1]].parent
        BY <2>1, <4>1
      <4> QED BY <4>1, <4>2
    <3> QED BY <3>1, <3>2
  <2> HIDE DEF d
  <2>5. m + 1 \in Nat
    OBVIOUS
  <2> QED BY <2>2, <2>3, <2>4, <2>5 DEF Climbs
<1>3. ASSUME Climbs(t, u), u # t PROVE doc[u].parent \in Tags /\ Climbs(t, doc[u].parent)
  <2>0. PICK m \in Nat : \E c \in [0..m -> Tags] :
          c[0] = u /\ c[m] = t /\ \A i \in 0..(m - 1) : c[i + 1] = doc[c[i]].parent
    BY <1>3 DEF Climbs
  <2>1. PICK c \in [0..m -> Tags] :
          c[0] = u /\ c[m] = t /\ \A i \in 0..(m - 1) : c[i + 1] = doc[c[i]].parent
    BY <2>0
  <2>2. m # 0
    BY <1>3, <2>1
  <2> DEFINE d == [i \in 0..(m - 1) |-> c[i + 1]]
  <2>3. d \in [0..(m - 1) -> Tags]
    <3>1. \A i \in 0..(m - 1) : i + 1 \in 0..m
      OBVIOUS
    <3> QED BY <3>1
  <2>4. 0 \in 0..(m - 1) /\ m - 1 \in 0..(m - 1) /\ (m - 1) + 1 = m /\ 0 + 1 = 1 /\ 1 \in 0..m
        /\ m - 1 \in Nat
    BY <2>2
  <2>5. d[0] = doc[u].parent /\ d[m - 1] = t /\ doc[u].parent \in Tags
    <3>1. c[0 + 1] = doc[c[0]].parent
      BY <2>1, <2>4
    <3> QED BY <2>1, <2>4, <3>1
  <2>6. ASSUME NEW i \in 0..((m - 1) - 1) PROVE d[i + 1] = doc[d[i]].parent
    <3>1. i \in 0..(m - 1) /\ i + 1 \in 0..(m - 1)
      OBVIOUS
    <3>2. d[i + 1] = c[(i + 1) + 1] /\ d[i] = c[i + 1]
      BY <3>1
    <3> QED BY <2>1, <3>1, <3>2
  <2> HIDE DEF d
  <2> QED BY <2>3, <2>4, <2>5, <2>6 DEF Climbs
<1> QED BY <1>1, <1>2, <1>3

(* The tags of a document and their parents.                               *)
LEMMA Parents ==
    ASSUME DocShape
    PROVE  /\ Tags = 1..Len(doc) /\ Len(doc) \in Nat /\ NoTag \notin Tags /\ Tags \subseteq Nat
           /\ \A t \in Tags : /\ doc[t].parent \in Nat /\ doc[t].parent < t
                              /\ doc[t].parent # NoTag <=> doc[t].parent \in Tags
                              /\ doc[t].parent = NoTag <=> t = 1
<1>1. Tags = 1..Len(doc) /\ Len(doc) \in Nat
  BY DocFacts DEF Tags
<1>2. ASSUME NEW t \in Tags
      PROVE  /\ doc[t].parent \in Nat /\ doc[t].parent < t
             /\ doc[t].parent # NoTag <=> doc[t].parent \in Tags
             /\ doc[t].parent = NoTag <=> t = 1
  <2>1. doc[t].parent \in 0..(t - 1) /\ (doc[t].parent = NoTag <=> t = 1) /\ t \in 1..Len(doc)
    BY <1>1 DEF DocShape, TagIsPlaced
  <2> QED BY ONLY <1>1, <2>1 DEF NoTag
<1>3. NoTag \notin Tags /\ Tags \subseteq Nat
  BY <1>1 DEF NoTag
<1> QED BY <1>1, <1>2, <1>3

(* The recursion along the parents that says what is inside a tag.         *)
LEMMA BelowIs ==
    ASSUME DocShape, NEW t \in Tags
    PROVE  /\ Below(t) \subseteq Tags /\ t \in Below(t)
           /\ \A u \in Tags : u \in Below(t) <=>
                u = t \/ (doc[u].parent \in Tags /\ doc[u].parent \in Below(t))
<1> DEFINE F(g) == [u \in Tags |-> u = t \/ (doc[u].parent # NoTag /\ g[doc[u].parent])]
           made == [u \in Tags |-> Climbs(t, u)]
           below == CHOOSE g : g = F(g)
<1>1. made = F(made)
  <2>1. ASSUME NEW u \in Tags
        PROVE  Climbs(t, u) = (u = t \/ (doc[u].parent # NoTag /\ made[doc[u].parent]))
    <3>1. doc[u].parent # NoTag => (made[doc[u].parent] <=> Climbs(t, doc[u].parent))
      BY Parents
    <3> HIDE DEF made
    <3> DEFINE P == Climbs(t, u)
               Q == u = t \/ (doc[u].parent # NoTag /\ made[doc[u].parent])
    <3>2. P <=> Q
      BY <3>1, Parents, ClimbsStep
    <3>3. P \in BOOLEAN /\ Q \in BOOLEAN
      BY DEF Climbs
    <3> HIDE DEF P, Q
    <3>4. P = Q
      BY <3>2, <3>3
    <3> QED BY <3>4 DEF P, Q
  <2> QED BY <2>1
<1> HIDE DEF made
<1>2. below = F(below)
  BY <1>1
<1>3. Below(t) = {u \in Tags : below[u]}
  BY DEF Below
<1> HIDE DEF below
<1>4. \A u \in Tags : below[u] <=> u = t \/ (doc[u].parent # NoTag /\ below[doc[u].parent])
  BY <1>2
<1>5. ASSUME NEW u \in Tags
      PROVE  u \in Below(t) <=> u = t \/ (doc[u].parent \in Tags /\ doc[u].parent \in Below(t))
  BY <1>3, <1>4, Parents
<1> QED BY <1>3, <1>5

BelowFacts ==
  \A t \in Tags :
     /\ Below(t) \subseteq Tags /\ t \in Below(t)
     /\ \A u \in Tags : u \in Below(t) <=>
          u = t \/ (doc[u].parent \in Tags /\ doc[u].parent \in Below(t))

LEMMA BelowHolds == DocShape => BelowFacts
BY BelowIs DEF BelowFacts

LEMMA BelowHoldsNext == DocShape' => BelowFacts'
BY BelowHolds, PTL

LEMMA ParentsNext ==
    DocShape' => /\ Tags' = 1..Len(doc)' /\ NoTag \notin Tags' /\ Tags' \subseteq Nat
                 /\ \A t \in Tags' : /\ doc'[t].parent \in Nat /\ doc'[t].parent < t
                                     /\ doc'[t].parent # NoTag <=> doc'[t].parent \in Tags'
                                     /\ doc'[t].parent = NoTag <=> t = 1
<1> DEFINE P == /\ Tags = 1..Len(doc) /\ NoTag \notin Tags /\ Tags \subseteq Nat
                /\ \A t \in Tags : /\ doc[t].parent \in Nat /\ doc[t].parent < t
                                   /\ doc[t].parent # NoTag <=> doc[t].parent \in Tags
                                   /\ doc[t].parent = NoTag <=> t = 1
<1>1. DocShape => P
  BY Parents
<1> HIDE DEF P
<1>2. DocShape' => P'
  BY <1>1, PTL
<1> QED BY <1>2 DEF P

(* What is inside a tag stays so; the tag that starts is inside those its  *)
(* parent is inside of.                                                    *)
LEMMA BelowGrows ==
    ASSUME DocShape, NEW name \in Names, NEW old, ExpatStarts(name, old)
    PROVE  /\ Tags' = Tags \cup {n} /\ n \notin Tags
           /\ \A t \in Tags : /\ \A u \in Tags : u \in Below(t)' <=> u \in Below(t)
                              /\ Below(t)' \subseteq Tags' /\ t \in Below(t)'
                              /\ n \in Below(t)' <=> open # << >> /\ open[Len(open)] \in Below(t)
           /\ \A t : t = n => Below(t)' = {t}
<1>1. DocShape'
  BY StartDocShape
<1>2. BelowFacts /\ BelowFacts'
  BY <1>1, BelowHolds, BelowHoldsNext
<1>3. Tags' = Tags \cup {n} /\ n \notin Tags /\ \A t \in Tags : doc'[t] = doc[t]
  BY StartFacts, DocFacts DEF Tags
<1>4. ASSUME NEW t \in Tags PROVE \A u \in Tags : u \in Below(t)' <=> u \in Below(t)
  <2> DEFINE Wrong == {u \in Tags : ~ (u \in Below(t)' <=> u \in Below(t))}
  <2>1. SUFFICES ASSUME Wrong # {} PROVE FALSE
    OBVIOUS
  <2>2. PICK u \in Wrong : \A v \in Wrong : u <= v
    BY <2>1, Parents, SmallestNat
  <2>3. u \in Tags /\ ~ (u \in Below(t)' <=> u \in Below(t))
    OBVIOUS
  <2>4. /\ doc[u].parent \in Nat /\ doc[u].parent < u /\ u \in Nat
        /\ doc[u].parent \in Tags <=> doc[u].parent # NoTag
    BY <2>3, Parents
  <2>5. doc[u].parent \in Tags' <=> doc[u].parent \in Tags
    <3>1. doc'[u].parent # NoTag <=> doc'[u].parent \in Tags'
      BY <1>1, <1>3, <2>3, ParentsNext
    <3> QED BY <1>3, <2>3, <2>4, <3>1
  <2>6. u \in Below(t)' <=> u = t \/ (doc[u].parent \in Tags /\ doc[u].parent \in Below(t)')
    <3>1. u \in Below(t)' <=> u = t \/ (doc'[u].parent \in Tags' /\ doc'[u].parent \in Below(t)')
      BY <1>2, <1>3, <2>3 DEF BelowFacts
    <3> QED BY <1>3, <2>3, <2>5, <3>1
  <2>7. u \in Below(t) <=> u = t \/ (doc[u].parent \in Tags /\ doc[u].parent \in Below(t))
    BY <1>2, <2>3 DEF BelowFacts
  <2>8. doc[u].parent \in Tags => doc[u].parent \notin Wrong
    BY <2>2, <2>4
  <2> QED BY <2>3, <2>6, <2>7, <2>8
<1>5. ASSUME NEW t \in Tags
      PROVE  /\ Below(t)' \subseteq Tags' /\ t \in Below(t)'
             /\ n \in Below(t)' <=> open # << >> /\ open[Len(open)] \in Below(t)
  <2>1. Below(t)' \subseteq Tags' /\ t \in Below(t)'
    BY <1>2, <1>3 DEF BelowFacts
  <2>2. n \in Below(t)' <=> n = t \/ (doc'[n].parent \in Tags' /\ doc'[n].parent \in Below(t)')
    <3> DEFINE m == n
    <3>1. m \in Tags'
      BY <1>3
    <3> HIDE DEF m
    <3>2. \A x \in Tags' : x \in Below(t)' <=> x = t \/ (doc'[x].parent \in Tags' /\ doc'[x].parent \in Below(t)')
      BY <1>2, <1>3 DEF BelowFacts
    <3>3. \A x : x = n => x \in Tags'
      BY <1>3
    <3> QED BY <3>2, <3>3
  <2>3. CASE open = << >>
    <3>1. doc'[n].parent = NoTag /\ NoTag \notin Tags'
      BY <1>1, <2>3, ParentsNext, StartFacts
    <3> QED BY <1>3, <2>1, <2>2, <2>3, <3>1
  <2>4. CASE open # << >>
    <3>1. doc'[n].parent = open[Len(open)] /\ open[Len(open)] \in Tags
      BY <2>4, DocFacts, StartFacts DEF Tags
    <3> QED BY <1>3, <1>4, <2>1, <2>2, <2>4, <3>1
  <2> QED BY <2>1, <2>3, <2>4
<1>6. ASSUME NEW t, t = n PROVE Below(t)' = {t}
  <2>1. t \in Tags' /\ t \in Nat
    BY <1>1, <1>3, <1>6, ParentsNext
  <2>2. /\ Below(t)' \subseteq Tags' /\ t \in Below(t)'
        /\ \A u \in Tags' : u \in Below(t)' <=>
              u = t \/ (doc'[u].parent \in Tags' /\ doc'[u].parent \in Below(t)')
    BY <1>2, <2>1 DEF BelowFacts
  <2> DEFINE Wrong == {u \in Tags' : u # t /\ u \in Below(t)'}
  <2>3. ASSUME Wrong # {} PROVE FALSE
    <3>1. Wrong \subseteq Nat
      BY <1>1, ParentsNext
    <3>2. PICK u \in Wrong : \A v \in Wrong : u <= v
      BY <2>3, <3>1, SmallestNat
    <3>3. u \in Tags' /\ u # t /\ u \in Below(t)'
      OBVIOUS
    <3>4. doc'[u].parent \in Tags' /\ doc'[u].parent \in Below(t)'
          /\ doc'[u].parent \in Nat /\ doc'[u].parent < u /\ u \in Nat
      BY <1>1, <2>2, <3>3, ParentsNext
    <3>5. doc'[u].parent # t
      <4>1. u \in 1..Len(doc)'
        BY <1>1, <3>3, ParentsNext
      <4>2. u <= t
        BY <1>6, <4>1, StartFacts
      <4> QED BY <2>1, <3>4, <4>2
    <3>6. doc'[u].parent \in Wrong
      BY <3>4, <3>5
    <3> QED BY <3>2, <3>4, <3>6
  <2> QED BY <2>2, <2>3
<1> QED BY <1>3, <1>4, <1>5, <1>6

LEMMA BelowStays == ASSUME doc' = doc, NEW t PROVE Below(t)' = Below(t) /\ Tags' = Tags
BY DEF Below, Tags

(* Of the open tags, each is inside those that started before it.          *)
LEMMA OpenIsBelow ==
    ASSUME DocShape, NEW j \in 1..Len(open)
    PROVE  /\ \A t \in Tags : open[j] \in Below(t) => IsOpen(t)
           /\ \A i \in 1..Len(open) : i <= j => open[j] \in Below(open[i])
<1>1. BelowFacts
  BY BelowHolds
<1>2. Len(open) \in Nat /\ \A i \in 1..Len(open) : open[i] \in Tags
  BY DocFacts DEF Tags
<1>3. ASSUME NEW i \in 1..Len(open)
      PROVE  /\ i - 1 \in Nat /\ (i # 1 => i - 1 \in 1..Len(open))
             /\ doc[open[i]].parent = IF i = 1 THEN NoTag ELSE open[i - 1]
  <2>1. DOMAIN open = 1..Len(open)
    BY DocFacts
  <2>2. doc[open[i]].parent = IF i = 1 THEN NoTag ELSE open[i - 1]
    BY <2>1 DEF DocShape, OpenIsPath
  <2> QED BY <1>2, <2>2
<1>4. ASSUME NEW t \in Tags, ~ IsOpen(t), NEW i0 \in 1..Len(open), open[i0] \in Below(t)
      PROVE  FALSE
  <2> DEFINE Bad == {i \in 1..Len(open) : open[i] \in Below(t)}
  <2>1. Bad \in SUBSET Nat /\ Bad # {}
    BY <1>2, <1>4
  <2>2. PICK i \in Bad : \A x \in Bad : i <= x
    BY <2>1, SmallestNat
  <2>3. i \in 1..Len(open) /\ open[i] \in Below(t) /\ open[i] # t
    BY <1>4, DocFacts DEF IsOpen
  <2>4. doc[open[i]].parent \in Tags /\ doc[open[i]].parent \in Below(t)
    BY <1>1, <1>2, <2>3 DEF BelowFacts
  <2>5. i # 1 /\ doc[open[i]].parent = open[i - 1]
    BY <1>3, <2>3, <2>4, Parents
  <2>6. i - 1 \in Bad
    BY <1>3, <2>3, <2>4, <2>5
  <2> QED BY <1>2, <2>2, <2>3, <2>6
<1>5. ASSUME NEW i \in 1..Len(open), i <= j, open[j] \notin Below(open[i]) PROVE FALSE
  <2> DEFINE Bad == {x \in 1..Len(open) : i <= x /\ open[x] \notin Below(open[i])}
  <2>1. Bad \in SUBSET Nat /\ Bad # {}
    BY <1>2, <1>5
  <2>2. PICK x \in Bad : \A y \in Bad : x <= y
    BY <2>1, SmallestNat
  <2>3. x \in 1..Len(open) /\ i <= x /\ open[x] \notin Below(open[i])
    OBVIOUS
  <2>4. open[i] \in Below(open[i])
    BY <1>1, <1>2 DEF BelowFacts
  <2>5. i <= x - 1 /\ x - 1 \in 1..Len(open) /\ x # 1 /\ x - 1 < x
    <3>1. x # i
      BY <2>3, <2>4
    <3> QED BY <1>2, <2>3, <3>1
  <2>6. open[x - 1] \in Below(open[i])
    <3>1. x - 1 \notin Bad
      BY <1>2, <2>2, <2>5
    <3> QED BY <2>5, <3>1
  <2>7. doc[open[x]].parent = open[x - 1]
    BY <1>3, <2>3, <2>5
  <2> QED BY <1>1, <1>2, <2>3, <2>5, <2>6, <2>7 DEF BelowFacts
<1> QED BY <1>4, <1>5

-----------------------------------------------------------------------------
(* Markup that is being gathered.                                          *)
TagTokens(ts) == [start : BOOLEAN, of : ts]
TextTokens(ts, m) == [text : 1..m, in : ts]

(* xml has each token once, and they are of the tags ts, all of which have *)
(* started, and of the first m texts.                                      *)
Woven(xml, ts, m) ==
  /\ IsList(xml)
  /\ \A i \in DOMAIN xml : xml[i] \in TagTokens(ts) \cup TextTokens(ts, m)
  /\ \A i, j \in DOMAIN xml : xml[i] = xml[j] => i = j
  /\ \A t \in ts : StartTag(t) \in Tokens(xml)

(* Of the tags ts, those inside t are the ones from i to j in xml.         *)
Mentions(xml, i, j, u) == \E p \in i..j : xml[p] \in {StartTag(u), EndTag(u)}

Spans(xml, i, j, t, ts, B) == \A u \in ts : u \in B[t] <=> Mentions(xml, i, j, u)

Begun(xml, t, ts, B) ==
  /\ EndTag(t) \notin Tokens(xml)
  /\ \E i \in DOMAIN xml : xml[i] = StartTag(t) /\ Spans(xml, i, Len(xml), t, ts, B)

Closed(xml, t, ts, B) ==
  \E i, j \in DOMAIN xml : /\ i < j /\ xml[i] = StartTag(t) /\ xml[j] = EndTag(t)
                           /\ Spans(xml, i, j, t, ts, B)

(* xml is the markup of what is inside r, so far: O are the tags that have *)
(* not ended.                                                              *)
Markup(xml, r, B, O, m) ==
  /\ Woven(xml, B[r], m) /\ xml # << >> /\ xml[1] = StartTag(r)
  /\ \A t \in B[r] : IF t \in O THEN Begun(xml, t, B[r], B) ELSE Closed(xml, t, B[r], B)

LEMMA TokenFacts ==
    /\ \A t, u : /\ StartTag(t) # EndTag(u)
                 /\ StartTag(t) = StartTag(u) => t = u
                 /\ EndTag(t) = EndTag(u) => t = u
                 /\ IsStart(StartTag(t)) /\ ~ IsStart(EndTag(t))
                 /\ ~ IsText(StartTag(t)) /\ ~ IsText(EndTag(t))
                 /\ StartTag(t).of = t /\ EndTag(t).of = t
    /\ \A ts : \A t \in ts : StartTag(t) \in TagTokens(ts) /\ EndTag(t) \in TagTokens(ts)
    /\ \A ts, x : x \in TagTokens(ts) => /\ ~ IsText(x) /\ x.of \in ts
                                         /\ IsStart(x) => x = StartTag(x.of)
                                         /\ ~ IsStart(x) => x = EndTag(x.of)
    /\ \A ts, m, x : x \in TextTokens(ts, m) => /\ IsText(x) /\ ~ IsStart(x) /\ x.in \in ts
                                                /\ x.text \in 1..m
                                                /\ \A u : x # StartTag(u) /\ x # EndTag(u)
<1>1. \A t, u : /\ StartTag(t) # EndTag(u)
                /\ StartTag(t) = StartTag(u) => t = u
                /\ EndTag(t) = EndTag(u) => t = u
                /\ IsStart(StartTag(t)) /\ ~ IsStart(EndTag(t))
                /\ ~ IsText(StartTag(t)) /\ ~ IsText(EndTag(t))
                /\ StartTag(t).of = t /\ EndTag(t).of = t
  BY DEF StartTag, EndTag, IsStart, IsText
<1>2. \A ts : \A t \in ts : StartTag(t) \in TagTokens(ts) /\ EndTag(t) \in TagTokens(ts)
  BY DEF StartTag, EndTag, TagTokens
<1>3. \A ts, x : x \in TagTokens(ts) => /\ ~ IsText(x) /\ x.of \in ts
                                        /\ IsStart(x) => x = StartTag(x.of)
                                        /\ ~ IsStart(x) => x = EndTag(x.of)
  BY DEF StartTag, EndTag, TagTokens, IsStart, IsText
<1>4. \A ts, m, x : x \in TextTokens(ts, m) => /\ IsText(x) /\ ~ IsStart(x) /\ x.in \in ts
                                               /\ x.text \in 1..m
                                               /\ \A u : x # StartTag(u) /\ x # EndTag(u)
  BY DEF StartTag, EndTag, TextTokens, IsStart, IsText
<1> QED BY <1>1, <1>2, <1>3, <1>4

LEMMA ListFacts ==
    ASSUME NEW s, IsList(s)
    PROVE  /\ Len(s) \in Nat /\ DOMAIN s = 1..Len(s) /\ (s = << >> <=> Len(s) = 0)
           /\ \A x : x \in Tokens(s) <=> \E i \in 1..Len(s) : s[i] = x
<1>1. PICK S : s \in Seq(S)
  BY DEF IsList
<1>2. Len(s) \in Nat /\ DOMAIN s = 1..Len(s) /\ (s = << >> <=> Len(s) = 0)
  BY <1>1, EmptySeq
<1> QED BY <1>2 DEF Tokens

LEMMA AppendFacts ==
    ASSUME NEW s, IsList(s), NEW x
    PROVE  /\ IsList(Append(s, x)) /\ Len(Append(s, x)) = Len(s) + 1 /\ Len(s) \in Nat
           /\ DOMAIN s = 1..Len(s) /\ DOMAIN Append(s, x) = 1..(Len(s) + 1)
           /\ \A i \in 1..Len(s) : Append(s, x)[i] = s[i]
           /\ Append(s, x)[Len(s) + 1] = x /\ Append(s, x) # << >>
           /\ Tokens(Append(s, x)) = Tokens(s) \cup {x}
<1>1. /\ IsList(Append(s, x)) /\ Len(Append(s, x)) = Len(s) + 1 /\ Len(s) \in Nat
      /\ DOMAIN s = 1..Len(s) /\ DOMAIN Append(s, x) = 1..(Len(s) + 1)
      /\ \A i \in 1..Len(s) : Append(s, x)[i] = s[i]
      /\ Append(s, x)[Len(s) + 1] = x /\ Append(s, x) # << >>
  BY AppendIsList
<1> DEFINE a == Append(s, x)
<1> HIDE DEF a
<1>2. \A i : i \in 1..(Len(s) + 1) <=> i \in 1..Len(s) \/ i = Len(s) + 1
  BY <1>1
<1>3. Tokens(a) = Tokens(s) \cup {x}
  <2>1. DOMAIN a = 1..(Len(s) + 1) /\ a[Len(s) + 1] = x /\ \A i \in 1..Len(s) : a[i] = s[i]
    BY <1>1 DEF a
  <2> QED BY <1>1, <1>2, <2>1 DEF Tokens
<1> QED BY <1>1, <1>3 DEF a

LEMMA WovenAppend ==
    ASSUME NEW xml, NEW ts, NEW us, NEW m \in Nat, NEW k \in Nat, Woven(xml, ts, m),
           NEW x, x \notin Tokens(xml), ts \subseteq us, m <= k,
           x \in TagTokens(us) \cup TextTokens(us, k),
           \A t \in us : t \in ts \/ x = StartTag(t)
    PROVE  Woven(Append(xml, x), us, k)
<1> DEFINE a == Append(xml, x)
<1>1. /\ IsList(a) /\ Len(xml) \in Nat
      /\ DOMAIN xml = 1..Len(xml) /\ DOMAIN a = 1..(Len(xml) + 1)
      /\ \A i \in 1..Len(xml) : a[i] = xml[i]
      /\ a[Len(xml) + 1] = x /\ Tokens(a) = Tokens(xml) \cup {x}
  BY AppendFacts DEF Woven
<1> HIDE DEF a
<1>2. \A i \in DOMAIN a : i \in DOMAIN xml \/ i = Len(xml) + 1
  BY <1>1
<1>3. TagTokens(ts) \subseteq TagTokens(us) /\ TextTokens(ts, m) \subseteq TextTokens(us, k)
  <2>1. 1..m \subseteq 1..k
    OBVIOUS
  <2>2. TagTokens(ts) \subseteq TagTokens(us)
    BY DEF TagTokens
  <2>3. TextTokens(ts, m) \subseteq TextTokens(us, k)
    BY <2>1 DEF TextTokens
  <2> QED BY <2>2, <2>3
<1>4. \A i \in DOMAIN a : a[i] \in TagTokens(us) \cup TextTokens(us, k)
  BY <1>1, <1>2, <1>3 DEF Woven
<1>5. ASSUME NEW i \in DOMAIN a, NEW j \in DOMAIN a, a[i] = a[j] PROVE i = j
  <2>1. \A y \in DOMAIN xml : xml[y] # x
    BY DEF Tokens
  <2>2. CASE i \in DOMAIN xml /\ j \in DOMAIN xml
    BY <1>1, <1>5, <2>2 DEF Woven
  <2>3. CASE i \in DOMAIN xml /\ j = Len(xml) + 1
    BY <1>1, <1>5, <2>1, <2>3
  <2>4. CASE j \in DOMAIN xml /\ i = Len(xml) + 1
    BY <1>1, <1>5, <2>1, <2>4
  <2> QED BY <1>2, <2>2, <2>3, <2>4
<1>6. \A t \in us : StartTag(t) \in Tokens(a)
  BY <1>1 DEF Woven
<1> QED BY <1>1, <1>4, <1>5, <1>6 DEF Woven, a

LEMMA MentionsAppend ==
    ASSUME NEW xml, IsList(xml), NEW x, NEW i \in DOMAIN xml, NEW u
    PROVE  /\ \A j \in DOMAIN xml : Mentions(Append(xml, x), i, j, u) <=> Mentions(xml, i, j, u)
           /\ Mentions(Append(xml, x), i, Len(xml) + 1, u)
                <=> Mentions(xml, i, Len(xml), u) \/ x \in {StartTag(u), EndTag(u)}
<1> DEFINE a == Append(xml, x)
<1>1. /\ Len(xml) \in Nat /\ DOMAIN xml = 1..Len(xml)
      /\ \A p \in 1..Len(xml) : a[p] = xml[p]
      /\ a[Len(xml) + 1] = x
  BY AppendFacts
<1> HIDE DEF a
<1>2. ASSUME NEW j \in DOMAIN xml PROVE Mentions(a, i, j, u) <=> Mentions(xml, i, j, u)
  <2>1. \A p \in i..j : p \in 1..Len(xml)
    BY <1>1
  <2> QED BY <1>1, <2>1 DEF Mentions
<1>3. Mentions(a, i, Len(xml) + 1, u) <=> Mentions(xml, i, Len(xml), u) \/ x \in {StartTag(u), EndTag(u)}
  <2>1. \A p : p \in i..(Len(xml) + 1) <=> p \in i..Len(xml) \/ p = Len(xml) + 1
    BY <1>1
  <2>2. \A p \in i..Len(xml) : p \in 1..Len(xml)
    BY <1>1
  <2> QED BY <1>1, <2>1, <2>2 DEF Mentions
<1> QED BY <1>2, <1>3 DEF a

LEMMA Unmentioned ==
    ASSUME NEW xml, NEW ts, NEW m, Woven(xml, ts, m), NEW x, x \notin ts
    PROVE  /\ StartTag(x) \notin Tokens(xml) /\ EndTag(x) \notin Tokens(xml)
           /\ \A i, j \in DOMAIN xml : ~ Mentions(xml, i, j, x)
<1>1. Len(xml) \in Nat /\ DOMAIN xml = 1..Len(xml)
  BY ListFacts DEF Woven
<1>2. ASSUME NEW i \in DOMAIN xml PROVE xml[i] # StartTag(x) /\ xml[i] # EndTag(x)
  <2>1. xml[i] \in TagTokens(ts) \/ xml[i] \in TextTokens(ts, m)
    BY DEF Woven
  <2>2. xml[i] \in TagTokens(ts) => xml[i].of \in ts
    BY TokenFacts
  <2>3. xml[i] \in TextTokens(ts, m) => xml[i] # StartTag(x) /\ xml[i] # EndTag(x)
    BY TokenFacts
  <2>4. StartTag(x).of = x /\ EndTag(x).of = x
    BY TokenFacts
  <2> QED BY <2>1, <2>2, <2>3, <2>4
<1>3. \A i, j \in DOMAIN xml : \A p \in i..j : p \in DOMAIN xml
  BY <1>1
<1> QED BY <1>2, <1>3 DEF Tokens, Mentions

(* The tag x starts inside the open tags O among T.                        *)
StartsIn(T, O, x, B, C) ==
  /\ x \notin T /\ C[x] = {x}
  /\ \A t \in T : B[t] \subseteq T /\ C[t] = IF t \in O THEN B[t] \cup {x} ELSE B[t]

LEMMA MarkupStarts ==
    ASSUME NEW T, NEW r \in T, NEW xml, NEW B, NEW C, NEW O, NEW x, NEW m \in Nat,
           Markup(xml, r, B, O, m), r \in O, StartsIn(T, O, x, B, C)
    PROVE  Markup(Append(xml, StartTag(x)), r, C, O \cup {x}, m)
<1> DEFINE ts == B[r]
           us == C[r]
           a == Append(xml, StartTag(x))
           l == Len(xml)
<1>1. /\ Woven(xml, ts, m) /\ IsList(xml) /\ xml # << >> /\ xml[1] = StartTag(r)
      /\ us = ts \cup {x} /\ ts \subseteq T /\ x \notin ts
  BY DEF Markup, Woven, StartsIn
<1>2. StartTag(x) \notin Tokens(xml) /\ \A i, j \in DOMAIN xml : ~ Mentions(xml, i, j, x)
  BY <1>1, Unmentioned
<1>3. StartTag(x) \in TagTokens(us) /\ \A t \in us : t \in ts \/ StartTag(x) = StartTag(t)
  BY <1>1, TokenFacts
<1>4. /\ DOMAIN a = 1..(l + 1) /\ l \in Nat /\ DOMAIN xml = 1..l
      /\ a[l + 1] = StartTag(x) /\ Tokens(a) = Tokens(xml) \cup {StartTag(x)}
      /\ Len(a) = l + 1 /\ a # << >> /\ \A i \in 1..l : a[i] = xml[i]
  BY <1>1, AppendFacts
<1>5. \A t \in ts : C[t] = IF t \in O THEN B[t] \cup {x} ELSE B[t]
  BY <1>1 DEF StartsIn
<1>6. /\ \A i, j \in DOMAIN xml : \A u : Mentions(a, i, j, u) <=> Mentions(xml, i, j, u)
      /\ \A i \in DOMAIN xml : \A u :
           Mentions(a, i, l + 1, u)
             <=> Mentions(xml, i, l, u) \/ StartTag(x) \in {StartTag(u), EndTag(u)}
  BY <1>1, MentionsAppend
<1>7. ASSUME NEW u PROVE StartTag(x) \in {StartTag(u), EndTag(u)} <=> u = x
  BY TokenFacts
<1>8. Woven(a, us, m)
  <2>1. m <= m /\ ts \subseteq us
    BY <1>1
  <2> HIDE DEF ts, us
  <2> QED BY ONLY <1>1, <1>2, <1>3, <2>1, m \in Nat, WovenAppend
<1>9. a[1] = StartTag(r)
  BY <1>1, <1>4, ListFacts
<1>11. l \in DOMAIN xml
  BY <1>1, <1>4, ListFacts
<1>12. x \notin T /\ C[x] = {x} /\ \A t \in ts : B[t] \subseteq T
  BY <1>1 DEF StartsIn
<1>13. \A t \in ts : IF t \in O THEN Begun(xml, t, ts, B) ELSE Closed(xml, t, ts, B)
  BY DEF Markup
<1> HIDE DEF ts, us, a, l
<1>14. ASSUME NEW t \in ts, t \in O PROVE Begun(a, t, us, C)
  <2>1. PICK i \in DOMAIN xml : xml[i] = StartTag(t) /\ Spans(xml, i, l, t, ts, B)
    BY <1>13, <1>14 DEF Begun, l
  <2>2. i \in DOMAIN a /\ a[i] = StartTag(t)
    BY <1>4, <2>1
  <2>3. ASSUME NEW u \in us PROVE u \in C[t] <=> Mentions(a, i, l + 1, u)
    <3>1. CASE u = x
      BY <1>5, <1>6, <1>7, <1>14, <3>1
    <3>2. CASE u # x
      <4>1. u \in ts /\ (u \in C[t] <=> u \in B[t])
        BY <1>1, <1>5, <1>14, <3>2
      <4>2. u \in B[t] <=> Mentions(xml, i, l, u)
        BY <2>1, <4>1 DEF Spans
      <4> QED BY <1>6, <1>7, <3>2, <4>1, <4>2
    <3> QED BY <3>1, <3>2
  <2>4. EndTag(t) \notin Tokens(a)
    <3>1. EndTag(t) \notin Tokens(xml)
      BY <1>13, <1>14 DEF Begun
    <3> QED BY <1>4, <3>1, TokenFacts
  <2> QED BY <1>4, <2>2, <2>3, <2>4 DEF Begun, Spans
<1>15. ASSUME NEW t \in ts, t \notin O PROVE Closed(a, t, us, C)
  <2>1. PICK i \in DOMAIN xml, j \in DOMAIN xml :
           i < j /\ xml[i] = StartTag(t) /\ xml[j] = EndTag(t) /\ Spans(xml, i, j, t, ts, B)
    BY <1>13, <1>15 DEF Closed
  <2>2. i \in DOMAIN a /\ a[i] = StartTag(t) /\ j \in DOMAIN a /\ a[j] = EndTag(t)
    BY <1>4, <2>1
  <2>3. ASSUME NEW u \in us PROVE u \in C[t] <=> Mentions(a, i, j, u)
    <3>1. CASE u = x
      <4>1. u \notin C[t]
        BY <1>5, <1>12, <1>15, <3>1
      <4> QED BY <1>2, <1>6, <3>1, <4>1
    <3>2. CASE u # x
      <4>1. u \in ts /\ (u \in C[t] <=> u \in B[t])
        BY <1>1, <1>5, <1>15, <3>2
      <4>2. u \in B[t] <=> Mentions(xml, i, j, u)
        BY <2>1, <4>1 DEF Spans
      <4> QED BY <1>6, <4>1, <4>2
    <3> QED BY <3>1, <3>2
  <2> QED BY <2>1, <2>2, <2>3 DEF Closed, Spans
<1>16. Begun(a, x, us, C)
  <2>1. l + 1 \in DOMAIN a /\ l + 1 \in (l + 1)..(l + 1) /\ \A p \in (l + 1)..(l + 1) : p = l + 1
    BY <1>4
  <2>2. ASSUME NEW u \in us PROVE u \in C[x] <=> Mentions(a, l + 1, l + 1, u)
    <3>1. Mentions(a, l + 1, l + 1, u) <=> a[l + 1] \in {StartTag(u), EndTag(u)}
      BY <2>1 DEF Mentions
    <3> QED BY <1>4, <1>7, <1>12, <3>1
  <2>3. EndTag(x) \notin Tokens(a)
    <3>1. EndTag(x) \notin Tokens(xml)
      BY ONLY <1>1, Unmentioned
    <3> QED BY <1>4, <3>1, TokenFacts
  <2> QED BY <1>4, <2>1, <2>2, <2>3 DEF Begun, Spans
<1>17. ASSUME NEW t \in us
       PROVE  IF t \in O \cup {x} THEN Begun(a, t, us, C) ELSE Closed(a, t, us, C)
  BY <1>1, <1>14, <1>15, <1>16
<1> QED BY <1>4, <1>8, <1>9, <1>17 DEF Markup, us, a

(* A tag of the markup ends.                                               *)
LEMMA MarkupEnds ==
    ASSUME NEW r, NEW xml, NEW B, NEW O, NEW e, NEW m \in Nat,
           Markup(xml, r, B, O, m), e \in B[r], e \in O,
           \A t \in B[r] : t \in O => e \in B[t]
    PROVE  Markup(Append(xml, EndTag(e)), r, B, O \ {e}, m)
<1> DEFINE ts == B[r]
           a == Append(xml, EndTag(e))
           l == Len(xml)
<1>1. Woven(xml, ts, m) /\ IsList(xml) /\ xml # << >> /\ xml[1] = StartTag(r)
  BY DEF Markup, Woven
<1>2. \A t \in ts : IF t \in O THEN Begun(xml, t, ts, B) ELSE Closed(xml, t, ts, B)
  BY DEF Markup
<1>3. /\ DOMAIN a = 1..(l + 1) /\ l \in Nat /\ DOMAIN xml = 1..l
      /\ a[l + 1] = EndTag(e) /\ Tokens(a) = Tokens(xml) \cup {EndTag(e)}
      /\ Len(a) = l + 1 /\ a # << >> /\ \A i \in 1..l : a[i] = xml[i]
  BY <1>1, AppendFacts
<1>4. /\ \A i, j \in DOMAIN xml : \A u : Mentions(a, i, j, u) <=> Mentions(xml, i, j, u)
      /\ \A i \in DOMAIN xml : \A u :
           Mentions(a, i, l + 1, u)
             <=> Mentions(xml, i, l, u) \/ EndTag(e) \in {StartTag(u), EndTag(u)}
  BY <1>1, MentionsAppend
<1>5. ASSUME NEW u PROVE EndTag(e) \in {StartTag(u), EndTag(u)} <=> u = e
  BY TokenFacts
<1>6. e \in ts /\ \A t \in ts : t \in O => e \in B[t]
  OBVIOUS
<1>7. a[1] = StartTag(r)
  BY <1>1, <1>3, ListFacts
<1> HIDE DEF ts, a, l
<1>8. EndTag(e) \notin Tokens(xml)
  BY <1>2, <1>6 DEF Begun
<1>9. Woven(a, ts, m)
  <2>1. EndTag(e) \in TagTokens(ts) /\ m <= m /\ \A t \in ts : t \in ts \/ EndTag(e) = StartTag(t)
    BY <1>6, TokenFacts
  <2> QED BY ONLY <1>1, <1>8, <2>1, m \in Nat, WovenAppend DEF a
<1>10. ASSUME NEW t \in ts, t \in O, NEW i \in DOMAIN xml, Spans(xml, i, l, t, ts, B)
       PROVE  Spans(a, i, l + 1, t, ts, B)
  <2>1. ASSUME NEW u \in ts PROVE u \in B[t] <=> Mentions(a, i, l + 1, u)
    <3>1. u \in B[t] <=> Mentions(xml, i, l, u)
      BY <1>10 DEF Spans
    <3>2. u = e => u \in B[t]
      BY <1>6, <1>10
    <3> QED BY <1>4, <1>5, <3>1, <3>2
  <2> QED BY <2>1 DEF Spans
<1>11. ASSUME NEW t \in ts, t \in O, t # e PROVE Begun(a, t, ts, B)
  <2>1. PICK i \in DOMAIN xml : xml[i] = StartTag(t) /\ Spans(xml, i, l, t, ts, B)
    BY <1>2, <1>11 DEF Begun, l
  <2>2. i \in DOMAIN a /\ a[i] = StartTag(t)
    BY <1>3, <2>1
  <2>3. EndTag(t) \notin Tokens(a)
    <3>1. EndTag(t) \notin Tokens(xml)
      BY <1>2, <1>11 DEF Begun
    <3> QED BY <1>3, <1>11, <3>1, TokenFacts
  <2> QED BY <1>3, <1>10, <1>11, <2>1, <2>2, <2>3 DEF Begun
<1>12. Closed(a, e, ts, B)
  <2>1. PICK i \in DOMAIN xml : xml[i] = StartTag(e) /\ Spans(xml, i, l, e, ts, B)
    BY <1>2, <1>6 DEF Begun, l
  <2>2. i \in DOMAIN a /\ a[i] = StartTag(e) /\ l + 1 \in DOMAIN a /\ i < l + 1
    BY <1>3, <2>1
  <2>3. Spans(a, i, l + 1, e, ts, B)
    BY <1>6, <1>10, <2>1
  <2> QED BY <1>3, <2>2, <2>3 DEF Closed
<1>13. ASSUME NEW t \in ts, t \notin O PROVE Closed(a, t, ts, B)
  <2>1. PICK i \in DOMAIN xml, j \in DOMAIN xml :
           i < j /\ xml[i] = StartTag(t) /\ xml[j] = EndTag(t) /\ Spans(xml, i, j, t, ts, B)
    BY <1>2, <1>13 DEF Closed
  <2>2. i \in DOMAIN a /\ a[i] = StartTag(t) /\ j \in DOMAIN a /\ a[j] = EndTag(t)
    BY <1>3, <2>1
  <2>3. Spans(a, i, j, t, ts, B)
    BY <1>4, <2>1 DEF Spans
  <2> QED BY <2>1, <2>2, <2>3 DEF Closed
<1>14. ASSUME NEW t \in ts
       PROVE  IF t \in O \ {e} THEN Begun(a, t, ts, B) ELSE Closed(a, t, ts, B)
  BY <1>11, <1>12, <1>13
<1> QED BY <1>3, <1>7, <1>9, <1>14 DEF Markup, ts, a

LEMMA MarkupTexts ==
    ASSUME NEW r, NEW xml, NEW B, NEW O, NEW y, NEW m \in Nat,
           Markup(xml, r, B, O, m), y \in B[r]
    PROVE  Markup(Append(xml, [text |-> m + 1, in |-> y]), r, B, O, m + 1)
<1> DEFINE ts == B[r]
           x == [text |-> m + 1, in |-> y]
           a == Append(xml, x)
           l == Len(xml)
<1>1. Woven(xml, ts, m) /\ IsList(xml) /\ xml # << >> /\ xml[1] = StartTag(r)
  BY DEF Markup, Woven
<1>2. \A t \in ts : IF t \in O THEN Begun(xml, t, ts, B) ELSE Closed(xml, t, ts, B)
  BY DEF Markup
<1>3. /\ DOMAIN a = 1..(l + 1) /\ l \in Nat /\ DOMAIN xml = 1..l
      /\ a[l + 1] = x /\ Tokens(a) = Tokens(xml) \cup {x}
      /\ Len(a) = l + 1 /\ a # << >> /\ \A i \in 1..l : a[i] = xml[i]
  BY <1>1, AppendFacts
<1>4. /\ \A i, j \in DOMAIN xml : \A u : Mentions(a, i, j, u) <=> Mentions(xml, i, j, u)
      /\ \A i \in DOMAIN xml : \A u :
           Mentions(a, i, l + 1, u) <=> Mentions(xml, i, l, u) \/ x \in {StartTag(u), EndTag(u)}
  <2>1. IsList(xml)
    BY <1>1
  <2> QED BY ONLY <2>1, MentionsAppend DEF a, l, x
<1>5. x \in TextTokens(ts, m + 1) /\ x.text = m + 1
  <2>1. m + 1 \in 1..(m + 1)
    OBVIOUS
  <2> QED BY <2>1 DEF TextTokens
<1>7. a[1] = StartTag(r)
  BY <1>1, <1>3, ListFacts
<1>6. \A u : x \notin {StartTag(u), EndTag(u)}
  BY <1>5, TokenFacts
<1>8. x \notin Tokens(xml)
  <2> SUFFICES ASSUME NEW i \in DOMAIN xml, xml[i] = x PROVE FALSE
    BY DEF Tokens
  <2>1. xml[i] \in TagTokens(ts) \/ xml[i] \in TextTokens(ts, m)
    BY <1>1 DEF Woven
  <2>2. xml[i] \in TagTokens(ts) => ~ IsText(xml[i])
    BY TokenFacts
  <2>3. xml[i] \in TextTokens(ts, m) => xml[i].text \in 1..m
    BY TokenFacts
  <2>4. IsText(x)
    BY <1>5, TokenFacts
  <2>5. m + 1 \notin 1..m
    OBVIOUS
  <2> HIDE DEF x
  <2> QED BY <1>5, <2>1, <2>2, <2>3, <2>4, <2>5
<1> HIDE DEF ts, a, l, x
<1>9. Woven(a, ts, m + 1)
  <2>1. m <= m + 1 /\ m + 1 \in Nat
    OBVIOUS
  <2> QED BY ONLY <1>1, <1>5, <1>8, <2>1, m \in Nat, WovenAppend DEF a
<1>11. ASSUME NEW t \in ts, t \in O PROVE Begun(a, t, ts, B)
  <2>1. PICK i \in DOMAIN xml : xml[i] = StartTag(t) /\ Spans(xml, i, l, t, ts, B)
    BY <1>2, <1>11 DEF Begun, l
  <2>2. i \in DOMAIN a /\ a[i] = StartTag(t)
    BY <1>3, <2>1
  <2>3. EndTag(t) \notin Tokens(a)
    <3>1. EndTag(t) \notin Tokens(xml)
      BY <1>2, <1>11 DEF Begun
    <3> QED BY <1>3, <1>6, <3>1
  <2>4. Spans(a, i, l + 1, t, ts, B)
    BY <1>4, <1>6, <2>1 DEF Spans
  <2> QED BY <1>3, <2>2, <2>3, <2>4 DEF Begun
<1>13. ASSUME NEW t \in ts, t \notin O PROVE Closed(a, t, ts, B)
  <2>1. PICK i \in DOMAIN xml, j \in DOMAIN xml :
           i < j /\ xml[i] = StartTag(t) /\ xml[j] = EndTag(t) /\ Spans(xml, i, j, t, ts, B)
    BY <1>2, <1>13 DEF Closed
  <2>2. i \in DOMAIN a /\ a[i] = StartTag(t) /\ j \in DOMAIN a /\ a[j] = EndTag(t)
    BY <1>3, <2>1
  <2>3. Spans(a, i, j, t, ts, B)
    BY <1>4, <2>1 DEF Spans
  <2> QED BY <2>1, <2>2, <2>3 DEF Closed
<1> QED BY <1>3, <1>7, <1>9, <1>11, <1>13 DEF Markup, ts, a, x

(* The markup of a tag that starts.                                        *)
LEMMA MarkupBegins ==
    ASSUME NEW x, NEW B, B[x] = {x}, NEW O, x \in O, NEW m
    PROVE  Markup(<<StartTag(x)>>, x, B, O, m)
<1> DEFINE a == <<StartTag(x)>>
<1>1. IsList(a) /\ Len(a) = 1 /\ DOMAIN a = 1..1 /\ a[1] = StartTag(x) /\ a # << >>
  <2> DEFINE s == StartTag(x)
  <2> HIDE DEF s
  <2>1. a = <<s>>
    BY DEF s
  <2>2. <<s>> \in Seq({s}) /\ Len(<<s>>) = 1 /\ DOMAIN <<s>> = 1..1 /\ <<s>>[1] = s /\ <<s>> # << >>
    OBVIOUS
  <2> HIDE DEF a
  <2> QED BY <2>1, <2>2 DEF IsList, s
<1> HIDE DEF a
<1>2. \A i \in 1..1 : i = 1
  OBVIOUS
<1>3. 1 \in 1..1
  OBVIOUS
<1>4. Tokens(a) = {StartTag(x)}
  BY <1>1, <1>2, <1>3 DEF Tokens
<1>5. Woven(a, {x}, m)
  BY <1>1, <1>2, <1>4, TokenFacts DEF Woven
<1>6. Begun(a, x, {x}, B)
  <2>1. Spans(a, 1, 1, x, {x}, B)
    BY <1>1, <1>3 DEF Spans, Mentions
  <2>2. EndTag(x) \notin Tokens(a)
    BY <1>4, TokenFacts
  <2> QED BY <1>1, <1>3, <2>1, <2>2 DEF Begun
<1> QED BY <1>1, <1>5, <1>6 DEF Markup, a

(* The markup of what has ended is left alone.                             *)
LEMMA MarkupStays ==
    ASSUME NEW r, NEW xml, NEW B, NEW C, NEW m \in Nat, NEW k \in Nat, m <= k,
           Markup(xml, r, B, {}, m), C[r] = B[r], \A t \in B[r] : C[t] = B[t]
    PROVE  Markup(xml, r, C, {}, k)
<1>1. Woven(xml, C[r], k)
  <2>1. 1..m \subseteq 1..k
    OBVIOUS
  <2>2. TextTokens(B[r], m) \subseteq TextTokens(B[r], k)
    BY <2>1 DEF TextTokens
  <2>3. Woven(xml, B[r], m)
    BY DEF Markup
  <2> QED BY <2>2, <2>3 DEF Woven
<1>2. ASSUME NEW t \in B[r] PROVE Closed(xml, t, C[r], C)
  <2>1. Closed(xml, t, B[r], B)
    BY DEF Markup
  <2> QED BY <2>1 DEF Closed, Spans
<1> QED BY <1>1, <1>2 DEF Markup

Inside == [t \in Tags |-> Below(t)]

(* Markup all of whose tags have ended is what UnknownIntact asks for.     *)
LEMMA MarkupIsWhole ==
    ASSUME DocShape, NEW r \in Tags, NEW xml, NEW m, Markup(xml, r, Inside, {}, m)
    PROVE  /\ IsMarkupOf(xml, Below(r)) /\ xml # << >> /\ IsStart(Head(xml)) /\ Head(xml).of = r
           /\ \A token \in Tokens(xml) : IsText(token) => token.text \in 1..m
<1>1. Inside[r] = Below(r) /\ Below(r) \subseteq Tags /\ \A t \in Tags : Inside[t] = Below(t)
  BY BelowIs DEF Inside
<1>2. Woven(xml, Below(r), m) /\ xml # << >> /\ xml[1] = StartTag(r)
  BY <1>1 DEF Markup
<1>3. ASSUME NEW x \in Tokens(xml) PROVE x \in TagTokens(Below(r)) \/ x \in TextTokens(Below(r), m)
  BY <1>2 DEF Woven, Tokens
<1>4. {x.of : x \in {y \in Tokens(xml) : IsStart(y)}} = Below(r)
  <2>1. \A x \in Tokens(xml) : IsStart(x) => x.of \in Below(r)
    BY <1>3, TokenFacts
  <2>2. \A t \in Below(r) : StartTag(t) \in Tokens(xml) /\ IsStart(StartTag(t)) /\ StartTag(t).of = t
    BY <1>2, TokenFacts DEF Woven
  <2> QED BY <2>1, <2>2
<1>5. \A x \in Tokens(xml) : IsText(x) => x.in \in Below(r) /\ x.text \in 1..m
  BY <1>3, TokenFacts
<1>6. ASSUME NEW t \in Below(r)
      PROVE  \E i, j \in DOMAIN xml :
               /\ i < j /\ xml[i] = StartTag(t) /\ xml[j] = EndTag(t)
               /\ \A u \in Below(r) : u \in Below(t) <=>
                     \E p \in i..j : xml[p] \in {StartTag(u), EndTag(u)}
  <2>1. Closed(xml, t, Below(r), Inside) /\ Inside[t] = Below(t)
    BY <1>1 DEF Markup
  <2> QED BY <2>1 DEF Closed, Spans, Mentions
<1>7. IsMarkupOf(xml, Below(r))
  BY <1>2, <1>4, <1>5, <1>6 DEF IsMarkupOf, Woven
<1>8. Head(xml) = StartTag(r)
  <2>1. PICK S : xml \in Seq(S)
    BY <1>2 DEF Woven, IsList
  <2> QED BY <1>2, <2>1, HeadTailProperties
<1> QED BY <1>2, <1>5, <1>7, <1>8, TokenFacts

-----------------------------------------------------------------------------
(* What is gathered and what has been handed on, between two events.       *)
OpenTags == {open[i] : i \in DOMAIN open}

(* s is text of t and nothing else.                                        *)
OwnText(s, t, m) == IsList(s) /\ \A i \in DOMAIN s : s[i] \in TextTokens({t}, m)

(* A string of char_data_, for the open tag t.                             *)
Gathers(d, s, t, B, O, m) ==
  IF d[t].cls = "unknown" THEN Markup(s, t, B, O, m)
  ELSE IF d[t].name = "description" THEN IsList(s) /\ Markup(<<StartTag(t)>> \o s, t, B, O, m)
  ELSE OwnText(s, t, m)

AllGathered ==
  \A j \in DOMAIN char_data : Gathers(doc, char_data[j], open[j], Inside, OpenTags, texts)

(* What the element t was given.                                           *)
HasGot(d, s, t, B, m) ==
  IF d[t].name = "description"
    THEN IsList(s) /\ Markup(<<StartTag(t)>> \o Append(s, EndTag(t)), t, B, {}, m)
    ELSE OwnText(s, t, m)

AllGiven ==
  /\ DOMAIN content = DOMAIN type \ OpenTags
  /\ \A t \in DOMAIN content : HasGot(doc, content[t], t, Inside, texts)

(* The unknown tags that have ended, and what was made of each.            *)
ForeignTags ==
  {t \in Tags : /\ doc[t].cls = "unknown" /\ doc[t].parent \in DOMAIN type
                /\ ~ IsDescription(doc[t].parent)}

AllHandedOn ==
  /\ \A u \in unknown : \E r \in ForeignTags \ OpenTags :
       Markup(u.xml, r, Inside, {}, texts) /\ u.at = doc[r].parent
  /\ \A r \in ForeignTags \ OpenTags : \E u \in unknown : u.xml[1] = StartTag(r)
  /\ \A u, v \in unknown : u.xml[1] = v.xml[1] => u = v

(* The children of old style Placemarks, and the Placemarks they are for.  *)
IsOld(d, t) == d[t].cls = "known" /\ d[t].name = OldName

FieldIs(d, f, K, B, O, m) ==
  /\ DOMAIN f = {"of", "text", "owner"} /\ f.of \in DOMAIN d /\ OwnText(f.text, f.of, m)
  /\ d[f.of].parent \in K
  /\ IsOld(d, d[f.of].parent) =>
       IF f.owner = NoTag THEN d[f.of].parent \in O
                          ELSE IsOld(d, f.owner) /\ f.owner \in B[d[f.of].parent]

FieldsOwned ==
  /\ \A i \in DOMAIN simpledata_vec :
       FieldIs(doc, simpledata_vec[i], DOMAIN type, Inside, OpenTags, texts)
  /\ simpledata_vec # << >> => old_schema_name = OldName
  /\ in_old_schema_placemark => /\ simpledata_vec[Len(simpledata_vec)].of = open[Len(open)]
                                /\ simpledata_vec[Len(simpledata_vec)].text = << >>

(* Each of the m texts is in exactly one of the strings S.                 *)
Once(S, m) ==
  /\ \A s \in S : TextsOf(s[3]) \subseteq 1..m
  /\ \A i \in 1..m : \E s \in S : i \in TextsOf(s[3])
  /\ \A s, z \in S : TextsOf(s[3]) \cap TextsOf(z[3]) # {} => s = z

Contents == {<<"content", t, content[t]>> : t \in DOMAIN content}
Unknowns == {<<"unknown", u.at, u.xml>> : u \in unknown}
Fields == {<<"simpledata", simpledata_vec[i].of, simpledata_vec[i].text>> :
              i \in DOMAIN simpledata_vec}
Waiting == {<<"open", j, char_data[j]>> : j \in DOMAIN char_data}

Strings == Contents \cup Unknowns \cup Fields \cup Waiting

Placed ==
  /\ texts \in Nat
  /\ AllGathered /\ AllGiven /\ AllHandedOn /\ FieldsOwned
  /\ Once(Strings, texts)

TInv ==
  /\ phase \in {"run", "done"} /\ ~ confused => Placed
  /\ phase = "done" /\ ~ confused => open = << >> /\ char_data = << >>

LEMMA OpenTagsAre ==
    ASSUME DocShape
    PROVE  /\ OpenTags \subseteq Tags /\ \A t : t \in OpenTags <=> IsOpen(t)
           /\ \A i \in 1..Len(open) : open[i] \in OpenTags
           /\ open = << >> => OpenTags = {}
<1>1. DOMAIN open = 1..Len(open) /\ \A i \in 1..Len(open) : open[i] \in Tags
  BY DocFacts DEF Tags
<1>2. open = << >> => DOMAIN open = {}
  BY DocFacts
<1> QED BY <1>1, <1>2 DEF OpenTags, IsOpen

LEMMA InsideFacts ==
    ASSUME DocShape
    PROVE  /\ \A t \in Tags : /\ Inside[t] = Below(t) /\ Inside[t] \subseteq Tags /\ t \in Inside[t]
                              /\ t \notin OpenTags => Inside[t] \cap OpenTags = {}
                              /\ t \in OpenTags /\ open # << >> => open[Len(open)] \in Inside[t]
<1>1. \A t \in Tags : Inside[t] = Below(t) /\ Inside[t] \subseteq Tags /\ t \in Inside[t]
  BY BelowIs DEF Inside
<1>2. ASSUME NEW t \in Tags, t \notin OpenTags, NEW u \in Inside[t], u \in OpenTags PROVE FALSE
  <2>1. PICK j \in 1..Len(open) : u = open[j]
    BY <1>2, DocFacts DEF OpenTags
  <2> QED BY <1>1, <1>2, <2>1, OpenIsBelow, OpenTagsAre
<1>3. ASSUME NEW t \in Tags, t \in OpenTags, open # << >> PROVE open[Len(open)] \in Inside[t]
  <2>1. PICK i \in 1..Len(open) : t = open[i]
    BY <1>3, DocFacts DEF OpenTags
  <2>2. Len(open) \in 1..Len(open) /\ i <= Len(open)
    BY <1>3, DocFacts
  <2> QED BY <1>1, <2>1, <2>2, OpenIsBelow
<1> QED BY <1>1, <1>2, <1>3

(* What a step never takes back.                                           *)
Later ==
  /\ Tags \subseteq Tags' /\ texts \in Nat /\ texts' \in Nat /\ texts <= texts'
  /\ \A t \in Tags : doc'[t] = doc[t] /\ Inside[t] \subseteq Inside'[t]
  /\ \A t \in Tags \ OpenTags : Inside'[t] = Inside[t]

LEMMA InsideGrows ==
    ASSUME DocShape, NEW name \in Names, NEW old, ExpatStarts(name, old), texts \in Nat
    PROVE  /\ Later /\ texts' = texts
           /\ Tags' = Tags \cup {n} /\ n \notin Tags /\ OpenTags' = OpenTags \cup {n}
           /\ Inside'[n] = {n} /\ n \in DOMAIN Inside'
           /\ \A t \in Tags : Inside'[t] = IF t \in OpenTags THEN Inside[t] \cup {n} ELSE Inside[t]
<1>1. /\ Tags' = Tags \cup {n} /\ n \notin Tags
      /\ \A t \in Tags : /\ \A u \in Tags : u \in Below(t)' <=> u \in Below(t)
                         /\ Below(t)' \subseteq Tags' /\ t \in Below(t)'
                         /\ n \in Below(t)' <=> open # << >> /\ open[Len(open)] \in Below(t)
      /\ \A t : t = n => Below(t)' = {t}
  BY BelowGrows
<1>2. \A t \in Tags : doc'[t] = doc[t]
  BY StartFacts DEF Tags
<1>3. texts' = texts
  BY DEF ExpatStarts
<1>4. OpenTags' = OpenTags \cup {n}
  <2>1. /\ DOMAIN open' = DOMAIN open \cup {Len(open) + 1} /\ open'[Len(open) + 1] = n
        /\ \A i \in DOMAIN open : open'[i] = open[i]
    BY StartOpens
  <2> QED BY <2>1 DEF OpenTags
<1>5. \A t \in Tags' : Inside'[t] = Below(t)'
  BY DEF Inside
<1>6. DOMAIN Inside' = Tags'
  BY DEF Inside
<1>7. ASSUME NEW t \in Tags
      PROVE  Inside'[t] = IF t \in OpenTags THEN Inside[t] \cup {n} ELSE Inside[t]
  <2>1. n \in Below(t)' <=> t \in OpenTags
    <3>1. CASE open = << >>
      BY <1>1, <3>1, OpenTagsAre
    <3>2. CASE open # << >>
      <4>1. Len(open) \in 1..Len(open) /\ (open[Len(open)] \in Below(t) => IsOpen(t))
        BY <3>2, DocFacts, OpenIsBelow
      <4>2. t \in OpenTags => open[Len(open)] \in Below(t)
        BY <3>2, InsideFacts
      <4> QED BY <1>1, <3>2, <4>1, <4>2, OpenTagsAre
    <3> QED BY <3>1, <3>2
  <2>2. Inside'[t] = Below(t)' /\ Inside[t] = Below(t) /\ Inside[t] \subseteq Tags
    BY <1>1, <1>5, InsideFacts
  <2>3. Below(t)' \subseteq Tags \cup {n} /\ n \notin Tags
        /\ \A u \in Tags : u \in Below(t)' <=> u \in Below(t)
    BY <1>1
  <2> QED BY <2>1, <2>2, <2>3
<1>8. Inside'[n] = {n}
  <2>1. \A t : t = n => t \in Tags' /\ Below(t)' = {t}
    BY <1>1
  <2> QED BY <1>5, <2>1
<1>9. Later
  <2>1. Tags \subseteq Tags' /\ texts' \in Nat /\ texts <= texts'
    BY <1>1, <1>3
  <2>2. \A t \in Tags : Inside[t] \subseteq Inside'[t]
    BY <1>7
  <2>3. \A t \in Tags \ OpenTags : Inside'[t] = Inside[t]
    BY <1>7
  <2> QED BY <1>2, <2>1, <2>2, <2>3 DEF Later
<1> QED BY <1>1, <1>3, <1>4, <1>6, <1>7, <1>8, <1>9

LEMMA InsideStays ==
    ASSUME doc' = doc
    PROVE  /\ Inside' = Inside /\ Tags' = Tags
           /\ texts \in Nat /\ texts' \in Nat /\ texts <= texts' => Later
<1>1. Tags' = Tags /\ \A t : Below(t)' = Below(t)
  BY BelowStays
<1>2. Inside' = Inside
  BY <1>1 DEF Inside
<1> QED BY <1>1, <1>2 DEF Later

(* What has been handed on stays as it was.                                *)
LEMMA OwnTextStays ==
    ASSUME NEW s, NEW t, NEW m \in Nat, NEW k \in Nat, m <= k, OwnText(s, t, m)
    PROVE  OwnText(s, t, k)
<1>1. 1..m \subseteq 1..k
  OBVIOUS
<1>2. TextTokens({t}, m) \subseteq TextTokens({t}, k)
  BY <1>1 DEF TextTokens
<1> QED BY <1>2 DEF OwnText

LEMMA StillGot ==
    ASSUME DocShape, Later, NEW t \in Tags \ OpenTags, NEW s
    PROVE  /\ Markup(s, t, Inside, {}, texts) => Markup(s, t, Inside', {}, texts')
           /\ HasGot(doc, s, t, Inside, texts) => HasGot(doc', s, t, Inside', texts')
<1>1. /\ texts \in Nat /\ texts' \in Nat /\ texts <= texts' /\ doc'[t] = doc[t]
      /\ Inside'[t] = Inside[t] /\ \A u \in Inside[t] : Inside'[u] = Inside[u]
  BY InsideFacts DEF Later
<1>2. \A z : Markup(z, t, Inside, {}, texts) => Markup(z, t, Inside', {}, texts')
  BY ONLY <1>1, MarkupStays
<1>3. OwnText(s, t, texts) => OwnText(s, t, texts')
  BY <1>1, OwnTextStays
<1> QED BY <1>1, <1>2, <1>3 DEF HasGot

LEMMA GivenStays ==
    ASSUME DocShape, Later, AllGiven, content' = content, DOMAIN type \subseteq Tags,
           DOMAIN type' \ OpenTags' = DOMAIN type \ OpenTags
    PROVE  AllGiven'
<1>1. DOMAIN content' = DOMAIN type' \ OpenTags'
  BY DEF AllGiven
<1>2. ASSUME NEW t \in DOMAIN content' PROVE HasGot(doc', content'[t], t, Inside', texts')
  <2>1. t \in Tags \ OpenTags /\ HasGot(doc, content[t], t, Inside, texts)
    BY DEF AllGiven
  <2> QED BY <2>1, StillGot
<1> QED BY <1>1, <1>2 DEF AllGiven

LEMMA HandedStays ==
    ASSUME DocShape, Later, AllHandedOn, unknown' = unknown,
           ForeignTags' \ OpenTags' = ForeignTags \ OpenTags
    PROVE  AllHandedOn'
<1>1. \A r \in ForeignTags : r \in Tags
  BY DEF ForeignTags
<1>2. ASSUME NEW u \in unknown
      PROVE  \E r \in ForeignTags' \ OpenTags' :
               Markup(u.xml, r, Inside', {}, texts') /\ u.at = doc'[r].parent
  <2>1. PICK r \in ForeignTags \ OpenTags :
           Markup(u.xml, r, Inside, {}, texts) /\ u.at = doc[r].parent
    BY DEF AllHandedOn
  <2>2. Markup(u.xml, r, Inside', {}, texts') /\ doc'[r] = doc[r]
    BY <1>1, <2>1, StillGot DEF Later
  <2> QED BY <2>1, <2>2
<1> QED BY <1>2 DEF AllHandedOn

LEMMA FieldStays ==
    ASSUME DocShape, Later, DOMAIN type \subseteq Tags, DOMAIN type \subseteq DOMAIN type',
           NEW f, FieldIs(doc, f, DOMAIN type, Inside, OpenTags, texts),
           IsOld(doc, doc[f.of].parent) /\ f.owner = NoTag => doc[f.of].parent \in OpenTags'
    PROVE  FieldIs(doc', f, DOMAIN type', Inside', OpenTags', texts')
<1> DEFINE p == doc[f.of].parent
<1>1. f.of \in Tags /\ OwnText(f.text, f.of, texts) /\ p \in DOMAIN type
  BY DEF FieldIs, Tags
<1>2. f.of \in Tags' /\ doc'[f.of] = doc[f.of] /\ p \in Tags /\ doc'[p] = doc[p]
      /\ doc'[f.of].parent = p
  BY <1>1 DEF Later
<1>3. OwnText(f.text, f.of, texts')
  BY <1>1, OwnTextStays DEF Later
<1>4. ASSUME IsOld(doc, p), f.owner # NoTag
      PROVE  IsOld(doc', f.owner) /\ f.owner \in Inside'[p]
  <2>1. IsOld(doc, f.owner) /\ f.owner \in Inside[p] /\ f.owner \in Tags
    BY <1>2, <1>4, InsideFacts DEF FieldIs
  <2>2. doc'[f.owner] = doc[f.owner] /\ Inside[p] \subseteq Inside'[p]
    BY <1>2, <2>1 DEF Later
  <2> QED BY <2>1, <2>2 DEF IsOld
<1>5. IsOld(doc', p) <=> IsOld(doc, p)
  BY <1>2 DEF IsOld
<1>6. DOMAIN f = {"of", "text", "owner"} /\ f.of \in DOMAIN doc' /\ p \in DOMAIN type'
  BY <1>1, <1>2 DEF Tags, FieldIs
<1> QED BY <1>1, <1>2, <1>3, <1>4, <1>5, <1>6 DEF FieldIs

-----------------------------------------------------------------------------
(* The texts of a string, and what a step does to the set of all strings.  *)
LEMMA TextsAppend ==
    ASSUME NEW s, IsList(s), NEW x
    PROVE  /\ IsText(x) => TextsOf(Append(s, x)) = TextsOf(s) \cup {x.text}
           /\ ~ IsText(x) => TextsOf(Append(s, x)) = TextsOf(s)
<1>1. Tokens(Append(s, x)) = Tokens(s) \cup {x}
  BY AppendFacts
<1>2. CASE IsText(x)
  <2>1. {y \in Tokens(Append(s, x)) : IsText(y)} = {y \in Tokens(s) : IsText(y)} \cup {x}
    BY <1>1, <1>2
  <2> QED BY <1>2, <2>1 DEF TextsOf
<1>3. CASE ~ IsText(x)
  <2>1. {y \in Tokens(Append(s, x)) : IsText(y)} = {y \in Tokens(s) : IsText(y)}
    BY <1>1, <1>3
  <2> QED BY <1>3, <2>1 DEF TextsOf
<1> QED BY <1>2, <1>3

LEMMA TextsEmpty ==
    /\ TextsOf(<< >>) = {}
    /\ \A x : ~ IsText(x) => TextsOf(<<x>>) = {}
<1>1. DOMAIN << >> = {} /\ IsList(<< >>) /\ \A x : <<x>> = Append(<< >>, x)
  BY EmptyIsList
<1>2. TextsOf(<< >>) = {}
  BY <1>1 DEF TextsOf, Tokens
<1>3. ASSUME NEW x, ~ IsText(x) PROVE TextsOf(<<x>>) = {}
  <2>1. TextsOf(Append(<< >>, x)) = {}
    BY <1>1, <1>2, <1>3, TextsAppend
  <2> QED BY <1>1, <2>1
<1> QED BY <1>2, <1>3

(* Strings without text come and go.                                       *)
LEMMA OnceGrows ==
    ASSUME NEW S, NEW Z, NEW m, Once(S, m),
           \A s \in Z : s \in S \/ TextsOf(s[3]) = {},
           \A s \in S : s \in Z \/ TextsOf(s[3]) = {}
    PROVE  Once(Z, m)
<1>1. \A s \in Z : TextsOf(s[3]) \subseteq 1..m
  BY DEF Once
<1>2. ASSUME NEW i \in 1..m PROVE \E s \in Z : i \in TextsOf(s[3])
  <2>1. PICK s \in S : i \in TextsOf(s[3])
    BY DEF Once
  <2> QED BY <2>1
<1>3. ASSUME NEW s \in Z, NEW z \in Z, TextsOf(s[3]) \cap TextsOf(z[3]) # {} PROVE s = z
  <2>1. s \in S /\ z \in S
    BY <1>3
  <2> QED BY <1>3, <2>1 DEF Once
<1> QED BY <1>1, <1>2, <1>3 DEF Once

(* The string a becomes b, with the new texts X.                           *)
Moved(S, Z, a, b, X) ==
  /\ a \in S /\ b \in Z /\ TextsOf(b[3]) = TextsOf(a[3]) \cup X
  /\ \A s \in Z : s = b \/ (s \in S /\ s # a) \/ TextsOf(s[3]) = {}
  /\ \A s \in S : s = a \/ s \in Z \/ TextsOf(s[3]) = {}

LEMMA OnceMoves ==
    ASSUME NEW S, NEW Z, NEW m, NEW k, Once(S, m), NEW a, NEW b, NEW X, Moved(S, Z, a, b, X),
           X \cap (1..m) = {}, 1..k = (1..m) \cup X
    PROVE  Once(Z, k)
<1>0. /\ a \in S /\ b \in Z /\ TextsOf(b[3]) = TextsOf(a[3]) \cup X
      /\ \A s \in Z : s = b \/ (s \in S /\ s # a) \/ TextsOf(s[3]) = {}
      /\ \A s \in S : s = a \/ s \in Z \/ TextsOf(s[3]) = {}
  BY DEF Moved
<1>1. ASSUME NEW s \in Z PROVE TextsOf(s[3]) \subseteq 1..k
  <2>1. TextsOf(a[3]) \subseteq 1..m /\ \A z \in S : TextsOf(z[3]) \subseteq 1..m
    BY <1>0 DEF Once
  <2> QED BY <1>0, <2>1
<1>2. ASSUME NEW i \in 1..k PROVE \E s \in Z : i \in TextsOf(s[3])
  <2>1. CASE i \in X
    BY <1>0, <2>1
  <2>2. CASE i \in 1..m
    <3>1. PICK s \in S : i \in TextsOf(s[3])
      BY <2>2 DEF Once
    <3> QED BY <1>0, <3>1
  <2> QED BY <2>1, <2>2
<1>3. ASSUME NEW z \in Z, z # b PROVE TextsOf(b[3]) \cap TextsOf(z[3]) = {}
  <2>1. CASE TextsOf(z[3]) = {}
    BY <2>1
  <2>2. CASE z \in S /\ z # a
    <3>1. TextsOf(z[3]) \subseteq 1..m /\ TextsOf(a[3]) \cap TextsOf(z[3]) = {}
      BY <1>0, <2>2 DEF Once
    <3> QED BY <1>0, <3>1
  <2> QED BY <1>0, <1>3, <2>1, <2>2
<1>4. ASSUME NEW s \in Z, NEW z \in Z, TextsOf(s[3]) \cap TextsOf(z[3]) # {} PROVE s = z
  <2>1. CASE s = b \/ z = b
    BY <1>3, <1>4, <2>1
  <2>2. CASE s # b /\ z # b
    <3>1. s \in S /\ z \in S
      BY <1>0, <1>4, <2>2
    <3> QED BY <1>4, <3>1 DEF Once
  <2> QED BY <2>1, <2>2
<1> QED BY <1>1, <1>2, <1>4 DEF Once

Waits(cd) == {<<"open", j, cd[j]>> : j \in DOMAIN cd}

LEMMA WaitingIs == Waiting = Waits(char_data)
BY DEF Waiting, Waits

LEMMA WaitsAppend ==
    ASSUME NEW cd, IsList(cd), NEW s
    PROVE  Waits(Append(cd, s)) = Waits(cd) \cup {<<"open", Len(cd) + 1, s>>}
<1> DEFINE a == Append(cd, s)
<1>1. /\ DOMAIN cd = 1..Len(cd) /\ DOMAIN a = 1..(Len(cd) + 1) /\ Len(cd) \in Nat
      /\ \A i \in 1..Len(cd) : a[i] = cd[i]
      /\ a[Len(cd) + 1] = s
  BY AppendFacts
<1> HIDE DEF a
<1>2. \A j : j \in DOMAIN a <=> j \in DOMAIN cd \/ j = Len(cd) + 1
  BY <1>1
<1>3. Waits(a) = Waits(cd) \cup {<<"open", Len(cd) + 1, s>>}
  BY <1>1, <1>2 DEF Waits
<1> QED BY <1>3 DEF a

(* The top string, and the strings below it.                               *)
LEMMA TopFacts ==
    ASSUME NEW cd, IsList(cd), cd # << >>, NEW x
    PROVE  /\ Len(cd) \in Nat /\ Len(cd) > 0 /\ DOMAIN cd = 1..Len(cd) /\ Top(cd) = cd[Len(cd)]
           /\ IsList(AppendTop(cd, x)) /\ Len(AppendTop(cd, x)) = Len(cd)
           /\ DOMAIN AppendTop(cd, x) = 1..Len(cd)
           /\ AppendTop(cd, x)[Len(cd)] = Append(cd[Len(cd)], x)
           /\ \A j \in 1..(Len(cd) - 1) : AppendTop(cd, x)[j] = cd[j]
           /\ Top(AppendTop(cd, x)) = Append(cd[Len(cd)], x)
           /\ IsList(Pop(cd)) /\ DOMAIN Pop(cd) = 1..(Len(cd) - 1) /\ Len(Pop(cd)) = Len(cd) - 1
           /\ \A j \in 1..(Len(cd) - 1) : Pop(cd)[j] = cd[j]
<1>1. PICK S : cd \in Seq(S)
  BY DEF IsList
<1>2. Len(cd) \in Nat /\ Len(cd) > 0 /\ DOMAIN cd = 1..Len(cd) /\ Top(cd) = cd[Len(cd)]
  BY <1>1, EmptySeq DEF Top
<1>3. IsList(AppendTop(cd, x)) /\ Len(AppendTop(cd, x)) = Len(cd)
  BY TopIsList
<1>4. /\ DOMAIN AppendTop(cd, x) = 1..Len(cd)
      /\ AppendTop(cd, x)[Len(cd)] = Append(cd[Len(cd)], x)
      /\ \A j \in 1..(Len(cd) - 1) : AppendTop(cd, x)[j] = cd[j]
  <2> DEFINE l == Len(cd)
             y == Append(cd[l], x)
  <2>1. AppendTop(cd, x) = [cd EXCEPT ![l] = y]
    BY DEF AppendTop
  <2>4. l \in Nat /\ l > 0 /\ DOMAIN cd = 1..l
    BY <1>2
  <2> HIDE DEF l, y
  <2>2. l \in 1..l /\ \A j \in 1..(l - 1) : j \in 1..l /\ j # l
    BY ONLY <2>4
  <2>3. LET f == [cd EXCEPT ![l] = y] IN
          DOMAIN f = 1..l /\ f[l] = y /\ \A j \in 1..(l - 1) : f[j] = cd[j]
    BY <2>2, <2>4
  <2> QED BY <2>1, <2>3 DEF l, y
<1>5. IsList(Pop(cd)) /\ Len(Pop(cd)) = Len(cd) - 1
  BY PopIsList
<1>6. DOMAIN Pop(cd) = 1..(Len(cd) - 1) /\ \A j \in 1..(Len(cd) - 1) : Pop(cd)[j] = cd[j]
  BY <1>1, <1>2 DEF Pop
<1>7. Top(AppendTop(cd, x)) = Append(cd[Len(cd)], x)
  BY <1>3, <1>4 DEF Top
<1> QED BY <1>2, <1>3, <1>4, <1>5, <1>6, <1>7

LEMMA WaitsTop ==
    ASSUME NEW cd, IsList(cd), cd # << >>, NEW x
    PROVE  /\ <<"open", Len(cd), cd[Len(cd)]>> \in Waits(cd)
           /\ <<"open", Len(cd), Append(cd[Len(cd)], x)>> \in Waits(AppendTop(cd, x))
           /\ \A w \in Waits(cd) : w \in Waits(Pop(cd)) \/ w = <<"open", Len(cd), cd[Len(cd)]>>
           /\ \A w \in Waits(Pop(cd)) : w \in Waits(cd) /\ w # <<"open", Len(cd), cd[Len(cd)]>>
           /\ Waits(AppendTop(cd, x)) =
                Waits(Pop(cd)) \cup {<<"open", Len(cd), Append(cd[Len(cd)], x)>>}
<1> DEFINE a == AppendTop(cd, x)
           p == Pop(cd)
           l == Len(cd)
           y == Append(cd[l], x)
<1>1. /\ l \in Nat /\ l > 0 /\ DOMAIN cd = 1..l /\ DOMAIN a = 1..l /\ a[l] = y
      /\ DOMAIN p = 1..(l - 1)
      /\ \A j \in 1..(l - 1) : a[j] = cd[j] /\ p[j] = cd[j]
  BY TopFacts
<1> HIDE DEF a, p, l, y
<1>2. \A j : j \in 1..l <=> j \in 1..(l - 1) \/ j = l
  BY <1>1
<1>3. \A j \in 1..(l - 1) : j # l
  BY <1>1
<1>4. <<"open", l, cd[l]>> \in Waits(cd) /\ <<"open", l, y>> \in Waits(a)
  BY <1>1, <1>2 DEF Waits
<1>5. \A w \in Waits(cd) : w \in Waits(p) \/ w = <<"open", l, cd[l]>>
  BY <1>1, <1>2 DEF Waits
<1>6. \A w \in Waits(p) : w \in Waits(cd) /\ w # <<"open", l, cd[l]>>
  BY <1>1, <1>2, <1>3 DEF Waits
<1>7. Waits(a) = Waits(p) \cup {<<"open", l, y>>}
  BY <1>1, <1>2 DEF Waits
<1> QED BY <1>4, <1>5, <1>6, <1>7 DEF a, p, l, y

-----------------------------------------------------------------------------
(* The strings below the one that is being gathered are text of an element.*)
Plain(t) == doc[t].cls # "unknown" /\ ~ IsDescription(t)

LEMMA CharDataFacts ==
    ASSUME DocShape, NEW k \in 0..Len(open), Live(k)
    PROVE  /\ IsList(char_data) /\ DOMAIN char_data = 1..Len(char_data)
           /\ Len(char_data) \in Nat /\ Len(char_data) <= Len(open)
           /\ k <= Len(char_data) /\ Len(char_data) <= k + 1
           /\ \A j \in 1..Len(char_data) :
                j < Len(char_data) \/ InElement(k) \/ InOldChild(k) => Plain(open[j])
<1>1. IsList(char_data) /\ k \in Nat /\ Len(open) \in Nat /\ k <= Len(open)
  BY LiveFacts DEF Live, Sync, Lists
<1>2. DOMAIN char_data = 1..Len(char_data) /\ Len(char_data) \in Nat
  BY <1>1, ListFacts
<1>3. \A i \in 1..k : doc[open[i]].cls = "known" /\ (i < k => ~ IsDescription(open[i]))
  BY DEF Live, Sync, Path
<1>4. CASE InDescription(k)
  <2>1. Len(char_data) = k /\ ~ InElement(k) /\ ~ InOldChild(k)
    BY <1>4 DEF InDescription, InElement, InOldChild
  <2> QED BY <1>1, <1>2, <1>3, <2>1 DEF Plain
<1>5. CASE InElement(k)
  <2>1. Len(char_data) = k /\ (k > 0 => ~ IsDescription(open[k]))
    BY <1>5 DEF InElement
  <2>2. \A j \in 1..k : Plain(open[j])
    BY <1>1, <1>3, <2>1 DEF Plain
  <2> QED BY <1>1, <1>2, <2>1, <2>2
<1>6. CASE InOldChild(k)
  <2>1. Len(char_data) = k + 1 /\ Len(open) = k + 1 /\ k > 0 /\ ~ IsDescription(open[k])
        /\ doc[open[k + 1]].cls = "field"
    BY <1>6 DEF InOldChild
  <2>2. \A j \in 1..k : Plain(open[j])
    BY <1>1, <1>3, <2>1 DEF Plain
  <2>3. Plain(open[k + 1])
    <3>1. open[k + 1] \in Tags
      BY <1>1, <2>1, DocFacts DEF Tags
    <3>2. TagIsPlaced(open[k + 1])
      BY <3>1 DEF DocShape
    <3> QED BY <2>1, <3>2 DEF TagIsPlaced, Plain
  <2>4. \A j \in 1..(k + 1) : j \in 1..k \/ j = k + 1
    BY <1>1
  <2> QED BY <1>1, <1>2, <2>1, <2>2, <2>3, <2>4
<1>7. CASE InUnknown(k)
  <2>1. Len(char_data) = k + 1 /\ Len(open) > k /\ k > 0 /\ ~ IsDescription(open[k])
        /\ ~ InElement(k) /\ ~ InOldChild(k)
    BY <1>1, <1>7 DEF InUnknown, InElement, InOldChild
  <2>2. \A j \in 1..k : Plain(open[j])
    BY <1>1, <1>3, <2>1 DEF Plain
  <2>3. \A j \in 1..(k + 1) : j < k + 1 => j \in 1..k
    BY <1>1
  <2> QED BY <1>1, <1>2, <2>1, <2>2, <2>3
<1> QED BY <1>4, <1>5, <1>6, <1>7 DEF Live, Sync

LEMMA GathersPlain ==
    ASSUME NEW t, Plain(t), NEW d, d[t] = doc[t], NEW s, NEW B, NEW O, NEW m
    PROVE  Gathers(d, s, t, B, O, m) <=> OwnText(s, t, m)
BY DEF Gathers, Plain, IsDescription

LEMMA GathersIsList ==
    ASSUME NEW d, NEW s, NEW t, NEW B, NEW O, NEW m, Gathers(d, s, t, B, O, m)
    PROVE  IsList(s)
BY DEF Gathers, Markup, Woven, OwnText

(* A string below the top one is as it was.                                *)
LEMMA LowerGathered ==
    ASSUME DocShape, Later, NEW k \in 0..Len(open), Live(k), AllGathered,
           NEW j \in 1..Len(char_data),
           j < Len(char_data) \/ InElement(k) \/ InOldChild(k),
           char_data'[j] = char_data[j], open'[j] = open[j]
    PROVE  Gathers(doc', char_data'[j], open'[j], Inside', OpenTags', texts')
<1> DEFINE t == open[j]
           s == char_data[j]
<1>1. Plain(t) /\ j \in DOMAIN char_data /\ j \in 1..Len(open)
  BY SMTT(40), CharDataFacts, DocFacts
<1>2. t \in Tags
  BY <1>1, DocFacts DEF Tags
<1>3. doc'[t] = doc[t] /\ texts \in Nat /\ texts' \in Nat /\ texts <= texts'
  BY <1>2 DEF Later
<1>4. OwnText(s, t, texts)
  BY <1>1, GathersPlain DEF AllGathered
<1>5. OwnText(s, t, texts')
  BY <1>3, <1>4, OwnTextStays
<1> QED BY <1>1, <1>3, <1>5, GathersPlain

(* Where a string that starts, or the top one with a token more, belongs.  *)
LEMMA AppendGathered ==
    ASSUME DocShape, Later, NEW k \in 0..Len(open), Live(k), InElement(k), AllGathered,
           NEW s, char_data' = Append(char_data, s), NEW x, open' = Append(open, x),
           Gathers(doc', s, x, Inside', OpenTags', texts')
    PROVE  AllGathered'
<1>1. /\ IsList(char_data) /\ IsList(open) /\ Len(char_data) = Len(open) /\ Len(open) \in Nat
  BY CharDataFacts, DocFacts DEF InElement, DocShape, OpenIsPath, IsList
<1>2. /\ DOMAIN char_data' = 1..(Len(char_data) + 1) /\ char_data'[Len(char_data) + 1] = s
      /\ \A j \in 1..Len(char_data) : char_data'[j] = char_data[j]
  BY <1>1, AppendFacts
<1>3. open'[Len(char_data) + 1] = x /\ \A j \in 1..Len(char_data) : open'[j] = open[j]
  BY <1>1, AppendFacts
<1>4. ASSUME NEW j \in DOMAIN char_data'
      PROVE  Gathers(doc', char_data'[j], open'[j], Inside', OpenTags', texts')
  <2>1. CASE j = Len(char_data) + 1
    BY <1>2, <1>3, <2>1
  <2>2. CASE j \in 1..Len(char_data)
    BY <1>2, <1>3, <2>2, LowerGathered
  <2>3. j = Len(char_data) + 1 \/ j \in 1..Len(char_data)
    BY <1>1, <1>2
  <2> QED BY <2>1, <2>2, <2>3
<1> QED BY <1>4 DEF AllGathered

LEMMA TopGathered ==
    ASSUME DocShape, Later, NEW k \in 0..Len(open), Live(k), AllGathered,
           NEW x, char_data' = AppendTop(char_data, x), char_data # << >>,
           \A j \in 1..Len(char_data) : open'[j] = open[j],
           Gathers(doc', Append(char_data[Len(char_data)], x), open[Len(char_data)],
                   Inside', OpenTags', texts')
    PROVE  AllGathered'
<1> DEFINE l == Len(char_data)
<1>1. /\ IsList(char_data) /\ l \in Nat /\ l > 0 /\ DOMAIN char_data' = 1..l
      /\ char_data'[l] = Append(char_data[l], x)
      /\ \A j \in 1..(l - 1) : char_data'[j] = char_data[j]
  BY CharDataFacts, TopFacts
<1>2. ASSUME NEW j \in DOMAIN char_data'
      PROVE  Gathers(doc', char_data'[j], open'[j], Inside', OpenTags', texts')
  <2>0. j = l \/ j \in 1..(l - 1)
    BY <1>1
  <2>1. CASE j = l
    BY <1>1, <2>1
  <2>2. CASE j \in 1..(l - 1)
    <3>1. j \in 1..l /\ j < l
      BY <1>1, <2>2
    <3> QED BY <1>1, <2>2, <3>1, LowerGathered
  <2> QED BY <2>0, <2>1, <2>2
<1> QED BY <1>2 DEF AllGathered

LEMMA PopGathered ==
    ASSUME DocShape, Later, NEW k \in 0..Len(open), Live(k), AllGathered,
           char_data' = Pop(char_data), char_data # << >>,
           \A j \in 1..(Len(char_data) - 1) : open'[j] = open[j]
    PROVE  AllGathered'
<1> DEFINE l == Len(char_data)
<1>1. /\ IsList(char_data) /\ l \in Nat /\ l > 0 /\ DOMAIN char_data' = 1..(l - 1)
      /\ \A j \in 1..(l - 1) : char_data'[j] = char_data[j]
  BY CharDataFacts, TopFacts
<1>2. ASSUME NEW j \in DOMAIN char_data'
      PROVE  Gathers(doc', char_data'[j], open'[j], Inside', OpenTags', texts')
  <2>1. j \in 1..l /\ j < l /\ j \in 1..(l - 1)
    BY <1>1
  <2> QED BY <1>1, <2>1, LowerGathered
<1> QED BY <1>2 DEF AllGathered

(* The tags that a step opens and closes.                                  *)
LEMMA EndTags ==
    ASSUME DocShape, ExpatEnds
    PROVE  /\ doc' = doc /\ texts' = texts /\ Inside' = Inside /\ Tags' = Tags
           /\ ending = open[Len(open)] /\ ending \in Tags /\ ending \in OpenTags
           /\ OpenTags' = OpenTags \ {ending}
           /\ texts \in Nat => Later
<1>1. /\ doc' = doc /\ texts' = texts /\ ending = open[Len(open)] /\ Len(open) > 0
  BY EndFacts DEF ExpatEnds
<1>2. Inside' = Inside /\ Tags' = Tags /\ (texts \in Nat => Later)
  BY <1>1, InsideStays
<1>3. ending \in OpenTags /\ ending \in Tags
  <2>1. Len(open) \in 1..Len(open)
    BY <1>1, DocFacts
  <2> QED BY <1>1, <2>1, OpenTagsAre
<1>4. OpenTags' = OpenTags \ {ending}
  <2>1. \A u : u \in OpenTags <=> IsOpen(u)
    BY DEF OpenTags, IsOpen
  <2>2. \A u : u \in OpenTags' <=> IsOpen(u)'
    BY DEF OpenTags, IsOpen
  <2>3. \A u : IsOpen(u)' <=> IsOpen(u) /\ u # open[Len(open)]
    BY EndOpens
  <2> QED BY <1>1, <2>1, <2>2, <2>3
<1> QED BY <1>1, <1>2, <1>3, <1>4

LEMMA ForeignStarts ==
    ASSUME DocShape, NEW name \in Names, NEW old, ExpatStarts(name, old), texts \in Nat,
           DOMAIN type \subseteq Tags, DOMAIN type' \in {DOMAIN type, DOMAIN type \cup {n}}
    PROVE  /\ ForeignTags' \ OpenTags' = ForeignTags \ OpenTags
           /\ DOMAIN type' \ OpenTags' = DOMAIN type \ OpenTags
<1>1. /\ Tags' = Tags \cup {n} /\ n \notin Tags /\ OpenTags' = OpenTags \cup {n}
      /\ \A t \in Tags : doc'[t] = doc[t]
  BY InsideGrows DEF Later
<1>2. \A t \in Tags : doc[t].parent # n
  <2>1. \A t \in Tags : doc[t].parent \in Tags \/ doc[t].parent = NoTag
    BY Parents
  <2>2. n # NoTag
    BY DocFacts DEF NoTag
  <2> QED BY <1>1, <2>1, <2>2
<1>3. ASSUME NEW t \in Tags PROVE t \in ForeignTags' <=> t \in ForeignTags
  <2> DEFINE p == doc[t].parent
  <2>1. doc'[t] = doc[t] /\ p # n /\ t \in Tags'
    BY <1>1, <1>2
  <2>2. p \in DOMAIN type' <=> p \in DOMAIN type
    BY <2>1
  <2>3. p \in DOMAIN type => doc'[p] = doc[p]
    BY <1>1
  <2>4. t \in ForeignTags' <=> /\ doc'[t].cls = "unknown" /\ doc'[t].parent \in DOMAIN type'
                               /\ doc'[doc'[t].parent].name # "description"
    BY <2>1 DEF ForeignTags, IsDescription
  <2>5. t \in ForeignTags <=> /\ doc[t].cls = "unknown" /\ doc[t].parent \in DOMAIN type
                              /\ doc[doc[t].parent].name # "description"
    BY DEF ForeignTags, IsDescription
  <2> QED BY <2>1, <2>2, <2>3, <2>4, <2>5
<1>4. ForeignTags \subseteq Tags /\ ForeignTags' \subseteq Tags'
  BY DEF ForeignTags
<1>5. ForeignTags' \ OpenTags' = ForeignTags \ OpenTags
  <2> HIDE DEF ForeignTags
  <2> QED BY <1>1, <1>3, <1>4
<1>6. DOMAIN type' \ OpenTags' = DOMAIN type \ OpenTags
  BY <1>1
<1> QED BY <1>5, <1>6

LEMMA ForeignEnds ==
    ASSUME DocShape, ExpatEnds, type' = type
    PROVE  /\ ForeignTags' = ForeignTags
           /\ ending \notin ForeignTags => ForeignTags' \ OpenTags' = ForeignTags \ OpenTags
           /\ ending \notin DOMAIN type => DOMAIN type' \ OpenTags' = DOMAIN type \ OpenTags
<1>1. doc' = doc /\ Tags' = Tags /\ OpenTags' = OpenTags \ {ending}
  BY EndTags
<1>2. ForeignTags' = ForeignTags
  BY <1>1 DEF ForeignTags, IsDescription, Tags
<1> QED BY <1>1, <1>2

LEMMA FieldsStay ==
    ASSUME DocShape, Later, DOMAIN type \subseteq Tags, DOMAIN type \subseteq DOMAIN type',
           FieldsOwned, simpledata_vec' = simpledata_vec,
           old_schema_name' \in {old_schema_name, OldName},
           in_old_schema_placemark' => in_old_schema_placemark /\ open' = open,
           OpenTags \cap DOMAIN type \subseteq OpenTags' \/
             \A i \in DOMAIN simpledata_vec :
                IsOld(doc, doc[simpledata_vec[i].of].parent) /\ simpledata_vec[i].owner = NoTag
                  => doc[simpledata_vec[i].of].parent \in OpenTags'
    PROVE  FieldsOwned'
<1>1. ASSUME NEW i \in DOMAIN simpledata_vec
      PROVE  FieldIs(doc', simpledata_vec[i], DOMAIN type', Inside', OpenTags', texts')
  <2> DEFINE f == simpledata_vec[i]
             p == doc[f.of].parent
  <2>1. FieldIs(doc, f, DOMAIN type, Inside, OpenTags, texts)
    BY DEF FieldsOwned
  <2>2. IsOld(doc, p) /\ f.owner = NoTag => p \in OpenTags /\ p \in DOMAIN type
    BY <2>1 DEF FieldIs
  <2>3. IsOld(doc, p) /\ f.owner = NoTag => p \in OpenTags'
    BY <2>2
  <2> HIDE DEF f
  <2> QED BY <2>1, <2>3, FieldStays DEF f
<1>2. simpledata_vec' # << >> => old_schema_name' = OldName
  BY DEF FieldsOwned
<1> QED BY <1>1, <1>2 DEF FieldsOwned

-----------------------------------------------------------------------------
(* One more token of a string that is gathered.                            *)
LEMMA ConcatAppend ==
    ASSUME NEW s, IsList(s), NEW y, NEW x
    PROVE  Append(<<y>> \o s, x) = <<y>> \o Append(s, x) /\ IsList(<<y>> \o s)
<1>1. PICK S : s \in Seq(S)
  BY DEF IsList
<1> DEFINE T == S \cup {x, y}
<1>2. s \in Seq(T) /\ x \in T /\ y \in T
  BY <1>1
<1> HIDE DEF T
<1>3. <<y>> \in Seq(T) /\ Len(<<y>>) = 1 /\ <<y>>[1] = y
  BY <1>2
<1>4. <<y>> \o s \in Seq(T) /\ Len(s) \in Nat
  BY <1>2, <1>3
<1>5. Append(<<y>> \o s, x) = <<y>> \o Append(s, x)
  <2>1. /\ Append(s, x) \in Seq(T) /\ Len(Append(s, x)) = Len(s) + 1
        /\ \A i \in 1..Len(s) : Append(s, x)[i] = s[i]
        /\ Append(s, x)[Len(s) + 1] = x
    BY <1>2, <1>4, AppendFacts DEF IsList
  <2> DEFINE a == Append(s, x)
             c == <<y>> \o s
             b == Append(c, x)
             d == <<y>> \o a
  <2>2. /\ Len(c) = Len(s) + 1 /\ c[1] = y /\ \A i \in 1..Len(s) : c[i + 1] = s[i]
    BY <1>2, <1>3, <1>4
  <2>3. b \in Seq(T) /\ Len(b) = Len(s) + 2 /\ b[Len(s) + 2] = x
        /\ \A i \in 1..(Len(s) + 1) : b[i] = c[i]
    BY <1>2, <1>4, <2>2, AppendFacts DEF IsList
  <2>4. d \in Seq(T) /\ Len(d) = Len(s) + 2 /\ d[1] = y /\ \A i \in 1..(Len(s) + 1) : d[i + 1] = a[i]
    BY <1>3, <1>4, <2>1
  <2> HIDE DEF a, b, c, d
  <2>5. ASSUME NEW i \in 1..(Len(s) + 2) PROVE b[i] = d[i]
    <3>1. CASE i = 1
      BY <1>4, <2>2, <2>3, <2>4, <3>1
    <3>2. CASE i \in 2..(Len(s) + 1)
      <4>1. i - 1 \in 1..Len(s) /\ i \in 1..(Len(s) + 1) /\ i - 1 \in 1..(Len(s) + 1)
            /\ (i - 1) + 1 = i
        BY <1>4, <3>2
      <4>2. b[i] = s[i - 1]
        BY <2>2, <2>3, <4>1
      <4>3. d[i] = a[i - 1] /\ a[i - 1] = s[i - 1]
        BY <2>1, <2>4, <4>1 DEF a
      <4> QED BY <4>2, <4>3
    <3>3. CASE i = Len(s) + 2
      <4>1. Len(s) + 1 \in 1..(Len(s) + 1) /\ (Len(s) + 1) + 1 = Len(s) + 2
        BY <1>4
      <4>2. d[Len(s) + 2] = a[Len(s) + 1] /\ a[Len(s) + 1] = x
        BY <2>1, <2>4, <4>1 DEF a
      <4> QED BY <2>3, <3>3, <4>2
    <3> QED BY <1>4, <3>1, <3>2, <3>3
  <2>6. b = d
    BY <2>3, <2>4, <2>5
  <2> QED BY <2>6 DEF a, b, c, d
<1> QED BY <1>4, <1>5 DEF IsList

LEMMA GathersStart ==
    ASSUME DocShape, NEW name \in Names, NEW old, ExpatStarts(name, old), texts \in Nat,
           NEW r \in Tags, r \in OpenTags, ~ Plain(r), NEW s,
           Gathers(doc, s, r, Inside, OpenTags, texts)
    PROVE  Gathers(doc', Append(s, StartTag(n)), r, Inside', OpenTags', texts')
<1> DEFINE x == n
<1>1. /\ texts' = texts /\ x \notin Tags /\ OpenTags' = OpenTags \cup {x} /\ Inside'[x] = {x}
      /\ \A t \in Tags : Inside'[t] = IF t \in OpenTags THEN Inside[t] \cup {x} ELSE Inside[t]
      /\ doc'[r] = doc[r]
  BY InsideGrows DEF Later
<1>2. \A t \in Tags : Inside[t] \subseteq Tags
  BY InsideFacts
<1> HIDE DEF x
<1>3. ASSUME NEW xml, Markup(xml, r, Inside, OpenTags, texts)
      PROVE  Markup(Append(xml, StartTag(x)), r, Inside', OpenTags', texts')
  <2>1. Markup(Append(xml, StartTag(x)), r, Inside', OpenTags \cup {x}, texts)
    <3>1. StartsIn(Tags, OpenTags, x, Inside, Inside')
      BY <1>1, <1>2 DEF StartsIn
    <3> QED BY <1>3, <3>1, MarkupStarts
  <2> QED BY <1>1, <2>1
<1>4. CASE doc[r].cls = "unknown"
  <2>1. Markup(s, r, Inside, OpenTags, texts)
    BY <1>4 DEF Gathers
  <2>2. Markup(Append(s, StartTag(x)), r, Inside', OpenTags', texts')
    BY <1>3, <2>1
  <2> QED BY <1>1, <1>4, <2>2 DEF Gathers, x
<1>5. CASE doc[r].cls # "unknown" /\ doc[r].name = "description"
  <2>1. IsList(s) /\ Markup(<<StartTag(r)>> \o s, r, Inside, OpenTags, texts)
    BY <1>5 DEF Gathers
  <2>2. Markup(Append(<<StartTag(r)>> \o s, StartTag(x)), r, Inside', OpenTags', texts')
    BY <1>3, <2>1
  <2>3. Markup(<<StartTag(r)>> \o Append(s, StartTag(x)), r, Inside', OpenTags', texts')
    BY <2>1, <2>2, ConcatAppend
  <2>4. IsList(Append(s, StartTag(x)))
    BY <2>1, AppendFacts
  <2> QED BY <1>1, <1>5, <2>3, <2>4 DEF Gathers, x
<1> QED BY <1>4, <1>5 DEF Plain, IsDescription

LEMMA GathersText ==
    ASSUME NEW d, NEW s, NEW r, NEW B, NEW O, NEW m \in Nat, Gathers(d, s, r, B, O, m),
           NEW y \in B[r], d[r].cls = "unknown" \/ d[r].name = "description" \/ y = r
    PROVE  Gathers(d, Append(s, [text |-> m + 1, in |-> y]), r, B, O, m + 1)
<1> DEFINE x == [text |-> m + 1, in |-> y]
<1>1. ASSUME NEW xml, Markup(xml, r, B, O, m) PROVE Markup(Append(xml, x), r, B, O, m + 1)
  BY <1>1, MarkupTexts
<1>2. x.text \in 1..(m + 1) /\ x \in TextTokens({y}, m + 1)
  BY DEF TextTokens
<1> HIDE DEF x
<1>3. CASE d[r].cls = "unknown"
  BY <1>1, <1>3 DEF Gathers, x
<1>4. CASE d[r].cls # "unknown" /\ d[r].name = "description"
  <2>1. IsList(s) /\ Markup(<<StartTag(r)>> \o s, r, B, O, m)
    BY <1>4 DEF Gathers
  <2>2. Markup(Append(<<StartTag(r)>> \o s, x), r, B, O, m + 1)
    BY <1>1, <2>1
  <2>3. Markup(<<StartTag(r)>> \o Append(s, x), r, B, O, m + 1) /\ IsList(Append(s, x))
    BY <2>1, <2>2, ConcatAppend, AppendFacts
  <2> QED BY <1>4, <2>3 DEF Gathers, x
<1>5. CASE d[r].cls # "unknown" /\ d[r].name # "description" /\ y = r
  <2>1. OwnText(s, r, m)
    BY <1>5 DEF Gathers
  <2>2. OwnText(s, r, m + 1)
    BY <2>1, OwnTextStays
  <2>3. /\ IsList(s) /\ IsList(Append(s, x)) /\ DOMAIN Append(s, x) = 1..(Len(s) + 1)
        /\ DOMAIN s = 1..Len(s) /\ Len(s) \in Nat
        /\ \A i \in 1..Len(s) : Append(s, x)[i] = s[i]
        /\ Append(s, x)[Len(s) + 1] = x
    BY <2>1, AppendFacts DEF OwnText
  <2>4. \A i \in DOMAIN Append(s, x) : i \in DOMAIN s \/ i = Len(s) + 1
    BY <2>3
  <2>5. \A i \in DOMAIN s : s[i] \in TextTokens({r}, m + 1)
    BY <2>2 DEF OwnText
  <2>6. \A i \in DOMAIN Append(s, x) : Append(s, x)[i] \in TextTokens({r}, m + 1)
    BY <1>2, <1>5, <2>3, <2>4, <2>5
  <2>7. OwnText(Append(s, x), r, m + 1)
    BY <2>3, <2>6 DEF OwnText
  <2> QED BY <1>5, <2>7 DEF Gathers, x
<1> QED BY <1>3, <1>4, <1>5

LEMMA MarkupClosed ==
    ASSUME NEW xml, NEW r, NEW B, NEW O, NEW m, Markup(xml, r, B, O, m), B[r] \cap O = {}
    PROVE  Markup(xml, r, B, {}, m)
BY DEF Markup

LEMMA MarkupEnding ==
    ASSUME DocShape, ExpatEnds, texts \in Nat, NEW r \in Tags, r \in OpenTags, NEW xml,
           Markup(xml, r, Inside, OpenTags, texts)
    PROVE  Markup(Append(xml, EndTag(ending)), r, Inside', OpenTags', texts')
<1> DEFINE e == ending
<1>1. e = open[Len(open)] /\ e \in OpenTags /\ OpenTags' = OpenTags \ {e} /\ e \in Tags
      /\ Inside' = Inside /\ texts' = texts /\ open # << >>
  BY EndTags, EndFacts, DocFacts
<1>2. \A t \in Tags : t \in OpenTags => e \in Inside[t]
  BY <1>1, InsideFacts
<1>3. Inside[r] \subseteq Tags
  BY InsideFacts
<1> HIDE DEF e
<1>4. Markup(Append(xml, EndTag(e)), r, Inside, OpenTags \ {e}, texts)
  <2>1. e \in Inside[r] /\ \A t \in Inside[r] : t \in OpenTags => e \in Inside[t]
    BY <1>2, <1>3
  <2> QED BY <1>1, <2>1, MarkupEnds
<1> QED BY <1>1, <1>4 DEF e

LEMMA GathersEnd ==
    ASSUME DocShape, ExpatEnds, texts \in Nat, NEW r \in Tags, r \in OpenTags, ~ Plain(r), NEW s,
           Gathers(doc, s, r, Inside, OpenTags, texts)
    PROVE  Gathers(doc', Append(s, EndTag(ending)), r, Inside', OpenTags', texts')
<1>1. doc' = doc
  BY EndTags
<1>2. CASE doc[r].cls = "unknown"
  BY <1>1, <1>2, MarkupEnding DEF Gathers
<1>3. CASE doc[r].cls # "unknown" /\ doc[r].name = "description"
  <2>1. IsList(s) /\ Markup(<<StartTag(r)>> \o s, r, Inside, OpenTags, texts)
    BY <1>3 DEF Gathers
  <2>2. Markup(Append(<<StartTag(r)>> \o s, EndTag(ending)), r, Inside', OpenTags', texts')
    BY <2>1, MarkupEnding
  <2>3. Markup(<<StartTag(r)>> \o Append(s, EndTag(ending)), r, Inside', OpenTags', texts')
        /\ IsList(Append(s, EndTag(ending)))
    BY <2>1, <2>2, ConcatAppend, AppendFacts
  <2> QED BY <1>1, <1>3, <2>3 DEF Gathers
<1> QED BY <1>2, <1>3 DEF Plain, IsDescription

-----------------------------------------------------------------------------
(* Each text stays in one place: the three things a step does to the       *)
(* strings that are gathered.                                              *)
LEMMA StringsAppend ==
    ASSUME IsList(char_data), NEW s, TextsOf(s) = {}, char_data' = Append(char_data, s),
           Contents' = Contents, Unknowns' = Unknowns,
           \A z \in Fields' : z \in Fields \/ TextsOf(z[3]) = {}, Fields \subseteq Fields',
           texts' = texts, Once(Strings, texts)
    PROVE  Once(Strings', texts')
<1> DEFINE w == <<"open", Len(char_data) + 1, s>>
<1>1. Waiting' = Waiting \cup {w} /\ w[3] = s
  <2>1. Waits(char_data') = Waits(char_data) \cup {w}
    BY WaitsAppend
  <2> QED BY <2>1 DEF Waiting, Waits
<1> HIDE DEF w
<1>2. \A z \in Strings' : z \in Strings \/ TextsOf(z[3]) = {}
  BY <1>1 DEF Strings
<1>3. Strings \subseteq Strings'
  BY <1>1 DEF Strings
<1> QED BY <1>2, <1>3, OnceGrows

LEMMA StringsTop ==
    ASSUME IsList(char_data), char_data # << >>, NEW x, char_data' = AppendTop(char_data, x),
           IsList(char_data[Len(char_data)]),
           content' = content, unknown' = unknown, simpledata_vec' = simpledata_vec,
           Once(Strings, texts), texts \in Nat,
           IF IsText(x) THEN x.text = texts + 1 /\ texts' = texts + 1 ELSE texts' = texts
    PROVE  Once(Strings', texts')
<1> DEFINE a == <<"open", Len(char_data), char_data[Len(char_data)]>>
           b == <<"open", Len(char_data), Append(char_data[Len(char_data)], x)>>
           X == IF IsText(x) THEN {texts + 1} ELSE {}
<1>1. TextsOf(b[3]) = TextsOf(a[3]) \cup X
  <2>1. TextsOf(Append(char_data[Len(char_data)], x)) = TextsOf(char_data[Len(char_data)]) \cup X
    BY TextsAppend
  <2> QED BY <2>1
<1>2. X \cap (1..texts) = {} /\ 1..texts' = (1..texts) \cup X
  <2>1. (texts + 1) \notin 1..texts /\ 1..(texts + 1) = (1..texts) \cup {texts + 1}
    OBVIOUS
  <2> QED BY <2>1
<1>3. Contents' = Contents /\ Unknowns' = Unknowns /\ Fields' = Fields
  BY DEF Contents, Unknowns, Fields
<1>4. /\ a \in Waiting /\ b \in Waiting'
      /\ \A w \in Waiting : w \in Waits(Pop(char_data)) \/ w = a
      /\ \A w \in Waits(Pop(char_data)) : w \in Waiting /\ w # a
      /\ Waiting' = Waits(Pop(char_data)) \cup {b}
  <2>1. /\ a \in Waits(char_data) /\ b \in Waits(char_data')
        /\ \A w \in Waits(char_data) : w \in Waits(Pop(char_data)) \/ w = a
        /\ \A w \in Waits(Pop(char_data)) : w \in Waits(char_data) /\ w # a
        /\ Waits(char_data') = Waits(Pop(char_data)) \cup {b}
    BY WaitsTop
  <2>2. Waiting = Waits(char_data) /\ Waiting' = Waits(char_data')
    BY DEF Waiting, Waits
  <2> QED BY <2>1, <2>2
<1>5. a[1] = "open" /\ \A z \in Contents \cup Unknowns \cup Fields : z[1] # "open"
  BY DEF Contents, Unknowns, Fields
<1> HIDE DEF a, b, X
<1>6. \A s \in Strings' : s = b \/ (s \in Strings /\ s # a)
  BY <1>3, <1>4, <1>5 DEF Strings
<1>7. \A s \in Strings : s = a \/ s \in Strings'
  BY <1>3, <1>4 DEF Strings
<1>8. a \in Strings /\ b \in Strings'
  BY <1>4 DEF Strings
<1>9. Moved(Strings, Strings', a, b, X)
  BY <1>1, <1>6, <1>7, <1>8 DEF Moved
<1> QED BY <1>2, <1>9, OnceMoves

(* The top string is given away as z.                                      *)
LEMMA StringsPop ==
    ASSUME IsList(char_data), char_data # << >>, char_data' = Pop(char_data),
           NEW z, TextsOf(z[3]) = TextsOf(char_data[Len(char_data)]),
           z \in Contents' \cup Unknowns' \cup Fields',
           \A s \in Contents' \cup Unknowns' \cup Fields' :
              s = z \/ s \in Contents \cup Unknowns \cup Fields,
           \A s \in Contents \cup Unknowns \cup Fields :
              s \in Contents' \cup Unknowns' \cup Fields' \/ TextsOf(s[3]) = {},
           Once(Strings, texts), texts' = texts
    PROVE  Once(Strings', texts')
<1> DEFINE a == <<"open", Len(char_data), char_data[Len(char_data)]>>
<1>1. /\ a \in Waiting
      /\ \A w \in Waiting : w \in Waiting' \/ w = a
      /\ \A w \in Waiting' : w \in Waiting /\ w # a
  <2>1. /\ a \in Waits(char_data)
        /\ \A w \in Waits(char_data) : w \in Waits(Pop(char_data)) \/ w = a
        /\ \A w \in Waits(Pop(char_data)) : w \in Waits(char_data) /\ w # a
    BY WaitsTop
  <2>2. Waiting = Waits(char_data) /\ Waiting' = Waits(char_data')
    BY DEF Waiting, Waits
  <2> QED BY <2>1, <2>2
<1>2. a[1] = "open" /\ a[3] = char_data[Len(char_data)]
      /\ \A s \in Contents \cup Unknowns \cup Fields : s[1] # "open"
  BY DEF Contents, Unknowns, Fields
<1> HIDE DEF a
<1>3. \A s \in Strings' : s = z \/ (s \in Strings /\ s # a)
  BY <1>1, <1>2 DEF Strings
<1>4. \A s \in Strings : s = a \/ s \in Strings' \/ TextsOf(s[3]) = {}
  BY <1>1 DEF Strings
<1>5. a \in Strings /\ z \in Strings'
  BY <1>1 DEF Strings
<1>6. TextsOf(z[3]) = TextsOf(a[3]) \cup {} /\ {} \cap (1..texts) = {}
      /\ 1..texts' = (1..texts) \cup {}
  BY <1>2
<1>7. Moved(Strings, Strings', a, z, {})
  BY <1>3, <1>4, <1>5, <1>6 DEF Moved
<1> QED BY <1>6, <1>7, OnceMoves

-----------------------------------------------------------------------------
(* The steps: a tag starts.                                                *)
LEMMA PlacedFacts ==
    ASSUME DocShape, NEW k \in 0..Len(open), Live(k), Placed
    PROVE  /\ texts \in Nat /\ AllGathered /\ AllGiven /\ AllHandedOn /\ FieldsOwned
           /\ Once(Strings, texts) /\ DOMAIN type \subseteq Tags /\ IsList(simpledata_vec)
           /\ IsList(char_data) /\ Len(char_data) \in Nat /\ Len(char_data) <= Len(open)
           /\ \A j \in 1..Len(char_data) :
                /\ IsList(char_data[j]) /\ open[j] \in Tags /\ open[j] \in OpenTags
                /\ Gathers(doc, char_data[j], open[j], Inside, OpenTags, texts)
<1>1. /\ texts \in Nat /\ AllGathered /\ AllGiven /\ AllHandedOn /\ FieldsOwned
      /\ Once(Strings, texts) /\ DOMAIN type \subseteq Tags /\ IsList(simpledata_vec)
  BY DEF Placed, Live, Tree, Created, Sync, Lists
<1>2. /\ IsList(char_data) /\ Len(char_data) \in Nat /\ Len(char_data) <= Len(open)
      /\ DOMAIN char_data = 1..Len(char_data)
  BY CharDataFacts
<1>3. ASSUME NEW j \in 1..Len(char_data)
      PROVE  /\ IsList(char_data[j]) /\ open[j] \in Tags /\ open[j] \in OpenTags
             /\ Gathers(doc, char_data[j], open[j], Inside, OpenTags, texts)
  <2>1. j \in 1..Len(open)
    BY <1>2, DocFacts
  <2>2. open[j] \in OpenTags /\ open[j] \in Tags
    BY <2>1, OpenTagsAre
  <2>3. Gathers(doc, char_data[j], open[j], Inside, OpenTags, texts)
    BY <1>1, <1>2 DEF AllGathered
  <2> QED BY <2>2, <2>3, GathersIsList
<1> QED BY <1>1, <1>2, <1>3

LEMMA SkippedTop ==
    ASSUME DocShape, NEW k \in 0..Len(open), Live(k), InDescription(k) \/ InUnknown(k)
    PROVE  /\ char_data # << >> /\ ~ Plain(open[Len(char_data)]) /\ k > 0
           /\ ~ in_old_schema_placemark /\ Len(char_data) \in 1..Len(char_data)
           /\ k \in 1..Len(open) /\ open[k] \in DOMAIN type
<1>1. k > 0 /\ ~ in_old_schema_placemark /\ k \in Nat /\ Len(open) \in Nat /\ k <= Len(open)
  BY LiveFacts DEF InDescription, InUnknown
<1>2. char_data # << >>
  BY <1>1, LiveFacts
<1>3. Len(char_data) \in 1..Len(char_data)
  <2>1. Len(char_data) \in Nat /\ k <= Len(char_data)
    BY CharDataFacts
  <2> QED BY <1>1, <2>1
<1>4. ~ Plain(open[Len(char_data)])
  BY DEF InDescription, InUnknown, Plain
<1>5. k \in 1..Len(open) /\ open[k] \in DOMAIN type
  <2>1. k \in 1..Len(open) /\ k \in DOMAIN open
    BY <1>1, DocFacts
  <2> QED BY <2>1 DEF Live, Tree
<1> QED BY <1>1, <1>2, <1>3, <1>4, <1>5

LEMMA SkippedPlaced ==
    ASSUME DocShape, NEW k \in 0..Len(open), Live(k), Placed,
           NEW name \in Names, StartSkipped(name)
    PROVE  Placed'
<1> DEFINE l == Len(char_data)
<1>1. InDescription(k) \/ InUnknown(k)
  BY DEF Live, Sync, StartSkipped, InElement, InOldChild
<1>2. char_data # << >> /\ ~ Plain(open[l]) /\ ~ in_old_schema_placemark /\ l \in 1..l
  BY <1>1, SkippedTop
<1>3. /\ ExpatStarts(name, old_schema_name)
      /\ type' = type /\ content' = content /\ unknown' = unknown
      /\ simpledata_vec' = simpledata_vec /\ old_schema_name' = old_schema_name
      /\ in_old_schema_placemark' = in_old_schema_placemark
      /\ char_data' = AppendTop(char_data, StartTag(n))
  BY DEF StartSkipped, tree
<1>4. Later /\ texts' = texts /\ texts' \in Nat /\ OpenTags \subseteq OpenTags'
  BY <1>3, PlacedFacts, InsideGrows
<1>5. AllGathered'
  <2>1. Gathers(doc', Append(char_data[l], StartTag(n)), open[l], Inside', OpenTags', texts')
    BY <1>2, <1>3, PlacedFacts, GathersStart
  <2>2. \A j \in 1..l : open'[j] = open[j]
    <3>1. \A j \in 1..l : j \in 1..Len(open)
      BY PlacedFacts, DocFacts
    <3> QED BY <1>3, <3>1, StartFacts
  <2> QED BY <1>2, <1>3, <1>4, <2>1, <2>2, PlacedFacts, TopGathered
<1>6. /\ ForeignTags' \ OpenTags' = ForeignTags \ OpenTags
      /\ DOMAIN type' \ OpenTags' = DOMAIN type \ OpenTags
  BY <1>3, PlacedFacts, ForeignStarts
<1>7. AllGiven' /\ AllHandedOn'
  BY <1>3, <1>4, <1>6, PlacedFacts, GivenStays, HandedStays
<1>8. FieldsOwned'
  BY <1>2, <1>3, <1>4, PlacedFacts, FieldsStay
<1>9. Once(Strings', texts')
  <2>1. ~ IsText(StartTag(n))
    BY TokenFacts
  <2> QED BY <1>2, <1>3, <1>4, <2>1, PlacedFacts, StringsTop
<1> QED BY <1>4, <1>5, <1>7, <1>8, <1>9 DEF Placed

LEMMA KnownPlaced ==
    ASSUME DocShape, NEW k \in 0..Len(open), Live(k), Placed, confused \in BOOLEAN, ~ confused',
           NEW name \in Names, NEW parent \in BOOLEAN, StartKnown(name, parent)
    PROVE  Placed'
<1>1. /\ InElement(k) /\ k = Len(open) /\ ExpatStarts(name, old_schema_name')
      /\ old_schema_name' \in {old_schema_name, OldName}
  BY GatheredInElement DEF StartKnown
<1>2. /\ Cls(name, old_schema_name') = "known"
      /\ content' = content /\ unknown' = unknown /\ simpledata_vec' = simpledata_vec
      /\ ~ in_old_schema_placemark' /\ char_data' = Append(char_data, << >>)
      /\ type' = With(type, n, IF name = old_schema_name' THEN "Placemark" ELSE name)
  BY <1>1 DEF StartKnown, InElement
<1>3. DOMAIN type' = DOMAIN type \cup {n}
  BY <1>2 DEF With
<1>4. Later /\ texts' = texts /\ texts' \in Nat /\ OpenTags' = OpenTags \cup {n}
      /\ Inside'[n] = {n}
  BY <1>1, PlacedFacts, InsideGrows
<1>5. AllGathered'
  <2>1. doc'[n].cls = "known" /\ open' = Append(open, n)
    BY <1>1, <1>2, StartFacts DEF ExpatStarts
  <2>2. Gathers(doc', << >>, n, Inside', OpenTags', texts')
    <3>1. CASE doc'[n].name = "description"
      <4>1. IsList(<< >>) /\ <<StartTag(n)>> \o << >> = <<StartTag(n)>>
        <5>1. \A x : <<x>> \o << >> = <<x>>
          OBVIOUS
        <5> QED BY <5>1, EmptyIsList
      <4>2. Markup(<<StartTag(n)>>, n, Inside', OpenTags', texts')
        BY <1>4, MarkupBegins
      <4> QED BY <2>1, <3>1, <4>1, <4>2 DEF Gathers
    <3>2. CASE doc'[n].name # "description"
      <4>1. OwnText(<< >>, n, texts')
        BY EmptyIsList DEF OwnText
      <4> QED BY <2>1, <3>2, <4>1 DEF Gathers
    <3> QED BY <3>1, <3>2
  <2> QED BY <1>1, <1>2, <1>4, <2>1, <2>2, PlacedFacts, AppendGathered
<1>6. /\ ForeignTags' \ OpenTags' = ForeignTags \ OpenTags
      /\ DOMAIN type' \ OpenTags' = DOMAIN type \ OpenTags
  BY <1>1, <1>3, PlacedFacts, ForeignStarts
<1>7. AllGiven' /\ AllHandedOn'
  BY <1>2, <1>4, <1>6, PlacedFacts, GivenStays, HandedStays
<1>8. FieldsOwned'
  BY <1>1, <1>2, <1>3, <1>4, PlacedFacts, FieldsStay
<1>9. Once(Strings', texts')
  <2>1. Contents' = Contents /\ Unknowns' = Unknowns /\ Fields' = Fields
    BY <1>2 DEF Contents, Unknowns, Fields
  <2> QED BY <1>2, <1>4, <2>1, PlacedFacts, TextsEmpty, StringsAppend
<1> QED BY <1>4, <1>5, <1>7, <1>8, <1>9 DEF Placed

LEMMA UnknownPlaced ==
    ASSUME DocShape, NEW k \in 0..Len(open), Live(k), Placed, confused \in BOOLEAN, ~ confused',
           NEW name \in Names, StartUnknown(name), phase' = "run"
    PROVE  Placed'
<1>1. /\ InElement(k) /\ k = Len(open) /\ ExpatStarts(name, old_schema_name)
      /\ old_schema_name' = old_schema_name
  BY GatheredInElement DEF StartUnknown
<1>2. /\ Cls(name, old_schema_name) = "unknown" /\ type' = type
      /\ content' = content /\ unknown' = unknown /\ simpledata_vec' = simpledata_vec
      /\ ~ in_old_schema_placemark' /\ char_data' = Append(char_data, <<StartTag(n)>>)
  BY <1>1 DEF StartUnknown, InElement, tree
<1>3. Later /\ texts' = texts /\ texts' \in Nat /\ OpenTags' = OpenTags \cup {n}
      /\ Inside'[n] = {n}
  BY <1>1, PlacedFacts, InsideGrows
<1>4. AllGathered'
  <2>1. doc'[n].cls = "unknown" /\ open' = Append(open, n)
    BY <1>1, <1>2, StartFacts DEF ExpatStarts
  <2>2. Markup(<<StartTag(n)>>, n, Inside', OpenTags', texts')
    BY <1>3, MarkupBegins
  <2>3. Gathers(doc', <<StartTag(n)>>, n, Inside', OpenTags', texts')
    BY <2>1, <2>2 DEF Gathers
  <2> QED BY <1>1, <1>2, <1>3, <2>1, <2>3, PlacedFacts, AppendGathered
<1>5. /\ ForeignTags' \ OpenTags' = ForeignTags \ OpenTags
      /\ DOMAIN type' \ OpenTags' = DOMAIN type \ OpenTags
  BY <1>1, <1>2, PlacedFacts, ForeignStarts
<1>6. AllGiven' /\ AllHandedOn'
  BY <1>2, <1>3, <1>5, PlacedFacts, GivenStays, HandedStays
<1>7. FieldsOwned'
  BY <1>1, <1>2, <1>3, PlacedFacts, FieldsStay
<1>8. Once(Strings', texts')
  <2>1. Contents' = Contents /\ Unknowns' = Unknowns /\ Fields' = Fields
    BY <1>2 DEF Contents, Unknowns, Fields
  <2>2. TextsOf(<<StartTag(n)>>) = {}
    BY TextsEmpty, TokenFacts
  <2> QED BY <1>2, <1>3, <2>1, <2>2, PlacedFacts, StringsAppend
<1> QED BY <1>3, <1>4, <1>6, <1>7, <1>8 DEF Placed

LEMMA OldChildPlaced ==
    ASSUME DocShape, NEW k \in 0..Len(open), Live(k), Placed, confused \in BOOLEAN, ~ confused',
           NEW name \in Names, StartOldChild(name)
    PROVE  Placed'
<1> DEFINE f == [of |-> n, text |-> << >>, owner |-> NoTag]
           l == Len(simpledata_vec)
<1>1. /\ InElement(k) /\ k = Len(open) /\ ExpatStarts(name, old_schema_name)
      /\ old_schema_name' = old_schema_name
  BY GatheredInElement DEF StartOldChild
<1>2. /\ Cls(name, old_schema_name) = "field" /\ type' = type
      /\ content' = content /\ unknown' = unknown
      /\ simpledata_vec' = Append(simpledata_vec, f)
      /\ char_data' = Append(char_data, << >>)
  BY DEF StartOldChild, tree
<1>3. Later /\ texts' = texts /\ texts' \in Nat /\ OpenTags' = OpenTags \cup {n}
  BY <1>1, PlacedFacts, InsideGrows
<1>4. old_schema_name = OldName /\ k > 0
  <2>1. old_schema_name # ""
    BY <1>2 DEF Cls
  <2>2. old_schema_name \in {"", OldName}
    BY DEF Live, TypesFit
  <2>3. k # 0
    BY <2>1 DEF Live, TypesFit
  <2>4. k > 0
    BY <2>3, DocFacts
  <2> QED BY <2>1, <2>2, <2>4
<1>5. doc'[n].cls = "field" /\ doc'[n].name # "description" /\ open' = Append(open, n)
      /\ n \in DOMAIN doc' /\ doc'[n].parent = open[k] /\ open'[Len(open')] = n
  <2>1. /\ doc'[n].cls = "field" /\ n \in DOMAIN doc' /\ open' = Append(open, n)
        /\ doc'[n].parent = open[k] /\ open'[Len(open')] = n
    <3>1. open' = Append(open, n)
      BY <1>1 DEF ExpatStarts
    <3>2. /\ Len(open') = Len(open) + 1 /\ open'[Len(open) + 1] = n
          /\ n \in DOMAIN doc' /\ doc'[n].cls = Cls(name, old_schema_name)
          /\ doc'[n].parent = IF open = << >> THEN NoTag ELSE open[Len(open)]
      BY <1>1, StartFacts
    <3>3. open # << >>
      BY <1>1, <1>4, DocFacts
    <3> QED BY <1>1, <1>2, <3>1, <3>2, <3>3
  <2>2. DocShape'
    BY <1>1, StartDocShape
  <2>3. \A t : t \in DOMAIN doc' => (doc'[t].name = "description" => doc'[t].cls = "known")
    BY <2>2 DEF DocShape, TagIsPlaced, IsDescription, Tags
  <2> QED BY <2>1, <2>3
<1>6. open[k] \in DOMAIN type /\ open[k] \in OpenTags
  <2>1. k \in 1..Len(open) /\ k \in DOMAIN open
    BY <1>1, <1>4, DocFacts
  <2> QED BY <2>1, OpenTagsAre DEF Live, Tree
<1>7. OwnText(<< >>, n, texts')
  BY EmptyIsList DEF OwnText
<1>8. AllGathered'
  <2>1. Gathers(doc', << >>, n, Inside', OpenTags', texts')
    BY <1>5, <1>7 DEF Gathers
  <2> QED BY <1>1, <1>2, <1>3, <1>5, <2>1, PlacedFacts, AppendGathered
<1>9. /\ ForeignTags' \ OpenTags' = ForeignTags \ OpenTags
      /\ DOMAIN type' \ OpenTags' = DOMAIN type \ OpenTags
  BY <1>1, <1>2, PlacedFacts, ForeignStarts
<1>10. AllGiven' /\ AllHandedOn'
  BY <1>2, <1>3, <1>9, PlacedFacts, GivenStays, HandedStays
<1>11. /\ IsList(simpledata_vec) /\ l \in Nat /\ DOMAIN simpledata_vec = 1..l
       /\ DOMAIN simpledata_vec' = 1..(l + 1) /\ Len(simpledata_vec') = l + 1
       /\ simpledata_vec'[l + 1] = f
       /\ \A i \in 1..l : simpledata_vec'[i] = simpledata_vec[i]
  BY <1>2, PlacedFacts, AppendFacts
<1>12. DOMAIN f = {"of", "text", "owner"} /\ f.of = n /\ f.text = << >> /\ f.owner = NoTag
  OBVIOUS
<1> HIDE DEF f, l
<1>13. \A i : i \in 1..(l + 1) <=> i \in 1..l \/ i = l + 1
  BY <1>11
<1>14. FieldsOwned'
  <2>1. FieldIs(doc', f, DOMAIN type', Inside', OpenTags', texts')
    BY <1>2, <1>3, <1>5, <1>6, <1>7, <1>12 DEF FieldIs
  <2>2. ASSUME NEW i \in 1..l
        PROVE  FieldIs(doc', simpledata_vec[i], DOMAIN type', Inside', OpenTags', texts')
    <3> DEFINE g == simpledata_vec[i]
    <3>1. FieldIs(doc, g, DOMAIN type, Inside, OpenTags, texts)
      BY <1>11, PlacedFacts DEF FieldsOwned
    <3>2. IsOld(doc, doc[g.of].parent) /\ g.owner = NoTag => doc[g.of].parent \in OpenTags'
      BY <1>3, <3>1 DEF FieldIs
    <3> HIDE DEF g
    <3>3. FieldIs(doc', g, DOMAIN type', Inside', OpenTags', texts')
      BY <1>2, <1>3, <3>1, <3>2, PlacedFacts, FieldStays
    <3> QED BY <3>3 DEF g
  <2>3. \A i \in DOMAIN simpledata_vec' :
           FieldIs(doc', simpledata_vec'[i], DOMAIN type', Inside', OpenTags', texts')
    BY <1>11, <1>13, <2>1, <2>2
  <2>4. /\ simpledata_vec'[Len(simpledata_vec')].of = open'[Len(open')]
        /\ simpledata_vec'[Len(simpledata_vec')].text = << >>
    BY <1>5, <1>11, <1>12
  <2> QED BY <1>1, <1>4, <2>3, <2>4 DEF FieldsOwned
<1>15. Once(Strings', texts')
  <2>1. Contents' = Contents /\ Unknowns' = Unknowns
    BY <1>2 DEF Contents, Unknowns
  <2>2. Fields' = Fields \cup {<<"simpledata", f.of, f.text>>}
    BY <1>11, <1>13 DEF Fields
  <2>3. \A z \in Fields' : z \in Fields \/ TextsOf(z[3]) = {}
    BY <1>12, <2>2, TextsEmpty
  <2> QED BY <1>2, <1>3, <2>1, <2>2, <2>3, PlacedFacts, TextsEmpty, StringsAppend
<1> QED BY <1>3, <1>8, <1>10, <1>14, <1>15 DEF Placed

-----------------------------------------------------------------------------
(* The steps: text.                                                        *)
LEMMA TextPlaced ==
    ASSUME DocShape, NEW k \in 0..Len(open), Live(k), Placed, CharData
    PROVE  Placed' /\ phase' = "run"
<1> DEFINE l == Len(char_data)
           y == open[Len(open)]
<1>1. /\ phase = "run" /\ doc' = doc /\ open' = open /\ open # << >>
      /\ in_old_schema_placemark' = in_old_schema_placemark
      /\ old_schema_name' = old_schema_name /\ simpledata_vec' = simpledata_vec
      /\ type' = type /\ content' = content /\ unknown' = unknown /\ texts' = texts + 1
  BY DEF CharData, tree
<1>2. k > 0 /\ char_data # << >> /\ k \in Nat /\ Len(open) \in Nat /\ Top(open) = y
  BY <1>1, LiveFacts, DocFacts
<1>3. phase' = "run" /\ char_data' = AppendTop(char_data, [text |-> texts + 1, in |-> y])
  BY <1>1, <1>2 DEF CharData, Text
<1>4. Later /\ Inside' = Inside /\ Tags' = Tags /\ texts \in Nat
  <2>1. texts \in Nat /\ texts' \in Nat /\ texts <= texts'
    BY <1>1, PlacedFacts
  <2> QED BY <1>1, <2>1, InsideStays
<1>5. OpenTags' = OpenTags /\ ForeignTags' = ForeignTags
  BY <1>1, <1>4 DEF OpenTags, ForeignTags, IsDescription
<1>6. l \in 1..l /\ l \in Nat
  <2>1. l \in Nat /\ k <= l
    BY CharDataFacts
  <2> QED BY <1>2, <2>1
<1>7. doc[open[l]].cls = "unknown" \/ doc[open[l]].name = "description" \/ y = open[l]
  <2>1. InDescription(k) \/ InUnknown(k) \/ InElement(k) \/ InOldChild(k)
    BY DEF Live, Sync
  <2> QED BY <2>1 DEF InDescription, InUnknown, InElement, InOldChild, IsDescription
<1>8. AllGathered'
  <2>1. y \in Inside[open[l]]
    BY <1>1, <1>6, PlacedFacts, InsideFacts
  <2>2. Gathers(doc, char_data[l], open[l], Inside, OpenTags, texts)
    BY <1>6, PlacedFacts
  <2> HIDE DEF y, l
  <2>3. Gathers(doc, Append(char_data[l], [text |-> texts + 1, in |-> y]), open[l],
                Inside, OpenTags, texts + 1)
    BY <1>4, <1>7, <2>1, <2>2, GathersText
  <2>4. Gathers(doc', Append(char_data[l], [text |-> texts + 1, in |-> y]), open[l],
                Inside', OpenTags', texts')
    BY <1>1, <1>4, <1>5, <2>3
  <2> QED BY <1>1, <1>2, <1>3, <1>4, <2>4, PlacedFacts, TopGathered DEF l
<1>9. AllGiven' /\ AllHandedOn'
  BY <1>1, <1>4, <1>5, PlacedFacts, GivenStays, HandedStays
<1>10. FieldsOwned'
  BY <1>1, <1>4, <1>5, PlacedFacts, FieldsStay
<1>11. Once(Strings', texts')
  <2> DEFINE x == [text |-> texts + 1, in |-> y]
  <2>1. IsText(x) /\ x.text = texts + 1
    BY DEF IsText
  <2> HIDE DEF x
  <2> QED BY <1>1, <1>2, <1>3, <1>4, <1>6, <2>1, PlacedFacts, StringsTop DEF x
<1>12. texts' \in Nat
  BY <1>1, <1>4
<1> QED BY <1>3, <1>8, <1>9, <1>10, <1>11, <1>12 DEF Placed

-----------------------------------------------------------------------------
(* The steps: a tag ends.                                                  *)
InsideApart == \A t \in Tags : t \notin OpenTags => Inside[t] \cap OpenTags = {}

LEMMA InsideApartHolds == DocShape => InsideApart
BY InsideFacts DEF InsideApart

LEMMA InsideApartNext == DocShape' => InsideApart'
BY InsideApartHolds, PTL

(* The last tag of a markup ends.                                          *)
LEMMA LastEnds ==
    ASSUME DocShape, DocShape', ExpatEnds, texts \in Nat, NEW xml,
           Markup(xml, ending, Inside, OpenTags, texts)
    PROVE  Markup(Append(xml, EndTag(ending)), ending, Inside', {}, texts')
<1>1. /\ ending \in Tags' /\ ending \in Tags /\ ending \in OpenTags /\ ending \notin OpenTags'
  BY EndTags
<1>2. Inside'[ending] \cap OpenTags' = {}
  BY <1>1, InsideApartNext DEF InsideApart
<1>3. Markup(Append(xml, EndTag(ending)), ending, Inside', OpenTags', texts')
  BY <1>1, MarkupEnding
<1> QED BY <1>2, <1>3, MarkupClosed

LEMMA InnerEndsPlaced ==
    ASSUME DocShape, NEW k \in 0..Len(open), Live(k), Placed, ExpatEnds,
           (InDescription(k) /\ k < Len(open)) \/ (InUnknown(k) /\ k + 1 < Len(open)),
           char_data' = AppendTop(char_data, EndTag(ending)),
           type' = type, content' = content, unknown' = unknown,
           simpledata_vec' = simpledata_vec, old_schema_name' = old_schema_name,
           in_old_schema_placemark' = in_old_schema_placemark
    PROVE  Placed'
<1> DEFINE l == Len(char_data)
           e == ending
<1>1. /\ char_data # << >> /\ ~ Plain(open[l]) /\ ~ in_old_schema_placemark /\ l \in 1..l
      /\ k \in 1..Len(open) /\ k \in Nat
  BY SkippedTop, DocFacts
<1>2. /\ doc' = doc /\ texts' = texts /\ Inside' = Inside /\ Tags' = Tags
      /\ e = open[Len(open)] /\ e \in Tags /\ OpenTags' = OpenTags \ {e} /\ Later
      /\ texts' \in Nat
  BY PlacedFacts, EndTags
<1>3. Len(open) \in Nat /\ l < Len(open) /\ k < Len(open) /\ l \in Nat
  <2>1. CASE InDescription(k) /\ k < Len(open)
    BY <2>1, DocFacts DEF InDescription
  <2>2. CASE InUnknown(k) /\ k + 1 < Len(open)
    BY <2>2, DocFacts DEF InUnknown
  <2> QED BY <2>1, <2>2
<1>4. AllGathered'
  <2>1. Gathers(doc', Append(char_data[l], EndTag(e)), open[l], Inside', OpenTags', texts')
    BY <1>1, PlacedFacts, GathersEnd
  <2>2. \A j \in 1..l : open'[j] = open[j]
    <3>1. \A j \in 1..l : j \in 1..(Len(open) - 1)
      BY <1>3
    <3> QED BY <3>1, EndFacts
  <2> QED BY <1>1, <1>2, <2>1, <2>2, PlacedFacts, TopGathered
<1>5. e \notin DOMAIN type
  <2>1. Len(open) \in DOMAIN open /\ ~ (Len(open) <= k)
    BY <1>3, DocFacts
  <2> QED BY <1>2, <2>1 DEF Live, Tree
<1>6. e \notin ForeignTags
  <2>1. doc[e].parent = open[Len(open) - 1] /\ Len(open) - 1 \in DOMAIN open
    <3>1. Len(open) \in DOMAIN open /\ Len(open) # 1 /\ Len(open) - 1 \in 1..Len(open)
      BY <1>1, <1>3, DocFacts
    <3> QED BY <1>2, <3>1, DocFacts DEF DocShape, OpenIsPath
  <2>2. CASE Len(open) - 1 = k
    <3>1. ~ (InUnknown(k) /\ k + 1 < Len(open))
      BY <1>1, <1>3, <2>2
    <3> QED BY <2>1, <2>2, <3>1 DEF ForeignTags, InDescription
  <2>3. CASE Len(open) - 1 # k
    <3>1. ~ (Len(open) - 1 <= k)
      BY <1>1, <1>3, <2>3
    <3>2. open[Len(open) - 1] \notin DOMAIN type
      BY <2>1, <3>1 DEF Live, Tree
    <3> QED BY <2>1, <3>2 DEF ForeignTags
  <2> QED BY <2>2, <2>3
<1>7. /\ ForeignTags' \ OpenTags' = ForeignTags \ OpenTags
      /\ DOMAIN type' \ OpenTags' = DOMAIN type \ OpenTags
  BY <1>5, <1>6, ForeignEnds
<1>8. AllGiven' /\ AllHandedOn'
  BY <1>2, <1>7, PlacedFacts, GivenStays, HandedStays
<1>9. FieldsOwned'
  <2>1. OpenTags \cap DOMAIN type \subseteq OpenTags'
    BY <1>2, <1>5
  <2> QED BY <1>1, <1>2, <2>1, PlacedFacts, FieldsStay
<1>10. Once(Strings', texts')
  <2>1. ~ IsText(EndTag(e))
    BY TokenFacts
  <2> QED BY <1>1, <1>2, <2>1, PlacedFacts, StringsTop
<1> QED BY <1>2, <1>4, <1>8, <1>9, <1>10 DEF Placed

LEMMA UnknownEndsPlaced ==
    ASSUME DocShape, DocShape', NEW k \in 0..Len(open), Live(k), Placed, ExpatEnds,
           InUnknown(k), Len(open) = k + 1, char_data' = Pop(char_data),
           unknown' = unknown \cup
             {[at |-> open[k], xml |-> Append(char_data[Len(char_data)], EndTag(ending))]},
           type' = type, content' = content,
           simpledata_vec' = simpledata_vec, old_schema_name' = old_schema_name,
           in_old_schema_placemark' = in_old_schema_placemark
    PROVE  Placed'
<1> DEFINE l == Len(char_data)
           r == ending
           xml == Append(char_data[l], EndTag(r))
           new == [at |-> open[k], xml |-> xml]
<1>1. /\ char_data # << >> /\ ~ in_old_schema_placemark /\ l \in 1..l
      /\ k \in 1..Len(open) /\ k \in Nat /\ open[k] \in DOMAIN type
  BY SkippedTop, DocFacts
<1>2. /\ doc' = doc /\ texts' = texts /\ Inside' = Inside /\ Tags' = Tags
      /\ r = open[Len(open)] /\ r \in Tags /\ r \in OpenTags /\ OpenTags' = OpenTags \ {r} /\ Later
      /\ texts' \in Nat
  BY PlacedFacts, EndTags
<1>3. l = k + 1 /\ doc[r].cls = "unknown" /\ ~ IsDescription(open[k])
  BY <1>2 DEF InUnknown
<1>4. AllGathered'
  <2>1. \A j \in 1..(l - 1) : open'[j] = open[j]
    BY <1>3, EndFacts
  <2> QED BY <1>1, <1>2, <2>1, PlacedFacts, PopGathered
<1>5. r \notin DOMAIN type
  <2>1. Len(open) \in DOMAIN open /\ ~ (Len(open) <= k)
    BY <1>1, DocFacts
  <2> QED BY <1>2, <2>1 DEF Live, Tree
<1>6. doc[r].parent = open[k] /\ r \in ForeignTags
  <2>1. Len(open) \in DOMAIN open /\ Len(open) # 1 /\ Len(open) - 1 = k
    BY <1>1, DocFacts
  <2>2. doc[r].parent = open[k]
    BY <1>2, <2>1 DEF DocShape, OpenIsPath
  <2> QED BY <1>1, <1>2, <1>3, <2>2 DEF ForeignTags
<1>7. ForeignTags' = ForeignTags /\ DOMAIN type' \ OpenTags' = DOMAIN type \ OpenTags
  BY <1>5, ForeignEnds
<1>8. AllGiven'
  BY <1>2, <1>7, PlacedFacts, GivenStays
<1>9. FieldsOwned'
  <2>1. OpenTags \cap DOMAIN type \subseteq OpenTags'
    BY <1>2, <1>5
  <2> QED BY <1>1, <1>2, <2>1, PlacedFacts, FieldsStay
<1>10. Markup(xml, r, Inside', {}, texts') /\ xml[1] = StartTag(r)
  <2>1. Gathers(doc, char_data[l], r, Inside, OpenTags, texts)
    BY <1>1, <1>2, <1>3, PlacedFacts
  <2>2. Markup(char_data[l], r, Inside, OpenTags, texts)
    BY <1>3, <2>1 DEF Gathers
  <2>3. Markup(xml, r, Inside', {}, texts')
    BY <2>2, PlacedFacts, LastEnds
  <2> HIDE DEF xml
  <2> QED BY <2>3 DEF Markup
<1>11. TextsOf(xml) = TextsOf(char_data[l])
  <2>1. ~ IsText(EndTag(r)) /\ IsList(char_data[l])
    BY <1>1, TokenFacts, PlacedFacts
  <2> QED BY <2>1, TextsAppend
<1>12. new.at = open[k] /\ new.xml = xml /\ unknown' = unknown \cup {new}
  OBVIOUS
<1> HIDE DEF xml, new, r
<1>13. AllHandedOn'
  <2>1. ASSUME NEW u \in unknown
        PROVE  \E t \in ForeignTags \ OpenTags :
                 /\ Markup(u.xml, t, Inside', {}, texts') /\ u.at = doc'[t].parent
                 /\ u.xml[1] = StartTag(t)
    <3>1. PICK t \in ForeignTags \ OpenTags :
             Markup(u.xml, t, Inside, {}, texts) /\ u.at = doc[t].parent
      BY PlacedFacts DEF AllHandedOn
    <3>2. t \in Tags \ OpenTags
      BY <3>1 DEF ForeignTags
    <3>3. Markup(u.xml, t, Inside', {}, texts')
      BY <1>2, <3>1, <3>2, StillGot
    <3>4. u.xml[1] = StartTag(t)
      BY <3>1 DEF Markup
    <3> QED BY <1>2, <3>1, <3>3, <3>4
  <2>2. ForeignTags' \ OpenTags' = (ForeignTags \ OpenTags) \cup {r}
    BY <1>2, <1>6, <1>7
  <2>3. ASSUME NEW u \in unknown'
        PROVE  \E t \in ForeignTags' \ OpenTags' :
                 Markup(u.xml, t, Inside', {}, texts') /\ u.at = doc'[t].parent
    <3>1. CASE u \in unknown
      BY <2>1, <2>2, <3>1
    <3>2. CASE u = new
      BY <1>2, <1>6, <1>10, <1>12, <2>2, <3>2
    <3> QED BY <1>12, <3>1, <3>2
  <2>4. \A t \in ForeignTags' \ OpenTags' : \E u \in unknown' : u.xml[1] = StartTag(t)
    <3>1. \A t \in ForeignTags \ OpenTags : \E u \in unknown : u.xml[1] = StartTag(t)
      BY PlacedFacts DEF AllHandedOn
    <3> QED BY <1>10, <1>12, <2>2, <3>1
  <2>5. ASSUME NEW u \in unknown', NEW v \in unknown', u.xml[1] = v.xml[1] PROVE u = v
    <3>1. \A w \in unknown : w.xml[1] # StartTag(r)
      <4>1. ASSUME NEW w \in unknown PROVE w.xml[1] # StartTag(r)
        <5>1. PICK t \in ForeignTags \ OpenTags : w.xml[1] = StartTag(t)
          BY <2>1
        <5>2. t # r
          BY <1>2, <5>1
        <5> QED BY <5>1, <5>2, TokenFacts
      <4> QED BY <4>1
    <3>2. \A w, z \in unknown : w.xml[1] = z.xml[1] => w = z
      BY PlacedFacts DEF AllHandedOn
    <3> QED BY <1>10, <1>12, <2>5, <3>1, <3>2
  <2> QED BY <2>3, <2>4, <2>5 DEF AllHandedOn
<1>14. Once(Strings', texts')
  <2> DEFINE z == <<"unknown", open[k], xml>>
  <2>1. Contents' = Contents /\ Fields' = Fields
    BY DEF Contents, Fields
  <2>2. Unknowns' = Unknowns \cup {z}
    BY <1>12 DEF Unknowns
  <2>3. TextsOf(z[3]) = TextsOf(char_data[l])
    BY <1>11
  <2> HIDE DEF z
  <2> QED BY <1>1, <1>2, <2>1, <2>2, <2>3, PlacedFacts, StringsPop
<1> QED BY <1>2, <1>4, <1>8, <1>9, <1>13, <1>14 DEF Placed

LEMMA NotEmpty ==
    ASSUME NEW s, IsList(s), NEW i \in DOMAIN s PROVE s # << >> /\ Len(s) \in 1..Len(s)
BY ListFacts

LEMMA OldChildEndsPlaced ==
    ASSUME DocShape, NEW k \in 0..Len(open), Live(k), Placed, ExpatEnds,
           InOldChild(k), char_data' = Pop(char_data),
           simpledata_vec' =
             [simpledata_vec EXCEPT ![Len(simpledata_vec)].text = char_data[Len(char_data)]],
           type' = type, content' = content, unknown' = unknown,
           old_schema_name' = old_schema_name, ~ in_old_schema_placemark'
    PROVE  Placed'
<1> DEFINE l == Len(char_data)
           m == Len(simpledata_vec)
           e == ending
           f == simpledata_vec[m]
           g == [f EXCEPT !.text = char_data[l]]
<1>1. /\ k > 0 /\ k \in Nat /\ Len(open) = k + 1 /\ l = k + 1 /\ in_old_schema_placemark
      /\ doc[open[k + 1]].cls = "field" /\ simpledata_vec # << >>
  BY DocFacts DEF InOldChild
<1>2. /\ doc' = doc /\ texts' = texts /\ Inside' = Inside /\ Tags' = Tags
      /\ e = open[Len(open)] /\ e \in Tags /\ e \in OpenTags /\ OpenTags' = OpenTags \ {e} /\ Later
      /\ texts' \in Nat /\ texts \in Nat
  BY PlacedFacts, EndTags
<1>3. l \in 1..l /\ l \in Nat /\ char_data # << >>
  BY <1>1, PlacedFacts, ListFacts
<1>4. AllGathered'
  <2>1. \A j \in 1..(l - 1) : open'[j] = open[j]
    BY <1>1, EndFacts
  <2> QED BY <1>2, <1>3, <2>1, PlacedFacts, PopGathered
<1>5. e \notin DOMAIN type /\ e \notin ForeignTags
  <2>1. Len(open) \in DOMAIN open /\ ~ (Len(open) <= k)
    BY <1>1, DocFacts
  <2>2. e \notin DOMAIN type
    BY <1>2, <2>1 DEF Live, Tree
  <2> QED BY <1>1, <1>2, <2>2 DEF ForeignTags
<1>6. AllGiven' /\ AllHandedOn'
  <2>1. /\ ForeignTags' \ OpenTags' = ForeignTags \ OpenTags
        /\ DOMAIN type' \ OpenTags' = DOMAIN type \ OpenTags
    BY <1>5, ForeignEnds
  <2> QED BY <1>2, <2>1, PlacedFacts, GivenStays, HandedStays
<1>7. /\ m \in Nat /\ m \in 1..m /\ DOMAIN simpledata_vec = 1..m
      /\ DOMAIN simpledata_vec' = 1..m /\ simpledata_vec'[m] = g
      /\ \A i \in 1..m : i # m => simpledata_vec'[i] = simpledata_vec[i]
      /\ simpledata_vec[m] = f
  <2>1. m \in Nat /\ m \in 1..m /\ DOMAIN simpledata_vec = 1..m
    BY <1>1, PlacedFacts, ListFacts
  <2>2. simpledata_vec' = [simpledata_vec EXCEPT ![m] = g]
    OBVIOUS
  <2> HIDE DEF m, g
  <2> QED BY <2>1, <2>2
<1>8. FieldIs(doc, f, DOMAIN type, Inside, OpenTags, texts) /\ f.of = e /\ f.text = << >>
  BY <1>1, <1>2, <1>7, PlacedFacts DEF FieldsOwned
<1>9. g.of = f.of /\ g.text = char_data[l] /\ g.owner = f.owner /\ DOMAIN g = DOMAIN f
  BY <1>8 DEF FieldIs
<1>10. \A i \in 1..m : FieldIs(doc, simpledata_vec[i], DOMAIN type, Inside, OpenTags, texts)
  BY <1>7, PlacedFacts DEF FieldsOwned
<1> HIDE DEF m, f, g
<1>11. OwnText(char_data[l], e, texts)
  <2>1. Plain(open[l]) /\ open[l] = e
    BY <1>1, <1>2, <1>3, CharDataFacts
  <2>2. Gathers(doc, char_data[l], open[l], Inside, OpenTags, texts)
    BY <1>3, PlacedFacts
  <2> QED BY <2>1, <2>2, GathersPlain
<1>12. FieldIs(doc, g, DOMAIN type, Inside, OpenTags, texts)
  BY <1>8, <1>9, <1>11 DEF FieldIs
<1>13. ASSUME NEW h, FieldIs(doc, h, DOMAIN type, Inside, OpenTags, texts)
       PROVE  FieldIs(doc', h, DOMAIN type', Inside', OpenTags', texts')
  <2>1. IsOld(doc, doc[h.of].parent) /\ h.owner = NoTag => doc[h.of].parent \in OpenTags'
    BY <1>2, <1>5, <1>13 DEF FieldIs
  <2> QED BY <1>2, <1>13, <2>1, PlacedFacts, FieldStays
<1>14. FieldsOwned'
  <2>1. \A i \in DOMAIN simpledata_vec' :
           FieldIs(doc', simpledata_vec'[i], DOMAIN type', Inside', OpenTags', texts')
    BY <1>7, <1>10, <1>12, <1>13
  <2>2. old_schema_name' = OldName
    BY <1>1, PlacedFacts DEF FieldsOwned
  <2> QED BY <2>1, <2>2 DEF FieldsOwned
<1>15. Once(Strings', texts')
  <2> DEFINE z == <<"simpledata", e, char_data[l]>>
             y == <<"simpledata", e, << >>>>
  <2>1. Contents' = Contents /\ Unknowns' = Unknowns
    BY DEF Contents, Unknowns
  <2>6. /\ z = <<"simpledata", simpledata_vec'[m].of, simpledata_vec'[m].text>>
        /\ y = <<"simpledata", simpledata_vec[m].of, simpledata_vec[m].text>>
    BY <1>7, <1>8, <1>9
  <2>2. z \in Fields' /\ \A s \in Fields' : s = z \/ s \in Fields
    BY <1>7, <2>6 DEF Fields
  <2>3. \A s \in Fields : s \in Fields' \/ s = y
    BY <1>7, <2>6 DEF Fields
  <2>4. TextsOf(y[3]) = {} /\ TextsOf(z[3]) = TextsOf(char_data[l])
    BY TextsEmpty
  <2> HIDE DEF y, z
  <2>5. \A s \in Fields : s \in Fields' \/ TextsOf(s[3]) = {}
    BY <2>3, <2>4
  <2> QED BY <1>2, <1>3, <2>1, <2>2, <2>4, <2>5, PlacedFacts, StringsPop
<1> QED BY <1>2, <1>4, <1>6, <1>14, <1>15 DEF Placed

LEMMA KnownEndsPlaced ==
    ASSUME DocShape, DocShape', NEW k \in 0..Len(open), Live(k), Placed, ExpatEnds,
           InElement(k) \/ InDescription(k), k = Len(open), char_data' = Pop(char_data),
           content' = With(content, ending, char_data[Len(char_data)]),
           simpledata_vec' = IF old_schema_name # "" /\ endName = old_schema_name
                               THEN Adopted(ending) ELSE simpledata_vec,
           type' = type, unknown' = unknown, old_schema_name' = old_schema_name,
           in_old_schema_placemark' = in_old_schema_placemark
    PROVE  Placed'
<1> DEFINE l == Len(char_data)
           e == ending
           s == char_data[l]
<1>1. /\ k > 0 /\ k \in Nat /\ l = k /\ ~ in_old_schema_placemark
  <2>1. Len(open) > 0 /\ Len(open) \in Nat
    BY EndFacts, DocFacts
  <2> QED BY <2>1 DEF InElement, InDescription
<1>2. /\ doc' = doc /\ texts' = texts /\ Inside' = Inside /\ Tags' = Tags
      /\ e = open[Len(open)] /\ e \in Tags /\ e \in OpenTags /\ OpenTags' = OpenTags \ {e} /\ Later
      /\ texts' \in Nat /\ texts \in Nat
  BY PlacedFacts, EndTags
<1>3. l \in 1..l /\ char_data # << >> /\ e = open[l] /\ open # << >>
  <2>0. k \in 1..k
    <3>1. k > 0 /\ k \in Nat
      BY <1>1
    <3> QED BY ONLY <3>1
  <2>1. l \in 1..l /\ e = open[l]
    BY <1>1, <1>2, <2>0
  <2>2. open # << >>
    BY <1>1, DocFacts
  <2>3. char_data # << >>
    BY <1>1, LiveFacts
  <2> QED BY <2>1, <2>2, <2>3
<1>4. AllGathered'
  <2>1. \A j \in 1..(l - 1) : open'[j] = open[j]
    BY <1>1, EndFacts
  <2> QED BY <1>2, <1>3, <2>1, PlacedFacts, PopGathered
<1>5. doc[e].cls = "known" /\ e \in DOMAIN type /\ endName = doc[e].name
  <2>1. k \in 1..k
    BY <1>1, <1>3
  <2>2. k \in DOMAIN open /\ k <= k
    <3>1. DOMAIN open = 1..Len(open)
      BY DocFacts
    <3>2. k \in Nat
      BY <1>1
    <3>3. k <= k
      BY ONLY <3>2
    <3> QED BY <2>1, <3>1, <3>3
  <2>3. doc[open[k]].cls = "known"
    BY <2>1 DEF Live, Sync, Path
  <2>4. open[k] \in DOMAIN type
    BY <2>2 DEF Live, Tree
  <2> QED BY <1>2, <2>3, <2>4 DEF endName
<1>6. AllHandedOn'
  <2>1. e \notin ForeignTags
    BY <1>5 DEF ForeignTags
  <2>2. ForeignTags' \ OpenTags' = ForeignTags \ OpenTags
    BY <2>1, ForeignEnds
  <2> QED BY <1>2, <2>2, PlacedFacts, HandedStays
<1>7. Gathers(doc, s, e, Inside, OpenTags, texts) /\ IsList(s)
  BY <1>3, PlacedFacts
<1>8. HasGot(doc', s, e, Inside', texts')
  <2>1. CASE doc[e].name = "description"
    <3>1. Markup(<<StartTag(e)>> \o s, e, Inside, OpenTags, texts)
      BY <1>5, <1>7, <2>1 DEF Gathers
    <3>2. Markup(Append(<<StartTag(e)>> \o s, EndTag(e)), e, Inside', {}, texts')
      BY <1>2, <3>1, LastEnds
    <3>3. Markup(<<StartTag(e)>> \o Append(s, EndTag(e)), e, Inside', {}, texts')
      BY <1>7, <3>2, ConcatAppend
    <3> QED BY <1>2, <1>7, <2>1, <3>3 DEF HasGot
  <2>2. CASE doc[e].name # "description"
    BY <1>2, <1>5, <1>7, <2>2 DEF Gathers, HasGot
  <2> QED BY <2>1, <2>2
<1>9. DOMAIN content = DOMAIN type \ OpenTags
  BY PlacedFacts DEF AllGiven
<1> HIDE DEF s, e
<1>10. /\ DOMAIN content' = DOMAIN content \cup {e} /\ content'[e] = s
       /\ \A t \in DOMAIN content : t # e /\ content'[t] = content[t]
  <2>1. content' = With(content, e, s)
    BY DEF e, s
  <2>2. e \notin DOMAIN content
    BY <1>2, <1>9
  <2> QED BY <2>1, <2>2 DEF With
<1>11. AllGiven'
  <2>1. DOMAIN content' = DOMAIN type' \ OpenTags'
    BY <1>2, <1>5, <1>9, <1>10
  <2>2. ASSUME NEW t \in DOMAIN content PROVE HasGot(doc', content'[t], t, Inside', texts')
    <3>1. t \in Tags \ OpenTags /\ HasGot(doc, content[t], t, Inside, texts)
      BY <1>9, PlacedFacts DEF AllGiven
    <3> QED BY <1>2, <1>10, <3>1, StillGot
  <2> QED BY <1>8, <1>10, <2>1, <2>2 DEF AllGiven
<1>12. \A i \in DOMAIN simpledata_vec :
          FieldIs(doc, simpledata_vec[i], DOMAIN type, Inside, OpenTags, texts)
  BY PlacedFacts DEF FieldsOwned
<1>13. ASSUME old_schema_name # "" /\ endName = old_schema_name
       PROVE  FieldsOwned' /\ Fields' = Fields
  <2>1. old_schema_name = OldName /\ IsOld(doc, e)
    <3>1. old_schema_name \in {"", OldName}
      BY DEF Live, TypesFit
    <3> QED BY <1>5, <1>13, <3>1 DEF IsOld
  <2>2. /\ DOMAIN simpledata_vec' = DOMAIN simpledata_vec
        /\ \A i \in DOMAIN simpledata_vec :
             simpledata_vec'[i] = IF simpledata_vec[i].owner = NoTag
                                    THEN [simpledata_vec[i] EXCEPT !.owner = e]
                                    ELSE simpledata_vec[i]
    <3>1. simpledata_vec' = Adopted(e)
      BY <1>13 DEF e
    <3> QED BY <3>1 DEF Adopted
  <2>3. ASSUME NEW f, FieldIs(doc, f, DOMAIN type, Inside, OpenTags, texts), f.owner # NoTag
        PROVE  FieldIs(doc', f, DOMAIN type', Inside', OpenTags', texts')
    BY <1>2, <2>3, PlacedFacts, FieldStays
  <2>4. ASSUME NEW f, FieldIs(doc, f, DOMAIN type, Inside, OpenTags, texts), f.owner = NoTag
        PROVE  /\ FieldIs(doc', [f EXCEPT !.owner = e], DOMAIN type', Inside', OpenTags', texts')
               /\ [f EXCEPT !.owner = e].of = f.of /\ [f EXCEPT !.owner = e].text = f.text
    <3> DEFINE g == [f EXCEPT !.owner = e]
    <3>1. DOMAIN g = DOMAIN f /\ g.of = f.of /\ g.text = f.text /\ g.owner = e
      BY <2>4 DEF FieldIs
    <3> HIDE DEF g
    <3>2. e # NoTag
      BY <1>2, Parents
    <3>3. IsOld(doc, doc[f.of].parent) => e \in Inside[doc[f.of].parent]
      <4>1. IsOld(doc, doc[f.of].parent) =>
              doc[f.of].parent \in OpenTags /\ doc[f.of].parent \in DOMAIN type
        BY <2>4 DEF FieldIs
      <4>2. IsOld(doc, doc[f.of].parent) => doc[f.of].parent \in OpenTags \cap Tags
        BY <4>1, PlacedFacts
      <4>3. \A t \in OpenTags \cap Tags : e \in Inside[t]
        BY <1>2, <1>3, InsideFacts
      <4> QED BY <4>2, <4>3
    <3>4. FieldIs(doc, g, DOMAIN type, Inside, OpenTags, texts)
      BY <2>1, <2>4, <3>1, <3>2, <3>3 DEF FieldIs
    <3>5. FieldIs(doc', g, DOMAIN type', Inside', OpenTags', texts')
      BY <2>3, <3>1, <3>2, <3>4
    <3> QED BY <3>1, <3>5 DEF g
  <2>5. FieldsOwned'
    <3>1. \A i \in DOMAIN simpledata_vec' :
             FieldIs(doc', simpledata_vec'[i], DOMAIN type', Inside', OpenTags', texts')
      BY <1>12, <2>2, <2>3, <2>4
    <3> QED BY <1>1, <2>1, <3>1 DEF FieldsOwned
  <2>6. Fields' = Fields
    <3>1. \A i \in DOMAIN simpledata_vec : /\ simpledata_vec'[i].of = simpledata_vec[i].of
                                           /\ simpledata_vec'[i].text = simpledata_vec[i].text
      BY <1>12, <2>2, <2>4
    <3> QED BY <2>2, <3>1 DEF Fields
  <2> QED BY <2>5, <2>6
<1>14. ASSUME ~ (old_schema_name # "" /\ endName = old_schema_name)
       PROVE  FieldsOwned' /\ Fields' = Fields
  <2>1. simpledata_vec' = simpledata_vec
    BY <1>14
  <2>2. ASSUME NEW i \in DOMAIN simpledata_vec,
               IsOld(doc, doc[simpledata_vec[i].of].parent), simpledata_vec[i].owner = NoTag
        PROVE  doc[simpledata_vec[i].of].parent \in OpenTags'
    <3>1. doc[simpledata_vec[i].of].parent \in OpenTags
      BY <1>12, <2>2 DEF FieldIs
    <3>2. old_schema_name = OldName
      <4>1. simpledata_vec # << >>
        BY PlacedFacts, NotEmpty
      <4> QED BY <4>1, PlacedFacts DEF FieldsOwned
    <3>3. ~ IsOld(doc, e)
      BY <1>5, <1>14, <3>2, NameAssumption DEF IsOld
    <3> QED BY <1>2, <2>2, <3>1, <3>3
  <2>3. FieldsOwned'
    BY <1>1, <1>2, <2>1, <2>2, PlacedFacts, FieldsStay
  <2> QED BY <2>1, <2>3 DEF Fields
<1>15. FieldsOwned' /\ Fields' = Fields
  BY <1>13, <1>14
<1>16. Once(Strings', texts')
  <2> DEFINE z == <<"content", e, s>>
  <2>1. Unknowns' = Unknowns
    BY DEF Unknowns
  <2>2. Contents' = Contents \cup {z}
    BY <1>10 DEF Contents
  <2>3. TextsOf(z[3]) = TextsOf(char_data[l])
    BY DEF s
  <2> HIDE DEF z
  <2> QED BY <1>2, <1>3, <1>15, <2>1, <2>2, <2>3, PlacedFacts, StringsPop
<1> QED BY <1>2, <1>4, <1>6, <1>11, <1>15, <1>16 DEF Placed

(* Every step keeps the texts in their place.                              *)
LEMMA StartTInv ==
    ASSUME IInv, TInv, NEW name \in Names, NEW parent \in BOOLEAN, Start(name, parent)
    PROVE  TInv'
<1>1. phase = "run" /\ phase' \in {"run", "stopping"} /\ (confused => confused')
  <2>1. CASE StartTooDeep(name)
    BY <2>1 DEF StartTooDeep, ExpatStarts
  <2>2. CASE StartSkipped(name)
    BY <2>2 DEF StartSkipped, ExpatStarts
  <2>3. CASE StartKnown(name, parent)
    BY <2>3 DEF StartKnown, StartGathered, ExpatStarts
  <2>4. CASE StartOldChild(name)
    BY <2>4 DEF StartOldChild, StartGathered, ExpatStarts
  <2>5. CASE StartUnknown(name)
    BY <2>5 DEF StartUnknown, StartGathered, ExpatStarts
  <2> QED BY <2>1, <2>2, <2>3, <2>4, <2>5 DEF Start
<1>2. ASSUME phase' = "run", ~ confused' PROVE Placed'
  <2>1. DocShape /\ Placed /\ confused \in BOOLEAN
    BY <1>1, <1>2 DEF IInv, TInv
  <2>2. PICK k \in 0..Len(open) : Live(k)
    BY <1>1, <1>2 DEF IInv
  <2>3. ~ StartTooDeep(name)
    BY <1>2 DEF StartTooDeep
  <2>4. CASE StartSkipped(name)
    BY <2>1, <2>2, <2>4, SkippedPlaced
  <2>5. CASE StartKnown(name, parent)
    BY <1>2, <2>1, <2>2, <2>5, KnownPlaced
  <2>6. CASE StartOldChild(name)
    BY <1>2, <2>1, <2>2, <2>6, OldChildPlaced
  <2>7. CASE StartUnknown(name)
    BY <1>2, <2>1, <2>2, <2>7, UnknownPlaced
  <2> QED BY <2>3, <2>4, <2>5, <2>6, <2>7 DEF Start
<1> QED BY <1>1, <1>2 DEF TInv

LEMMA InnerEndsTexts ==
    ASSUME DocShape, NEW k \in 0..Len(open), Live(k), Placed, InDescription(k), k < Len(open),
           Ended, EndSkipped \/ EndStopped \/ EndOldChild \/ EndKnown
    PROVE  Placed' /\ phase' # "done"
<1>1. EndSkipped /\ DescriptionSkip > 1
  BY InnerEndsHow
<1>2. DescriptionSkip # 1 /\ char_data # << >>
  BY <1>1, SkippedTop
<1>3. /\ char_data' = AppendTop(char_data, EndTag(ending)) /\ phase' = AfterEnd
      /\ type' = type /\ content' = content /\ unknown' = unknown
      /\ simpledata_vec' = simpledata_vec
      /\ in_old_schema_placemark' = in_old_schema_placemark
  BY <1>1, <1>2 DEF EndSkipped, tree
<1>4. k > 0 /\ Len(open) # 1 /\ phase = "run"
  BY LiveFacts DEF InDescription, Ended
<1>5. phase' # "done"
  BY <1>3, <1>4 DEF AfterEnd
<1>6. ExpatEnds /\ old_schema_name' = old_schema_name
  BY DEF Ended
<1>7. Placed'
  BY <1>3, <1>6, InnerEndsPlaced
<1> QED BY <1>5, <1>7

LEMMA UnknownEndsTexts ==
    ASSUME DocShape, DocShape', NEW k \in 0..Len(open), Live(k), Placed, InUnknown(k),
           ~ DescriptionConfused,
           Ended, EndSkipped \/ EndStopped \/ EndOldChild \/ EndKnown
    PROVE  Placed' /\ phase' # "done"
<1>1. /\ EndSkipped /\ DescriptionSkip = skip_depth /\ skip_depth = Len(open) - k
      /\ k \in Nat /\ Len(open) \in Nat /\ k > 0 /\ Len(open) > k
  BY UnknownEndsHow, LiveFacts DEF InUnknown
<1>2. char_data # << >> /\ IsList(char_data) /\ Top(stack) = open[k] /\ stack # << >>
  BY <1>1, SkippedTop, LiveFacts, CharDataFacts
<1>3. ExpatEnds /\ old_schema_name' = old_schema_name /\ phase = "run" /\ Len(open) # 1
  BY <1>1 DEF Ended
<1>4. phase' = AfterEnd
  BY <1>1, <1>2 DEF EndSkipped
<1>5. phase' # "done"
  BY <1>3, <1>4 DEF AfterEnd
<1>6. CASE k + 1 < Len(open)
  <2>1. DescriptionSkip > 1 /\ DescriptionSkip # 1
    BY <1>1, <1>6
  <2>2. /\ char_data' = AppendTop(char_data, EndTag(ending))
        /\ type' = type /\ content' = content /\ unknown' = unknown
        /\ simpledata_vec' = simpledata_vec
        /\ in_old_schema_placemark' = in_old_schema_placemark
    BY <1>1, <1>2, <2>1 DEF EndSkipped, tree
  <2>3. Placed'
    BY <1>3, <1>6, <2>2, InnerEndsPlaced
  <2> QED BY <1>5, <2>3
<1>7. CASE Len(open) = k + 1
  <2>1. DescriptionSkip = 1 /\ ~ (DescriptionSkip > 1)
    BY <1>1, <1>7
  <2>2. /\ char_data' = Pop(char_data) /\ type' = type /\ content' = content
        /\ unknown' = unknown \cup {[at |-> Top(stack),
                                     xml |-> Top(AppendTop(char_data, EndTag(ending)))]}
        /\ simpledata_vec' = simpledata_vec
        /\ in_old_schema_placemark' = in_old_schema_placemark
    BY <1>1, <1>2, <2>1 DEF EndSkipped
  <2>3. Top(AppendTop(char_data, EndTag(ending)))
          = Append(char_data[Len(char_data)], EndTag(ending))
    BY <1>2, TopFacts
  <2>4. unknown' = unknown \cup
          {[at |-> open[k], xml |-> Append(char_data[Len(char_data)], EndTag(ending))]}
    BY <1>2, <2>2, <2>3
  <2>5. Placed'
    BY <1>3, <1>7, <2>2, <2>4, UnknownEndsPlaced
  <2> QED BY <1>5, <2>5
<1> QED BY <1>1, <1>6, <1>7

LEMMA OldChildEndsTexts ==
    ASSUME DocShape, NEW k \in 0..Len(open), Live(k), Placed, InOldChild(k),
           Ended, EndSkipped \/ EndStopped \/ EndOldChild \/ EndKnown
    PROVE  Placed' /\ phase' # "done"
<1>1. EndOldChild /\ ExpatEnds /\ old_schema_name' = old_schema_name /\ phase = "run"
  BY OldChildEndsHow DEF Ended
<1>2. k > 0 /\ Len(open) # 1
  BY LiveFacts DEF InOldChild
<1>3. char_data # << >> /\ IsList(char_data)
  BY <1>2, LiveFacts, CharDataFacts
<1>4. /\ char_data' = Pop(char_data) /\ phase' = AfterEnd
      /\ simpledata_vec' =
           [simpledata_vec EXCEPT ![Len(simpledata_vec)].text = char_data[Len(char_data)]]
      /\ type' = type /\ content' = content /\ unknown' = unknown
      /\ ~ in_old_schema_placemark'
  BY <1>1 DEF EndOldChild, AfterOldChild, tree, Top
<1>5. phase' # "done"
  BY <1>1, <1>2, <1>4 DEF AfterEnd
<1>6. Placed'
  BY <1>1, <1>4, OldChildEndsPlaced
<1> QED BY <1>5, <1>6

LEMMA KnownEndsTexts ==
    ASSUME DocShape, DocShape', NEW k \in 0..Len(open), Live(k), Placed,
           InElement(k) \/ InDescription(k), k = Len(open),
           Ended, EndSkipped \/ EndStopped \/ EndOldChild \/ EndKnown
    PROVE  /\ Placed'
           /\ phase' = "done" => open' = << >> /\ char_data' = << >>
<1>1. /\ EndKnown /\ ExpatEnds /\ old_schema_name' = old_schema_name /\ phase = "run"
      /\ old_schema_name # "" /\ endName = "Schema" => type[open[k]] = "Schema"
      /\ old_schema_name # "" /\ endName = old_schema_name => type[open[k]] = "Placemark"
  BY KnownEndsHow DEF Ended
<1>2. /\ k > 0 /\ char_data # << >> /\ IsList(char_data) /\ Top(stack) = open[k]
      /\ ending = open[k] /\ Len(char_data) = k
  BY <1>1, LiveFacts, CharDataFacts, EndFacts DEF InElement, InDescription
<1>3. /\ content' = With(content, Top(stack), Top(char_data)) /\ char_data' = Pop(char_data)
      /\ simpledata_vec' = IF old_schema_name # "" /\ endName = old_schema_name
                             THEN Adopted(Top(stack)) ELSE simpledata_vec
      /\ type' = type /\ unknown' = unknown
      /\ in_old_schema_placemark' = in_old_schema_placemark
      /\ phase' \in {"stopped", AfterEnd}
  BY <1>1, <1>2 DEF EndKnown
<1>4. Top(char_data) = char_data[Len(char_data)]
  BY DEF Top
<1>5. Placed'
  BY <1>1, <1>2, <1>3, <1>4, KnownEndsPlaced
<1>6. ASSUME phase' = "done" PROVE open' = << >> /\ char_data' = << >>
  <2>1. Len(open) = 1
    BY <1>1, <1>3, <1>6 DEF AfterEnd
  <2>2. IsList(char_data') /\ Len(char_data') = 0
    <3>1. IsList(Pop(char_data)) /\ Len(Pop(char_data)) = Len(char_data) - 1
      BY <1>2, TopFacts
    <3>2. char_data' = Pop(char_data) /\ Len(char_data) = 1
      BY <1>2, <1>3, <2>1
    <3> QED BY ONLY <3>1, <3>2
  <2>3. open' = << >>
    BY <1>1, <2>1, EndFacts
  <2>4. char_data' = << >>
    <3>1. PICK S : char_data' \in Seq(S)
      BY <2>2 DEF IsList
    <3> QED BY <2>2, <3>1, EmptySeq
  <2> QED BY <2>3, <2>4
<1> QED BY <1>5, <1>6

LEMMA EndTInv == ASSUME IInv, TInv, EndElement PROVE TInv'
<1>1. /\ DocShape /\ confused \in BOOLEAN /\ ExpatEnds /\ phase \in {"run", "stopping"}
      /\ EndSkipped \/ EndStopped \/ EndOldChild \/ EndKnown
      /\ in_description' = EndedDescription /\ old_schema_name' = old_schema_name
      /\ confused' = (confused \/ DescriptionConfused)
  BY DEF EndElement, ExpatEnds, IInv
<1>2. DocShape'
  BY EndIInv DEF IInv
<1>3. ASSUME ~ confused', phase' \in {"run", "done"}
      PROVE  Placed' /\ (phase' = "done" => open' = << >> /\ char_data' = << >>)
  <2>1. ~ confused /\ ~ DescriptionConfused
    BY <1>1, <1>3
  <2>2. phase = "run"
    <3>1. CASE phase = "stopping"
      BY <1>1, <1>3, <2>1, <3>1, StoppedEndsWell DEF IInv
    <3> QED BY <1>1, <3>1
  <2>3. Placed
    BY <2>1, <2>2 DEF TInv
  <2>4. PICK k \in 0..Len(open) : Live(k)
    BY <2>1, <2>2 DEF IInv
  <2>5. Ended
    BY <1>1, <2>2 DEF Ended
  <2>6. CASE InDescription(k) /\ k < Len(open)
    BY <1>1, <2>3, <2>4, <2>5, <2>6, InnerEndsTexts
  <2>7. CASE InUnknown(k)
    BY <1>1, <1>2, <2>1, <2>3, <2>4, <2>5, <2>7, UnknownEndsTexts
  <2>8. CASE InOldChild(k)
    BY <1>1, <2>3, <2>4, <2>5, <2>8, OldChildEndsTexts
  <2>9. CASE (InElement(k) \/ InDescription(k)) /\ k = Len(open)
    BY <1>1, <1>2, <2>3, <2>4, <2>5, <2>9, KnownEndsTexts
  <2>10. k \in Nat /\ Len(open) \in Nat /\ k <= Len(open)
    BY <1>1, <2>4, LiveFacts
  <2>11. InElement(k) => k = Len(open)
    BY DEF InElement
  <2>12. InDescription(k) \/ InElement(k) \/ InOldChild(k) \/ InUnknown(k)
    BY <2>4 DEF Live, Sync
  <2> QED BY <2>6, <2>7, <2>8, <2>9, <2>10, <2>11, <2>12
<1> QED BY <1>3 DEF TInv

LEMMA TextTInv == ASSUME IInv, TInv, CharData PROVE TInv'
<1>1. phase = "run" /\ confused' = confused
  BY DEF CharData
<1>2. ASSUME ~ confused' PROVE Placed' /\ phase' = "run"
  <2>1. DocShape /\ Placed
    BY <1>1, <1>2 DEF IInv, TInv
  <2>2. PICK k \in 0..Len(open) : Live(k)
    BY <1>1, <1>2 DEF IInv
  <2> QED BY <2>1, <2>2, TextPlaced
<1> QED BY <1>2 DEF TInv

LEMMA StutterTInv == ASSUME TInv, UNCHANGED vars PROVE TInv'
<1>1. /\ doc' = doc /\ open' = open /\ texts' = texts /\ char_data' = char_data
      /\ old_schema_name' = old_schema_name /\ simpledata_vec' = simpledata_vec
      /\ in_old_schema_placemark' = in_old_schema_placemark
      /\ type' = type /\ content' = content /\ unknown' = unknown
      /\ phase' = phase /\ confused' = confused
  BY DEF vars, document, handler, tree
<1>2. Inside' = Inside /\ Tags' = Tags /\ OpenTags' = OpenTags
  BY <1>1, InsideStays DEF OpenTags
<1>3. ForeignTags' = ForeignTags
  BY <1>1, <1>2 DEF ForeignTags, IsDescription
<1>4. AllGathered' = AllGathered /\ AllGiven' = AllGiven /\ AllHandedOn' = AllHandedOn
      /\ FieldsOwned' = FieldsOwned
  BY <1>1, <1>2, <1>3 DEF AllGathered, AllGiven, AllHandedOn, FieldsOwned
<1>5. Strings' = Strings
  BY <1>1 DEF Strings, Contents, Unknowns, Fields, Waiting
<1> QED BY <1>1, <1>4, <1>5 DEF TInv, Placed

LEMMA InitTInv == Init => TInv
<1> SUFFICES ASSUME Init PROVE TInv
  OBVIOUS
<1>1. /\ doc = << >> /\ open = << >> /\ char_data = << >> /\ texts = 0
      /\ simpledata_vec = << >> /\ ~ in_old_schema_placemark
      /\ type = << >> /\ content = << >> /\ unknown = {} /\ phase = "run"
  BY DEF Init
<1>2. /\ DOMAIN doc = {} /\ DOMAIN open = {} /\ DOMAIN type = {} /\ DOMAIN char_data = {}
      /\ DOMAIN content = {} /\ DOMAIN simpledata_vec = {}
  <2>1. DOMAIN << >> = {}
    OBVIOUS
  <2> QED BY <1>1, <2>1
<1>3. OpenTags = {} /\ ForeignTags = {}
  BY <1>2 DEF OpenTags, ForeignTags, Tags
<1>4. AllGathered /\ AllGiven /\ AllHandedOn /\ FieldsOwned
  BY <1>1, <1>2, <1>3 DEF AllGathered, AllGiven, AllHandedOn, FieldsOwned
<1>5. Strings = {}
  BY <1>1, <1>2 DEF Strings, Contents, Unknowns, Fields, Waiting
<1>6. Once(Strings, texts)
  <2>1. \A i \in 1..texts : FALSE
    BY <1>1
  <2> QED BY <1>5, <2>1 DEF Once
<1> QED BY <1>1, <1>4, <1>6 DEF TInv, Placed

LEMMA NextTInv == IInv /\ TInv /\ [Next]_vars => TInv'
<1> SUFFICES ASSUME IInv, TInv, [Next]_vars PROVE TInv'
  OBVIOUS
<1>1. ASSUME NEW name \in Names, NEW parent \in BOOLEAN, Start(name, parent) PROVE TInv'
  BY <1>1, StartTInv
<1>2. CASE EndElement
  BY <1>2, EndTInv
<1>3. CASE CharData
  BY <1>3, TextTInv
<1>4. CASE ParserStops \/ InputFails
  BY <1>4 DEF ParserStops, InputFails, TInv
<1>5. CASE UNCHANGED vars
  BY <1>5, StutterTInv
<1> QED BY <1>1, <1>2, <1>3, <1>4, <1>5 DEF Next

(* Between two events of a document that is not confused, what StartElement,*)
(* CharData and EndElement have gathered is markup or text in its place.    *)
THEOREM TextInv == Spec => []TInv
BY InitTInv, NextTInv, HandlerInv, PTL DEF Spec

-----------------------------------------------------------------------------
(* What the texts have come to when the parse is over, and before.         *)
LEMMA TreeIsMade ==
    ASSUME IInv, phase \in {"run", "done"}, ~ confused
    PROVE  DocShape /\ Created /\ DOMAIN type \subseteq Tags
<1>1. DocShape /\ Created
  <2>1. CASE phase = "run"
    <3>1. PICK k \in 0..Len(open) : Live(k)
      BY <2>1 DEF IInv
    <3> QED BY <3>1 DEF IInv, Live, Tree
  <2>2. CASE phase = "done"
    BY <2>2 DEF IInv, Finished
  <2> QED BY <2>1, <2>2
<1> QED BY <1>1 DEF Created

LEMMA UnknownIsIntact == IInv /\ TInv => UnknownIntact
<1> SUFFICES ASSUME IInv, TInv, phase \in {"run", "done"}, ~ confused
             PROVE  /\ \A u \in unknown :
                          /\ u.xml # << >> /\ IsStart(Head(u.xml))
                          /\ u.at = doc[Head(u.xml).of].parent
                          /\ IsMarkupOf(u.xml, Below(Head(u.xml).of))
                    /\ \A u, v \in unknown : Head(u.xml) = Head(v.xml) => u = v
                    /\ {Head(u.xml).of : u \in unknown} = Foreign("unknown") \ Tokens(open)
  BY DEF UnknownIntact
<1>1. AllHandedOn /\ DocShape /\ Created /\ DOMAIN type \subseteq Tags
  BY TreeIsMade DEF TInv, Placed
<1>2. ForeignTags = Foreign("unknown") /\ ForeignTags \subseteq Tags
  BY <1>1, KeptIsCreated DEF ForeignTags, Foreign
<1>3. OpenTags = Tokens(open)
  BY DEF OpenTags, Tokens
<1>4. ASSUME NEW u \in unknown
      PROVE  \E r \in ForeignTags \ OpenTags :
                /\ u.xml # << >> /\ IsStart(Head(u.xml)) /\ Head(u.xml).of = r
                /\ u.at = doc[r].parent /\ IsMarkupOf(u.xml, Below(r))
                /\ u.xml[1] = StartTag(r)
  <2>1. PICK r \in ForeignTags \ OpenTags :
           Markup(u.xml, r, Inside, {}, texts) /\ u.at = doc[r].parent
    BY <1>1 DEF AllHandedOn
  <2>2. /\ u.xml # << >> /\ IsStart(Head(u.xml)) /\ Head(u.xml).of = r
        /\ IsMarkupOf(u.xml, Below(r))
    BY <1>1, <1>2, <2>1, MarkupIsWhole
  <2>3. u.xml[1] = StartTag(r)
    BY <2>1 DEF Markup
  <2> QED BY <2>1, <2>2, <2>3
<1>5. \A u \in unknown : /\ u.xml # << >> /\ IsStart(Head(u.xml))
                         /\ u.at = doc[Head(u.xml).of].parent
                         /\ IsMarkupOf(u.xml, Below(Head(u.xml).of))
                         /\ u.xml[1] = StartTag(Head(u.xml).of)
                         /\ Head(u.xml).of \in ForeignTags \ OpenTags
  BY <1>4
<1>6. \A u, v \in unknown : Head(u.xml) = Head(v.xml) => u = v
  <2>1. \A u, v \in unknown : Head(u.xml) = Head(v.xml) => u.xml[1] = v.xml[1]
    BY <1>5
  <2> QED BY <1>1, <2>1 DEF AllHandedOn
<1>7. ASSUME NEW r \in ForeignTags \ OpenTags PROVE \E u \in unknown : Head(u.xml).of = r
  <2>1. PICK u \in unknown : u.xml[1] = StartTag(r)
    BY <1>1 DEF AllHandedOn
  <2>2. StartTag(r) = StartTag(Head(u.xml).of)
    BY <1>5, <2>1
  <2> QED BY <2>2, TokenFacts
<1>8. {Head(u.xml).of : u \in unknown} = ForeignTags \ OpenTags
  BY <1>5, <1>7
<1> QED BY <1>2, <1>3, <1>5, <1>6, <1>8

LEMMA OwnTextIs ==
    ASSUME NEW s, NEW t, NEW m, OwnText(s, t, m)
    PROVE  \A token \in Tokens(s) : IsText(token) /\ token.in = t
BY DEF OwnText, Tokens, TextTokens, IsText

LEMMA AllIsClosed ==
    ASSUME IInv, TInv, phase = "done", ~ confused
    PROVE  /\ Placed /\ DocShape /\ DOMAIN type \subseteq Tags /\ OpenTags = {}
           /\ Strings = Contents \cup Unknowns \cup Fields
<1>1. open = << >> /\ char_data = << >> /\ Placed
  BY DEF TInv
<1>2. DocShape /\ DOMAIN type \subseteq Tags
  BY TreeIsMade
<1>3. OpenTags = {}
  BY <1>1, <1>2, OpenTagsAre
<1>4. Waiting = {}
  BY <1>1 DEF Waiting
<1> QED BY <1>1, <1>2, <1>3, <1>4 DEF Strings

LEMMA TextsAreInPlace == IInv /\ TInv => TextsInPlace
<1> SUFFICES ASSUME IInv, TInv, phase = "done", ~ confused PROVE TextsInPlace
  BY DEF TextsInPlace
<1>1. /\ Placed /\ DocShape /\ DOMAIN type \subseteq Tags /\ OpenTags = {}
      /\ Strings = Contents \cup Unknowns \cup Fields
  BY AllIsClosed
<1>2. ASSUME NEW t \in DOMAIN content
      PROVE  IF IsDescription(t) THEN IsInside(content[t], t)
               ELSE \A token \in Tokens(content[t]) : IsText(token) /\ token.in = t
  <2>1. HasGot(doc, content[t], t, Inside, texts) /\ t \in Tags
    BY <1>1 DEF Placed, AllGiven
  <2>2. CASE IsDescription(t)
    <3>1. Markup(<<StartTag(t)>> \o Append(content[t], EndTag(t)), t, Inside, {}, texts)
      BY <2>1, <2>2 DEF HasGot, IsDescription
    <3>2. IsMarkupOf(<<StartTag(t)>> \o Append(content[t], EndTag(t)), Below(t))
      BY <1>1, <2>1, <3>1, MarkupIsWhole
    <3> QED BY <2>2, <3>2 DEF IsInside
  <2>3. CASE ~ IsDescription(t)
    <3>1. OwnText(content[t], t, texts)
      BY <2>1, <2>3 DEF HasGot, IsDescription
    <3> QED BY <2>3, <3>1, OwnTextIs
  <2> QED BY <2>2, <2>3
<1>3. ASSUME NEW i \in DOMAIN simpledata_vec, NEW token \in Tokens(simpledata_vec[i].text)
      PROVE  IsText(token) /\ token.in = simpledata_vec[i].of
  <2>1. OwnText(simpledata_vec[i].text, simpledata_vec[i].of, texts)
    BY <1>1 DEF Placed, FieldsOwned, FieldIs
  <2> QED BY <2>1, OwnTextIs
<1>4. ASSUME NEW i \in 1..texts
      PROVE  Cardinality({s \in Strings : i \in TextsOf(s[3])}) = 1
  <2>1. PICK s \in Strings : i \in TextsOf(s[3])
    BY <1>1 DEF Placed, Once
  <2>2. ASSUME NEW z \in Strings, i \in TextsOf(z[3]) PROVE z = s
    <3>1. TextsOf(s[3]) \cap TextsOf(z[3]) # {}
      BY <2>1, <2>2
    <3> QED BY <1>1, <3>1 DEF Placed, Once
  <2>3. {z \in Strings : i \in TextsOf(z[3])} = {s}
    BY <2>1, <2>2
  <2> QED BY <2>3, FS_Singleton
<1>5. Strings = {<<"content", t, content[t]>> : t \in DOMAIN content} \cup
                {<<"unknown", u.at, u.xml>> : u \in unknown} \cup
                {<<"simpledata", simpledata_vec[i].of, simpledata_vec[i].text>> :
                     i \in DOMAIN simpledata_vec}
  BY <1>1 DEF Contents, Unknowns, Fields
<1> HIDE DEF Strings
<1> QED BY <1>2, <1>3, <1>4, <1>5 DEF TextsInPlace

LEMMA OldDataIsThere == IInv /\ TInv => OldDataReachesPlacemark
<1> SUFFICES ASSUME IInv, TInv, phase = "done", ~ confused, NEW i \in DOMAIN simpledata_vec,
                    IsOld(doc, doc[simpledata_vec[i].of].parent)
             PROVE  /\ simpledata_vec[i].owner # NoTag
                    /\ IsOld(doc, simpledata_vec[i].owner)
                    /\ \/ simpledata_vec[i].owner = doc[simpledata_vec[i].of].parent
                       \/ \E t \in Below(doc[simpledata_vec[i].of].parent)
                                     \ {doc[simpledata_vec[i].of].parent} : IsOld(doc, t)
  BY DEF OldDataReachesPlacemark, IsOld
<1> DEFINE p == doc[simpledata_vec[i].of].parent
           o == simpledata_vec[i].owner
<1>1. Placed /\ DocShape /\ DOMAIN type \subseteq Tags /\ OpenTags = {}
  BY AllIsClosed
<1>2. FieldIs(doc, simpledata_vec[i], DOMAIN type, Inside, OpenTags, texts)
  BY <1>1 DEF Placed, FieldsOwned
<1>3. p \in Tags /\ o # NoTag /\ IsOld(doc, o) /\ o \in Inside[p]
  BY <1>1, <1>2 DEF FieldIs
<1>4. o \in Below(p)
  BY <1>1, <1>3, InsideFacts
<1> HIDE DEF p, o
<1>5. o = p \/ \E t \in Below(p) \ {p} : IsOld(doc, t)
  BY <1>3, <1>4
<1> QED BY <1>3, <1>5 DEF p, o

(* However the markup, the descriptions and the known tags of a document   *)
(* are nested, what was unknown in it is handed to its parent whole, once. *)
THEOREM UnknownMarkupSurvives == Spec => []UnknownIntact
BY UnknownIsIntact, HandlerInv, TextInv, PTL

(* However StartElement, CharData and EndElement follow one another, each  *)
(* run of text of a parsed document is in one place, the right one.        *)
THEOREM TextsSurvive == Spec => []TextsInPlace
BY TextsAreInPlace, HandlerInv, TextInv, PTL

(* HandleOldSchemaParentEndElement adopts every child of a Placemark of    *)
(* the old style before the parse is over.                                 *)
THEOREM OldDataAdopted == Spec => []OldDataReachesPlacemark
BY OldDataIsThere, HandlerInv, TextInv, PTL

-----------------------------------------------------------------------------
-----------------------------------------------------------------------------
(* The types of the state, also in a document that is confused: strings    *)
(* are lists of tokens of the tags T.                                      *)
TokenOf(x, T) ==
  (IsText(x) /\ x \in [text : 1..MaxTexts, in : T]) \/ x \in [start : BOOLEAN, of : T]

StringOf(s, T) == IsList(s) /\ \A i \in DOMAIN s : TokenOf(s[i], T)

AllStrings(cd, T) == IsList(cd) /\ \A i \in DOMAIN cd : StringOf(cd[i], T)

FieldOf(f, T, K) ==
  /\ DOMAIN f = {"of", "text", "owner"} /\ f.of \in T /\ StringOf(f.text, T)
  /\ f.owner \in {NoTag} \cup K

LEMMA StringOfIs ==
    ASSUME NEW s, StringOf(s, Tags) PROVE IsString(s)
<1> DEFINE W == {x \in Tokens(s) : IsToken(x)}
<1>1. PICK S : s \in Seq(S)
  BY DEF StringOf, IsList
<1>2. Len(s) \in Nat /\ DOMAIN s = 1..Len(s) /\ s = [i \in 1..Len(s) |-> s[i]]
  BY <1>1
<1>3. \A i \in 1..Len(s) : s[i] \in W
  BY <1>2 DEF StringOf, Tokens, TokenOf, IsToken
<1> HIDE DEF W
<1>4. s \in [1..Len(s) -> W]
  BY <1>2, <1>3
<1>5. s \in Seq(W)
  BY <1>2, <1>4, SeqDef
<1> QED BY <1>5 DEF IsString, W

LEMMA StringOfGrows ==
    ASSUME NEW T, NEW U, T \subseteq U
    PROVE  /\ \A x : TokenOf(x, T) => TokenOf(x, U)
           /\ \A s : StringOf(s, T) => StringOf(s, U)
           /\ \A cd : AllStrings(cd, T) => AllStrings(cd, U)
<1>1. ASSUME NEW x, TokenOf(x, T) PROVE TokenOf(x, U)
  <2>1. [text : 1..MaxTexts, in : T] \subseteq [text : 1..MaxTexts, in : U]
    OBVIOUS
  <2>2. [start : BOOLEAN, of : T] \subseteq [start : BOOLEAN, of : U]
    OBVIOUS
  <2> QED BY <1>1, <2>1, <2>2 DEF TokenOf
<1>2. \A s : StringOf(s, T) => StringOf(s, U)
  BY <1>1 DEF StringOf
<1> QED BY <1>1, <1>2 DEF AllStrings

LEMMA FieldOfGrows ==
    ASSUME NEW T, NEW U, T \subseteq U, NEW K, NEW L, K \subseteq L, NEW f, FieldOf(f, T, K)
    PROVE  FieldOf(f, U, L)
BY StringOfGrows DEF FieldOf

LEMMA TokensAre ==
    ASSUME NEW T, NEW t \in T
    PROVE  /\ TokenOf(StartTag(t), T) /\ TokenOf(EndTag(t), T)
           /\ texts + 1 \in 1..MaxTexts => TokenOf(Text(t), T)
<1>1. StartTag(t) \in [start : BOOLEAN, of : T] /\ EndTag(t) \in [start : BOOLEAN, of : T]
  BY DEF StartTag, EndTag
<1>2. IsText(Text(t))
  BY DEF Text, IsText
<1>3. texts + 1 \in 1..MaxTexts => Text(t) \in [text : 1..MaxTexts, in : T]
  BY DEF Text
<1> QED BY <1>1, <1>2, <1>3 DEF TokenOf

LEMMA StringOfAppend ==
    ASSUME NEW T, NEW s, StringOf(s, T), NEW x, TokenOf(x, T)
    PROVE  StringOf(Append(s, x), T)
<1>1. /\ IsList(Append(s, x)) /\ DOMAIN s = 1..Len(s) /\ DOMAIN Append(s, x) = 1..(Len(s) + 1)
      /\ Len(s) \in Nat /\ \A i \in 1..Len(s) : Append(s, x)[i] = s[i]
      /\ Append(s, x)[Len(s) + 1] = x
  BY AppendIsList DEF StringOf
<1>2. ASSUME NEW i \in 1..(Len(s) + 1) PROVE TokenOf(Append(s, x)[i], T)
  <2>1. CASE i = Len(s) + 1
    BY <1>1, <2>1
  <2>2. CASE i \in 1..Len(s)
    BY <1>1, <2>2 DEF StringOf
  <2> QED BY <1>1, <2>1, <2>2
<1> QED BY <1>1, <1>2 DEF StringOf

LEMMA StringOfFew ==
    ASSUME NEW T
    PROVE  /\ StringOf(<< >>, T)
           /\ \A x : TokenOf(x, T) => StringOf(<<x>>, T)
<1>1. StringOf(<< >>, T)
  <2>1. DOMAIN << >> = {}
    OBVIOUS
  <2> QED BY <2>1, EmptyIsList DEF StringOf
<1>2. ASSUME NEW x, TokenOf(x, T) PROVE StringOf(<<x>>, T)
  <2>1. <<x>> = Append(<< >>, x)
    OBVIOUS
  <2> QED BY <1>1, <1>2, <2>1, StringOfAppend
<1> QED BY <1>1, <1>2

(* What the handler does to char_data_.                                    *)
LEMMA AllStringsAppend ==
    ASSUME NEW T, NEW cd, AllStrings(cd, T), NEW s, StringOf(s, T)
    PROVE  AllStrings(Append(cd, s), T) /\ Len(Append(cd, s)) = Len(cd) + 1
<1>1. /\ IsList(Append(cd, s)) /\ Len(Append(cd, s)) = Len(cd) + 1
      /\ DOMAIN cd = 1..Len(cd) /\ DOMAIN Append(cd, s) = 1..(Len(cd) + 1)
      /\ Len(cd) \in Nat /\ \A i \in 1..Len(cd) : Append(cd, s)[i] = cd[i]
      /\ Append(cd, s)[Len(cd) + 1] = s
  BY AppendIsList DEF AllStrings
<1>2. ASSUME NEW i \in 1..(Len(cd) + 1) PROVE StringOf(Append(cd, s)[i], T)
  <2>1. CASE i = Len(cd) + 1
    BY <1>1, <2>1
  <2>2. CASE i \in 1..Len(cd)
    BY <1>1, <2>2 DEF AllStrings
  <2> QED BY <1>1, <2>1, <2>2
<1> QED BY <1>1, <1>2 DEF AllStrings

LEMMA AllStringsTop ==
    ASSUME NEW T, NEW cd, AllStrings(cd, T), cd # << >>, NEW x, TokenOf(x, T)
    PROVE  /\ AllStrings(AppendTop(cd, x), T) /\ Len(AppendTop(cd, x)) = Len(cd)
           /\ AllStrings(Pop(cd), T) /\ Len(Pop(cd)) = Len(cd) - 1
           /\ Len(cd) \in Nat /\ Len(cd) > 0 /\ StringOf(Top(cd), T)
           /\ StringOf(Top(AppendTop(cd, x)), T)
<1>1. IsList(cd) /\ \A i \in DOMAIN cd : StringOf(cd[i], T)
  BY DEF AllStrings
<1> DEFINE a == AppendTop(cd, x)
           p == Pop(cd)
<1>2. /\ Len(cd) \in Nat /\ Len(cd) > 0 /\ DOMAIN cd = 1..Len(cd) /\ Top(cd) = cd[Len(cd)]
      /\ IsList(a) /\ Len(a) = Len(cd) /\ DOMAIN a = 1..Len(cd)
      /\ a[Len(cd)] = Append(cd[Len(cd)], x)
      /\ \A j \in 1..(Len(cd) - 1) : a[j] = cd[j]
      /\ Top(a) = Append(cd[Len(cd)], x)
      /\ IsList(p) /\ DOMAIN p = 1..(Len(cd) - 1) /\ Len(p) = Len(cd) - 1
      /\ \A j \in 1..(Len(cd) - 1) : p[j] = cd[j]
  BY <1>1, TopFacts
<1> HIDE DEF a, p
<1>3. StringOf(cd[Len(cd)], T)
  BY <1>1, <1>2
<1>4. StringOf(Append(cd[Len(cd)], x), T)
  BY <1>3, StringOfAppend
<1>5. ASSUME NEW i \in 1..Len(cd) PROVE StringOf(a[i], T)
  <2>1. CASE i = Len(cd)
    BY <1>2, <1>4, <2>1
  <2>2. CASE i \in 1..(Len(cd) - 1)
    <3>1. a[i] = cd[i] /\ i \in DOMAIN cd
      BY <1>2, <2>2
    <3> QED BY <1>1, <3>1
  <2>3. Len(cd) \in Nat /\ i \in 1..Len(cd)
    BY <1>2
  <2>4. i = Len(cd) \/ i \in 1..(Len(cd) - 1)
    BY ONLY <2>3
  <2> QED BY <2>1, <2>2, <2>4
<1>6. AllStrings(a, T)
  BY <1>2, <1>5 DEF AllStrings
<1>7. ASSUME NEW i \in 1..(Len(cd) - 1) PROVE StringOf(p[i], T)
  <2>1. p[i] = cd[i] /\ i \in DOMAIN cd
    BY <1>2
  <2> QED BY <1>1, <2>1
<1>8. AllStrings(p, T)
  BY <1>2, <1>7 DEF AllStrings
<1> QED BY <1>2, <1>3, <1>4, <1>6, <1>8 DEF a, p

LEMMA SameDescriptions ==
    ASSUME DocShape, NEW i \in 1..Len(open),
           \/ \E name \in Names : \E old : ExpatStarts(name, old)
           \/ ExpatEnds /\ i < Len(open)
    PROVE  /\ open'[i] = open[i] /\ i \in 1..Len(open')
           /\ IsDescription(open[i])' <=> IsDescription(open[i])
<1>1. CASE \E name \in Names : \E old : ExpatStarts(name, old)
  <2>1. PICK name \in Names : \E old : ExpatStarts(name, old)
    BY <1>1
  <2>2. PICK old : ExpatStarts(name, old)
    BY <2>1
  <2>3. /\ open'[i] = open[i] /\ doc'[open[i]] = doc[open[i]] /\ Len(open') = Len(open) + 1
        /\ Len(open) \in Nat
    BY <2>2, DocFacts, StartFacts
  <2>4. i \in 1..Len(open')
    BY ONLY <2>3, i \in 1..Len(open)
  <2> QED BY <2>3, <2>4 DEF IsDescription
<1>2. CASE ExpatEnds /\ i < Len(open)
  <2>1. Len(open) \in Nat /\ Len(open') = Len(open) - 1 /\ doc' = doc
        /\ \A j \in 1..(Len(open) - 1) : open'[j] = open[j]
    BY <1>2, DocFacts, EndFacts
  <2>2. i \in 1..(Len(open) - 1) /\ i \in 1..Len(open')
    BY ONLY <1>2, <2>1, i \in 1..Len(open)
  <2> QED BY <2>1, <2>2 DEF IsDescription
<1> QED BY <1>1, <1>2

(* The descriptions in the open ones above the tag open[k].                *)
LEMMA InnerStarts ==
    ASSUME DocShape, NEW k \in 0..Len(open), NEW name \in Names, NEW old, ExpatStarts(name, old)
    PROVE  Cardinality(InnerDescriptions(k)') =
             Cardinality(InnerDescriptions(k)) + (IF name = "description" THEN 1 ELSE 0)
<1> DEFINE l == Len(open)
           c == Cardinality(InnerDescriptions(k))
<1>1. /\ k \in Nat /\ l \in Nat /\ k <= l /\ Len(open') = l + 1
      /\ open'[l + 1] = n /\ doc'[n].name = name
  BY DocFacts, StartFacts
<1>2. c \in Nat /\ IsFiniteSet(InnerDescriptions(k))
  BY <1>1, InnerIsFinite
<1>3. \A i \in 1..l : open'[i] = open[i] /\ (IsDescription(open[i])' <=> IsDescription(open[i]))
  BY SameDescriptions
<1> HIDE DEF l, c
<1>4. /\ (k + 1)..(l + 1) = ((k + 1)..l) \cup {l + 1} /\ l + 1 \notin (k + 1)..l
      /\ \A i \in (k + 1)..l : i \in 1..l
  BY ONLY <1>1
<1>5. InnerDescriptions(k)' = {i \in (k + 1)..(l + 1) : doc'[open'[i]].name = "description"}
  BY <1>1 DEF InnerDescriptions, IsDescription
<1>6. InnerDescriptions(k) = {i \in (k + 1)..l : doc'[open'[i]].name = "description"}
  BY <1>3, <1>4 DEF InnerDescriptions, IsDescription, l
<1>7. InnerDescriptions(k)' = IF name = "description" THEN InnerDescriptions(k) \cup {l + 1}
                                                     ELSE InnerDescriptions(k)
  BY <1>1, <1>4, <1>5, <1>6
<1>8. l + 1 \notin InnerDescriptions(k)
  BY <1>4, <1>6
<1>9. CASE name = "description"
  <2>1. Cardinality(InnerDescriptions(k)') = Cardinality(InnerDescriptions(k)) + 1
    BY <1>2, <1>7, <1>8, <1>9, FS_AddElement
  <2> QED BY <1>9, <2>1
<1>10. CASE name # "description"
  BY <1>2, <1>7, <1>10 DEF c
<1> QED BY <1>9, <1>10

LEMMA InnerEnds ==
    ASSUME DocShape, NEW k \in Nat, k < Len(open), ExpatEnds
    PROVE  /\ endName = "description" => Cardinality(InnerDescriptions(k)) > 0
           /\ Cardinality(InnerDescriptions(k)') =
                Cardinality(InnerDescriptions(k)) - (IF endName = "description" THEN 1 ELSE 0)
<1> DEFINE l == Len(open)
           c == Cardinality(InnerDescriptions(k))
<1>1. l \in Nat /\ k < l /\ Len(open') = l - 1 /\ endName = doc[open[l]].name
  BY DocFacts, EndFacts
<1>2. c \in Nat /\ IsFiniteSet(InnerDescriptions(k))
  BY <1>1, InnerIsFinite
<1>3. \A i \in 1..l : i < l =>
         open'[i] = open[i] /\ (IsDescription(open[i])' <=> IsDescription(open[i]))
  BY SameDescriptions
<1>4. InnerDescriptions(k)' = {i \in (k + 1)..(l - 1) : doc'[open'[i]].name = "description"}
  BY <1>1 DEF InnerDescriptions, IsDescription
<1>5. l \in InnerDescriptions(k) <=> endName = "description"
  BY <1>1 DEF InnerDescriptions, IsDescription
<1> HIDE DEF l
<1>6. /\ (k + 1)..(l - 1) = ((k + 1)..l) \ {l}
      /\ \A i \in (k + 1)..(l - 1) : i \in 1..l /\ i < l
  BY ONLY <1>1
<1>7. InnerDescriptions(k)' = InnerDescriptions(k) \ {l}
  <2>1. InnerDescriptions(k) \ {l} = {i \in ((k + 1)..l) \ {l} : IsDescription(open[i])}
    BY DEF InnerDescriptions, l
  <2>2. \A i \in (k + 1)..(l - 1) : doc'[open'[i]].name = "description" <=> IsDescription(open[i])
    BY <1>3, <1>6 DEF IsDescription
  <2> QED BY <1>4, <1>6, <2>1, <2>2
<1> HIDE DEF c
<1>8. CASE endName = "description"
  <2>1. l \in InnerDescriptions(k)
    BY <1>5, <1>8
  <2>2. c > 0
    BY <1>2, <2>1, FS_EmptySet DEF c
  <2>3. Cardinality(InnerDescriptions(k)') = Cardinality(InnerDescriptions(k)) - 1
    BY <1>2, <1>7, <2>1, FS_RemoveElement
  <2> QED BY <1>8, <2>2, <2>3 DEF c
<1>9. CASE endName # "description"
  <2>1. InnerDescriptions(k)' = InnerDescriptions(k)
    BY <1>5, <1>7, <1>9
  <2> QED BY <1>2, <1>9, <2>1 DEF c
<1> QED BY <1>8, <1>9

(* The counters, whatever the document.  What is skipped is the innermost  *)
(* skip_depth_ open tags, base is the outermost of them; in_description_   *)
(* counts the descriptions from base on, if base is one and it was not     *)
(* below zero, and else is zero or below.                                  *)
Below0 == in_description = 0 \/ in_description \in (UIntSize - (Len(doc) - Len(open)))..(UIntSize - 1)

Above0(base) ==
  /\ IsDescription(open[base]) /\ skip_depth = Len(open) - base + 1
  /\ in_description = 1 + Cardinality(InnerDescriptions(base))

Gathered ==
  /\ skip_depth \in 0..Len(open)
  /\ Len(char_data) = IF skip_depth = 0 THEN Len(open) ELSE Len(open) - skip_depth + 1

RunCounters ==
  /\ Gathered
  /\ open = << >> <=> stack = << >>
  /\ open = << >> => old_schema_name = ""
  /\ Len(open) <= MaxNesting
  /\ Below0 \/ \E base \in 1..Len(open) : Above0(base)

Counters ==
  /\ nesting_depth = Len(open) /\ Len(open) <= MaxNesting + 1
  /\ skip_depth \in 0..MaxTags /\ in_description \in 0..(UIntSize - 1)
  /\ phase \in {"run", "stopping"} => /\ in_description = 1 => skip_depth > 0
                                      /\ stack # << >> => char_data # << >>
  /\ phase = "run" => RunCounters

LEMMA OpenBound ==
    ASSUME DocShape
    PROVE  /\ Len(open) \in Nat /\ Len(doc) \in Nat /\ MaxTags \in Nat /\ UIntSize \in Nat
           /\ MaxNesting \in Nat
           /\ Len(open) <= Len(doc) /\ Len(doc) <= MaxTags /\ UIntSize > 2 * (MaxTags + 1)
BY DocFacts, BoundAssumption DEF DocShape, OpenIsPath

LEMMA AboveIs ==
    ASSUME DocShape, NEW base \in 1..Len(open), Above0(base)
    PROVE  /\ in_description \in Nat /\ in_description > 0 /\ in_description <= skip_depth
           /\ skip_depth \in Nat /\ skip_depth > 0 /\ skip_depth <= Len(open)
<1>1. Len(open) \in Nat /\ base \in Nat /\ base <= Len(open) /\ base > 0
  BY OpenBound
<1>2. /\ Cardinality(InnerDescriptions(base)) \in Nat
      /\ Cardinality(InnerDescriptions(base)) <= Len(open) - base
  BY <1>1, InnerIsFinite
<1>3. skip_depth = Len(open) - base + 1
      /\ in_description = 1 + Cardinality(InnerDescriptions(base))
  BY DEF Above0
<1> HIDE DEF InnerDescriptions
<1> QED BY ONLY <1>1, <1>2, <1>3

LEMMA BelowIs0 ==
    ASSUME DocShape, Below0
    PROVE  /\ in_description \in 0..(UIntSize - 1)
           /\ in_description # 0 => in_description > MaxTags + 1
           /\ in_description # 1
<1>1. UIntSize - (Len(doc) - Len(open)) > MaxTags + 1 /\ UIntSize - (Len(doc) - Len(open)) \in Int
  BY OpenBound
<1>2. UIntSize \in Nat /\ MaxTags \in Nat /\ UIntSize > 2 * (MaxTags + 1)
  BY OpenBound
<1> DEFINE z == UIntSize - (Len(doc) - Len(open))
<1>3. in_description = 0 \/ in_description \in z..(UIntSize - 1)
  BY DEF Below0
<1>4. z \in Int /\ z > MaxTags + 1
  BY <1>1
<1> HIDE DEF z
<1> QED BY ONLY <1>2, <1>3, <1>4

(* The counters of the run are in the range of the type invariant.         *)
LEMMA RunCountersAre ==
    ASSUME DocShape, RunCounters
    PROVE  /\ skip_depth \in 0..MaxTags /\ in_description \in 0..(UIntSize - 1)
           /\ in_description = 1 => skip_depth > 0
           /\ stack # << >> => char_data # << >>
           /\ skip_depth = 0 => Below0
           /\ in_description = 0 => Below0
           /\ open # << >> => char_data # << >>
<1>1. skip_depth \in 0..MaxTags
  <2>1. skip_depth \in 0..Len(open)
    BY DEF RunCounters, Gathered
  <2>2. Len(open) \in Nat /\ MaxTags \in Nat /\ Len(open) <= MaxTags
    BY OpenBound
  <2> QED BY ONLY <2>1, <2>2
<1>2. open # << >> => char_data # << >>
  <2>1. Len(open) \in Nat /\ (open # << >> => Len(open) > 0)
    BY DocFacts
  <2>2. skip_depth \in 0..Len(open)
        /\ Len(char_data) = IF skip_depth = 0 THEN Len(open) ELSE Len(open) - skip_depth + 1
    BY DEF RunCounters, Gathered
  <2>3. Len(open) > 0 => Len(char_data) # 0
    BY ONLY <2>1, <2>2
  <2>4. Len(<< >>) = 0
    OBVIOUS
  <2> QED BY <2>1, <2>3, <2>4
<1>3. CASE Below0
  BY <1>1, <1>2, <1>3, BelowIs0 DEF RunCounters
<1>4. CASE \E base \in 1..Len(open) : Above0(base)
  <2>1. PICK base \in 1..Len(open) : Above0(base)
    BY <1>4
  <2>2. /\ in_description \in Nat /\ in_description > 0 /\ in_description <= skip_depth
        /\ skip_depth \in Nat /\ skip_depth > 0 /\ skip_depth <= Len(open)
    BY <2>1, AboveIs
  <2>3. in_description \in 0..(UIntSize - 1) /\ in_description # 0 /\ skip_depth # 0
    <3>1. /\ Len(open) \in Nat /\ UIntSize \in Nat /\ MaxTags \in Nat /\ Len(open) <= MaxTags
          /\ UIntSize > 2 * (MaxTags + 1)
      BY OpenBound
    <3> QED BY ONLY <2>2, <3>1
  <2> QED BY <1>1, <1>2, <2>2, <2>3 DEF RunCounters
<1> QED BY <1>3, <1>4 DEF RunCounters

(* What a start does to a counter that is zero or below.                   *)
LEMMA BelowCounts ==
    ASSUME DocShape, Below0
    PROVE  /\ Inc(in_description) \in
                {1} \cup ((UIntSize - (Len(doc) - Len(open)))..(UIntSize - 1)) \cup {0}
           /\ Inc(in_description) = 1 => in_description = 0
           /\ in_description > 0 => in_description # 0 /\ Inc(in_description) # 1
           /\ Dec(in_description) \in
                (UIntSize - (Len(doc) - Len(open)) - 1)..(UIntSize - 1)
           /\ Dec(in_description) # 0 /\ Dec(in_description) \in Nat
<1> DEFINE z == UIntSize - (Len(doc) - Len(open))
           x == in_description
<1>1. z \in Nat /\ z > 1 /\ z <= UIntSize /\ UIntSize \in Nat /\ UIntSize > 2
  <2>1. /\ Len(open) \in Nat /\ Len(doc) \in Nat /\ MaxTags \in Nat /\ UIntSize \in Nat
        /\ Len(open) <= Len(doc) /\ Len(doc) <= MaxTags /\ UIntSize > 2 * (MaxTags + 1)
    BY OpenBound
  <2> QED BY ONLY <2>1
<1>2. x = 0 \/ x \in z..(UIntSize - 1)
  BY DEF Below0
<1> HIDE DEF x, z
<1>3. CASE x = 0
  <2>1. Inc(x) = 1 /\ Dec(x) = UIntSize - 1
    BY <1>1, <1>3, Counting
  <2>2. UIntSize - 1 \in (z - 1)..(UIntSize - 1) /\ UIntSize - 1 # 0 /\ UIntSize - 1 \in Nat
    BY ONLY <1>1
  <2>3. ~ (x > 0)
    BY ONLY <1>3
  <2>4. Dec(x) \in (z - 1)..(UIntSize - 1) /\ Dec(x) # 0 /\ Dec(x) \in Nat
    BY ONLY <2>1, <2>2
  <2>5. Inc(x) \in {1} \cup (z..(UIntSize - 1)) \cup {0}
    BY ONLY <2>1
  <2> QED BY ONLY <1>3, <2>3, <2>4, <2>5 DEF x, z
<1>4. CASE x \in z..(UIntSize - 1)
  <2>1. x \in Nat /\ x > 1 /\ x < UIntSize
    BY ONLY <1>1, <1>4
  <2>2. Dec(x) = x - 1 /\ (x + 1 < UIntSize => Inc(x) = x + 1) /\ (x = UIntSize - 1 => Inc(x) = 0)
    BY <2>1, Counting
  <2>3. x + 1 < UIntSize \/ x = UIntSize - 1
    BY ONLY <1>1, <2>1
  <2>4. x - 1 \in (z - 1)..(UIntSize - 1) /\ x - 1 # 0 /\ x - 1 \in Nat
    BY ONLY <1>1, <1>4, <2>1
  <2>5. Inc(x) = 0 \/ (Inc(x) \in z..(UIntSize - 1) /\ Inc(x) # 1)
    <3>1. CASE x = UIntSize - 1
      BY <2>2, <3>1
    <3>2. CASE x + 1 < UIntSize
      <4>1. x + 1 \in z..(UIntSize - 1) /\ x + 1 # 1
        BY ONLY <1>1, <1>4, <2>1, <3>2
      <4> QED BY <2>2, <3>2, <4>1
    <3> QED BY <2>3, <3>1, <3>2
  <2> QED BY <2>1, <2>2, <2>4, <2>5 DEF x, z
<1> QED BY <1>2, <1>3, <1>4

LEMMA BelowStarts ==
    ASSUME DocShape, Below0, NEW name \in Names, NEW old, ExpatStarts(name, old),
           in_description' \in {in_description, InnerDescription(name)}
    PROVE  Below0'
<1> DEFINE z == UIntSize - (Len(doc) - Len(open))
<1>1. UIntSize - (Len(doc') - Len(open')) = z
  <2>1. Len(doc') = Len(doc) + 1 /\ Len(open') = Len(open) + 1
        /\ Len(doc) \in Nat /\ Len(open) \in Nat /\ UIntSize \in Nat
    BY OpenBound, StartFacts DEF n
  <2> QED BY ONLY <2>1
<1>2. in_description' \in {in_description, Inc(in_description)}
      /\ (in_description' # in_description => in_description > 0)
  BY DEF InnerDescription
<1>3. in_description' = 0 \/ in_description' \in z..(UIntSize - 1)
  <2>1. CASE in_description' = in_description
    BY <2>1 DEF Below0
  <2>2. CASE in_description' # in_description
    BY <1>2, <2>2, BelowCounts
  <2> QED BY <2>1, <2>2
<1> HIDE DEF z
<1> QED BY <1>1, <1>3 DEF Below0

(* A description starts in an element.                                     *)
LEMMA DescriptionCounts ==
    ASSUME DocShape, Below0, NEW name \in Names, NEW old, ExpatStarts(name, old),
           name = "description", in_description' = Inc(InnerDescription(name)), skip_depth' = 1
    PROVE  Below0' \/ \E base \in 1..Len(open') : Above0(base)'
<1> DEFINE z == UIntSize - (Len(doc) - Len(open))
           x == InnerDescription(name)
<1>1. UIntSize - (Len(doc') - Len(open')) = z /\ Len(open') \in 1..Len(open')
      /\ z \in Nat /\ z > 1 /\ z <= UIntSize /\ UIntSize \in Nat /\ Len(open') \in Nat
  <2>1. Len(doc') = Len(doc) + 1 /\ Len(open') = Len(open) + 1
        /\ Len(doc) \in Nat /\ Len(open) \in Nat /\ UIntSize \in Nat /\ MaxTags \in Nat
        /\ Len(open) <= Len(doc) /\ Len(doc) <= MaxTags /\ UIntSize > 2 * (MaxTags + 1)
    BY OpenBound, StartFacts DEF n
  <2> QED BY ONLY <2>1
<1>2. x = 0 \/ x \in z..(UIntSize - 1)
  <2>1. CASE in_description = 0
    BY <2>1 DEF InnerDescription
  <2>2. CASE in_description # 0
    <3>1. in_description > 0
      BY <2>2, BelowIs0, BoundAssumption
    <3>2. x = Inc(in_description)
      BY <3>1 DEF InnerDescription
    <3> QED BY <3>1, <3>2, BelowCounts
  <2> QED BY <2>1, <2>2
<1> HIDE DEF x
<1>3. in_description' = Inc(x)
  BY DEF x
<1> HIDE DEF z
<1>4. in_description' = 1 \/ in_description' = 0 \/ in_description' \in z..(UIntSize - 1)
  <2>1. CASE x = 0
    BY <1>1, <1>3, <2>1, Counting
  <2>2. CASE x \in z..(UIntSize - 1)
    <3>1. x \in Nat /\ (x + 1 < UIntSize \/ x = UIntSize - 1)
      BY ONLY <1>1, <2>2
    <3>2. CASE x = UIntSize - 1
      BY <1>3, <3>2, Counting
    <3>3. CASE x + 1 < UIntSize
      <4>1. x + 1 \in z..(UIntSize - 1)
        BY ONLY <1>1, <2>2, <3>1, <3>3
      <4> QED BY <1>3, <3>1, <3>3, <4>1, Counting
    <3> QED BY <3>1, <3>2, <3>3
  <2> QED BY <1>2, <2>1, <2>2
<1>5. CASE in_description' = 1
  <2>1. ASSUME NEW base \in {Len(open')} PROVE Above0(base)'
    <3>1. base = Len(open') /\ doc'[open'[base]].name = "description"
      BY DocFacts, StartFacts
    <3>2. InnerDescriptions(base)' = {}
      <4>1. (base + 1)..Len(open') = {}
        BY ONLY <1>1, <3>1
      <4> QED BY <4>1 DEF InnerDescriptions
    <3>3. Cardinality(InnerDescriptions(base)') = 0
      BY <3>2, FS_EmptySet
    <3>4. 1 = Len(open') - base + 1
      BY ONLY <1>1, <3>1
    <3> QED BY <1>5, <3>1, <3>3, <3>4 DEF Above0, IsDescription
  <2> QED BY <1>1, <2>1
<1>6. CASE in_description' = 0 \/ in_description' \in z..(UIntSize - 1)
  BY <1>1, <1>6 DEF Below0
<1> QED BY <1>4, <1>5, <1>6

(* A tag starts that is skipped.                                           *)
LEMMA AboveStarts ==
    ASSUME DocShape, NEW base \in 1..Len(open), Above0(base),
           NEW name \in Names, StartSkipped(name)
    PROVE  Above0(base)' /\ base \in 1..Len(open')
<1>1. /\ ExpatStarts(name, old_schema_name) /\ in_description' = InnerDescription(name)
      /\ skip_depth' = Inc(skip_depth)
  BY DEF StartSkipped
<1> DEFINE c == Cardinality(InnerDescriptions(base))
           d == IF name = "description" THEN 1 ELSE 0
<1>2. base \in 0..Len(open) /\ base \in Nat /\ Len(open) \in Nat
  BY OpenBound
<1>3. Cardinality(InnerDescriptions(base)') = c + d
  BY <1>1, <1>2, InnerStarts
<1>4. IsDescription(open[base])' /\ base \in 1..Len(open')
  BY <1>1, SameDescriptions DEF Above0
<1>5. /\ in_description = 1 + c /\ skip_depth = Len(open) - base + 1
      /\ in_description \in Nat /\ in_description > 0 /\ in_description <= skip_depth
      /\ skip_depth \in Nat /\ skip_depth <= Len(open)
  BY AboveIs DEF Above0
<1>6. in_description + 1 < UIntSize /\ skip_depth + 1 < UIntSize
  <2>1. Len(open) \in Nat /\ UIntSize \in Nat /\ MaxTags \in Nat /\ Len(open) <= MaxTags
        /\ UIntSize > 2 * (MaxTags + 1)
    BY OpenBound
  <2> QED BY ONLY <1>5, <2>1
<1>7. Inc(in_description) = in_description + 1 /\ Inc(skip_depth) = skip_depth + 1
  BY <1>5, <1>6, Counting
<1>8. c \in Nat
  BY <1>2, InnerIsFinite
<1> HIDE DEF c
<1>9. in_description' = 1 + (c + d)
  BY <1>1, <1>5, <1>7, <1>8 DEF InnerDescription
<1>10. Len(open') = Len(open) + 1
  BY <1>1, StartFacts
<1>11. skip_depth' = Len(open') - base + 1
  <2>1. skip_depth' = skip_depth + 1
    BY <1>1, <1>7
  <2> QED BY ONLY <1>2, <1>5, <1>10, <2>1
<1> QED BY <1>3, <1>4, <1>9, <1>11 DEF Above0

LEMMA RunCountersAreNext ==
    DocShape' /\ RunCounters' =>
      /\ skip_depth' \in 0..MaxTags /\ in_description' \in 0..(UIntSize - 1)
      /\ in_description' = 1 => skip_depth' > 0
      /\ stack' # << >> => char_data' # << >>
      /\ Len(open') \in Nat /\ MaxNesting \in Nat
<1> DEFINE P == /\ skip_depth \in 0..MaxTags /\ in_description \in 0..(UIntSize - 1)
                /\ in_description = 1 => skip_depth > 0
                /\ stack # << >> => char_data # << >>
                /\ Len(open) \in Nat /\ MaxNesting \in Nat
<1>1. DocShape /\ RunCounters => P
  BY RunCountersAre, OpenBound
<1> HIDE DEF P
<1>2. DocShape' /\ RunCounters' => P'
  BY <1>1, PTL
<1> QED BY <1>2 DEF P

LEMMA RunGivesCounters ==
    ASSUME DocShape', RunCounters', nesting_depth' = Len(open')
    PROVE  Counters'
<1>1. Len(open') <= MaxNesting + 1
  <2>1. Len(open') <= MaxNesting /\ Len(open') \in Nat /\ MaxNesting \in Nat
    BY RunCountersAreNext DEF RunCounters
  <2> QED BY ONLY <2>1
<1> QED BY <1>1, RunCountersAreNext DEF Counters

(* StartElement.                                                           *)
LEMMA OpenedOne ==
    ASSUME DocShape, nesting_depth = Len(open), NEW name \in Names, NEW old,
           ExpatStarts(name, old)
    PROVE  /\ Len(open) \in Nat /\ Len(open') = Len(open) + 1 /\ open' # << >>
           /\ nesting_depth' = Len(open')
BY DocFacts, StartFacts DEF ExpatStarts

LEMMA SkippedCounters ==
    ASSUME DocShape, RunCounters, nesting_depth = Len(open), NEW name \in Names,
           StartSkipped(name), IsList(char_data)
    PROVE  RunCounters'
<1>1. /\ ExpatStarts(name, old_schema_name) /\ in_description' = InnerDescription(name)
      /\ skip_depth' = Inc(skip_depth) /\ skip_depth > 0 /\ nesting_depth + 1 <= MaxNesting
      /\ stack' = stack /\ char_data' = AppendTop(char_data, StartTag(n))
  BY DEF StartSkipped
<1>2. Len(open) \in Nat /\ Len(open') = Len(open) + 1 /\ open' # << >>
  BY <1>1, OpenedOne
<1>3. /\ skip_depth \in 0..Len(open) /\ skip_depth # 0
      /\ Len(char_data) = Len(open) - skip_depth + 1 /\ open # << >> /\ stack # << >>
  <2>0. skip_depth \in 0..Len(open)
    BY DEF RunCounters, Gathered
  <2>1. skip_depth \in 0..Len(open) /\ skip_depth # 0
    BY ONLY <1>1, <1>2, <2>0
  <2>2. Len(open) # 0
    BY ONLY <1>2, <2>1
  <2>3. open # << >>
    BY <1>2, <2>2, DocFacts
  <2> QED BY <2>1, <2>3 DEF RunCounters, Gathered
<1>4. char_data # << >> /\ Len(char_data') = Len(char_data)
  BY <1>1, <1>3, RunCountersAre, TopIsList
<1>5. skip_depth' = skip_depth + 1
  <2>1. skip_depth \in Nat /\ skip_depth + 1 < UIntSize
    <3>1. /\ MaxTags \in Nat /\ UIntSize \in Nat /\ Len(open) <= MaxTags
          /\ UIntSize > 2 * (MaxTags + 1)
      BY OpenBound
    <3> QED BY ONLY <1>2, <1>3, <3>1
  <2> QED BY <1>1, <2>1, Counting
<1>6. Gathered'
  <2>1. /\ skip_depth' \in 0..Len(open') /\ skip_depth' # 0
        /\ Len(char_data') = Len(open') - skip_depth' + 1
    BY ONLY <1>2, <1>3, <1>4, <1>5
  <2> QED BY <2>1 DEF Gathered
<1>7. Len(open') <= MaxNesting
  BY <1>1, <1>2
<1>8. Below0' \/ \E base \in 1..Len(open') : Above0(base)'
  <2>1. CASE Below0
    BY <1>1, <2>1, BelowStarts
  <2>2. CASE \E base \in 1..Len(open) : Above0(base)
    BY <2>2, AboveStarts
  <2> QED BY <2>1, <2>2 DEF RunCounters
<1> QED BY <1>1, <1>2, <1>3, <1>6, <1>7, <1>8 DEF RunCounters

(* What the three kinds of tag that are not skipped have in common.        *)
LEMMA GatheredCounters ==
    ASSUME DocShape, RunCounters, nesting_depth = Len(open), NEW name \in Names,
           NEW parent \in BOOLEAN, StartGathered(name, parent), IsList(char_data),
           NEW s, char_data' = Append(char_data, s)
    PROVE  /\ Below0 /\ skip_depth = 0 /\ ExpatStarts(name, old_schema_name')
           /\ open' # << >> /\ nesting_depth' = Len(open') /\ Len(open') <= MaxNesting
           /\ Len(open') \in Nat /\ Len(char_data') = Len(open') /\ char_data' # << >>
           /\ skip_depth' \in {0, 1} => Gathered'
<1>1. /\ ExpatStarts(name, old_schema_name') /\ nesting_depth + 1 <= MaxNesting /\ skip_depth = 0
  BY DEF StartGathered
<1>2. Len(open) \in Nat /\ Len(open') = Len(open) + 1 /\ open' # << >> /\ nesting_depth' = Len(open')
  BY <1>1, OpenedOne
<1>3. Len(char_data) = Len(open) /\ Below0
  BY <1>1, RunCountersAre DEF RunCounters, Gathered
<1>4. Len(char_data') = Len(char_data) + 1 /\ char_data' # << >>
  BY AppendIsList
<1>5. Len(open') \in Nat /\ Len(char_data') = Len(open') /\ Len(open') > 0
  BY ONLY <1>2, <1>3, <1>4
<1>6. ASSUME skip_depth' \in {0, 1} PROVE Gathered'
  <2>1. /\ skip_depth' \in 0..Len(open')
        /\ Len(char_data') = IF skip_depth' = 0 THEN Len(open') ELSE Len(open') - skip_depth' + 1
    BY ONLY <1>5, <1>6
  <2> QED BY <2>1 DEF Gathered
<1> QED BY <1>1, <1>2, <1>3, <1>4, <1>5, <1>6

LEMMA KnownCounters ==
    ASSUME DocShape, RunCounters, nesting_depth = Len(open), NEW name \in Names,
           NEW parent \in BOOLEAN, StartKnown(name, parent), IsList(char_data), IsList(stack)
    PROVE  RunCounters' /\ nesting_depth' = Len(open')
<1>1. /\ StartGathered(name, parent) /\ char_data' = Append(char_data, << >>)
      /\ stack' = Append(stack, n)
      /\ skip_depth' = IF name = "description" THEN 1 ELSE 0
      /\ in_description' = IF name = "description" THEN Inc(InnerDescription(name))
                                                   ELSE in_description
  BY DEF StartKnown
<1>2. /\ Below0 /\ skip_depth = 0 /\ ExpatStarts(name, old_schema_name')
      /\ open' # << >> /\ nesting_depth' = Len(open') /\ Len(open') <= MaxNesting
      /\ Gathered'
  BY <1>1, GatheredCounters
<1>3. stack' # << >>
  BY <1>1, AppendIsList
<1>4. Below0' \/ \E base \in 1..Len(open') : Above0(base)'
  <2>1. CASE name = "description"
    <3>1. in_description' = Inc(InnerDescription(name)) /\ skip_depth' = 1
      BY <1>1, <2>1
    <3> QED BY <1>2, <2>1, <3>1, DescriptionCounts
  <2>2. CASE name # "description"
    <3>1. in_description' = in_description
      BY <1>1, <2>2
    <3> QED BY <1>2, <3>1, BelowStarts
  <2> QED BY <2>1, <2>2
<1> QED BY <1>2, <1>3, <1>4 DEF RunCounters

LEMMA OldChildCounters ==
    ASSUME DocShape, RunCounters, nesting_depth = Len(open), NEW name \in Names,
           StartOldChild(name), IsList(char_data)
    PROVE  RunCounters' /\ nesting_depth' = Len(open')
<1>1. /\ StartGathered(name, FALSE) /\ char_data' = Append(char_data, << >>)
      /\ stack' = stack /\ skip_depth' = skip_depth /\ in_description' = in_description
      /\ Cls(name, old_schema_name) = "field"
  BY DEF StartOldChild
<1>2. /\ Below0 /\ skip_depth = 0 /\ ExpatStarts(name, old_schema_name')
      /\ open' # << >> /\ nesting_depth' = Len(open') /\ Len(open') <= MaxNesting
      /\ Gathered'
  BY <1>1, GatheredCounters
<1>3. stack' # << >>
  BY <1>1 DEF Cls, RunCounters
<1>4. Below0'
  BY <1>1, <1>2, BelowStarts
<1> QED BY <1>2, <1>3, <1>4 DEF RunCounters

LEMMA UnknownCounters ==
    ASSUME DocShape, RunCounters, nesting_depth = Len(open), NEW name \in Names,
           StartUnknown(name), IsList(char_data), stack # << >>
    PROVE  RunCounters' /\ nesting_depth' = Len(open')
<1>1. /\ StartGathered(name, FALSE) /\ char_data' = Append(char_data, <<StartTag(n)>>)
      /\ stack' = stack /\ skip_depth' = 1 /\ in_description' = in_description
  BY DEF StartUnknown
<1>2. /\ Below0 /\ skip_depth = 0 /\ ExpatStarts(name, old_schema_name')
      /\ open' # << >> /\ nesting_depth' = Len(open') /\ Len(open') <= MaxNesting
      /\ Gathered'
  BY <1>1, GatheredCounters
<1>3. Below0'
  BY <1>1, <1>2, BelowStarts
<1> QED BY <1>1, <1>2, <1>3 DEF RunCounters

LEMMA StartCounters ==
    ASSUME DocShape, DocShape', Counters, NEW name \in Names, NEW parent \in BOOLEAN,
           Start(name, parent), IsList(char_data), IsList(stack)
    PROVE  Counters'
<1>1. phase = "run"
  BY DEF Start, StartTooDeep, StartSkipped, StartKnown, StartOldChild, StartUnknown,
         StartGathered, ExpatStarts
<1>2. RunCounters /\ nesting_depth = Len(open)
  BY <1>1 DEF Counters
<1>3. CASE StartTooDeep(name)
  <2>1. /\ ExpatStarts(name, old_schema_name) /\ phase' = "stopping" /\ stack' = stack
        /\ char_data' = char_data /\ skip_depth' = skip_depth
        /\ in_description' = in_description
    BY <1>3 DEF StartTooDeep
  <2>2. /\ Len(open) \in Nat /\ Len(open') = Len(open) + 1 /\ nesting_depth' = Len(open')
        /\ Len(open) <= MaxNesting /\ MaxNesting \in Nat
    BY <1>2, <2>1, OpenedOne, OpenBound DEF RunCounters
  <2>3. Len(open') <= MaxNesting + 1
    BY ONLY <2>2
  <2> QED BY <1>2, <2>1, <2>2, <2>3, RunCountersAre DEF Counters
<1>4. CASE StartSkipped(name)
  <2>1. ExpatStarts(name, old_schema_name)
    BY <1>4 DEF StartSkipped
  <2> QED BY <1>2, <1>4, <2>1, OpenedOne, SkippedCounters, RunGivesCounters
<1>5. CASE StartKnown(name, parent)
  BY <1>2, <1>5, KnownCounters, RunGivesCounters
<1>6. CASE StartOldChild(name)
  BY <1>2, <1>6, OldChildCounters, RunGivesCounters
<1>7. CASE StartUnknown(name)
  <2>1. CASE stack # << >>
    BY <1>2, <1>7, <2>1, UnknownCounters, RunGivesCounters
  <2>2. CASE stack = << >>
    <3>1. /\ StartGathered(name, FALSE) /\ char_data' = Append(char_data, << >>)
          /\ phase' = "stopping" /\ skip_depth' = skip_depth /\ in_description' = in_description
      BY <1>7, <2>2 DEF StartUnknown
    <3>2. /\ nesting_depth' = Len(open') /\ Len(open') <= MaxNesting /\ Len(open') \in Nat
          /\ char_data' # << >>
      BY <1>2, <3>1, GatheredCounters
    <3>3. Len(open') <= MaxNesting + 1
      BY <3>2, OpenBound
    <3> QED BY <1>2, <3>1, <3>2, <3>3, RunCountersAre DEF Counters
  <2> QED BY <2>1, <2>2
<1> QED BY <1>3, <1>4, <1>5, <1>6, <1>7 DEF Start

(* EndElement: what it makes of the counters, and of skip_depth_ before it *)
(* looks at it.                                                            *)
LEMMA EndedBelow ==
    ASSUME DocShape, Below0, ExpatEnds, in_description' = EndedDescription
    PROVE  Below0' /\ DescriptionSkip = skip_depth
<1> DEFINE z == UIntSize - (Len(doc) - Len(open))
<1>1. UIntSize - (Len(doc') - Len(open')) = z - 1 /\ z \in Int /\ UIntSize \in Nat
  <2>1. Len(doc') = Len(doc) /\ Len(open') = Len(open) - 1
        /\ Len(doc) \in Nat /\ Len(open) \in Nat /\ UIntSize \in Nat
    BY OpenBound, EndFacts
  <2> QED BY ONLY <2>1
<1>2. Dec(in_description) \in (z - 1)..(UIntSize - 1) /\ Dec(in_description) # 0
  BY BelowCounts
<1>3. DescriptionSkip = skip_depth
  BY <1>2 DEF DescriptionSkip, EndedDescription
<1>4. in_description = 0 \/ in_description \in z..(UIntSize - 1)
  BY DEF Below0
<1>5. in_description' = in_description \/ in_description' = Dec(in_description)
  BY DEF EndedDescription
<1> HIDE DEF z
<1>6. in_description' = 0 \/ in_description' \in (z - 1)..(UIntSize - 1)
  <2>1. CASE in_description' = in_description
    BY ONLY <1>1, <1>4, <2>1
  <2>2. CASE in_description' = Dec(in_description)
    BY <1>2, <2>2
  <2> QED BY <1>5, <2>1, <2>2
<1> QED BY <1>1, <1>3, <1>6 DEF Below0

LEMMA EndedAbove ==
    ASSUME DocShape, NEW base \in 1..Len(open), Above0(base), ExpatEnds,
           in_description' = EndedDescription
    PROVE  /\ base < Len(open) =>
                /\ DescriptionSkip = skip_depth /\ skip_depth > 1
                /\ base \in 1..Len(open') /\ IsDescription(open[base])'
                /\ in_description' = 1 + Cardinality(InnerDescriptions(base)')
           /\ base = Len(open) =>
                DescriptionSkip = 0 /\ in_description' = 0 /\ skip_depth = 1
<1> DEFINE c == Cardinality(InnerDescriptions(base))
           l == Len(open)
<1>1. /\ base \in Nat /\ l \in Nat /\ base <= l /\ base > 0 /\ l <= MaxTags
      /\ MaxTags \in Nat /\ UIntSize \in Nat /\ UIntSize > 2 * (MaxTags + 1)
      /\ Len(open') = l - 1 /\ endName = doc[open[l]].name
  BY OpenBound, EndFacts
<1>2. /\ IsDescription(open[base]) /\ skip_depth = l - base + 1 /\ in_description = 1 + c
  BY DEF Above0
<1>3. c \in Nat /\ c <= l - base
  BY <1>1, InnerIsFinite
<1> HIDE DEF c, l
<1>4. Dec(in_description) = c
  <2>1. in_description \in Nat /\ in_description > 0 /\ in_description < UIntSize
        /\ in_description - 1 = c
    BY ONLY <1>1, <1>2, <1>3
  <2> QED BY <2>1, Counting
<1>5. EndedDescription = IF endName = "description" THEN c ELSE 1 + c
  BY <1>2, <1>4 DEF EndedDescription
<1>6. ASSUME base < l
      PROVE  /\ DescriptionSkip = skip_depth /\ skip_depth > 1
             /\ base \in 1..Len(open') /\ IsDescription(open[base])'
             /\ in_description' = 1 + Cardinality(InnerDescriptions(base)')
  <2>1. /\ endName = "description" => c > 0
        /\ Cardinality(InnerDescriptions(base)') = c - (IF endName = "description" THEN 1 ELSE 0)
    BY <1>1, <1>6, InnerEnds DEF c, l
  <2>2. EndedDescription # 0
    BY <1>3, <1>5, <2>1
  <2>3. DescriptionSkip = skip_depth
    BY <2>2 DEF DescriptionSkip
  <2>4. skip_depth > 1
    BY ONLY <1>1, <1>2, <1>6
  <2>5. base \in 1..Len(open') /\ IsDescription(open[base])'
    BY <1>2, <1>6, SameDescriptions DEF l
  <2>6. in_description' = 1 + Cardinality(InnerDescriptions(base)')
    BY <1>3, <1>5, <2>1
  <2> QED BY <2>3, <2>4, <2>5, <2>6
<1>7. ASSUME base = l PROVE DescriptionSkip = 0 /\ in_description' = 0 /\ skip_depth = 1
  <2>1. endName = "description"
    BY <1>1, <1>2, <1>7 DEF IsDescription
  <2>2. c = 0 /\ skip_depth = 1
    BY ONLY <1>1, <1>2, <1>3, <1>7
  <2>3. Dec(1) = 0
    BY <1>1, Counting
  <2> QED BY <1>5, <2>1, <2>2, <2>3 DEF DescriptionSkip
<1> QED BY <1>6, <1>7 DEF l

LEMMA EndedCounts ==
    ASSUME NEW x \in 0..(UIntSize - 1)
    PROVE  Dec(x) \in 0..(UIntSize - 1) /\ (x > 0 => Dec(x) = x - 1)
<1>1. UIntSize \in Nat /\ UIntSize > 0
  BY BoundAssumption
<1>2. CASE x = 0
  BY <1>1, <1>2, Counting
<1>3. CASE x # 0
  <2>1. x \in Nat /\ x > 0 /\ x < UIntSize
    BY ONLY <1>1, <1>3, x \in 0..(UIntSize - 1)
  <2>2. Dec(x) = x - 1
    BY <2>1, Counting
  <2> QED BY <1>1, <2>1, <2>2
<1> QED BY <1>2, <1>3

(* What the four ends do to char_data_, stack_ and skip_depth_.            *)
EndsOne(skip) ==
  \/ phase' = "undefined" /\ stack' = stack /\ char_data' = char_data /\ skip_depth' = skip_depth
  \/ skip > 1 /\ skip_depth' = Dec(skip) /\ Len(char_data') = Len(char_data)
     /\ char_data # << >> /\ stack' = stack
  \/ skip \in {0, 1} /\ skip_depth' = 0 /\ Len(char_data') = Len(char_data) - 1
     /\ stack # << >> /\ stack' # << >>
  \/ skip = 0 /\ skip_depth' = 0 /\ stack = << >> /\ stack' = stack /\ char_data' = char_data

LEMMA EndsDoOne ==
    ASSUME IsList(char_data), IsList(stack), stack # << >> => char_data # << >>,
           EndSkipped \/ EndStopped \/ EndOldChild \/ EndKnown
    PROVE  EndsOne(DescriptionSkip) /\ phase' \in {AfterEnd, "stopped", "undefined"}
<1>1. CASE EndSkipped
  <2>1. CASE EndUndefined
    BY <2>1 DEF EndUndefined, EndsOne
  <2>2. CASE /\ char_data # << >> /\ DescriptionSkip > 1 /\ stack' = stack
             /\ char_data' = AppendTop(char_data, EndTag(ending))
             /\ skip_depth' = Dec(DescriptionSkip) /\ phase' = AfterEnd
    <3>1. Len(char_data') = Len(char_data)
      BY <2>2, TopIsList
    <3> QED BY <2>2, <3>1 DEF EndsOne
  <2>3. CASE /\ char_data # << >> /\ DescriptionSkip = 1 /\ stack # << >> /\ stack' = stack
             /\ char_data' = Pop(char_data) /\ skip_depth' = 0 /\ phase' = AfterEnd
    <3>1. Len(char_data') = Len(char_data) - 1
      BY <2>3, PopIsList
    <3> QED BY <2>3, <3>1 DEF EndsOne
  <2> QED BY <1>1, <2>1, <2>2, <2>3 DEF EndSkipped
<1>2. CASE EndStopped
  BY <1>2 DEF EndStopped, EndsOne
<1>3. CASE EndOldChild
  <2>1. /\ DescriptionSkip = 0 /\ stack # << >> /\ stack' = stack /\ skip_depth' = 0
        /\ char_data' = Pop(char_data) /\ phase' = AfterEnd
    BY <1>3 DEF EndOldChild
  <2>2. Len(char_data') = Len(char_data) - 1
    BY <2>1, PopIsList
  <2> QED BY <2>1, <2>2 DEF EndsOne
<1>4. CASE EndKnown
  <2>1. CASE EndUndefined
    BY <2>1 DEF EndUndefined, EndsOne
  <2>2. CASE ~ EndUndefined
    <3>1. /\ DescriptionSkip = 0 /\ stack # << >> /\ skip_depth' = 0
          /\ char_data' = Pop(char_data) /\ phase' \in {"stopped", AfterEnd}
          /\ stack' = stack \/ (Len(stack) >= 2 /\ stack' = Pop(stack))
      BY <1>4, <2>2 DEF EndKnown
    <3>2. Len(char_data') = Len(char_data) - 1
      BY <3>1, PopIsList
    <3>3. stack' # << >>
      <4>1. CASE stack' = stack
        BY <3>1, <4>1
      <4>2. CASE Len(stack) >= 2 /\ stack' = Pop(stack)
        <5>1. Len(stack') = Len(stack) - 1 /\ Len(stack) \in Nat
          BY <3>1, <4>2, PopIsList
        <5>2. Len(stack') # 0
          BY ONLY <4>2, <5>1
        <5>3. Len(<< >>) = 0
          OBVIOUS
        <5> QED BY <5>2, <5>3
      <4> QED BY <3>1, <4>1, <4>2
    <3> QED BY <3>1, <3>2, <3>3 DEF EndsOne
  <2> QED BY <2>1, <2>2
<1> QED BY <1>1, <1>2, <1>3, <1>4

LEMMA GatheredEnds ==
    ASSUME DocShape, RunCounters, ExpatEnds, NEW skip, EndsOne(skip), phase' # "undefined",
           skip = skip_depth \/ (skip = 0 /\ skip_depth = 1)
    PROVE  /\ Gathered' /\ stack' # << >>
           /\ skip > 1 => skip_depth' = skip_depth - 1
<1>1. /\ skip_depth \in 0..Len(open) /\ open # << >> /\ stack # << >>
      /\ Len(char_data) = IF skip_depth = 0 THEN Len(open) ELSE Len(open) - skip_depth + 1
  BY DEF RunCounters, Gathered, ExpatEnds
<1>2. /\ Len(open) \in Nat /\ Len(open) > 0 /\ Len(open') = Len(open) - 1
      /\ Len(open) <= MaxTags /\ MaxTags \in Nat /\ UIntSize \in Nat
      /\ UIntSize > 2 * (MaxTags + 1)
  BY OpenBound, EndFacts
<1>3. CASE skip > 1 /\ skip_depth' = Dec(skip) /\ Len(char_data') = Len(char_data)
           /\ char_data # << >> /\ stack' = stack
  <2>1. skip = skip_depth
    BY <1>3
  <2>2. skip_depth \in Nat /\ skip_depth > 1 /\ skip_depth < UIntSize
    BY ONLY <1>1, <1>2, <1>3, <2>1
  <2>3. skip_depth' = skip_depth - 1
    BY <1>3, <2>1, <2>2, Counting
  <2>4. skip_depth' \in 0..Len(open') /\ skip_depth' # 0
        /\ Len(char_data') = Len(open') - skip_depth' + 1
    BY ONLY <1>1, <1>2, <1>3, <2>2, <2>3
  <2> QED BY <1>1, <1>3, <2>3, <2>4 DEF Gathered
<1>4. CASE skip \in {0, 1} /\ skip_depth' = 0 /\ Len(char_data') = Len(char_data) - 1
           /\ stack # << >> /\ stack' # << >>
  <2>1. skip_depth \in {0, 1}
    BY <1>4
  <2>2. 0 \in 0..Len(open') /\ Len(char_data') = Len(open')
    BY ONLY <1>1, <1>2, <1>4, <2>1
  <2>3. ~ (skip > 1)
    BY ONLY <1>4
  <2> QED BY <1>4, <2>2, <2>3 DEF Gathered
<1> QED BY <1>1, <1>3, <1>4 DEF EndsOne

LEMMA RunEnds ==
    ASSUME DocShape, RunCounters, phase = "run", ExpatEnds, phase' = "run",
           in_description' = EndedDescription, old_schema_name' = old_schema_name,
           EndsOne(DescriptionSkip), phase' \in {AfterEnd, "stopped", "undefined"}
    PROVE  RunCounters'
<1>1. AfterEnd = "run" /\ phase' # "undefined"
  OBVIOUS
<1>2. open' # << >>
  BY <1>1, EndFacts DEF AfterEnd
<1>3. Len(open') <= MaxNesting
  <2>1. Len(open') = Len(open) - 1 /\ Len(open) \in Nat /\ Len(open) <= MaxNesting
        /\ MaxNesting \in Nat
    BY OpenBound, EndFacts DEF RunCounters
  <2> QED BY ONLY <2>1
<1>4. Gathered' /\ stack' # << >> /\ (Below0' \/ \E base \in 1..Len(open') : Above0(base)')
  <2>1. CASE Below0
    <3>1. Below0' /\ DescriptionSkip = skip_depth
      BY <2>1, EndedBelow
    <3> QED BY <1>1, <3>1, GatheredEnds
  <2>2. CASE \E base \in 1..Len(open) : Above0(base)
    <3>1. PICK base \in 1..Len(open) : Above0(base)
      BY <2>2
    <3>2. base \in Nat /\ Len(open) \in Nat /\ base <= Len(open) /\ Len(open') = Len(open) - 1
      BY OpenBound, EndFacts
    <3>3. CASE base < Len(open)
      <4>1. /\ DescriptionSkip = skip_depth /\ skip_depth > 1
            /\ base \in 1..Len(open') /\ IsDescription(open[base])'
            /\ in_description' = 1 + Cardinality(InnerDescriptions(base)')
        BY <3>1, <3>3, EndedAbove
      <4>2. Gathered' /\ stack' # << >> /\ skip_depth' = skip_depth - 1
        BY <1>1, <4>1, GatheredEnds
      <4>3. skip_depth = Len(open) - base + 1
        BY <3>1 DEF Above0
      <4>4. skip_depth' = Len(open') - base + 1
        BY ONLY <3>2, <4>2, <4>3
      <4>5. Above0(base)'
        BY <4>1, <4>4 DEF Above0
      <4> QED BY <4>1, <4>2, <4>5
    <3>4. CASE base = Len(open)
      <4>1. DescriptionSkip = 0 /\ in_description' = 0 /\ skip_depth = 1
        BY <3>1, <3>4, EndedAbove
      <4>2. Gathered' /\ stack' # << >>
        BY <1>1, <4>1, GatheredEnds
      <4> QED BY <4>1, <4>2 DEF Below0
    <3> QED BY <3>2, <3>3, <3>4
  <2> QED BY <2>1, <2>2 DEF RunCounters
<1> QED BY <1>2, <1>3, <1>4 DEF RunCounters

LEMMA EndCounters ==
    ASSUME DocShape, Counters, EndElement, IsList(char_data), IsList(stack)
    PROVE  Counters'
<1>1. /\ ExpatEnds /\ phase \in {"run", "stopping"}
      /\ EndSkipped \/ EndStopped \/ EndOldChild \/ EndKnown
      /\ in_description' = EndedDescription /\ old_schema_name' = old_schema_name
  BY DEF EndElement, ExpatEnds
<1>2. /\ skip_depth \in 0..MaxTags /\ in_description \in 0..(UIntSize - 1)
      /\ in_description = 1 => skip_depth > 0
      /\ stack # << >> => char_data # << >>
  BY <1>1 DEF Counters
<1>3. EndsOne(DescriptionSkip) /\ phase' \in {AfterEnd, "stopped", "undefined"}
  BY <1>1, <1>2, EndsDoOne
<1>4. MaxTags \in Nat /\ UIntSize \in Nat /\ UIntSize > 2 * (MaxTags + 1) /\ MaxNesting \in Nat
  BY BoundAssumption
<1>5. in_description' \in 0..(UIntSize - 1)
  BY <1>1, <1>2, EndedCounts DEF EndedDescription
<1>6. DescriptionSkip \in 0..MaxTags
  <2>1. ASSUME endName = "description", EndedDescription = 0
        PROVE  Dec(skip_depth) \in 0..MaxTags
    <3>1. Dec(in_description) = 0
      BY <2>1 DEF EndedDescription
    <3>2. in_description # 0
      <4>1. Dec(0) # 0
        <5>1. UIntSize - 1 # 0
          BY ONLY <1>4
        <5> QED BY <5>1, Counting
      <4> QED BY <3>1, <4>1
    <3>3. in_description = 1
      <4>1. in_description > 0
        BY ONLY <1>2, <3>2
      <4>2. in_description - 1 = 0
        BY <1>2, <3>1, <4>1, EndedCounts
      <4> QED BY ONLY <1>2, <4>2
    <3>4. skip_depth \in 0..(UIntSize - 1) /\ skip_depth > 0
      BY ONLY <1>2, <1>4, <3>3
    <3>5. Dec(skip_depth) = skip_depth - 1
      BY <3>4, EndedCounts
    <3> QED BY ONLY <1>2, <3>4, <3>5, <1>4
  <2> QED BY <1>2, <2>1 DEF DescriptionSkip
<1>7. skip_depth' \in 0..MaxTags
  <2>1. CASE DescriptionSkip > 1 /\ skip_depth' = Dec(DescriptionSkip)
    <3> DEFINE s == DescriptionSkip
    <3>1. s \in 0..MaxTags /\ s > 1 /\ skip_depth' = Dec(s)
      BY <1>6, <2>1
    <3> HIDE DEF s
    <3>2. s \in 0..(UIntSize - 1) /\ s > 0
      BY ONLY <1>4, <3>1
    <3>3. skip_depth' = s - 1
      BY <3>1, <3>2, EndedCounts
    <3> QED BY ONLY <1>4, <3>1, <3>3
  <2>2. CASE skip_depth' \in {0, skip_depth}
    BY ONLY <1>2, <1>4, <2>2
  <2> QED BY <1>3, <2>1, <2>2 DEF EndsOne
<1>8. nesting_depth' = Len(open') /\ Len(open') <= MaxNesting + 1
  <2>1. nesting_depth' = nesting_depth - 1 /\ Len(open') = Len(open) - 1 /\ Len(open) \in Nat
        /\ nesting_depth = Len(open) /\ Len(open) <= MaxNesting + 1
    BY <1>1, OpenBound, EndFacts DEF Counters
  <2> QED BY ONLY <1>4, <2>1
<1>9. phase' # "stopping" /\ (phase' = "run" => phase = "run")
  BY <1>1, <1>3 DEF AfterEnd
<1>10. ASSUME phase' = "run"
       PROVE  RunCounters' /\ (in_description' = 1 => skip_depth' > 0)
              /\ (stack' # << >> => char_data' # << >>)
  <2>1. RunCounters'
    BY <1>1, <1>3, <1>9, <1>10, RunEnds DEF Counters
  <2>2. DocShape'
    <3>1. phase' = "run" => Len(open) # 1
      BY <1>3 DEF AfterEnd
    <3> QED BY <1>1, <3>1, EndDocShape
  <2> QED BY <2>1, <2>2, RunCountersAreNext
<1> QED BY <1>5, <1>7, <1>8, <1>9, <1>10 DEF Counters

LEMMA TextCounters ==
    ASSUME DocShape, Counters, CharData, IsList(char_data)
    PROVE  Counters'
<1>1. /\ phase = "run" /\ doc' = doc /\ open' = open /\ stack' = stack
      /\ skip_depth' = skip_depth /\ in_description' = in_description
      /\ nesting_depth' = nesting_depth /\ old_schema_name' = old_schema_name
      /\ open # << >> /\ confused' = confused
  BY DEF CharData
<1>2. char_data # << >>
  BY <1>1, RunCountersAre DEF Counters
<1>3. phase' = "run" /\ char_data' # << >> /\ Len(char_data') = Len(char_data)
  BY <1>1, <1>2, TopIsList DEF CharData
<1>4. \A base \in Nat : InnerDescriptions(base)' = InnerDescriptions(base)
  BY <1>1 DEF InnerDescriptions, IsDescription
<1>5. Below0' <=> Below0
  BY <1>1 DEF Below0
<1>6. \A base \in 1..Len(open) : Above0(base)' <=> Above0(base)
  <2>1. \A base \in 1..Len(open) : base \in Nat
    BY OpenBound
  <2> QED BY <1>1, <1>4, <2>1 DEF Above0, IsDescription
<1>7. RunCounters'
  BY <1>1, <1>3, <1>5, <1>6 DEF Counters, RunCounters, Gathered
<1> QED BY <1>1, <1>3, <1>7 DEF Counters

(* The types, part by part.                                                *)
DocTyped ==
  \A t \in Tags : doc[t] \in [name : Names, cls : {"known", "field", "unknown"}, parent : 0..(t - 1)]
StackTyped == IsList(stack) /\ \A i \in DOMAIN stack : stack[i] \in DOMAIN type
GatheredTyped == AllStrings(char_data, Tags)
FieldsTyped ==
  /\ IsList(simpledata_vec)
  /\ \A i \in DOMAIN simpledata_vec : FieldOf(simpledata_vec[i], Tags, DOMAIN type)
ElementsTyped == DOMAIN type \subseteq Tags /\ \A t \in DOMAIN type : type[t] \in Complex \cup Simple
AddedTyped == \A pair \in added : {pair[1], pair[2]} \subseteq DOMAIN type
ContentTyped ==
  DOMAIN content \subseteq DOMAIN type /\ \A t \in DOMAIN content : StringOf(content[t], Tags)
UnknownTyped == \A u \in unknown : u.at \in DOMAIN type /\ StringOf(u.xml, Tags)
NamesTyped ==
  /\ texts \in 0..MaxTexts
  /\ in_old_schema_placemark \in BOOLEAN /\ confused \in BOOLEAN
  /\ old_schema_name \in {"", OldName} /\ simplefield_name_vec \subseteq {FieldName}
  /\ phase \in {"run", "stopping", "stopped", "done", "lost", "undefined"}

Typed ==
  /\ DocTyped /\ StackTyped /\ GatheredTyped /\ FieldsTyped /\ ElementsTyped
  /\ AddedTyped /\ ContentTyped /\ UnknownTyped /\ NamesTyped

LEMMA TypedIs == DocShape /\ Counters /\ Typed => TypeOK
<1> SUFFICES ASSUME DocShape, Counters, Typed PROVE TypeOK
  OBVIOUS
<1>1. Len(doc) <= MaxTags /\ \A i \in DOMAIN open : open[i] \in Tags
  BY DocFacts DEF DocShape, Tags
<1>2. \A i \in DOMAIN char_data : IsString(char_data[i])
  BY StringOfIs DEF Typed, GatheredTyped, AllStrings
<1>3. \A i \in DOMAIN simpledata_vec :
         /\ simpledata_vec[i].of \in Tags /\ IsString(simpledata_vec[i].text)
         /\ simpledata_vec[i].owner \in {NoTag} \cup DOMAIN type
  BY StringOfIs DEF Typed, FieldsTyped, FieldOf
<1>4. /\ \A t \in DOMAIN content : t \in DOMAIN type /\ IsString(content[t])
      /\ \A u \in unknown : u.at \in DOMAIN type /\ IsString(u.xml)
  BY StringOfIs DEF Typed, ContentTyped, UnknownTyped
<1>5. skip_depth \in 0..MaxTags /\ in_description \in 0..(UIntSize - 1)
      /\ nesting_depth \in 0..(MaxNesting + 1)
  <2>1. Len(open) \in Nat /\ MaxNesting \in Nat /\ nesting_depth = Len(open)
        /\ Len(open) <= MaxNesting + 1
    BY OpenBound DEF Counters
  <2>2. nesting_depth \in 0..(MaxNesting + 1)
    BY ONLY <2>1
  <2> QED BY <2>2 DEF Counters
<1> QED BY <1>1, <1>2, <1>3, <1>4, <1>5
        DEF TypeOK, Typed, DocTyped, StackTyped, ElementsTyped, AddedTyped, NamesTyped

Grows == Tags \subseteq Tags' /\ DOMAIN type \subseteq DOMAIN type'

LEMMA PartsStay ==
    ASSUME Typed, Grows
    PROVE  /\ stack' = stack => StackTyped'
           /\ AllStrings(char_data, Tags') /\ (char_data' = char_data => GatheredTyped')
           /\ simpledata_vec' = simpledata_vec => FieldsTyped'
           /\ added' = added => AddedTyped'
           /\ content' = content => ContentTyped'
           /\ unknown' = unknown => UnknownTyped'
           /\ \A i \in DOMAIN simpledata_vec : FieldOf(simpledata_vec[i], Tags', DOMAIN type')
<1>1. Tags \subseteq Tags' /\ DOMAIN type \subseteq DOMAIN type'
  BY DEF Grows
<1>2. \A s : StringOf(s, Tags) => StringOf(s, Tags')
  BY <1>1, StringOfGrows
<1>3. AllStrings(char_data, Tags')
  BY <1>1, StringOfGrows DEF Typed, GatheredTyped
<1>4. \A i \in DOMAIN simpledata_vec : FieldOf(simpledata_vec[i], Tags', DOMAIN type')
  BY <1>1, FieldOfGrows DEF Typed, FieldsTyped
<1>5. stack' = stack => StackTyped'
  BY <1>1 DEF Typed, StackTyped
<1>6. char_data' = char_data => GatheredTyped'
  BY <1>3 DEF GatheredTyped
<1>7. simpledata_vec' = simpledata_vec => FieldsTyped'
  BY <1>4 DEF Typed, FieldsTyped
<1>8. added' = added => AddedTyped'
  BY <1>1 DEF Typed, AddedTyped
<1>9. content' = content => ContentTyped'
  BY <1>1, <1>2 DEF Typed, ContentTyped
<1>10. unknown' = unknown => UnknownTyped'
  BY <1>1, <1>2 DEF Typed, UnknownTyped
<1> QED BY <1>3, <1>4, <1>5, <1>6, <1>7, <1>8, <1>9, <1>10

(* StartElement.                                                           *)
LEMMA DocTypedStarts ==
    ASSUME DocShape, DocTyped, NEW name \in Names, NEW old, ExpatStarts(name, old)
    PROVE  DocTyped' /\ Tags \subseteq Tags' /\ n \in Tags' /\ texts' = texts
<1> DEFINE entry == [name |-> name, cls |-> Cls(name, old),
                     parent |-> IF open = << >> THEN NoTag ELSE Top(open)]
<1>1. doc' = Append(doc, entry) /\ IsList(doc) /\ texts' = texts
  BY DEF ExpatStarts, DocShape
<1>2. Tags = 1..Len(doc) /\ n = Len(doc) + 1 /\ Len(doc) \in Nat
      /\ (open # << >> => Top(open) \in 1..Len(doc))
  <2>1. open # << >> => Len(open) \in 1..Len(open) /\ Top(open) = open[Len(open)]
    BY DocFacts
  <2> QED BY <2>1, DocFacts DEF Tags, n
<1>3. entry \in [name : Names, cls : {"known", "field", "unknown"}, parent : 0..(n - 1)]
  <2>1. Cls(name, old) \in {"known", "field", "unknown"}
    BY DEF Cls
  <2>2. (IF open = << >> THEN NoTag ELSE Top(open)) \in 0..(n - 1)
    BY <1>2 DEF NoTag
  <2> QED BY <2>1, <2>2
<1> HIDE DEF entry
<1>4. Tags' = Tags \cup {n} /\ doc'[n] = entry /\ \A t \in Tags : doc'[t] = doc[t]
  <2>1. /\ DOMAIN doc' = 1..(Len(doc) + 1) /\ \A t \in 1..Len(doc) : doc'[t] = doc[t]
        /\ doc'[Len(doc) + 1] = entry
    BY <1>1, AppendIsList
  <2>2. 1..(Len(doc) + 1) = (1..Len(doc)) \cup {Len(doc) + 1}
    BY ONLY <1>2
  <2>3. Tags' = DOMAIN doc'
    BY DEF Tags
  <2> QED BY <1>2, <2>1, <2>2, <2>3
<1>5. ASSUME NEW t \in Tags'
      PROVE  doc'[t] \in [name : Names, cls : {"known", "field", "unknown"}, parent : 0..(t - 1)]
  BY <1>3, <1>4 DEF DocTyped
<1> QED BY <1>1, <1>4, <1>5 DEF DocTyped

LEMMA StartTyped ==
    ASSUME DocShape, Counters, Typed, NEW name \in Names, NEW parent \in BOOLEAN,
           Start(name, parent)
    PROVE  Typed'
<1>1. \E old : ExpatStarts(name, old)
  BY DEF Start, StartTooDeep, StartSkipped, StartKnown, StartOldChild, StartUnknown,
         StartGathered
<1>2. DocTyped' /\ Tags \subseteq Tags' /\ n \in Tags' /\ texts' = texts /\ phase = "run"
  BY <1>1, DocTypedStarts DEF Typed, ExpatStarts
<1>3. StringOf(<< >>, Tags') /\ TokenOf(StartTag(n), Tags') /\ StringOf(<<StartTag(n)>>, Tags')
  BY <1>2, StringOfFew, TokensAre
<1>4. FindOldSchemaParentName(name, parent) \in {"", OldName}
      /\ FindOldSchemaParentName(name, FALSE) \in {"", OldName}
  BY DEF FindOldSchemaParentName, Typed, NamesTyped
<1>5. type' = type => Grows /\ ElementsTyped'
  BY <1>2 DEF Grows, Typed, ElementsTyped
<1>6. CASE StartTooDeep(name)
  <2>1. /\ stack' = stack /\ char_data' = char_data /\ simpledata_vec' = simpledata_vec
        /\ type' = type /\ added' = added /\ content' = content /\ unknown' = unknown
        /\ in_old_schema_placemark' = in_old_schema_placemark
        /\ old_schema_name' = old_schema_name
        /\ simplefield_name_vec' = simplefield_name_vec
        /\ phase' = "stopping" /\ confused' \in BOOLEAN
    BY <1>6 DEF StartTooDeep, tree, Typed, NamesTyped
  <2>2. NamesTyped'
    BY <1>2, <2>1 DEF Typed, NamesTyped
  <2> QED BY <1>2, <1>5, <2>1, <2>2, PartsStay DEF Typed
<1>7. CASE StartSkipped(name)
  <2>1. /\ stack' = stack /\ simpledata_vec' = simpledata_vec
        /\ type' = type /\ added' = added /\ content' = content /\ unknown' = unknown
        /\ in_old_schema_placemark' = in_old_schema_placemark
        /\ old_schema_name' = old_schema_name
        /\ simplefield_name_vec' = simplefield_name_vec
        /\ phase' = phase /\ confused' = confused
        /\ char_data' = AppendTop(char_data, StartTag(n)) /\ skip_depth > 0
    BY <1>7 DEF StartSkipped, tree
  <2>2. NamesTyped'
    BY <1>2, <2>1 DEF Typed, NamesTyped
  <2>3. char_data # << >>
    <3>1. open # << >>
      <4>1. skip_depth \in 0..Len(open) /\ Len(open) \in Nat
        BY <1>2, OpenBound DEF Counters, RunCounters, Gathered
      <4>2. Len(open) > 0
        BY ONLY <2>1, <4>1
      <4> QED BY <4>2, DocFacts
    <3> QED BY <1>2, <3>1, RunCountersAre DEF Counters
  <2>4. GatheredTyped'
    <3>1. AllStrings(char_data, Tags')
      BY <1>5, <2>1, PartsStay
    <3>2. AllStrings(AppendTop(char_data, StartTag(n)), Tags')
      BY <1>3, <2>3, <3>1, AllStringsTop
    <3> QED BY <2>1, <3>2 DEF GatheredTyped
  <2> QED BY <1>2, <1>5, <2>1, <2>2, <2>4, PartsStay DEF Typed
<1>8. CASE StartKnown(name, parent)
  <2> DEFINE v == IF name = old_schema_name' THEN "Placemark" ELSE name
  <2>1. /\ stack' = Append(stack, n) /\ simpledata_vec' = simpledata_vec
        /\ type' = With(type, n, v) /\ added' = added /\ content' = content
        /\ unknown' = unknown
        /\ in_old_schema_placemark' = in_old_schema_placemark
        /\ old_schema_name' = FindOldSchemaParentName(name, parent)
        /\ simplefield_name_vec' = simplefield_name_vec
        /\ phase' \in {"stopping", phase} /\ confused' \in BOOLEAN
        /\ char_data' = Append(char_data, << >>)
        /\ Cls(name, old_schema_name') = "known"
    BY <1>8 DEF StartKnown, StartGathered, Typed, NamesTyped
  <2>2. NamesTyped'
    BY <1>2, <1>4, <2>1 DEF Typed, NamesTyped
  <2>3. v \in Complex \cup Simple
    BY <2>1, NameAssumption DEF Cls
  <2> HIDE DEF v
  <2>4. /\ DOMAIN type' = DOMAIN type \cup {n} /\ type'[n] = v
        /\ \A t \in DOMAIN type \ {n} : type'[t] = type[t]
    BY <2>1 DEF With
  <2>5. Grows /\ ElementsTyped'
    BY <1>2, <2>3, <2>4 DEF Grows, Typed, ElementsTyped
  <2>6. StackTyped'
    <3>1. IsList(stack) /\ \A i \in DOMAIN stack : stack[i] \in DOMAIN type
      BY DEF Typed, StackTyped
    <3>2. /\ IsList(stack') /\ DOMAIN stack = 1..Len(stack)
          /\ DOMAIN stack' = 1..(Len(stack) + 1) /\ Len(stack) \in Nat
          /\ \A i \in 1..Len(stack) : stack'[i] = stack[i]
          /\ stack'[Len(stack) + 1] = n
      BY <2>1, <3>1, AppendIsList
    <3>3. 1..(Len(stack) + 1) = (1..Len(stack)) \cup {Len(stack) + 1}
      BY ONLY <3>2
    <3> QED BY <2>4, <3>1, <3>2, <3>3 DEF StackTyped
  <2>7. GatheredTyped'
    <3>1. AllStrings(char_data, Tags')
      BY <2>5, PartsStay
    <3> QED BY <1>3, <2>1, <3>1, AllStringsAppend DEF GatheredTyped
  <2> QED BY <1>2, <2>1, <2>2, <2>5, <2>6, <2>7, PartsStay DEF Typed
<1>9. CASE StartOldChild(name)
  <2> DEFINE f == [of |-> n, text |-> << >>, owner |-> NoTag]
  <2>1. /\ stack' = stack /\ type' = type /\ added' = added /\ content' = content
        /\ unknown' = unknown /\ in_old_schema_placemark' = TRUE
        /\ old_schema_name' = FindOldSchemaParentName(name, FALSE)
        /\ simplefield_name_vec' = simplefield_name_vec
        /\ phase' = phase /\ confused' \in BOOLEAN
        /\ char_data' = Append(char_data, << >>)
        /\ simpledata_vec' = Append(simpledata_vec, f)
    BY <1>9 DEF StartOldChild, StartGathered, tree, Typed, NamesTyped
  <2>2. NamesTyped'
    BY <1>2, <1>4, <2>1 DEF Typed, NamesTyped
  <2>3. FieldOf(f, Tags', DOMAIN type')
    <3>1. DOMAIN f = {"of", "text", "owner"} /\ f.of = n /\ f.text = << >> /\ f.owner = NoTag
      OBVIOUS
    <3> HIDE DEF f
    <3> QED BY <1>2, <1>3, <3>1 DEF FieldOf
  <2> HIDE DEF f
  <2>4. FieldsTyped'
    <3>1. IsList(simpledata_vec)
          /\ \A i \in DOMAIN simpledata_vec : FieldOf(simpledata_vec[i], Tags', DOMAIN type')
      BY <1>5, <2>1, PartsStay DEF Typed, FieldsTyped
    <3>2. /\ IsList(simpledata_vec') /\ DOMAIN simpledata_vec = 1..Len(simpledata_vec)
          /\ DOMAIN simpledata_vec' = 1..(Len(simpledata_vec) + 1)
          /\ Len(simpledata_vec) \in Nat
          /\ \A i \in 1..Len(simpledata_vec) : simpledata_vec'[i] = simpledata_vec[i]
          /\ simpledata_vec'[Len(simpledata_vec) + 1] = f
      BY <2>1, <3>1, AppendIsList
    <3>3. 1..(Len(simpledata_vec) + 1) = (1..Len(simpledata_vec)) \cup {Len(simpledata_vec) + 1}
      BY ONLY <3>2
    <3>4. ASSUME NEW i \in DOMAIN simpledata_vec'
          PROVE  FieldOf(simpledata_vec'[i], Tags', DOMAIN type')
      <4>1. CASE i = Len(simpledata_vec) + 1
        BY <2>3, <3>2, <4>1
      <4>2. CASE i \in DOMAIN simpledata_vec
        BY <3>1, <3>2, <4>2
      <4> QED BY <3>2, <3>3, <4>1, <4>2
    <3> QED BY <3>2, <3>4 DEF FieldsTyped
  <2>5. GatheredTyped'
    <3>1. AllStrings(char_data, Tags')
      BY <1>5, <2>1, PartsStay
    <3> QED BY <1>3, <2>1, <3>1, AllStringsAppend DEF GatheredTyped
  <2> QED BY <1>2, <1>5, <2>1, <2>2, <2>4, <2>5, PartsStay DEF Typed
<1>10. CASE StartUnknown(name)
  <2>1. /\ stack' = stack /\ type' = type /\ added' = added /\ content' = content
        /\ unknown' = unknown /\ simpledata_vec' = simpledata_vec
        /\ in_old_schema_placemark' \in BOOLEAN
        /\ old_schema_name' = FindOldSchemaParentName(name, FALSE)
        /\ simplefield_name_vec' = simplefield_name_vec
        /\ phase' \in {"stopping", phase} /\ confused' \in BOOLEAN
    BY <1>10 DEF StartUnknown, StartGathered, tree, Typed, NamesTyped
  <2>2. NamesTyped'
    BY <1>2, <1>4, <2>1 DEF Typed, NamesTyped
  <2>3. char_data' = Append(char_data, << >>) \/ char_data' = Append(char_data, <<StartTag(n)>>)
    BY <1>10 DEF StartUnknown
  <2>4. GatheredTyped'
    <3>1. AllStrings(char_data, Tags')
      BY <1>5, <2>1, PartsStay
    <3> QED BY <1>3, <2>3, <3>1, AllStringsAppend DEF GatheredTyped
  <2> QED BY <1>2, <1>5, <2>1, <2>2, <2>4, PartsStay DEF Typed
<1> QED BY <1>6, <1>7, <1>8, <1>9, <1>10 DEF Start

(* EndElement.                                                             *)
LEMMA EndTyped ==
    ASSUME DocShape, Counters, Typed, EndElement
    PROVE  Typed'
<1>1. /\ ExpatEnds /\ phase \in {"run", "stopping"} /\ doc' = doc /\ texts' = texts
      /\ EndSkipped \/ EndStopped \/ EndOldChild \/ EndKnown
      /\ old_schema_name' = old_schema_name /\ confused' \in BOOLEAN
      /\ type' = type
  <2>1. /\ ExpatEnds /\ phase \in {"run", "stopping"} /\ doc' = doc /\ texts' = texts
        /\ EndSkipped \/ EndStopped \/ EndOldChild \/ EndKnown
        /\ old_schema_name' = old_schema_name /\ confused' = (confused \/ DescriptionConfused)
    BY DEF EndElement, ExpatEnds
  <2>2. type' = type
    BY <2>1 DEF EndSkipped, EndStopped, EndOldChild, EndKnown, EndUndefined, tree
  <2> QED BY <2>1, <2>2 DEF Typed, NamesTyped
<1>2. Tags' = Tags /\ Grows /\ DocTyped' /\ ElementsTyped'
  BY <1>1 DEF Tags, Grows, DocTyped, ElementsTyped, Typed
<1>3. ending \in Tags /\ TokenOf(EndTag(ending), Tags')
  <2>1. ending \in Tags
    BY <1>1, EndFacts, DocFacts DEF Tags
  <2> QED BY <1>2, <2>1, TokensAre
<1>4. stack # << >> => char_data # << >>
  BY <1>1 DEF Counters
<1>5. AllStrings(char_data, Tags') /\ IsList(char_data)
  BY <1>2, PartsStay DEF AllStrings
<1>6. ASSUME stack # << >>
      PROVE  /\ IsList(stack) /\ Len(stack) \in Nat /\ Len(stack) > 0
             /\ DOMAIN stack = 1..Len(stack) /\ Top(stack) \in DOMAIN type
             /\ IsList(Pop(stack)) /\ DOMAIN Pop(stack) = 1..(Len(stack) - 1)
             /\ \A j \in 1..(Len(stack) - 1) : Pop(stack)[j] = stack[j]
             /\ \A j \in DOMAIN stack : stack[j] \in DOMAIN type
  <2>1. IsList(stack) /\ \A j \in DOMAIN stack : stack[j] \in DOMAIN type
    BY DEF Typed, StackTyped
  <2>2. /\ Len(stack) \in Nat /\ Len(stack) > 0 /\ DOMAIN stack = 1..Len(stack)
        /\ Top(stack) = stack[Len(stack)]
        /\ IsList(Pop(stack)) /\ DOMAIN Pop(stack) = 1..(Len(stack) - 1)
        /\ \A j \in 1..(Len(stack) - 1) : Pop(stack)[j] = stack[j]
    BY <1>6, <2>1, TopFacts
  <2>3. Len(stack) \in DOMAIN stack
    BY ONLY <2>2
  <2> QED BY <2>1, <2>2, <2>3
<1>7. AfterEnd \in {"run", "stopped", "done"}
  BY DEF AfterEnd
<1>8. ASSUME /\ in_old_schema_placemark' \in BOOLEAN
             /\ simplefield_name_vec' \subseteq {FieldName}
             /\ phase' \in {AfterEnd, "stopped", "undefined"}
      PROVE  NamesTyped'
  BY <1>1, <1>7, <1>8 DEF Typed, NamesTyped
<1>9. ASSUME /\ stack' = stack /\ simpledata_vec' = simpledata_vec /\ added' = added
             /\ content' = content
             /\ in_old_schema_placemark' = in_old_schema_placemark
             /\ simplefield_name_vec' = simplefield_name_vec
             /\ phase' \in {AfterEnd, "stopped", "undefined"}
             /\ GatheredTyped' /\ UnknownTyped'
      PROVE  Typed'
  <2>1. NamesTyped'
    BY <1>8, <1>9 DEF Typed, NamesTyped
  <2> QED BY <1>2, <1>9, <2>1, PartsStay DEF Typed
<1>10. ASSUME EndUndefined PROVE Typed'
  <2>1. GatheredTyped' /\ UnknownTyped'
    BY <1>2, <1>10, PartsStay DEF EndUndefined, tree
  <2> QED BY <1>9, <1>10, <2>1 DEF EndUndefined, tree
<1>11. CASE EndSkipped
  <2> DEFINE xml == AppendTop(char_data, EndTag(ending))
  <2>1. ASSUME char_data # << >>
        PROVE  /\ AllStrings(xml, Tags') /\ AllStrings(Pop(char_data), Tags')
               /\ StringOf(Top(xml), Tags')
    BY <1>3, <1>5, <2>1, AllStringsTop
  <2>2. CASE /\ char_data # << >> /\ char_data' = xml /\ phase' = AfterEnd
             /\ UNCHANGED <<tree, stack, in_old_schema_placemark, simplefield_name_vec,
                            simpledata_vec>>
    <3>1. GatheredTyped'
      BY <2>1, <2>2 DEF GatheredTyped
    <3>2. UnknownTyped'
      BY <1>2, <2>2, PartsStay DEF tree
    <3> QED BY <1>9, <2>2, <3>1, <3>2 DEF tree
  <2>3. CASE /\ char_data # << >> /\ stack # << >> /\ char_data' = Pop(char_data)
             /\ unknown' = unknown \cup {[at |-> Top(stack), xml |-> Top(xml)]}
             /\ phase' = AfterEnd
             /\ UNCHANGED <<type, added, content, stack, in_old_schema_placemark,
                            simplefield_name_vec, simpledata_vec>>
    <3>1. GatheredTyped'
      BY <2>1, <2>3 DEF GatheredTyped
    <3> DEFINE piece == [at |-> Top(stack), xml |-> Top(xml)]
    <3>2. piece.at \in DOMAIN type' /\ StringOf(piece.xml, Tags')
      BY <1>1, <1>6, <2>1, <2>3
    <3>3. \A u \in unknown : u.at \in DOMAIN type' /\ StringOf(u.xml, Tags')
      BY <1>1, <1>2 DEF Typed, UnknownTyped
    <3>4. unknown' = unknown \cup {piece}
      BY <2>3
    <3> HIDE DEF piece
    <3>5. UnknownTyped'
      BY <3>2, <3>3, <3>4 DEF UnknownTyped
    <3> QED BY <1>9, <2>3, <3>1, <3>5
  <2>4. \/ EndUndefined
        \/ /\ char_data # << >> /\ char_data' = xml /\ phase' = AfterEnd
           /\ UNCHANGED <<tree, stack, in_old_schema_placemark, simplefield_name_vec,
                          simpledata_vec>>
        \/ /\ char_data # << >> /\ stack # << >> /\ char_data' = Pop(char_data)
           /\ unknown' = unknown \cup {[at |-> Top(stack), xml |-> Top(xml)]}
           /\ phase' = AfterEnd
           /\ UNCHANGED <<type, added, content, stack, in_old_schema_placemark,
                          simplefield_name_vec, simpledata_vec>>
    BY <1>11 DEF EndSkipped
  <2> HIDE DEF xml
  <2> QED BY <1>10, <2>2, <2>3, <2>4
<1>12. CASE EndStopped
  <2>1. GatheredTyped' /\ UnknownTyped'
    BY <1>2, <1>12, PartsStay DEF EndStopped, tree
  <2> QED BY <1>9, <1>12, <2>1 DEF EndStopped, tree
<1>13. CASE EndOldChild
  <2> DEFINE m == Len(simpledata_vec)
             s == Top(char_data)
  <2>1. /\ stack # << >> /\ simpledata_vec # << >> /\ stack' = stack
        /\ simpledata_vec' = [simpledata_vec EXCEPT ![m].text = s]
        /\ char_data' = Pop(char_data) /\ in_old_schema_placemark' = FALSE
        /\ simplefield_name_vec' = simplefield_name_vec /\ phase' = AfterEnd
        /\ added' = added /\ content' = content /\ unknown' = unknown
    BY <1>13 DEF EndOldChild, AfterOldChild, tree
  <2>2. AllStrings(Pop(char_data), Tags') /\ StringOf(s, Tags')
    BY <1>3, <1>4, <1>5, <2>1, AllStringsTop
  <2>3. IsList(simpledata_vec)
        /\ \A i \in DOMAIN simpledata_vec : FieldOf(simpledata_vec[i], Tags', DOMAIN type')
    BY <1>2, PartsStay DEF Typed, FieldsTyped
  <2>4. DOMAIN simpledata_vec' = DOMAIN simpledata_vec /\ IsList(simpledata_vec')
    BY <2>1, <2>3, SetIsList
  <2>5. /\ \A i \in DOMAIN simpledata_vec \ {m} : simpledata_vec'[i] = simpledata_vec[i]
        /\ m \in DOMAIN simpledata_vec => simpledata_vec'[m] = [simpledata_vec[m] EXCEPT !.text = s]
    BY <2>1
  <2> HIDE DEF s, m
  <2>6. ASSUME m \in DOMAIN simpledata_vec PROVE FieldOf(simpledata_vec'[m], Tags', DOMAIN type')
    <3>1. FieldOf(simpledata_vec[m], Tags', DOMAIN type')
      BY <2>3, <2>6
    <3>2. /\ DOMAIN simpledata_vec'[m] = {"of", "text", "owner"}
          /\ simpledata_vec'[m].of = simpledata_vec[m].of
          /\ simpledata_vec'[m].text = s
          /\ simpledata_vec'[m].owner = simpledata_vec[m].owner
      BY <2>5, <2>6, <3>1 DEF FieldOf
    <3> QED BY <2>2, <3>1, <3>2 DEF FieldOf
  <2>7. FieldsTyped'
    BY <2>3, <2>4, <2>5, <2>6 DEF FieldsTyped
  <2>8. GatheredTyped'
    BY <2>1, <2>2 DEF GatheredTyped
  <2>9. NamesTyped'
    BY <1>8, <2>1 DEF Typed, NamesTyped
  <2> QED BY <1>2, <2>1, <2>7, <2>8, <2>9, PartsStay DEF Typed
<1>14. CASE EndKnown
  <2> DEFINE child == Top(stack)
             s == Top(char_data)
  <2>1. stack # << >>
    BY <1>14 DEF EndKnown
  <2>2. \/ EndUndefined
        \/ /\ char_data' = Pop(char_data) /\ content' = With(content, child, s)
           /\ simplefield_name_vec' \in {simplefield_name_vec,
                                         simplefield_name_vec \cup FieldsOf(child)}
           /\ simpledata_vec' \in {simpledata_vec, Adopted(child)}
           /\ \/ stack' = stack /\ added' = added
              \/ /\ Len(stack) >= 2 /\ stack' = Pop(stack)
                 /\ added' = added \cup Handed(stack[Len(stack) - 1], child)
           /\ phase' \in {AfterEnd, "stopped"}
           /\ in_old_schema_placemark' = in_old_schema_placemark /\ unknown' = unknown
    BY <1>14 DEF EndKnown
  <2>3. /\ child \in DOMAIN type' /\ AllStrings(Pop(char_data), Tags') /\ StringOf(s, Tags')
    BY <1>1, <1>3, <1>4, <1>5, <1>6, <2>1, AllStringsTop
  <2> HIDE DEF s, child
  <2>4. CASE /\ char_data' = Pop(char_data) /\ content' = With(content, child, s)
             /\ simplefield_name_vec' \in {simplefield_name_vec,
                                           simplefield_name_vec \cup FieldsOf(child)}
             /\ simpledata_vec' \in {simpledata_vec, Adopted(child)}
             /\ \/ stack' = stack /\ added' = added
                \/ /\ Len(stack) >= 2 /\ stack' = Pop(stack)
                   /\ added' = added \cup Handed(stack[Len(stack) - 1], child)
             /\ phase' \in {AfterEnd, "stopped"}
             /\ in_old_schema_placemark' = in_old_schema_placemark /\ unknown' = unknown
    <3>1. GatheredTyped'
      BY <2>3, <2>4 DEF GatheredTyped
    <3>2. ContentTyped'
      <4>1. /\ DOMAIN content' = DOMAIN content \cup {child} /\ content'[child] = s
            /\ \A t \in DOMAIN content \ {child} : content'[t] = content[t]
        BY <2>4 DEF With
      <4>2. DOMAIN content \subseteq DOMAIN type' /\ \A t \in DOMAIN content : StringOf(content[t], Tags')
        BY <1>1, <1>2 DEF Typed, ContentTyped
      <4> QED BY <2>3, <4>1, <4>2 DEF ContentTyped
    <3>3. StackTyped'
      <4>1. CASE stack' = stack
        BY <1>2, <4>1, PartsStay
      <4>2. CASE stack' = Pop(stack)
        <5>1. \A j \in 1..(Len(stack) - 1) : j \in DOMAIN stack
          <6>1. Len(stack) \in Nat /\ DOMAIN stack = 1..Len(stack)
            BY <1>6, <2>1
          <6> QED BY ONLY <6>1
        <5> QED BY <1>1, <1>6, <2>1, <4>2, <5>1 DEF StackTyped
      <4> QED BY <2>4, <4>1, <4>2
    <3>4. AddedTyped'
      <4>1. CASE added' = added
        BY <1>2, <4>1, PartsStay
      <4>2. CASE Len(stack) >= 2 /\ added' = added \cup Handed(stack[Len(stack) - 1], child)
        <5>1. Len(stack) - 1 \in DOMAIN stack
          <6>1. Len(stack) \in Nat /\ DOMAIN stack = 1..Len(stack)
            BY <1>6, <2>1
          <6> QED BY ONLY <6>1, <4>2
        <5>2. stack[Len(stack) - 1] \in DOMAIN type'
          BY <1>1, <1>6, <2>1, <5>1
        <5>3. \A pair \in added' : pair \in added \/ pair = <<stack[Len(stack) - 1], child>>
          BY <4>2 DEF Handed
        <5>4. \A pair \in added : {pair[1], pair[2]} \subseteq DOMAIN type'
          BY <1>1 DEF Typed, AddedTyped
        <5> QED BY <2>3, <5>2, <5>3, <5>4 DEF AddedTyped
      <4> QED BY <2>4, <4>1, <4>2
    <3>5. FieldsTyped'
      <4>1. IsList(simpledata_vec)
            /\ \A i \in DOMAIN simpledata_vec : FieldOf(simpledata_vec[i], Tags', DOMAIN type')
        BY <1>2, PartsStay DEF Typed, FieldsTyped
      <4>2. CASE simpledata_vec' = simpledata_vec
        BY <1>2, <4>2, PartsStay
      <4>3. CASE simpledata_vec' = Adopted(child)
        <5>1. IsList(simpledata_vec') /\ DOMAIN simpledata_vec' = DOMAIN simpledata_vec
          BY <4>1, <4>3, AdoptedIsList DEF Adopted
        <5>2. ASSUME NEW i \in DOMAIN simpledata_vec
              PROVE  FieldOf(simpledata_vec'[i], Tags', DOMAIN type')
          <6>1. FieldOf(simpledata_vec[i], Tags', DOMAIN type')
            BY <4>1
          <6>2. simpledata_vec'[i] \in {simpledata_vec[i], [simpledata_vec[i] EXCEPT !.owner = child]}
            BY <4>3 DEF Adopted
          <6>3. CASE simpledata_vec'[i] = [simpledata_vec[i] EXCEPT !.owner = child]
            <7>1. /\ DOMAIN simpledata_vec'[i] = {"of", "text", "owner"}
                  /\ simpledata_vec'[i].of = simpledata_vec[i].of
                  /\ simpledata_vec'[i].text = simpledata_vec[i].text
                  /\ simpledata_vec'[i].owner = child
              BY <6>1, <6>3 DEF FieldOf
            <7> QED BY <2>3, <6>1, <7>1 DEF FieldOf
          <6> QED BY <6>1, <6>2, <6>3
        <5> QED BY <5>1, <5>2 DEF FieldsTyped
      <4> QED BY <2>4, <4>2, <4>3
    <3>6. NamesTyped'
      <4>1. simplefield_name_vec' \subseteq {FieldName}
        BY <2>4 DEF FieldsOf, Typed, NamesTyped
      <4> QED BY <1>8, <2>4, <4>1 DEF Typed, NamesTyped
    <3>7. UnknownTyped'
      BY <1>2, <2>4, PartsStay
    <3> QED BY <1>2, <3>1, <3>2, <3>3, <3>4, <3>5, <3>6, <3>7 DEF Typed
  <2> QED BY <1>10, <2>2, <2>4
<1> QED BY <1>1, <1>11, <1>12, <1>13, <1>14

(* CharData.                                                               *)
LEMMA TextTyped ==
    ASSUME DocShape, Counters, Typed, CharData
    PROVE  Typed'
<1>1. /\ phase = "run" /\ open # << >> /\ texts < MaxTexts /\ texts' = texts + 1
      /\ doc' = doc /\ stack' = stack /\ type' = type /\ added' = added
      /\ content' = content /\ unknown' = unknown /\ simpledata_vec' = simpledata_vec
      /\ in_old_schema_placemark' = in_old_schema_placemark
      /\ old_schema_name' = old_schema_name /\ confused' = confused
      /\ simplefield_name_vec' = simplefield_name_vec
  BY DEF CharData, tree
<1>2. Tags' = Tags /\ Grows /\ DocTyped' /\ ElementsTyped'
  BY <1>1 DEF Tags, Grows, DocTyped, ElementsTyped, Typed
<1>3. char_data # << >>
  BY <1>1, RunCountersAre DEF Counters
<1>4. char_data' = AppendTop(char_data, Text(Top(open))) /\ phase' = phase
  BY <1>3 DEF CharData
<1>5. texts + 1 \in 1..MaxTexts /\ texts + 1 \in 0..MaxTexts
  <2>1. texts \in 0..MaxTexts /\ MaxTexts \in Nat
    BY BoundAssumption DEF Typed, NamesTyped
  <2> QED BY ONLY <1>1, <2>1
<1>6. TokenOf(Text(Top(open)), Tags')
  <2>1. Top(open) \in Tags
    <3>1. Len(open) \in 1..Len(open)
      <4>1. Len(open) \in Nat /\ Len(open) > 0
        BY <1>1, DocFacts
      <4> QED BY ONLY <4>1
    <3> QED BY <1>1, <3>1, DocFacts DEF Tags
  <2> QED BY <1>2, <1>5, <2>1, TokensAre
<1>7. GatheredTyped'
  <2>1. AllStrings(char_data, Tags')
    BY <1>2, PartsStay
  <2>2. AllStrings(AppendTop(char_data, Text(Top(open))), Tags')
    BY <1>3, <1>6, <2>1, AllStringsTop
  <2> QED BY <1>4, <2>2 DEF GatheredTyped
<1>8. NamesTyped'
  BY <1>1, <1>4, <1>5 DEF Typed, NamesTyped
<1> QED BY <1>1, <1>2, <1>7, <1>8, PartsStay DEF Typed

(* ParserStops, InputFails and a stutter.                                  *)
LEMMA NothingTyped ==
    ASSUME DocShape, Counters, Typed, UNCHANGED <<document, handler, tree, confused>>,
           phase' \in {phase, "stopped", "lost"}
    PROVE  Counters' /\ Typed'
<1>1. /\ doc' = doc /\ open' = open /\ texts' = texts /\ stack' = stack /\ char_data' = char_data
      /\ skip_depth' = skip_depth /\ in_description' = in_description
      /\ nesting_depth' = nesting_depth /\ old_schema_name' = old_schema_name
      /\ in_old_schema_placemark' = in_old_schema_placemark
      /\ simplefield_name_vec' = simplefield_name_vec /\ simpledata_vec' = simpledata_vec
      /\ type' = type /\ added' = added /\ content' = content /\ unknown' = unknown
      /\ confused' = confused
  BY DEF document, handler, tree
<1>2. \A base \in Nat : InnerDescriptions(base)' = InnerDescriptions(base)
  BY <1>1 DEF InnerDescriptions, IsDescription
<1>3. Below0' <=> Below0
  BY <1>1 DEF Below0
<1>4. \A base \in 1..Len(open) : Above0(base)' <=> Above0(base)
  <2>1. \A base \in 1..Len(open) : base \in Nat
    BY OpenBound
  <2> QED BY <1>1, <1>2, <2>1 DEF Above0, IsDescription
<1>5. RunCounters => RunCounters'
  BY <1>1, <1>3, <1>4 DEF RunCounters, Gathered
<1>6. Counters'
  BY <1>1, <1>5 DEF Counters
<1>7. Tags' = Tags /\ Grows /\ DocTyped' /\ ElementsTyped'
  BY <1>1 DEF Tags, Grows, DocTyped, ElementsTyped, Typed
<1>8. NamesTyped'
  BY <1>1 DEF Typed, NamesTyped
<1> QED BY <1>1, <1>6, <1>7, <1>8, PartsStay DEF Typed

LEMMA InitTypes == Init => Counters /\ Typed
<1> SUFFICES ASSUME Init PROVE Counters /\ Typed
  OBVIOUS
<1>1. /\ doc = << >> /\ open = << >> /\ stack = << >> /\ char_data = << >> /\ texts = 0
      /\ simpledata_vec = << >> /\ skip_depth = 0 /\ in_description = 0 /\ nesting_depth = 0
      /\ in_old_schema_placemark = FALSE /\ old_schema_name = "" /\ type = << >> /\ added = {}
      /\ content = << >> /\ unknown = {} /\ simplefield_name_vec = {}
      /\ phase = "run" /\ confused = FALSE
  BY DEF Init
<1>2. {MaxTags, MaxNesting, MaxTexts, UIntSize} \subseteq Nat /\ UIntSize > 0
  <2>1. MaxTags \in Nat /\ MaxNesting \in Nat /\ MaxTexts \in Nat /\ UIntSize \in Nat
        /\ UIntSize > 2 * (MaxTags + 1)
    BY BoundAssumption
  <2>2. UIntSize > 0
    BY ONLY <2>1
  <2> QED BY <2>1, <2>2
<1>3. IsList(<< >>) /\ Len(<< >>) = 0 /\ DOMAIN << >> = {}
  BY DEF IsList
<1>4. Counters
  <2>1. Len(open) = 0 /\ Len(char_data) = 0
    BY <1>1, <1>3
  <2>2. skip_depth = 0 /\ in_description = 0 /\ nesting_depth = 0
    BY <1>1
  <2>3. /\ skip_depth \in 0..MaxTags /\ in_description \in 0..(UIntSize - 1)
        /\ skip_depth \in 0..Len(open) /\ Len(char_data) = Len(open)
        /\ nesting_depth = Len(open) /\ Len(open) <= MaxNesting + 1 /\ Len(open) <= MaxNesting
        /\ in_description # 1
    BY ONLY <1>2, <2>1, <2>2
  <2>4. open = << >> /\ stack = << >> /\ old_schema_name = ""
    BY <1>1
  <2>5. RunCounters
    BY <2>2, <2>3, <2>4 DEF RunCounters, Gathered, Below0
  <2> QED BY <2>3, <2>4, <2>5 DEF Counters
<1>5. /\ DocTyped /\ StackTyped /\ GatheredTyped /\ FieldsTyped
      /\ ElementsTyped /\ AddedTyped /\ ContentTyped /\ UnknownTyped
  BY <1>1, <1>3 DEF DocTyped, StackTyped, GatheredTyped, FieldsTyped, AllStrings,
     ElementsTyped, AddedTyped, ContentTyped, UnknownTyped, Tags
<1>6. NamesTyped
  <2>1. 0 \in 0..MaxTexts
    BY ONLY <1>2
  <2> QED BY <1>1, <2>1 DEF NamesTyped
<1> QED BY <1>4, <1>5, <1>6 DEF Typed

LEMMA NextTypes == IInv /\ Counters /\ Typed /\ [Next]_vars => Counters' /\ Typed'
<1> SUFFICES ASSUME IInv, Counters, Typed, [Next]_vars PROVE Counters' /\ Typed'
  OBVIOUS
<1>1. DocShape /\ DocShape'
  BY NextIInv DEF IInv
<1>2. IsList(char_data) /\ IsList(stack)
  BY DEF Typed, GatheredTyped, AllStrings, StackTyped
<1>3. ASSUME NEW name \in Names, NEW parent \in BOOLEAN, Start(name, parent)
      PROVE  Counters' /\ Typed'
  BY <1>1, <1>2, <1>3, StartCounters, StartTyped
<1>4. CASE EndElement
  BY <1>1, <1>2, <1>4, EndCounters, EndTyped
<1>5. CASE CharData
  BY <1>1, <1>2, <1>5, TextCounters, TextTyped
<1>6. CASE ParserStops
  BY <1>1, <1>6, NothingTyped DEF ParserStops
<1>7. CASE InputFails
  BY <1>1, <1>7, NothingTyped DEF InputFails
<1>8. CASE UNCHANGED vars
  BY <1>1, <1>8, NothingTyped DEF vars
<1> QED BY <1>3, <1>4, <1>5, <1>6, <1>7, <1>8 DEF Next

(* The counters of StartElement and EndElement never leave their range and *)
(* every state component keeps its type, for any document, the confused    *)
(* ones included: skip_depth_ is what the strings of char_data_ say, and   *)
(* in_description_ counts the descriptions or has wrapped around.          *)
THEOREM HandlerTypeOK == Spec => []TypeOK
<1>1. IInv /\ Counters /\ Typed => TypeOK
  BY TypedIs DEF IInv
<1>2. Spec => [](Counters /\ Typed)
  BY InitTypes, NextTypes, HandlerInv, PTL DEF Spec
<1> QED BY <1>1, <1>2, HandlerInv, PTL

=============================================================================
