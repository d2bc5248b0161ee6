------------------------- MODULE DomElement_proofs -------------------------
(***************************************************************************)
(* The element engine, for every table of classes, every text and every    *)
(* number of rounds: an element has its shape (TypeOKAlways), loses        *)
(* nothing it is given while it is parsed (NothingIsLost), writes each     *)
(* thing it holds once (WrittenOnceAlways), is read back as it was written *)
(* (RoundTripAlways), and a visit reaches each of its children once        *)
(* (ChildrenVisitedAlways).  The hypotheses are facts of the tables:       *)
(* Covered, WrittenApart, VisitsReach, CallsReach.                         *)
(*                                                                         *)
(* In order: sequences, what a join of sequences (FlattenSeq) is made of,  *)
(* the places an item may be put in, what they hold of a text (Sound,      *)
(* Complete), what is written of them (Came), and the invariants Kept,     *)
(* Again and Seen, each of which adds to the one before it.                *)
(***************************************************************************)
EXTENDS DomElement, SequenceTheorems, FiniteSetTheorems, WellFoundedInduction, TLAPS

IsList(s) == s \in Seq(Range(s))

LEMMA EmptyList == IsList(<< >>) /\ Range(<< >>) = {}
BY DEF IsList, Range

LEMMA SingleList == \A e : IsList(<<e>>) /\ Range(<<e>>) = {e}
<1> TAKE e
<1>1. <<e>> \in Seq({e})
  OBVIOUS
<1>2. Range(<<e>>) = {<<e>>[i] : i \in 1..Len(<<e>>)}
  BY <1>1, RangeEquality
<1>3. Range(<<e>>) = {e}
  BY <1>2
<1> QED BY <1>1, <1>3 DEF IsList

LEMMA AppendList ==
    ASSUME NEW s, NEW e, IsList(s)
    PROVE  IsList(Append(s, e)) /\ Range(Append(s, e)) = Range(s) \cup {e}
<1> DEFINE S == Range(s) \cup {e}
<1>1. s \in Seq(S) /\ <<e>> \in Seq(S)
  <2>1. s \in Seq(Range(s)) /\ Range(s) \subseteq S
    BY DEF IsList
  <2>2. s \in Seq(S)
    BY <2>1, SeqMonotonic
  <2> QED BY <2>2
<1>2. Append(s, e) = s \o <<e>> /\ Append(s, e) \in Seq(S)
  BY <1>1, AppendIsConcat, AppendProperties
<1>3. Range(s \o <<e>>) = Range(s) \cup Range(<<e>>)
  <2> HIDE DEF S
  <2> QED BY ONLY <1>1, RangeConcatenation
<1>4. Range(Append(s, e)) = Range(s) \cup {e}
  BY <1>2, <1>3, SingleList
<1>5. IsList(Append(s, e))
  BY <1>2, SeqOfRange DEF IsList
<1> QED BY <1>4, <1>5

(* What a member holds after it was given an item.                         *)
LEMMA GivenList ==
    ASSUME NEW c, NEW m, NEW s, NEW i, IsList(s)
    PROVE  /\ IsList(Given(c, m, s, i))
           /\ Range(Given(c, m, s, i)) \subseteq Range(s) \cup {i}
           /\ m \in ClassRow[c].list => Range(s) \cup {i} \subseteq Range(Given(c, m, s, i))
           /\ ~IsBad(i) => i \in Range(Given(c, m, s, i))
<1>1. CASE m \in ClassRow[c].list
  BY <1>1, AppendList DEF Given
<1>2. CASE m \notin ClassRow[c].list /\ IsBad(i)
  BY <1>2, EmptyList DEF Given
<1>3. CASE m \notin ClassRow[c].list /\ ~IsBad(i)
  BY <1>3, SingleList DEF Given
<1> QED BY <1>1, <1>2, <1>3

-----------------------------------------------------------------------------
(* What a member holds was taken for this member: a child that leaves it   *)
(* leaves it for one with the same home.                                   *)
Shape ==
    /\ class \in Classes /\ next \in Nat
    /\ IsList(texts) /\ round \in 1..Len(texts)
    /\ held = [m \in Members(class) |-> held[m]]
    /\ \A m \in Members(class) : IsList(held[m])
    /\ IsList(misplaced) /\ IsList(unknown)

AtHome ==
    \A m \in Members(class) : \A i \in Range(held[m]) :
        Taken(class, i) /\ Home(class, i.type) = m

IInv == Shape /\ AtHome /\ NothingLost

(* The same child in the next state, of the same text.                     *)
SameText == class' = class /\ Text' = Text

LEMMA LongerRange ==
    ASSUME NEW m \in Nat, NEW n \in Nat, m <= n, NEW i \in Int
    PROVE  i..(m - 1) \subseteq i..(n - 1)
OBVIOUS

LEMMA ForgettableStays ==
    ASSUME SameText, next \in Nat, next' \in Nat, next <= next',
           NEW k \in 1..(next - 1), Forgettable(k)
    PROVE  Forgettable(k)'
<1>1. k + 1 \in Int
  OBVIOUS
<1>2. (k + 1)..(next - 1) \subseteq (k + 1)..(next' - 1)
  BY <1>1, LongerRange
<1> QED BY <1>2 DEF SameText, Forgettable

LEMMA InitIInv == Init => IInv
<1> SUFFICES ASSUME Init PROVE IInv
  OBVIOUS
<1>1. PICK t : texts = <<t>>
  BY DEF Init
<1>2. IsList(texts) /\ round \in 1..Len(texts)
  BY <1>1, SingleList DEF Init
<1>3. Shape
  BY <1>2, EmptyList DEF Init, Shape
<1>4. AtHome
  BY EmptyList DEF Init, AtHome
<1>5. NothingLost
  BY DEF Init, NothingLost
<1> QED BY <1>3, <1>4, <1>5 DEF IInv

(* A child goes into its member.                                           *)
LEMMA TakeIInv == ASSUME IInv, Covered, Take PROVE IInv'
<1> DEFINE m == Home(class, Cur.type)
<1> USE DEF IInv
<1>1. /\ SameText /\ class' = class /\ texts' = texts /\ round' = round
      /\ next' = next + 1 /\ next \in Nat /\ class \in Classes
      /\ misplaced' = misplaced /\ unknown' = unknown
      /\ Taken(class, Cur) /\ More
  BY DEF Take, HandOver, SameText, Text, Shape
<1>2. m \in Members(class)
  BY <1>1, SchemaAssumption DEF Taken, Known
<1>3. /\ held'[m] = Given(class, m, held[m], Cur)
      /\ \A n \in Members(class) \ {m} : held'[n] = held[n]
      /\ held' = [n \in Members(class) |-> held'[n]]
  BY <1>2 DEF Take, Shape
<1>4. /\ IsList(held'[m])
      /\ Range(held'[m]) \subseteq Range(held[m]) \cup {Cur}
      /\ m \in ClassRow[class].list => Range(held[m]) \cup {Cur} \subseteq Range(held'[m])
      /\ ~IsBad(Cur) => Cur \in Range(held'[m])
  BY <1>2, <1>3, GivenList DEF Shape
<1>5. Shape'
  BY <1>1, <1>3, <1>4 DEF Shape
<1>6. AtHome'
  <2> SUFFICES ASSUME NEW n \in Members(class), NEW i \in Range(held'[n])
               PROVE  Taken(class, i) /\ Home(class, i.type) = n
    BY <1>1 DEF AtHome, Members
  <2>1. CASE n = m
    BY <2>1, <1>1, <1>2, <1>4 DEF AtHome
  <2>2. CASE n # m
    BY <2>2, <1>3 DEF AtHome
  <2> QED BY <2>1, <2>2
<1>7. NothingLost'
  <2> SUFFICES ASSUME NEW k \in 1..next
               PROVE  Forgettable(k)' \/ Holds(Text.body[k])'
    BY <1>1 DEF NothingLost, SameText
  <2>1. CASE k = next
    <3>1. CASE <<class, Cur.type>> \in Unwritten
      BY <3>1, <2>1, <1>1 DEF Forgettable, SameText, Cur
    <3>2. CASE IsBad(Cur) /\ m \notin ClassRow[class].list
      BY <3>2, <2>1, <1>1 DEF Forgettable, SameText, Cur
    <3>3. CASE /\ <<class, Cur.type>> \notin Unwritten
               /\ ~IsBad(Cur) \/ m \in ClassRow[class].list
      <4>1. Cur \in Range(held'[m])
        BY <3>3, <1>4
      <4>2. m \in Range(CodeRow[class].writes)
        BY <3>3, <1>1 DEF Covered, Taken, Known
      <4> QED BY <4>1, <4>2, <2>1, <1>1 DEF Holds, SameText, Cur
    <3> QED BY <3>1, <3>2, <3>3
  <2>2. CASE k # next
    <3> DEFINE i == Text.body[k]
    <3>0. k \in 1..(next - 1)
      BY <2>2, <1>1
    <3>1. CASE Forgettable(k)
      BY <3>1, <3>0, <1>1, ForgettableStays
    <3>2. CASE CodeRow[class].keeps /\ i \in Range(misplaced) \cup Range(unknown)
      BY <3>2, <1>1 DEF Holds, SameText
    <3>3. CASE \E n \in Range(CodeRow[class].writes) : i \in Range(held[n])
      <4>1. PICK n \in Range(CodeRow[class].writes) : i \in Range(held[n])
        BY <3>3
      <4>2. CASE n \in Members(class) \ {m}
        BY <4>1, <4>2, <1>1, <1>3 DEF Holds, SameText
      <4>3. CASE n = m /\ m \in ClassRow[class].list
        BY <4>1, <4>3, <1>1, <1>4 DEF Holds, SameText
      <4>4. CASE n = m /\ m \notin ClassRow[class].list
        <5>1. Taken(class, i) /\ Home(class, i.type) = m
          BY <4>1, <4>4, <1>2 DEF AtHome
        <5>2. next \in (k + 1)..(next' - 1)
          BY <3>0, <1>1
        <5> QED BY <5>1, <5>2, <4>4, <1>1 DEF Forgettable, SameText, Cur
      <4>5. CASE n \notin Members(class)
        <5>1. held'[n] = held[n]
          BY <4>5, <1>2 DEF Take
        <5> QED BY <5>1, <4>1, <1>1 DEF Holds, SameText
      <4> QED BY <4>2, <4>3, <4>4, <4>5
    <3> QED BY <3>0, <3>1, <3>2, <3>3 DEF NothingLost, Holds
  <2> QED BY <2>1, <2>2
<1> QED BY <1>5, <1>6, <1>7

(* The other steps of the parse take nothing away.                         *)
LEMMA GrowIInv ==
    ASSUME IInv, SameText, texts' = texts, round' = round, next' = next + 1,
           held' = held,
           IsList(misplaced'), Range(misplaced) \subseteq Range(misplaced'),
           IsList(unknown'), Range(unknown) \subseteq Range(unknown'),
           NEW n, n = next, n # 0 => Forgettable(n)' \/ Holds(Text.body[n])'
    PROVE  IInv'
<1> USE DEF IInv
<1>1. next \in Nat /\ class' = class
  BY DEF Shape, SameText
<1>2. Shape'
  BY <1>1 DEF Shape
<1>3. AtHome'
  BY <1>1 DEF AtHome
<1>4. NothingLost'
  <2> SUFFICES ASSUME NEW k \in 1..next
               PROVE  Forgettable(k)' \/ Holds(Text.body[k])'
    BY <1>1 DEF NothingLost, SameText
  <2>1. CASE k = next
    BY <2>1 DEF SameText
  <2>2. CASE k \in 1..(next - 1) /\ Forgettable(k)
    BY <2>2, <1>1, ForgettableStays
  <2>3. CASE k \in 1..(next - 1) /\ Holds(Text.body[k])
    BY <2>3, <1>1 DEF Holds, SameText
  <2> QED BY <2>1, <2>2, <2>3, <1>1 DEF NothingLost
<1> QED BY <1>2, <1>3, <1>4

LEMMA OtherIInv ==
    ASSUME IInv, ParseAttributes \/ Drop \/ Misplace \/ AddUnknownElement PROVE IInv'
<1>1. /\ SameText /\ class' = class /\ texts' = texts /\ round' = round
      /\ next' = next + 1 /\ held' = held /\ next \in Nat
      /\ IsList(misplaced) /\ IsList(unknown)
  BY DEF IInv, Shape, ParseAttributes, Drop, Misplace, AddUnknownElement, HandOver,
         SameText, Text, element
<1>2. CASE ParseAttributes
  <2>1. next = 0 /\ misplaced' = misplaced /\ unknown' = unknown
    BY <1>2 DEF ParseAttributes
  <2> QED BY <2>1, <1>1, GrowIInv
<1>3. CASE Drop
  <2>1. misplaced' = misplaced /\ unknown' = unknown /\ Dropped(class, Cur)
    BY <1>3 DEF Drop, element
  <2> SUFFICES ASSUME NEW n, n = next PROVE IInv'
    OBVIOUS
  <2>2. Forgettable(n)'
    BY <2>1, <1>1 DEF Forgettable, SameText, Cur
  <2> QED BY <2>1, <2>2, <1>1, GrowIInv
<1>4. CASE Misplace
  <2>1. /\ IsList(misplaced') /\ Range(misplaced') = Range(misplaced) \cup {Cur}
        /\ unknown' = unknown /\ ~Taken(class, Cur)
    BY <1>4, <1>1, AppendList DEF Misplace
  <2> SUFFICES ASSUME NEW n, n = next PROVE IInv'
    OBVIOUS
  <2>2. Forgettable(n)' \/ Holds(Text.body[n])'
    BY <2>1, <1>1 DEF Forgettable, Holds, SameText, Cur
  <2> QED BY <2>1, <2>2, <1>1, GrowIInv
<1>5. CASE AddUnknownElement
  <2>1. /\ IsList(unknown') /\ Range(unknown') = Range(unknown) \cup {Cur}
        /\ misplaced' = misplaced /\ ~Taken(class, Cur)
    BY <1>5, <1>1, AppendList DEF AddUnknownElement, Taken
  <2> SUFFICES ASSUME NEW n, n = next PROVE IInv'
    OBVIOUS
  <2>2. Forgettable(n)' \/ Holds(Text.body[n])'
    BY <2>1, <1>1 DEF Forgettable, Holds, SameText, Cur
  <2> QED BY <2>1, <2>2, <1>1, GrowIInv
<1> QED BY <1>2, <1>3, <1>4, <1>5

LEMMA SerializeIInv == ASSUME IInv, Serialize PROVE IInv'
<1>1. /\ IsList(texts) /\ round \in 1..Len(texts)
      /\ UNCHANGED <<class, round, next, held, misplaced, unknown>>
  BY DEF IInv, Shape, Serialize, element
<1>2. IsList(texts') /\ round' \in 1..Len(texts') /\ Text' = Text
  <2> DEFINE t == Serialized
             S == Range(texts) \cup {t}
  <2> HIDE DEF t
  <2>1. texts' = Append(texts, t)
    BY DEF Serialize, t
  <2>2. texts \in Seq(Range(texts)) /\ Range(texts) \subseteq S
    BY <1>1 DEF IsList
  <2>3. texts \in Seq(S)
    BY <2>2, SeqMonotonic
  <2>4. /\ Len(texts') = Len(texts) + 1
        /\ \A i \in 1..Len(texts) : texts'[i] = texts[i]
    BY <2>1, <2>3, AppendProperties
  <2>5. Len(texts) \in Nat
    BY <2>3, LenProperties
  <2> QED BY <1>1, <2>1, <2>4, <2>5, AppendList DEF Text
<1> QED BY <1>1, <1>2 DEF IInv, Shape, AtHome, NothingLost, Forgettable, Holds

LEMMA ReparseIInv == ASSUME IInv, Reparse PROVE IInv'
<1>1. /\ IsList(texts) /\ round \in 1..Len(texts) /\ class' = class
      /\ round' = round + 1 /\ Len(texts) = round + 1
      /\ class \in Classes
  BY DEF IInv, Shape, Reparse
<1>2. IsList(texts') /\ round' \in 1..Len(texts')
  <2> DEFINE t == Reread(texts[round + 1])
             S == Range(texts) \cup {t}
  <2> HIDE DEF t
  <2>1. texts' = [texts EXCEPT ![round + 1] = t]
    BY DEF Reparse, t
  <2>2. texts \in Seq(Range(texts)) /\ Range(texts) \subseteq S
    BY <1>1 DEF IsList
  <2>3. texts \in Seq(S)
    BY <2>2, SeqMonotonic
  <2>4. round + 1 \in 1..Len(texts) /\ t \in S
    BY <1>1
  <2>5. texts' \in Seq(S) /\ Len(texts') = Len(texts)
    BY <2>1, <2>3, <2>4, ExceptSeq
  <2> QED BY <1>1, <2>4, <2>5, SeqOfRange DEF IsList
<1>3. Shape'
  BY <1>1, <1>2, EmptyList DEF Reparse, Shape, Members
<1>4. AtHome'
  BY <1>1, EmptyList DEF Reparse, AtHome, Members
<1>5. NothingLost'
  BY DEF Reparse, NothingLost
<1> QED BY <1>3, <1>4, <1>5 DEF IInv

LEMMA StutterIInv ==
    ASSUME IInv, UNCHANGED <<class, texts, round, next, element>>
    PROVE  IInv'
BY DEF element, IInv, Shape, AtHome, NothingLost, Forgettable, Holds, Text

LEMMA NextIInv == ASSUME IInv, Covered, [Next]_vars PROVE IInv'
<1>1. CASE Take
  BY <1>1, TakeIInv
<1>2. CASE ParseAttributes \/ Drop \/ Misplace \/ AddUnknownElement
  BY <1>2, OtherIInv
<1>3. CASE Serialize
  BY <1>3, SerializeIInv
<1>4. CASE Reparse
  BY <1>4, ReparseIInv
<1>5. CASE VisitPreorder \/ VisitPostorder \/ UNCHANGED vars
  BY <1>5, StutterIInv DEF VisitPreorder, VisitPostorder, vars
<1> QED BY <1>1, <1>2, <1>3, <1>4, <1>5 DEF Next, AddElement

(* Whatever is parsed, in whatever order, every child is held for writing  *)
(* or was forgotten in one of the ways the code has.                       *)
THEOREM NothingIsLost == ASSUME Covered PROVE Spec => []NothingLost
<1>1. Init => IInv
  BY InitIInv
<1>2. IInv /\ [Next]_vars => IInv'
  BY NextIInv
<1>3. IInv => NothingLost
  BY DEF IInv
<1> QED BY <1>1, <1>2, <1>3, PTL DEF Spec

-----------------------------------------------------------------------------
(* Induction up to a number, from the least one that fails.                *)
LEMMA SmallestNat ==
    ASSUME NEW T \in SUBSET Nat, T # {}
    PROVE  \E m \in T : \A n \in T : m <= n
<1> DEFINE R == OpToRel(<, Nat)
<1>1. \E m \in T : \A n \in T : ~ (<<n, m>> \in R)
  BY NatLessThanWellFounded, WFMin
<1>2. \A m, n \in T : ~ (<<n, m>> \in R) => m <= n
  BY DEF OpToRel
<1> QED BY <1>1, <1>2

(* What holds of 0 and passes from k - 1 to k.                             *)
Passes(N, G) == 0 \in G /\ \A k \in 1..N : k - 1 \in G => k \in G

LEMMA UpTo ==
    ASSUME NEW N \in Nat, NEW G, Passes(N, G)
    PROVE  \A k \in 0..N : k \in G
<1> USE DEF Passes
<1> DEFINE T == {k \in 0..N : k \notin G}
<1> SUFFICES ASSUME T # {} PROVE FALSE
  OBVIOUS
<1>1. T \in SUBSET Nat
  OBVIOUS
<1>2. PICK m \in T : \A n \in T : m <= n
  <2> HIDE DEF T
  <2> QED BY <1>1, SmallestNat
<1>3. m \in 1..N /\ m - 1 \in 0..N /\ ~ (m <= m - 1)
  BY <1>2
<1>4. m - 1 \in G
  BY <1>2, <1>3
<1> QED BY <1>2, <1>3, <1>4

-----------------------------------------------------------------------------
(* FlattenSeq joins sequences one after the other.                         *)
(* FlattenSeq is a recursive function, which JoinsTo unfolds.              *)
FlatUpTo(ss, n, g) == g = [k \in 1..n |-> IF k = 1 THEN ss[k] ELSE g[k - 1] \o ss[k]]

LEMMA FlatExists == ASSUME NEW ss, NEW N \in Nat PROVE \E g : FlatUpTo(ss, N, g)
<1> DEFINE G == {n \in 0..N : \E g : FlatUpTo(ss, n, g)}
<1>1. 0 \in G
  <2> DEFINE g == [k \in 1..0 |-> <<>>]
  <2>1. FlatUpTo(ss, 0, g)
    BY DEF FlatUpTo
  <2> QED BY <2>1
<1>2. ASSUME NEW n \in 1..N, n - 1 \in G PROVE n \in G
  <2>1. PICK g : FlatUpTo(ss, n - 1, g)
    BY <1>2
  <2> DEFINE last == IF n = 1 THEN ss[n] ELSE g[n - 1] \o ss[n]
             h == [k \in 1..n |-> IF k = n THEN last ELSE g[k]]
  <2>2. ASSUME NEW k \in 1..n
        PROVE  h[k] = IF k = 1 THEN ss[k] ELSE h[k - 1] \o ss[k]
    <3>1. CASE k = n
      <4>1. k # 1 => h[k - 1] = g[n - 1]
        BY <3>1
      <4> QED BY <3>1, <4>1
    <3>2. CASE k # n
      <4>1. k \in 1..(n - 1) /\ h[k] = g[k]
        BY <3>2
      <4>2. k # 1 => h[k - 1] = g[k - 1]
        BY <4>1
      <4>3. g[k] = IF k = 1 THEN ss[k] ELSE g[k - 1] \o ss[k]
        BY <2>1, <4>1 DEF FlatUpTo
      <4> HIDE DEF h
      <4> QED BY <4>1, <4>2, <4>3
    <3> QED BY <3>1, <3>2
  <2>3. h = [k \in 1..n |-> h[k]]
    OBVIOUS
  <2> HIDE DEF h
  <2>4. FlatUpTo(ss, n, h)
    BY <2>2, <2>3 DEF FlatUpTo
  <2> QED BY <2>4
<1> HIDE DEF G
<1>3. Passes(N, G)
  BY <1>1, <1>2 DEF Passes
<1>4. \A k \in 0..N : k \in G
  BY ONLY N \in Nat, <1>3, UpTo
<1>5. N \in 0..N
  OBVIOUS
<1> QED BY <1>4, <1>5 DEF G

(* f[k] joins the first k.                                                 *)
JoinsTo(ss, f) == f[0] = <<>> /\ \A k \in 1..Len(ss) : f[k] = f[k - 1] \o ss[k]

LEMMA JoinsToTyped ==
    ASSUME NEW T, NEW ss \in Seq(Seq(T)), NEW f, JoinsTo(ss, f)
    PROVE  \A k \in 0..Len(ss) : f[k] \in Seq(T)
<1> DEFINE N == Len(ss)
           G == {k \in 0..N : f[k] \in Seq(T)}
<1>0. N \in Nat /\ \A k \in 1..N : ss[k] \in Seq(T)
  OBVIOUS
<1>1. f[0] = <<>> /\ \A k \in 1..N : f[k] = f[k - 1] \o ss[k]
  BY DEF JoinsTo
<1> HIDE DEF N
<1>2. 0 \in G
  <2>1. f[0] \in Seq(T)
    BY ONLY <1>1
  <2>2. 0 \in 0..N
    BY ONLY <1>0
  <2> QED BY ONLY <2>1, <2>2
<1>3. ASSUME NEW k \in 1..N, k - 1 \in G PROVE k \in G
  <2>1. f[k - 1] \in Seq(T) /\ ss[k] \in Seq(T)
    BY <1>0, <1>3
  <2>2. f[k - 1] \o ss[k] \in Seq(T)
    BY <2>1, ConcatProperties
  <2>3. f[k] \in Seq(T)
    BY <1>1, <2>2
  <2> QED BY <1>0, <2>3
<1> HIDE DEF G
<1>4. Passes(N, G)
  BY <1>2, <1>3 DEF Passes
<1>5. N \in Nat
  BY <1>0
<1>6. \A k \in 0..N : k \in G
  BY ONLY <1>4, <1>5, UpTo
<1> QED BY <1>6 DEF G, N

LEMMA FlattenIs ==
    ASSUME NEW T, NEW ss \in Seq(Seq(T))
    PROVE  \E f : JoinsTo(ss, f) /\ FlattenSeq(ss) = f[Len(ss)]
<1> DEFINE N == Len(ss)
           g == CHOOSE h : FlatUpTo(ss, N, h)
<1>0. N \in Nat
  OBVIOUS
<1>1. FlatUpTo(ss, N, g)
  <2> HIDE DEF N
  <2> QED BY <1>0, FlatExists
<1>2. N # 0 => FlattenSeq(ss) = g[N]
  BY DEF FlattenSeq, FlatUpTo
<1>3. N = 0 => FlattenSeq(ss) = <<>>
  BY DEF FlattenSeq
<1> DEFINE f == [k \in 0..N |-> IF k = 0 THEN <<>> ELSE g[k]]
<1> HIDE DEF g
<1>4. \A k \in 1..N : g[k] = IF k = 1 THEN ss[k] ELSE g[k - 1] \o ss[k]
  <2> HIDE DEF N
  <2> QED BY <1>1 DEF FlatUpTo
<1>5. ASSUME NEW k \in 1..N PROVE f[k] = f[k - 1] \o ss[k]
  <2>1. ss[k] \in Seq(T)
    OBVIOUS
  <2>2. <<>> \o ss[k] = ss[k]
    BY <2>1, ConcatEmptySeq
  <2> HIDE DEF N
  <2>3. CASE k = 1
    <3>1. f[k] = g[k] /\ f[k - 1] = <<>> /\ g[k] = ss[k]
      BY <1>0, <1>4, <2>3
    <3> QED BY <2>2, <3>1
  <2>4. CASE k # 1
    <3>0. k \in 0..N /\ k - 1 \in 0..N /\ k - 1 # 0 /\ k # 0
      BY <1>0, <2>4
    <3>1. f[k] = g[k] /\ f[k - 1] = g[k - 1] /\ g[k] = g[k - 1] \o ss[k]
      BY <1>4, <2>4, <3>0
    <3> QED BY <3>1
  <2> QED BY <2>3, <2>4
<1>6. f[0] = <<>>
  BY <1>0
<1>7. f[N] = IF N = 0 THEN <<>> ELSE g[N]
  BY <1>0
<1> HIDE DEF f
<1>8. JoinsTo(ss, f)
  BY <1>5, <1>6 DEF JoinsTo
<1> QED BY <1>2, <1>3, <1>7, <1>8

LEMMA FlattenType ==
    ASSUME NEW T, NEW ss \in Seq(Seq(T)) PROVE FlattenSeq(ss) \in Seq(T)
<1>1. PICK f : JoinsTo(ss, f) /\ FlattenSeq(ss) = f[Len(ss)]
  BY FlattenIs
<1>2. Len(ss) \in 0..Len(ss)
  OBVIOUS
<1> QED BY <1>1, <1>2, JoinsToTyped

LEMMA FlattenEmpty == FlattenSeq(<<>>) = <<>>
BY DEF FlattenSeq

-----------------------------------------------------------------------------
(* Where each element of a join comes from: k is from o[k] of ss[b[k]].    *)
Lays(ss, s, b, o) ==
    /\ b \in [1..Len(s) -> 1..Len(ss)] /\ o \in [1..Len(s) -> Nat]
    /\ \A k \in 1..Len(s) : o[k] \in 1..Len(ss[b[k]]) /\ s[k] = ss[b[k]][o[k]]
    /\ \A j, k \in 1..Len(s) : j < k => b[j] < b[k] \/ (b[j] = b[k] /\ o[j] < o[k])
    /\ \A i \in 1..Len(ss) : \A q \in 1..Len(ss[i]) :
         \E k \in 1..Len(s) : b[k] = i /\ o[k] = q

IsJoin(ss, s) == \E b, o : Lays(ss, s, b, o)

LEMMA JoinEmpty == IsJoin(<<>>, <<>>)
<1> DEFINE b == [k \in 1..0 |-> 1]
<1>1. Lays(<<>>, <<>>, b, b)
  BY DEF Lays
<1> QED BY <1>1 DEF IsJoin

(* tt is ss and then a, t is s and then a's elements.                      *)
Longer(ss, tt, s, t, a) ==
    /\ Len(ss) \in Nat /\ Len(s) \in Nat /\ Len(a) \in Nat
    /\ Len(tt) = Len(ss) + 1 /\ tt[Len(ss) + 1] = a
    /\ \A i \in 1..Len(ss) : tt[i] = ss[i]
    /\ Len(t) = Len(s) + Len(a)
    /\ \A k \in 1..Len(s) : t[k] = s[k]
    /\ \A k \in 1..Len(a) : t[Len(s) + k] = a[k]

LEMMA JoinLonger ==
    ASSUME NEW ss, NEW tt, NEW s, NEW t, NEW a, NEW b, NEW o,
           Lays(ss, s, b, o), Longer(ss, tt, s, t, a)
    PROVE  IsJoin(tt, t)
<1> DEFINE N == Len(ss)
           L == Len(s)
           M == Len(a)
           c == [k \in 1..(L + M) |-> IF k <= L THEN b[k] ELSE N + 1]
           p == [k \in 1..(L + M) |-> IF k <= L THEN o[k] ELSE k - L]
<1>0. N \in Nat /\ L \in Nat /\ M \in Nat /\ Len(tt) = N + 1 /\ Len(t) = L + M
  BY DEF Longer
<1>1. /\ \A k \in 1..L : b[k] \in 1..N /\ o[k] \in Nat
      /\ \A k \in 1..L : o[k] \in 1..Len(ss[b[k]]) /\ s[k] = ss[b[k]][o[k]]
      /\ \A j, k \in 1..L : j < k => b[j] < b[k] \/ (b[j] = b[k] /\ o[j] < o[k])
      /\ \A i \in 1..N : \A q \in 1..Len(ss[i]) : \E k \in 1..L : b[k] = i /\ o[k] = q
  BY DEF Lays
<1>2. /\ \A i \in 1..N : tt[i] = ss[i]
      /\ tt[N + 1] = a
      /\ \A k \in 1..L : t[k] = s[k]
      /\ \A k \in 1..M : t[L + k] = a[k]
  BY DEF Longer
<1> HIDE DEF N, L
<1>3. \A k \in 1..(L + M) :
        \/ k \in 1..L /\ c[k] = b[k] /\ p[k] = o[k]
        \/ k > L /\ k - L \in 1..M /\ c[k] = N + 1 /\ p[k] = k - L
  BY <1>0
<1>4. c \in [1..(L + M) -> 1..(N + 1)] /\ p \in [1..(L + M) -> Nat]
  BY <1>0, <1>1
<1> HIDE DEF c, p, M
<1>5. ASSUME NEW k \in 1..(L + M) PROVE p[k] \in 1..Len(tt[c[k]]) /\ t[k] = tt[c[k]][p[k]]
  <2>1. CASE k \in 1..L /\ c[k] = b[k] /\ p[k] = o[k]
    <3>1. b[k] \in 1..N /\ o[k] \in 1..Len(ss[b[k]]) /\ s[k] = ss[b[k]][o[k]] /\ t[k] = s[k]
      BY <2>1, <1>1, <1>2
    <3>2. tt[b[k]] = ss[b[k]]
      BY <3>1, <1>2
    <3> QED BY ONLY <2>1, <3>1, <3>2
  <2>2. CASE k > L /\ k - L \in 1..M /\ c[k] = N + 1 /\ p[k] = k - L
    <3>1. tt[c[k]] = a /\ t[L + (k - L)] = a[k - L] /\ L + (k - L) = k
      BY <2>2, <1>0, <1>2
    <3> QED BY <3>1, <2>2 DEF M
  <2> QED BY <2>1, <2>2, <1>3
<1>6. ASSUME NEW j \in 1..(L + M), NEW k \in 1..(L + M), j < k
      PROVE  c[j] < c[k] \/ (c[j] = c[k] /\ p[j] < p[k])
  <2>1. CASE k \in 1..L /\ c[k] = b[k] /\ p[k] = o[k]
    BY <2>1, <1>0, <1>1, <1>3, <1>6
  <2>2. CASE k > L /\ k - L \in 1..M /\ c[k] = N + 1 /\ p[k] = k - L
    <3>1. CASE j \in 1..L /\ c[j] = b[j]
      <4>1. b[j] \in 1..N
        BY <3>1, <1>1
      <4> QED BY <4>1, <3>1, <2>2, <1>0
    <3>2. CASE c[j] = N + 1 /\ p[j] = j - L
      BY <3>2, <2>2, <1>0, <1>6
    <3> QED BY <3>1, <3>2, <1>3
  <2> QED BY <2>1, <2>2, <1>3
<1>7. ASSUME NEW i \in 1..(N + 1), NEW q \in 1..Len(tt[i])
      PROVE  \E k \in 1..(L + M) : c[k] = i /\ p[k] = q
  <2>1. CASE i \in 1..N
    <3>1. PICK k \in 1..L : b[k] = i /\ o[k] = q
      BY <2>1, <1>1, <1>2, <1>7
    <3>2. k \in 1..(L + M) /\ ~ (k > L)
      BY <1>0
    <3> QED BY <3>1, <3>2, <1>3
  <2>2. CASE i = N + 1
    <3>1. q \in 1..M
      BY <2>2, <1>2 DEF M
    <3>2. L + q \in 1..(L + M) /\ ~ (L + q \in 1..L) /\ (L + q) - L = q
      BY <3>1, <1>0
    <3> QED BY <2>2, <3>2, <1>3
  <2> QED BY <2>1, <2>2, <1>0
<1>8. Lays(tt, t, c, p)
  <2> DEFINE A == Len(tt)
             B == Len(t)
  <2>1. A = N + 1 /\ B = L + M
    BY <1>0
  <2> HIDE DEF A, B
  <2>2. /\ c \in [1..B -> 1..A] /\ p \in [1..B -> Nat]
        /\ \A k \in 1..B : p[k] \in 1..Len(tt[c[k]]) /\ t[k] = tt[c[k]][p[k]]
        /\ \A j, k \in 1..B : j < k => c[j] < c[k] \/ (c[j] = c[k] /\ p[j] < p[k])
        /\ \A i \in 1..A : \A q \in 1..Len(tt[i]) : \E k \in 1..B : c[k] = i /\ p[k] = q
    BY ONLY <2>1, <1>4, <1>5, <1>6, <1>7
  <2> QED BY ONLY <2>2 DEF Lays, A, B
<1> QED BY <1>8 DEF IsJoin

LEMMA JoinAppend ==
    ASSUME NEW T, NEW ss \in Seq(Seq(T)), NEW s \in Seq(T), NEW a \in Seq(T), IsJoin(ss, s)
    PROVE  IsJoin(Append(ss, a), s \o a)
<1> DEFINE S == Seq(T)
           tt == Append(ss, a)
           t == s \o a
<1>1. /\ Len(t) = Len(s) + Len(a) /\ Len(s) \in Nat /\ Len(a) \in Nat
      /\ \A k \in 1..Len(s) : t[k] = s[k]
  BY ConcatProperties, LenProperties
<1>2. /\ \A k \in 1..Len(a) : t[Len(s) + k] = a[k]
      /\ Len(t) = Len(s) + Len(a)
  OBVIOUS
<1>3. ss \in Seq(S) /\ a \in S
  OBVIOUS
<1> HIDE DEF S, t
<1>4. /\ Len(tt) = Len(ss) + 1 /\ \A i \in 1..Len(ss) : tt[i] = ss[i]
      /\ tt[Len(ss) + 1] = a
  BY <1>3, AppendProperties
<1>5. Len(ss) \in Nat
  BY <1>3, LenProperties
<1> HIDE DEF tt
<1>6. PICK b, o : Lays(ss, s, b, o)
  BY DEF IsJoin
<1>7. IsJoin(tt, t)
  <2>1. Longer(ss, tt, s, t, a)
    BY ONLY <1>1, <1>2, <1>4, <1>5 DEF Longer
  <2> QED BY <1>6, <2>1, JoinLonger
<1> QED BY <1>7 DEF tt, t

LEMMA FlattenJoins ==
    ASSUME NEW T, NEW ss \in Seq(Seq(T)) PROVE IsJoin(ss, FlattenSeq(ss))
<1> DEFINE N == Len(ss)
           S == Seq(T)
           First(k) == [i \in 1..k |-> ss[i]]
<1>1. PICK f : JoinsTo(ss, f) /\ FlattenSeq(ss) = f[N]
  BY FlattenIs
<1>2. /\ f[0] = <<>> /\ \A k \in 1..N : f[k] = f[k - 1] \o ss[k]
      /\ \A k \in 0..N : f[k] \in S
  BY <1>1, JoinsToTyped DEF JoinsTo
<1>3. N \in Nat /\ \A k \in 1..N : ss[k] \in S
  OBVIOUS
<1> DEFINE G == {k \in 0..N : IsJoin(First(k), f[k])}
<1>4. ss = First(N)
  OBVIOUS
<1> HIDE DEF N, S
<1>5. 0 \in G
  <2>1. First(0) = <<>>
    OBVIOUS
  <2>2. IsJoin(First(0), f[0])
    BY <2>1, <1>2, JoinEmpty
  <2> QED BY <2>2, <1>3
<1>6. ASSUME NEW k \in 1..N, k - 1 \in G PROVE k \in G
  <2> DEFINE A == First(k - 1)
  <2>1. A \in Seq(S)
    BY <1>3
  <2>2. First(k) = Append(A, ss[k])
    BY <1>3
  <2>3. IsJoin(A, f[k - 1]) /\ f[k - 1] \in S /\ ss[k] \in S /\ f[k] = f[k - 1] \o ss[k]
    BY <1>2, <1>3, <1>6
  <2> HIDE DEF A, First
  <2>4. IsJoin(Append(A, ss[k]), f[k - 1] \o ss[k])
    BY <2>1, <2>3, JoinAppend DEF S
  <2>5. IsJoin(First(k), f[k])
    BY <2>2, <2>3, <2>4
  <2> QED BY <2>5, <1>3
<1> HIDE DEF G
<1>7. Passes(N, G)
  BY <1>5, <1>6 DEF Passes
<1>8. N \in G
  BY <1>3, <1>7, UpTo
<1> QED BY <1>1, <1>4, <1>8 DEF G

-----------------------------------------------------------------------------
(* Where AddElement and AddUnknownElement put an item: a member, the       *)
(* misplaced or the unknown ones.                                          *)
Misplaced == <<1, 0>>
Unknown   == <<2, 0>>
Member(m) == <<0, m>>

Places(c) == {Member(m) : m \in Members(c)} \cup {Misplaced, Unknown}

PlaceOf(c, i) ==
    IF ~Known(i) THEN Unknown
    ELSE IF Taken(c, i) THEN Member(Home(c, i.type)) ELSE Misplaced

Single(c, p) == p[1] = 0 /\ p[2] \notin ClassRow[c].list

Put(c, p, s, i) == IF p[1] = 0 THEN Given(c, p[2], s, i) ELSE Append(s, i)

(* The items whose type the parser finds again.                            *)
Fit(c) == {i \in Items : ReadAs(c, NameOf(i.type)) = i.type}

IdsDiffer(b) == \A j, k \in 1..Len(b) : b[j].id = b[k].id => j = k

(* s has some of the first n elements of b, in their order.                *)
Increases(f, n) == \A j, k \in 1..n : j < k => f[j] < f[k]
Picks(s, b, n) ==
    \E f \in [1..Len(s) -> 1..n] :
        Increases(f, Len(s)) /\ \A k \in 1..Len(s) : s[k] = b[f[k]]

(* What each place holds of the first n items of b: those that belong      *)
(* there, and of a member for one child the last good one at most.         *)
SoundAt(s, p, c, b, n) ==
    /\ Picks(s, b, n)
    /\ \A k \in 1..Len(s) : PlaceOf(c, s[k]) = p /\ ~Dropped(c, s[k])
    /\ Single(c, p) => Len(s) <= 1 /\ \A k \in 1..Len(s) : ~IsBad(s[k])

Sound(st, c, b, n) == \A p \in Places(c) : SoundAt(st[p], p, c, b, n)

LEMMA PicksNone == ASSUME NEW b, NEW n \in Int PROVE Picks(<<>>, b, n)
<1> DEFINE f == [k \in 1..0 |-> 1]
<1>1. f \in [1..Len(<<>>) -> 1..n]
  OBVIOUS
<1>2. Increases(f, Len(<<>>)) /\ \A k \in 1..Len(<<>>) : <<>>[k] = b[f[k]]
  BY DEF Increases
<1> QED BY <1>1, <1>2 DEF Picks

LEMMA PicksMore ==
    ASSUME NEW s, NEW b, NEW n \in Int, Picks(s, b, n) PROVE Picks(s, b, n + 1)
<1>1. PICK f \in [1..Len(s) -> 1..n] :
        Increases(f, Len(s)) /\ \A k \in 1..Len(s) : s[k] = b[f[k]]
  BY DEF Picks
<1>2. 1..n \subseteq 1..(n + 1)
  OBVIOUS
<1>3. f \in [1..Len(s) -> 1..(n + 1)]
  BY ONLY <1>1, <1>2
<1> QED BY <1>1, <1>3 DEF Picks

LEMMA PicksOne ==
    ASSUME NEW b, NEW n \in Nat PROVE Picks(<<b[n + 1]>>, b, n + 1)
<1> DEFINE f == [k \in 1..1 |-> n + 1]
           s == <<b[n + 1]>>
<1>1. Len(s) = 1 /\ s[1] = b[n + 1]
  OBVIOUS
<1> HIDE DEF s
<1>2. f \in [1..Len(s) -> 1..(n + 1)]
  BY <1>1
<1>3. Increases(f, Len(s)) /\ \A k \in 1..Len(s) : s[k] = b[f[k]]
  BY <1>1 DEF Increases
<1>4. Picks(s, b, n + 1)
  BY <1>2, <1>3 DEF Picks
<1> QED BY <1>4 DEF s

LEMMA PicksAppend ==
    ASSUME NEW T, NEW s \in Seq(T), NEW b, NEW n \in Nat, b[n + 1] \in T, Picks(s, b, n)
    PROVE  Picks(Append(s, b[n + 1]), b, n + 1)
<1> DEFINE L == Len(s)
           t == Append(s, b[n + 1])
           g(f) == [k \in 1..(L + 1) |-> IF k <= L THEN f[k] ELSE n + 1]
<1>1. PICK f \in [1..L -> 1..n] : Increases(f, L) /\ \A k \in 1..L : s[k] = b[f[k]]
  BY DEF Picks
<1>2. /\ L \in Nat /\ Len(t) = L + 1 /\ t[L + 1] = b[n + 1]
      /\ \A k \in 1..L : t[k] = s[k]
  BY AppendProperties, LenProperties
<1> HIDE DEF L, t
<1>3. \A k \in 1..(L + 1) : IF k <= L THEN k \in 1..L /\ g(f)[k] = f[k] /\ f[k] \in 1..n
                                      ELSE k = L + 1 /\ g(f)[k] = n + 1
  BY <1>1, <1>2
<1>4. g(f) = [k \in 1..(L + 1) |-> g(f)[k]]
  OBVIOUS
<1> HIDE DEF g
<1>5. g(f) \in [1..(L + 1) -> 1..(n + 1)]
  <2>1. \A k \in 1..(L + 1) : g(f)[k] \in 1..(n + 1)
    BY <1>3
  <2> QED BY <1>4, <2>1
<1>6. Increases(g(f), L + 1)
  <2> SUFFICES ASSUME NEW j \in 1..(L + 1), NEW k \in 1..(L + 1), j < k
               PROVE  g(f)[j] < g(f)[k]
    BY DEF Increases
  <2>1. j <= L /\ j \in 1..L /\ g(f)[j] = f[j] /\ f[j] \in 1..n
    BY <1>2, <1>3
  <2> QED BY <1>1, <1>2, <1>3, <2>1 DEF Increases
<1>7. \A k \in 1..(L + 1) : t[k] = b[g(f)[k]]
  BY <1>1, <1>2, <1>3
<1>8. Picks(t, b, n + 1)
  BY <1>2, <1>5, <1>6, <1>7 DEF Picks
<1> QED BY <1>8 DEF t

LEMMA PlacesApart ==
    ASSUME NEW c, NEW m, NEW n
    PROVE  /\ Member(m) = Member(n) <=> m = n
           /\ Member(m)[1] = 0 /\ Member(m)[2] = m
           /\ Misplaced[1] = 1 /\ Unknown[1] = 2
           /\ Member(m) # Misplaced /\ Member(m) # Unknown /\ Misplaced # Unknown
           /\ ~Single(c, Misplaced) /\ ~Single(c, Unknown)
           /\ Single(c, Member(m)) <=> m \notin ClassRow[c].list
BY DEF Member, Misplaced, Unknown, Single

LEMMA PlaceExists ==
    ASSUME NEW c \in Classes, NEW i PROVE PlaceOf(c, i) \in Places(c)
<1>1. CASE Known(i) /\ Taken(c, i)
  <2>1. Home(c, i.type) \in Members(c)
    BY <1>1, SchemaAssumption DEF Taken, Known
  <2> QED BY <1>1, <2>1 DEF PlaceOf, Places
<1> QED BY <1>1 DEF PlaceOf, Places

(* What a place holds after it was given an item.                          *)
LEMMA PutIs ==
    ASSUME NEW c, NEW p, NEW s, NEW i
    PROVE  IF Single(c, p) THEN Put(c, p, s, i) = IF IsBad(i) THEN <<>> ELSE <<i>>
                           ELSE Put(c, p, s, i) = Append(s, i)
BY DEF Put, Given, Single

LEMMA PutType ==
    ASSUME NEW c, NEW p, NEW T, NEW s \in Seq(T), NEW i \in T
    PROVE  Put(c, p, s, i) \in Seq(T)
<1>1. Append(s, i) \in Seq(T) /\ <<>> \in Seq(T) /\ <<i>> \in Seq(T)
  BY AppendProperties
<1>2. \/ Put(c, p, s, i) = Append(s, i)
      \/ Put(c, p, s, i) = <<>>
      \/ Put(c, p, s, i) = <<i>>
  BY PutIs
<1> QED BY ONLY <1>1, <1>2

LEMMA SoundMore ==
    ASSUME NEW s, NEW p, NEW c, NEW b, NEW n \in Int, SoundAt(s, p, c, b, n)
    PROVE  SoundAt(s, p, c, b, n + 1)
BY PicksMore DEF SoundAt

LEMMA SoundNone ==
    ASSUME NEW p, NEW c, NEW b, NEW n \in Int PROVE SoundAt(<<>>, p, c, b, n)
<1>1. Len(<<>>) = 0
  OBVIOUS
<1> QED BY <1>1, PicksNone DEF SoundAt

LEMMA SoundOne ==
    ASSUME NEW p, NEW c, NEW b, NEW n \in Nat, PlaceOf(c, b[n + 1]) = p,
           ~Dropped(c, b[n + 1]), ~IsBad(b[n + 1])
    PROVE  SoundAt(<<b[n + 1]>>, p, c, b, n + 1)
<1> DEFINE s == <<b[n + 1]>>
<1>1. Len(s) = 1 /\ \A k \in 1..Len(s) : s[k] = b[n + 1]
  OBVIOUS
<1>2. Picks(s, b, n + 1)
  BY PicksOne
<1> HIDE DEF s
<1>3. SoundAt(s, p, c, b, n + 1)
  BY <1>1, <1>2 DEF SoundAt
<1> QED BY <1>3 DEF s

LEMMA SoundAppend ==
    ASSUME NEW T, NEW s \in Seq(T), NEW p, NEW c, NEW b, NEW n \in Nat, b[n + 1] \in T,
           SoundAt(s, p, c, b, n), ~Single(c, p),
           PlaceOf(c, b[n + 1]) = p, ~Dropped(c, b[n + 1])
    PROVE  SoundAt(Append(s, b[n + 1]), p, c, b, n + 1)
<1> DEFINE t == Append(s, b[n + 1])
           L == Len(s)
<1>1. Picks(t, b, n + 1)
  BY PicksAppend DEF SoundAt
<1>2. /\ L \in Nat /\ Len(t) = L + 1 /\ t[L + 1] = b[n + 1]
      /\ \A k \in 1..L : t[k] = s[k]
  BY AppendProperties, LenProperties
<1>3. \A k \in 1..L : PlaceOf(c, s[k]) = p /\ ~Dropped(c, s[k])
  BY DEF SoundAt
<1> HIDE DEF L, t
<1>4. \A k \in 1..(L + 1) : k \in 1..L \/ k = L + 1
  BY <1>2
<1>5. \A k \in 1..Len(t) : PlaceOf(c, t[k]) = p /\ ~Dropped(c, t[k])
  BY <1>2, <1>3, <1>4
<1>6. SoundAt(t, p, c, b, n + 1)
  BY <1>1, <1>5 DEF SoundAt
<1> QED BY <1>6 DEF t

LEMMA SoundPut ==
    ASSUME NEW c, NEW T, NEW st \in [Places(c) -> Seq(T)], NEW b, NEW n \in Nat, b[n + 1] \in T,
           Sound(st, c, b, n), ~Dropped(c, b[n + 1]), NEW q \in Places(c),
           q = PlaceOf(c, b[n + 1])
    PROVE  Sound([st EXCEPT ![q] = Put(c, q, @, b[n + 1])], c, b, n + 1)
<1> DEFINE i == b[n + 1]
           v == Put(c, q, st[q], i)
           new == [st EXCEPT ![q] = v]
<1>1. new[q] = v /\ \A p \in Places(c) : p # q => new[p] = st[p]
  OBVIOUS
<1>2. st[q] \in Seq(T) /\ \A p \in Places(c) : SoundAt(st[p], p, c, b, n)
  BY DEF Sound
<1>3. SoundAt(v, q, c, b, n + 1)
  <2>1. CASE Single(c, q) /\ IsBad(i)
    BY <2>1, PutIs, SoundNone
  <2>2. CASE Single(c, q) /\ ~IsBad(i)
    <3>1. v = <<i>>
      BY <2>2, PutIs
    <3>2. SoundAt(<<b[n + 1]>>, q, c, b, n + 1)
      BY <2>2, SoundOne
    <3> QED BY <3>1, <3>2
  <2>3. CASE ~Single(c, q)
    <3>1. SoundAt(Append(st[q], b[n + 1]), q, c, b, n + 1)
      BY <2>3, <1>2, SoundAppend
    <3>2. v = Append(st[q], i)
      BY <2>3, PutIs
    <3> QED BY <3>1, <3>2
  <2> QED BY <2>1, <2>2, <2>3
<1> HIDE DEF new, v
<1>4. ASSUME NEW p \in Places(c) PROVE SoundAt(new[p], p, c, b, n + 1)
  <2>1. CASE p = q
    BY <2>1, <1>1, <1>3
  <2>2. CASE p # q
    BY <2>2, <1>1, <1>2, SoundMore
  <2> QED BY <2>1, <2>2
<1>5. Sound(new, c, b, n + 1)
  BY <1>4 DEF Sound
<1> QED BY <1>5 DEF new, v

(* A text as Serialize writes one: nothing that AddElement drops, takes    *)
(* away or replaces.                                                       *)
Lasting(c, b) ==
    \A j \in 1..Len(b) :
        /\ ~Dropped(c, b[j])
        /\ Single(c, PlaceOf(c, b[j])) =>
             ~IsBad(b[j]) /\ \A k \in 1..Len(b) : PlaceOf(c, b[k]) = PlaceOf(c, b[j]) => k = j

(* The first n items of b are held.                                        *)
Complete(st, c, b, n) ==
    \A k \in 1..n : \E j \in 1..Len(st[PlaceOf(c, b[k])]) : st[PlaceOf(c, b[k])][j] = b[k]

LEMMA CompletePut ==
    ASSUME NEW c \in Classes, NEW T, NEW st \in [Places(c) -> Seq(T)], NEW b, NEW n \in Nat,
           b[n + 1] \in T, Len(b) \in Nat, n + 1 <= Len(b),
           Lasting(c, b), Complete(st, c, b, n), NEW q \in Places(c), q = PlaceOf(c, b[n + 1])
    PROVE  Complete([st EXCEPT ![q] = Put(c, q, @, b[n + 1])], c, b, n + 1)
<1> DEFINE i == b[n + 1]
           v == Put(c, q, st[q], i)
           new == [st EXCEPT ![q] = v]
           Has(s, x) == \E j \in 1..Len(s) : s[j] = x
<1>1. new[q] = v /\ \A p \in Places(c) : p # q => new[p] = st[p]
  OBVIOUS
<1>2. ASSUME NEW s \in Seq(T), NEW x, Has(s, x) \/ x = i PROVE Has(Append(s, i), x)
  <2>1. /\ Len(Append(s, i)) = Len(s) + 1 /\ Append(s, i)[Len(s) + 1] = i /\ Len(s) \in Nat
        /\ \A k \in 1..Len(s) : Append(s, i)[k] = s[k]
    BY AppendProperties, LenProperties
  <2>2. CASE x = i
    BY <2>1, <2>2
  <2>3. CASE Has(s, x)
    <3>1. PICK j \in 1..Len(s) : s[j] = x
      BY <2>3
    <3>2. j \in 1..Len(Append(s, i)) /\ Append(s, i)[j] = x
      BY <2>1, <3>1
    <3> QED BY <3>2
  <2> QED BY <1>2, <2>2, <2>3
<1>3. Has(<<i>>, i)
  OBVIOUS
<1>4. st[q] \in Seq(T)
  OBVIOUS
<1>5. n + 1 \in 1..Len(b)
  OBVIOUS
<1>6. Single(c, q) => ~IsBad(i) /\ \A k \in 1..Len(b) : PlaceOf(c, b[k]) = q => k = n + 1
  BY <1>5 DEF Lasting
<1>7. \A k \in 1..n : Has(st[PlaceOf(c, b[k])], b[k])
  BY DEF Complete
<1> HIDE DEF new, Has
<1>8. ASSUME NEW k \in 1..(n + 1) PROVE Has(new[PlaceOf(c, b[k])], b[k])
  <2>0. k \in 1..n \/ k = n + 1
    OBVIOUS
  <2>1. CASE PlaceOf(c, b[k]) # q
    <3>1. k \in 1..n /\ PlaceOf(c, b[k]) \in Places(c)
      BY <2>0, <2>1, PlaceExists
    <3> QED BY <2>1, <3>1, <1>1, <1>7
  <2>2. CASE PlaceOf(c, b[k]) = q /\ Single(c, q)
    <3>1. k \in 1..Len(b)
      BY <1>5
    <3>2. k = n + 1 /\ v = <<i>>
      BY <3>1, <2>2, <1>6, PutIs
    <3> HIDE DEF v
    <3> QED BY <3>2, <2>2, <1>1, <1>3
  <2>3. CASE PlaceOf(c, b[k]) = q /\ ~Single(c, q)
    <3>1. v = Append(st[q], i)
      BY <2>3, PutIs
    <3>2. Has(st[q], b[k]) \/ b[k] = i
      BY <2>0, <2>3, <1>7
    <3> HIDE DEF v, i
    <3> QED BY <3>1, <3>2, <2>3, <1>1, <1>2, <1>4
  <2> QED BY <2>1, <2>2, <2>3
<1>9. Complete(new, c, b, n + 1)
  BY <1>8 DEF Complete, Has
<1> QED BY <1>9 DEF new, v

(* An increasing function onto 1..n is the identity.                       *)
LEMMA IncreasingOnto ==
    ASSUME NEW N \in Nat, NEW n \in Nat, NEW f \in [1..N -> 1..n], Increases(f, N),
           \A x \in 1..n : \E k \in 1..N : f[k] = x
    PROVE  N = n /\ \A k \in 1..N : f[k] = k
<1> DEFINE G == {k \in 0..N : \A j \in 1..k : f[j] = j}
<1>1. 0 \in G
  OBVIOUS
<1>2. ASSUME NEW k \in 1..N, k - 1 \in G PROVE k \in G
  <2>1. \A j \in 1..(k - 1) : f[j] = j
    BY <1>2
  <2>2. \A j \in 1..N : f[j] \in Nat /\ f[j] >= 1 /\ f[j] <= n
    OBVIOUS
  <2>3. \A j \in 1..N : (j < k => f[j] < f[k]) /\ (k < j => f[k] < f[j])
    BY DEF Increases
  <2> HIDE DEF G
  <2>4. f[k] >= k
    <3>1. CASE k = 1
      BY <3>1, <2>2
    <3>2. CASE k # 1
      <4>1. k - 1 \in 1..N /\ f[k - 1] = k - 1 /\ k - 1 < k
        BY <3>2, <2>1
      <4>2. f[k - 1] < f[k]
        BY <4>1, <2>3
      <4> QED BY <4>1, <4>2, <2>2
    <3> QED BY <3>1, <3>2
  <2>5. k \in 1..n
    BY <2>2, <2>4
  <2>6. PICK j \in 1..N : f[j] = k
    BY <2>5
  <2>7. ~(j < k)
    BY <2>1, <2>6
  <2>8. ~(k < j)
    BY <2>2, <2>3, <2>4, <2>6
  <2>9. f[k] = k
    BY <2>6, <2>7, <2>8
  <2>10. \A i \in 1..k : i \in 1..(k - 1) \/ i = k
    OBVIOUS
  <2>11. \A i \in 1..k : f[i] = i
    BY <2>1, <2>9, <2>10
  <2> QED BY <2>11 DEF G
<1> HIDE DEF G
<1>3. Passes(N, G)
  BY <1>1, <1>2 DEF Passes
<1>4. N \in G
  BY <1>3, UpTo
<1>5. \A k \in 1..N : f[k] = k
  BY <1>4 DEF G
<1>6. N <= n
  <2>1. CASE N # 0
    <3>1. N \in 1..N /\ f[N] = N
      BY <2>1, <1>5
    <3> QED BY <3>1
  <2> QED BY <2>1
<1>7. n <= N
  <2>1. CASE n # 0
    <3>1. PICK k \in 1..N : f[k] = n
      BY <2>1
    <3> QED BY <3>1, <1>5
  <2> QED BY <2>1
<1> QED BY <1>5, <1>6, <1>7

-----------------------------------------------------------------------------
(* What Serialize and AcceptChildren go through: some places in an order.  *)
Blocks(st, L) == [j \in 1..Len(L) |-> st[L[j]]]

Apart(L) == \A j, k \in 1..Len(L) : L[j] = L[k] => j = k

(* Element k of s is number f[k] of b, and from place w[k] of L.           *)
Came(s, L, c, b, n, w, f) ==
    /\ w \in [1..Len(s) -> 1..Len(L)] /\ f \in [1..Len(s) -> 1..n]
    /\ \A k \in 1..Len(s) : /\ s[k] = b[f[k]] /\ PlaceOf(c, s[k]) = L[w[k]]
                            /\ ~Dropped(c, s[k])
                            /\ Single(c, L[w[k]]) => ~IsBad(s[k])
    /\ \A j, k \in 1..Len(s) : j < k =>
         w[j] < w[k] \/ (w[j] = w[k] /\ f[j] < f[k] /\ ~Single(c, L[w[k]]))

(* What a place of L holds is in s.                                        *)
AllCame(s, L, st) ==
    \A j \in 1..Len(L) : \A q \in 1..Len(st[L[j]]) : \E k \in 1..Len(s) : s[k] = st[L[j]][q]

LEMMA JoinCame ==
    ASSUME NEW c, NEW T, NEW L \in Seq(Places(c)), NEW st \in [Places(c) -> Seq(T)],
           NEW b, NEW n \in Int, Sound(st, c, b, n), NEW s \in Seq(T), IsJoin(Blocks(st, L), s)
    PROVE  AllCame(s, L, st) /\ \E w, f : Came(s, L, c, b, n, w, f)
<1> DEFINE ss == Blocks(st, L)
           N == Len(s)
           M == Len(L)
           Fits(p, g) == /\ g \in [1..Len(st[p]) -> 1..n] /\ Increases(g, Len(st[p]))
                         /\ \A k \in 1..Len(st[p]) : st[p][k] = b[g[k]]
           pick(p) == CHOOSE g : Fits(p, g)
<1>0. N \in Nat /\ M \in Nat /\ \A j \in 1..M : L[j] \in Places(c)
  BY LenProperties
<1>1. \A p \in Places(c) : SoundAt(st[p], p, c, b, n)
  BY DEF Sound
<1>2. \A p \in Places(c) : Fits(p, pick(p))
  <2> SUFFICES ASSUME NEW p \in Places(c) PROVE \E g : Fits(p, g)
    OBVIOUS
  <2> QED BY <1>1 DEF SoundAt, Picks
<1>3. \A p \in Places(c) : Len(st[p]) \in Nat
  <2> SUFFICES ASSUME NEW p \in Places(c) PROVE Len(st[p]) \in Nat
    OBVIOUS
  <2>1. st[p] \in Seq(T)
    OBVIOUS
  <2> QED BY <2>1, LenProperties
<1>4. PICK w, o : Lays(ss, s, w, o)
  BY DEF IsJoin
<1>5. Len(ss) = M /\ \A j \in 1..M : ss[j] = st[L[j]]
  BY ONLY <1>0 DEF Blocks
<1> HIDE DEF ss, N, M
<1>6. /\ w \in [1..N -> 1..M]
      /\ \A k \in 1..N : w[k] \in 1..M /\ o[k] \in 1..Len(st[L[w[k]]]) /\ s[k] = st[L[w[k]]][o[k]]
      /\ \A j, k \in 1..N : j < k => w[j] < w[k] \/ (w[j] = w[k] /\ o[j] < o[k])
      /\ \A j \in 1..M : \A q \in 1..Len(st[L[j]]) : \E k \in 1..N : w[k] = j /\ o[k] = q
  <2>1. Lays(ss, s, w, o) /\ Len(s) = N
    BY ONLY <1>4 DEF N
  <2>2. /\ w \in [1..N -> 1..M]
        /\ \A j, k \in 1..N : j < k => w[j] < w[k] \/ (w[j] = w[k] /\ o[j] < o[k])
    BY ONLY <2>1, <1>5 DEF Lays
  <2>3. ASSUME NEW k \in 1..N
        PROVE  w[k] \in 1..M /\ o[k] \in 1..Len(st[L[w[k]]]) /\ s[k] = st[L[w[k]]][o[k]]
    <3>1. w[k] \in 1..M
      BY ONLY <2>2
    <3>2. o[k] \in 1..Len(ss[w[k]]) /\ s[k] = ss[w[k]][o[k]]
      BY ONLY <2>1 DEF Lays
    <3>3. ss[w[k]] = st[L[w[k]]]
      BY ONLY <3>1, <1>5
    <3> QED BY ONLY <3>1, <3>2, <3>3
  <2>4. ASSUME NEW j \in 1..M, NEW q \in 1..Len(st[L[j]])
        PROVE  \E k \in 1..N : w[k] = j /\ o[k] = q
    <3>1. q \in 1..Len(ss[j]) /\ j \in 1..Len(ss)
      BY ONLY <1>5
    <3> QED BY ONLY <2>1, <3>1 DEF Lays
  <2> QED BY ONLY <2>2, <2>3, <2>4
<1>7. AllCame(s, L, st)
  <2> SUFFICES ASSUME NEW j \in 1..M, NEW q \in 1..Len(st[L[j]])
               PROVE  \E k \in 1..N : s[k] = st[L[j]][q]
    BY DEF AllCame, M, N
  <2>1. PICK k \in 1..N : w[k] = j /\ o[k] = q
    BY <1>6
  <2> QED BY <2>1, <1>6
<1> DEFINE F(k) == pick(L[w[k]])[o[k]]
           f == [k \in 1..N |-> F(k)]
<1> HIDE DEF pick
<1>8. ASSUME NEW k \in 1..N
      PROVE  /\ F(k) \in 1..n /\ s[k] = b[F(k)]
             /\ PlaceOf(c, s[k]) = L[w[k]] /\ ~Dropped(c, s[k])
             /\ Single(c, L[w[k]]) => ~IsBad(s[k])
  <2> DEFINE p == L[w[k]]
  <2>1. p \in Places(c) /\ o[k] \in 1..Len(st[p]) /\ s[k] = st[p][o[k]]
    BY <1>0, <1>6
  <2>2. Fits(p, pick(p)) /\ SoundAt(st[p], p, c, b, n)
    BY <2>1, <1>1, <1>2
  <2>3. F(k) \in 1..n /\ s[k] = b[F(k)]
    <3> HIDE DEF p
    <3>1. pick(p)[o[k]] \in 1..n /\ s[k] = b[pick(p)[o[k]]]
      BY <2>1, <2>2
    <3> QED BY <3>1 DEF p
  <2>4. PlaceOf(c, s[k]) = p /\ ~Dropped(c, s[k]) /\ (Single(c, p) => ~IsBad(s[k]))
    <3> HIDE DEF p
    <3> QED BY <2>1, <2>2 DEF SoundAt
  <2> QED BY <2>3, <2>4
<1>9. ASSUME NEW j \in 1..N, NEW k \in 1..N, j < k
      PROVE  w[j] < w[k] \/ (w[j] = w[k] /\ F(j) < F(k) /\ ~Single(c, L[w[k]]))
  <2>1. CASE w[j] < w[k]
    BY <2>1
  <2>2. CASE w[j] = w[k] /\ o[j] < o[k]
    <3> DEFINE p == L[w[k]]
               g == pick(p)
    <3>1. p \in Places(c) /\ o[j] \in 1..Len(st[p]) /\ o[k] \in 1..Len(st[p])
      BY <1>0, <1>6, <2>2
    <3>2. Fits(p, g) /\ SoundAt(st[p], p, c, b, n) /\ Len(st[p]) \in Nat
      BY <3>1, <1>1, <1>2, <1>3
    <3>3. F(j) = g[o[j]] /\ F(k) = g[o[k]]
      BY <2>2
    <3> HIDE DEF p, g, F
    <3>4. g[o[j]] < g[o[k]]
      BY <3>1, <3>2, <2>2 DEF Increases
    <3>5. ~Single(c, p)
      <4>1. ~(Len(st[p]) <= 1)
        BY <3>1, <3>2, <2>2
      <4> QED BY <4>1, <3>2 DEF SoundAt
    <3> QED BY <3>3, <3>4, <3>5, <2>2 DEF p
  <2> QED BY <2>1, <2>2, <1>6, <1>9
<1> HIDE DEF F
<1>10. f \in [1..N -> 1..n] /\ \A k \in 1..N : f[k] = F(k)
  BY <1>8
<1> HIDE DEF f
<1>11. Came(s, L, c, b, n, w, f)
  <2>1. w \in [1..N -> 1..M]
    BY <1>6
  <2>2. \A k \in 1..N : /\ s[k] = b[f[k]] /\ PlaceOf(c, s[k]) = L[w[k]]
                        /\ ~Dropped(c, s[k])
                        /\ Single(c, L[w[k]]) => ~IsBad(s[k])
    BY <1>8, <1>10
  <2>3. \A j, k \in 1..N : j < k =>
             w[j] < w[k] \/ (w[j] = w[k] /\ f[j] < f[k] /\ ~Single(c, L[w[k]]))
    BY <1>9, <1>10
  <2>4. N = Len(s) /\ M = Len(L)
    BY DEF N, M
  <2> HIDE DEF Fits
  <2> QED BY ONLY <1>10, <2>1, <2>2, <2>3, <2>4 DEF Came
<1> QED BY <1>7, <1>11

(* What has come is written once, and lasts.                               *)
LEMMA CameIds ==
    ASSUME NEW c, NEW L, NEW s, NEW b, NEW n \in Nat, NEW w, NEW f,
           Len(s) \in Nat, Len(b) \in Nat, n <= Len(b),
           Came(s, L, c, b, n, w, f), Apart(L), IdsDiffer(b)
    PROVE  IdsDiffer(s)
<1>1. ASSUME NEW j \in 1..Len(s), NEW k \in 1..Len(s), s[j].id = s[k].id PROVE ~(j < k)
  <2> SUFFICES ASSUME j < k PROVE FALSE
    OBVIOUS
  <2>1. /\ f[j] \in 1..n /\ f[k] \in 1..n /\ s[j] = b[f[j]] /\ s[k] = b[f[k]]
        /\ w[j] \in 1..Len(L) /\ w[k] \in 1..Len(L)
        /\ PlaceOf(c, s[j]) = L[w[j]] /\ PlaceOf(c, s[k]) = L[w[k]]
        /\ w[j] < w[k] \/ (w[j] = w[k] /\ f[j] < f[k])
    BY DEF Came
  <2>2. f[j] = f[k]
    <3>1. b[f[j]].id = b[f[k]].id
      <4>1. b[f[j]] = s[j] /\ b[f[k]] = s[k]
        BY ONLY <2>1
      <4> QED BY ONLY <1>1, <4>1
    <3>2. f[j] \in 1..Len(b) /\ f[k] \in 1..Len(b)
      BY ONLY <2>1, n \in Nat, Len(b) \in Nat, n <= Len(b)
    <3>3. \A x, y \in 1..Len(b) : b[x].id = b[y].id => x = y
      BY ONLY IdsDiffer(b) DEF IdsDiffer
    <3> QED BY ONLY <3>1, <3>2, <3>3
  <2>3. s[j] = s[k]
    BY <2>1, <2>2
  <2>4. w[j] = w[k]
    BY <2>1, <2>3 DEF Apart
  <2> QED BY ONLY <2>1, <2>2, <2>4
<1> QED BY <1>1 DEF IdsDiffer

LEMMA CameLasting ==
    ASSUME NEW c, NEW L, NEW s, NEW b, NEW n \in Nat, NEW w, NEW f, Len(s) \in Nat,
           Came(s, L, c, b, n, w, f), Apart(L)
    PROVE  Lasting(c, s)
<1>1. ASSUME NEW j \in 1..Len(s)
      PROVE  /\ ~Dropped(c, s[j]) /\ (Single(c, PlaceOf(c, s[j])) => ~IsBad(s[j]))
             /\ PlaceOf(c, s[j]) = L[w[j]] /\ w[j] \in 1..Len(L)
  BY DEF Came
<1>2. ASSUME NEW j \in 1..Len(s), NEW k \in 1..Len(s), j < k,
             PlaceOf(c, s[j]) = PlaceOf(c, s[k])
      PROVE  ~Single(c, PlaceOf(c, s[k]))
  <2>1. w[j] = w[k]
    <3>1. /\ w[j] \in 1..Len(L) /\ PlaceOf(c, s[j]) = L[w[j]]
          /\ w[k] \in 1..Len(L) /\ PlaceOf(c, s[k]) = L[w[k]]
      BY ONLY <1>1, j \in 1..Len(s), k \in 1..Len(s)
    <3>2. L[w[j]] = L[w[k]]
      BY ONLY <1>2, <3>1
    <3>3. \A x, y \in 1..Len(L) : L[x] = L[y] => x = y
      BY ONLY Apart(L) DEF Apart
    <3> QED BY ONLY <3>1, <3>2, <3>3
  <2>2. w[j] < w[k] \/ (w[j] = w[k] /\ f[j] < f[k] /\ ~Single(c, L[w[k]]))
    BY <1>2 DEF Came
  <2>3. ~(w[j] < w[k])
    BY <2>1, <1>1
  <2> QED BY <2>2, <2>3, <1>1
<1>3. ASSUME NEW j \in 1..Len(s), NEW k \in 1..Len(s), Single(c, PlaceOf(c, s[j])),
             PlaceOf(c, s[k]) = PlaceOf(c, s[j])
      PROVE  k = j
  <2>1. ~(j < k)
    BY <1>2, <1>3
  <2>2. ~(k < j)
    BY <1>2, <1>3
  <2> QED BY <2>1, <2>2
<1> QED BY <1>1, <1>3 DEF Lasting

(* A text whose items stand in the order of the places of L.               *)
Follows(c, L, b, g) ==
    /\ g \in [1..Len(b) -> 1..Len(L)]
    /\ \A x \in 1..Len(b) : PlaceOf(c, b[x]) = L[g[x]]
    /\ \A x, y \in 1..Len(b) : x < y => g[x] <= g[y]
Arranged(c, L, b) == \E g : Follows(c, L, b, g)

LEMMA CameArranged ==
    ASSUME NEW c, NEW L, NEW s, NEW b, NEW n, NEW w, NEW f, Len(s) \in Nat, Len(L) \in Nat,
           Came(s, L, c, b, n, w, f)
    PROVE  Arranged(c, L, s)
<1>1. /\ w \in [1..Len(s) -> 1..Len(L)]
      /\ \A k \in 1..Len(s) : PlaceOf(c, s[k]) = L[w[k]] /\ w[k] \in Int
      /\ \A j, k \in 1..Len(s) : j < k => w[j] < w[k] \/ w[j] = w[k]
  BY DEF Came
<1>2. \A j, k \in 1..Len(s) : j < k => w[j] <= w[k]
  BY <1>1
<1>3. Follows(c, L, s, w)
  BY <1>1, <1>2 DEF Follows
<1> QED BY <1>3 DEF Arranged

(* What is written of a text that is arranged, and that lasts, is the text.*)
LEMMA CameAgain ==
    ASSUME NEW c, NEW T, NEW L \in Seq(Places(c)), NEW st \in [Places(c) -> Seq(T)],
           NEW b \in Seq(T), Sound(st, c, b, Len(b)), Complete(st, c, b, Len(b)),
           Arranged(c, L, b), IdsDiffer(b), Apart(L),
           NEW s \in Seq(T), IsJoin(Blocks(st, L), s)
    PROVE  s = b
<1> DEFINE n == Len(b)
           N == Len(s)
<1>0. n \in Nat /\ N \in Nat /\ n \in Int
  BY LenProperties
<1>1. AllCame(s, L, st) /\ \E w, f : Came(s, L, c, b, n, w, f)
  BY <1>0, JoinCame
<1>2. PICK w, f : Came(s, L, c, b, n, w, f)
  BY <1>1
<1>3. PICK g : Follows(c, L, b, g)
  BY DEF Arranged
<1>4. /\ f \in [1..N -> 1..n]
      /\ \A k \in 1..N : f[k] \in 1..n /\ w[k] \in 1..Len(L) /\ s[k] = b[f[k]]
                         /\ PlaceOf(c, s[k]) = L[w[k]]
      /\ \A j, k \in 1..N : j < k => w[j] < w[k] \/ (w[j] = w[k] /\ f[j] < f[k])
  BY <1>2 DEF Came, N
<1>5. /\ \A x \in 1..n : g[x] \in 1..Len(L) /\ PlaceOf(c, b[x]) = L[g[x]]
      /\ \A x, y \in 1..n : x < y => g[x] <= g[y]
  BY <1>3 DEF Follows, n
<1> HIDE DEF n, N
<1>6. ASSUME NEW k \in 1..N PROVE g[f[k]] = w[k]
  <2>1. f[k] \in 1..n /\ w[k] \in 1..Len(L) /\ L[w[k]] = PlaceOf(c, b[f[k]])
    BY <1>4
  <2>2. L[g[f[k]]] = L[w[k]] /\ g[f[k]] \in 1..Len(L)
    BY <2>1, <1>5
  <2> QED BY <2>1, <2>2 DEF Apart
<1>7. Increases(f, N)
  <2> SUFFICES ASSUME NEW j \in 1..N, NEW k \in 1..N, j < k PROVE f[j] < f[k]
    BY DEF Increases
  <2>1. CASE w[j] < w[k]
    <3>1. f[j] \in 1..n /\ f[k] \in 1..n /\ g[f[j]] = w[j] /\ g[f[k]] = w[k]
          /\ w[j] \in Int /\ w[k] \in Int
      BY <1>4, <1>6
    <3>2. ~(f[k] < f[j])
      <4> SUFFICES ASSUME f[k] < f[j] PROVE FALSE
        OBVIOUS
      <4>1. g[f[k]] <= g[f[j]]
        BY <3>1, <1>5
      <4> QED BY <4>1, <3>1, <2>1
    <3>3. f[k] # f[j]
      BY <3>1, <2>1
    <3> QED BY <3>1, <3>2, <3>3, <1>0
  <2> QED BY <2>1, <1>4
<1>8. ASSUME NEW x \in 1..n PROVE \E k \in 1..N : f[k] = x
  <2> DEFINE p == PlaceOf(c, b[x])
  <2>1. PICK j \in 1..Len(st[p]) : st[p][j] = b[x]
    BY DEF Complete, n
  <2>2. p = L[g[x]] /\ g[x] \in 1..Len(L)
    BY <1>5
  <2> HIDE DEF p
  <2>3. PICK k \in 1..N : s[k] = b[x]
    BY <1>1, <2>1, <2>2 DEF AllCame, N
  <2>4. b[f[k]] = b[x] /\ f[k] \in 1..n
    BY <2>3, <1>4
  <2>5. f[k] = x
    BY <2>4 DEF IdsDiffer, n
  <2> QED BY <2>5
<1>9. N = n /\ \A k \in 1..N : f[k] = k
  BY <1>0, <1>4, <1>7, <1>8, IncreasingOnto
<1>10. \A k \in 1..N : s[k] = b[k]
  BY <1>4, <1>9
<1> QED BY <1>9, <1>10, SeqEqual DEF n, N

-----------------------------------------------------------------------------
(* The element's members, misplaced and unknown children in one function.  *)
StoresOf(c, h, m, u) ==
    [p \in Places(c) |-> IF p[1] = 0 THEN h[p[2]] ELSE IF p[1] = 1 THEN m ELSE u]
stores == StoresOf(class, held, misplaced, unknown)

Layout(ms)  == [j \in 1..Len(ms) |-> Member(ms[j])]
LayoutOf(c) == IF CodeRow[c].keeps THEN Append(Append(Layout(CodeRow[c].writes), Misplaced), Unknown)
                                   ELSE Layout(CodeRow[c].writes)

LEMMA StoresAre ==
    ASSUME NEW c, NEW h, NEW m, NEW u
    PROVE  /\ \A n \in Members(c) : Member(n) \in Places(c) /\ StoresOf(c, h, m, u)[Member(n)] = h[n]
           /\ Misplaced \in Places(c) /\ StoresOf(c, h, m, u)[Misplaced] = m
           /\ Unknown \in Places(c) /\ StoresOf(c, h, m, u)[Unknown] = u
<1>1. /\ \A n \in Members(c) : Member(n) \in Places(c)
      /\ Misplaced \in Places(c) /\ Unknown \in Places(c)
  BY DEF Places
<1>2. \A n : Member(n)[1] = 0 /\ Member(n)[2] = n
  BY PlacesApart
<1>3. Misplaced[1] = 1 /\ Unknown[1] = 2
  BY PlacesApart
<1> QED BY <1>1, <1>2, <1>3 DEF StoresOf

LEMMA StoresType ==
    ASSUME NEW c, NEW T, NEW h, NEW m \in Seq(T), NEW u \in Seq(T),
           \A n \in Members(c) : h[n] \in Seq(T)
    PROVE  StoresOf(c, h, m, u) \in [Places(c) -> Seq(T)]
<1> DEFINE S == Seq(T)
<1> HIDE DEF S
<1>1. ASSUME NEW p \in Places(c) PROVE StoresOf(c, h, m, u)[p] \in S
  <2>1. (\E n \in Members(c) : p = Member(n)) \/ p = Misplaced \/ p = Unknown
    BY DEF Places
  <2> QED BY <2>1, StoresAre DEF S
<1>2. StoresOf(c, h, m, u) = [p \in Places(c) |-> StoresOf(c, h, m, u)[p]]
  BY DEF StoresOf
<1>3. StoresOf(c, h, m, u) \in [Places(c) -> S]
  BY <1>1, <1>2
<1> QED BY <1>3 DEF S

LEMMA LayoutType ==
    ASSUME NEW c, NEW ms \in Seq(Members(c))
    PROVE  /\ Layout(ms) \in Seq(Places(c)) /\ Len(Layout(ms)) = Len(ms)
           /\ \A j \in 1..Len(ms) : ms[j] \in Members(c) /\ Layout(ms)[j] = Member(ms[j])
<1>1. Len(ms) \in Nat /\ \A j \in 1..Len(ms) : ms[j] \in Members(c)
  BY LenProperties
<1>2. ASSUME NEW j \in 1..Len(ms) PROVE Member(ms[j]) \in Places(c)
  <2>1. ms[j] \in Members(c)
    BY <1>1
  <2> QED BY <2>1 DEF Places
<1>3. Layout(ms) \in [1..Len(ms) -> Places(c)]
  BY <1>2 DEF Layout
<1> DEFINE P == Places(c)
<1> HIDE DEF P
<1>4. Layout(ms) \in Seq(P) /\ Len(Layout(ms)) = Len(ms)
  <2>1. Layout(ms) \in [1..Len(ms) -> P]
    BY <1>3 DEF P
  <2> QED BY <2>1, <1>1
<1> QED BY <1>1, <1>4 DEF Layout, P

LEMMA LayoutApart ==
    ASSUME NEW c, NEW ms \in Seq(Members(c)), \A j, k \in DOMAIN ms : ms[j] = ms[k] => j = k
    PROVE  Apart(Layout(ms))
<1>1. DOMAIN ms = 1..Len(ms)
  BY LenProperties
<1>2. Len(Layout(ms)) = Len(ms) /\ \A j \in 1..Len(ms) : Layout(ms)[j] = Member(ms[j])
  BY LayoutType
<1>3. ASSUME NEW j \in 1..Len(ms), NEW k \in 1..Len(ms), Layout(ms)[j] = Layout(ms)[k]
      PROVE  j = k
  <2>1. Member(ms[j]) = Member(ms[k])
    BY <1>2, <1>3
  <2>2. ms[j] = ms[k]
    BY <2>1 DEF Member
  <2> QED BY <1>1, <2>2
<1> QED BY <1>2, <1>3 DEF Apart

LEMMA AppendApart ==
    ASSUME NEW T, NEW L \in Seq(T), NEW p \in T, Apart(L), \A j \in 1..Len(L) : L[j] # p
    PROVE  Apart(Append(L, p))
<1>1. /\ Len(L) \in Nat /\ Len(Append(L, p)) = Len(L) + 1 /\ Append(L, p)[Len(L) + 1] = p
      /\ \A j \in 1..Len(L) : Append(L, p)[j] = L[j]
  BY AppendProperties, LenProperties
<1>2. \A j \in 1..(Len(L) + 1) : j \in 1..Len(L) \/ j = Len(L) + 1
  BY <1>1
<1> QED BY <1>1, <1>2 DEF Apart

LEMMA LayoutOfType ==
    ASSUME NEW c \in Classes
    PROVE  /\ CodeRow[c].writes \in Seq(Members(c))
           /\ LayoutOf(c) \in Seq(Places(c)) /\ Layout(CodeRow[c].writes) \in Seq(Places(c))
<1>1. CodeRow[c].writes \in Seq(Members(c))
  BY SchemaAssumption
<1>2. Layout(CodeRow[c].writes) \in Seq(Places(c)) /\ Misplaced \in Places(c) /\ Unknown \in Places(c)
  BY <1>1, LayoutType DEF Places
<1> QED BY <1>1, <1>2, AppendProperties DEF LayoutOf

LEMMA LayoutOfApart ==
    ASSUME NEW c \in Classes, WrittenApart PROVE Apart(LayoutOf(c))
<1> DEFINE w == CodeRow[c].writes
           P == Places(c)
           L == Layout(w)
           LM == Append(L, Misplaced)
<1>1. w \in Seq(Members(c)) /\ L \in Seq(P) /\ Misplaced \in P /\ Unknown \in P
  BY LayoutOfType DEF Places
<1>2. \A j, k \in DOMAIN w : w[j] = w[k] => j = k
  BY DEF WrittenApart
<1>3. Apart(L)
  BY <1>1, <1>2, LayoutApart
<1>4. \A j \in 1..Len(L) : L[j] # Misplaced /\ L[j] # Unknown
  BY <1>1, LayoutType, PlacesApart
<1>5. Apart(LM)
  BY <1>1, <1>3, <1>4, AppendApart
<1>6. LM \in Seq(P) /\ \A j \in 1..Len(LM) : LM[j] # Unknown
  <2>1. /\ LM \in Seq(P) /\ Len(L) \in Nat /\ Len(LM) = Len(L) + 1 /\ LM[Len(L) + 1] = Misplaced
        /\ \A j \in 1..Len(L) : LM[j] = L[j]
    BY <1>1, AppendProperties, LenProperties
  <2> HIDE DEF LM, L
  <2>2. \A j \in 1..(Len(L) + 1) : j \in 1..Len(L) \/ j = Len(L) + 1
    BY <2>1
  <2> QED BY <2>1, <2>2, <1>4, PlacesApart
<1>7. Apart(Append(LM, Unknown))
  BY <1>1, <1>5, <1>6, AppendApart
<1> QED BY <1>3, <1>7 DEF LayoutOf

LEMMA BlocksAppend ==
    ASSUME NEW P, NEW L \in Seq(P), NEW p \in P, NEW st
    PROVE  Blocks(st, Append(L, p)) = Append(Blocks(st, L), st[p])
<1>1. /\ Len(L) \in Nat /\ Len(Append(L, p)) = Len(L) + 1 /\ Append(L, p)[Len(L) + 1] = p
      /\ \A j \in 1..Len(L) : Append(L, p)[j] = L[j]
  BY AppendProperties, LenProperties
<1> DEFINE V == {st[q] : q \in P}
           A == Append(Blocks(st, L), st[p])
           B == Blocks(st, Append(L, p))
<1>2. Blocks(st, L) \in Seq(V) /\ Len(Blocks(st, L)) = Len(L) /\ st[p] \in V
      /\ \A j \in 1..Len(L) : Blocks(st, L)[j] = st[L[j]]
  <2>1. \A j \in 1..Len(L) : st[L[j]] \in V
    BY LenProperties
  <2>2. Blocks(st, L) \in [1..Len(L) -> V]
    BY <2>1 DEF Blocks
  <2> QED BY <1>1, <2>2 DEF Blocks
<1>3. /\ A \in Seq(V) /\ Len(A) = Len(L) + 1 /\ A[Len(L) + 1] = st[p]
      /\ \A j \in 1..Len(L) : A[j] = st[L[j]]
  BY <1>2, AppendProperties
<1>4. \A j \in 1..(Len(L) + 1) : j \in 1..Len(L) \/ j = Len(L) + 1
  BY <1>1
<1>5. B = [j \in 1..(Len(L) + 1) |-> st[Append(L, p)[j]]]
  BY <1>1 DEF Blocks
<1>6. A = [j \in 1..(Len(L) + 1) |-> A[j]]
  <2> HIDE DEF A, V
  <2>1. A \in [1..(Len(L) + 1) -> V]
    BY <1>3, LenProperties
  <2> QED BY <2>1
<1> HIDE DEF A, B
<1>7. \A j \in 1..(Len(L) + 1) : A[j] = st[Append(L, p)[j]]
  BY <1>1, <1>3, <1>4
<1> QED BY <1>5, <1>6, <1>7 DEF A, B

LEMMA BlocksType ==
    ASSUME NEW P, NEW L \in Seq(P), NEW T, NEW st \in [P -> Seq(T)]
    PROVE  Blocks(st, L) \in Seq(Seq(T))
<1> DEFINE S == Seq(T)
<1> HIDE DEF S
<1>1. Len(L) \in Nat /\ \A j \in 1..Len(L) : L[j] \in P
  BY LenProperties
<1>2. st \in [P -> S]
  BY DEF S
<1>3. \A j \in 1..Len(L) : st[L[j]] \in S
  BY <1>1, <1>2
<1>4. Blocks(st, L) \in [1..Len(L) -> S]
  BY <1>3 DEF Blocks
<1> DEFINE B == Blocks(st, L)
           n == Len(L)
<1> HIDE DEF B, n
<1>5. B \in [1..n -> S] /\ n \in Nat
  BY <1>1, <1>4 DEF B, n
<1>6. B \in Seq(S)
  BY ONLY <1>5
<1> QED BY <1>6 DEF S, B

(* A text of the class, its children of types the parser finds again.      *)
IsText(c, t) == t = [attrs |-> t.attrs, body |-> t.body] /\ t.body \in Seq(Fit(c))

IsHeld(c, h) == h = [m \in Members(c) |-> h[m]]

Typed ==
    /\ class \in Classes /\ round \in 1..Rounds
    /\ IsList(texts) /\ Len(texts) \in {round, round + 1}
    /\ \A r \in 1..Len(texts) : IsText(class, texts[r])
    /\ next \in 0..(Len(Text.body) + 1)
    /\ IsHeld(class, held)
    /\ stores \in [Places(class) -> Seq(Fit(class))]

LEMMA StoresHold ==
    /\ \A m \in Members(class) : Member(m) \in Places(class) /\ stores[Member(m)] = held[m]
    /\ Misplaced \in Places(class) /\ stores[Misplaced] = misplaced
    /\ Unknown \in Places(class) /\ stores[Unknown] = unknown
BY StoresAre DEF stores

(* What InOrder writes of some members.                                    *)
LEMMA InOrderJoins ==
    ASSUME NEW ms \in Seq(Members(class)), NEW T, stores \in [Places(class) -> Seq(T)]
    PROVE  IsJoin(Blocks(stores, Layout(ms)), InOrder(ms)) /\ InOrder(ms) \in Seq(T)
<1> DEFINE ss == Blocks(stores, Layout(ms))
<1>1. /\ DOMAIN ms = 1..Len(ms) /\ Len(Layout(ms)) = Len(ms) /\ Layout(ms) \in Seq(Places(class))
      /\ \A j \in 1..Len(ms) : ms[j] \in Members(class) /\ Layout(ms)[j] = Member(ms[j])
  BY LayoutType, LenProperties
<1>2. \A j \in 1..Len(ms) : held[ms[j]] = stores[Layout(ms)[j]]
  BY <1>1, StoresHold
<1>3. ss = [k \in DOMAIN ms |-> held[ms[k]]]
  BY <1>1, <1>2 DEF Blocks
<1>4. ss \in Seq(Seq(T))
  BY <1>1, BlocksType
<1>5. InOrder(ms) = FlattenSeq(ss)
  BY <1>3 DEF InOrder
<1> HIDE DEF ss
<1>6. IsJoin(ss, FlattenSeq(ss)) /\ FlattenSeq(ss) \in Seq(T)
  BY <1>4, FlattenJoins, FlattenType
<1> QED BY <1>5, <1>6 DEF ss

(* What Serialize writes.                                                  *)
LEMMA SerializedJoins ==
    ASSUME class \in Classes, NEW T, stores \in [Places(class) -> Seq(T)]
    PROVE  /\ IsJoin(Blocks(stores, LayoutOf(class)), Serialized.body)
           /\ Serialized.body \in Seq(T)
           /\ Serialized = [attrs |-> IF CodeRow[class].keeps THEN attributes ELSE {},
                            body |-> Serialized.body]
<1> DEFINE w == CodeRow[class].writes
           L == Layout(w)
           P == Places(class)
           s == InOrder(w)
           ss == Blocks(stores, L)
<1>1. w \in Seq(Members(class)) /\ L \in Seq(P) /\ Misplaced \in P /\ Unknown \in P
      /\ stores[Misplaced] = misplaced /\ stores[Unknown] = unknown
  BY LayoutOfType, StoresHold
<1>2. misplaced \in Seq(T) /\ unknown \in Seq(T) /\ ss \in Seq(Seq(T))
  <2>1. stores[Misplaced] \in Seq(T) /\ stores[Unknown] \in Seq(T)
    BY <1>1
  <2> QED BY <1>1, <2>1, BlocksType
<1>3. IsJoin(ss, s) /\ s \in Seq(T)
  BY <1>1, InOrderJoins
<1>4. CASE ~CodeRow[class].keeps
  <2>1. Serialized = [attrs |-> {}, body |-> s] /\ LayoutOf(class) = L
    BY <1>4 DEF Serialized, LayoutOf
  <2> HIDE DEF s, ss, L
  <2>2. Serialized.body = s
    BY <2>1
  <2> QED BY <1>3, <1>4, <2>1, <2>2 DEF ss
<1>5. CASE CodeRow[class].keeps
  <2> DEFINE LM == Append(L, Misplaced)
             t == s \o misplaced
             tt == Append(ss, misplaced)
             u == s \o SerializeUnknown
  <2> HIDE DEF s, ss, L, w, P
  <2>1. Serialized = [attrs |-> attributes, body |-> u] /\ LayoutOf(class) = Append(LM, Unknown)
    BY <1>5 DEF Serialized, LayoutOf, L, s, w
  <2>2. IsJoin(tt, t) /\ t \in Seq(T) /\ tt \in Seq(Seq(T))
    <3>1. IsJoin(tt, t)
      BY <1>2, <1>3, JoinAppend
    <3>2. t \in Seq(T)
      BY <1>2, <1>3, ConcatProperties
    <3>3. tt \in Seq(Seq(T))
      BY <1>2, AppendProperties
    <3> QED BY <3>1, <3>2, <3>3
  <2>3. LM \in Seq(P) /\ Blocks(stores, LM) = tt
    <3>1. LM \in Seq(P)
      BY <1>1, AppendProperties
    <3>2. Blocks(stores, LM) = Append(Blocks(stores, L), stores[Misplaced])
      BY <1>1, BlocksAppend
    <3> QED BY <1>1, <3>1, <3>2 DEF ss
  <2>4. u = t \o unknown
    <3>1. (s \o misplaced) \o unknown = s \o (misplaced \o unknown)
      BY ONLY <1>2, <1>3, ConcatAssociative
    <3> QED BY ONLY <3>1 DEF u, t, SerializeUnknown
  <2> HIDE DEF t, tt, LM
  <2>5. Blocks(stores, Append(LM, Unknown)) = Append(tt, unknown)
    <3>1. Blocks(stores, Append(LM, Unknown)) = Append(Blocks(stores, LM), stores[Unknown])
      BY ONLY <1>1, <2>3, BlocksAppend
    <3> QED BY ONLY <1>1, <2>3, <3>1
  <2>6. IsJoin(Append(tt, unknown), u) /\ u \in Seq(T)
    <3>1. IsJoin(Append(tt, unknown), t \o unknown)
      BY ONLY <1>2, <2>2, JoinAppend
    <3>2. t \o unknown \in Seq(T)
      BY ONLY <1>2, <2>2, ConcatProperties
    <3> QED BY ONLY <2>4, <3>1, <3>2
  <2> HIDE DEF u
  <2>7. Serialized.body = u
    BY <2>1
  <2> QED BY <1>5, <2>1, <2>5, <2>6, <2>7
<1> QED BY <1>4, <1>5

LEMMA PlaceKinds ==
    ASSUME NEW c, NEW p \in Places(c)
    PROVE  \/ \E n \in Members(c) : p = Member(n) /\ p[1] = 0 /\ p[2] = n
           \/ p = Misplaced /\ p[1] = 1
           \/ p = Unknown /\ p[1] = 2
<1>1. (\E n \in Members(c) : p = Member(n)) \/ p = Misplaced \/ p = Unknown
  BY DEF Places
<1> QED BY <1>1, PlacesApart

With(h, n, v) == [h EXCEPT ![n] = v]

LEMMA StoresPutMember ==
    ASSUME NEW c, NEW h, NEW m, NEW u, NEW v, IsHeld(c, h), NEW n \in Members(c)
    PROVE  /\ StoresOf(c, With(h, n, v), m, u) = With(StoresOf(c, h, m, u), Member(n), v)
           /\ IsHeld(c, With(h, n, v))
<1> USE DEF With
<1> DEFINE A == StoresOf(c, [h EXCEPT ![n] = v], m, u)
           B == [StoresOf(c, h, m, u) EXCEPT ![Member(n)] = v]
<1>1. A = [p \in Places(c) |-> A[p]] /\ B = [p \in Places(c) |-> B[p]]
  <2>1. A = [p \in Places(c) |-> A[p]]
    BY DEF StoresOf
  <2>2. \A S : S = [p \in Places(c) |-> S[p]]
               => LET X == [S EXCEPT ![Member(n)] = v] IN X = [p \in Places(c) |-> X[p]]
    OBVIOUS
  <2>3. StoresOf(c, h, m, u) = [p \in Places(c) |-> StoresOf(c, h, m, u)[p]]
    BY DEF StoresOf
  <2> QED BY <2>1, <2>2, <2>3
<1>2. ASSUME NEW p \in Places(c) PROVE A[p] = B[p]
  <2>1. CASE \E k \in Members(c) : p = Member(k) /\ p[1] = 0 /\ p[2] = k
    <3>1. PICK k \in Members(c) : p = Member(k) /\ p[1] = 0 /\ p[2] = k
      BY <2>1
    <3>2. A[p] = [h EXCEPT ![n] = v][k]
      BY <3>1 DEF StoresOf
    <3>3. B[p] = IF p = Member(n) THEN v ELSE h[k]
      BY <3>1 DEF StoresOf
    <3>4. p = Member(n) <=> k = n
      BY <3>1, PlacesApart
    <3>5. [h EXCEPT ![n] = v][k] = IF k = n THEN v ELSE h[k]
      BY DEF IsHeld
    <3> QED BY ONLY <3>2, <3>3, <3>4, <3>5
  <2>2. CASE p = Misplaced /\ p[1] = 1
    <3>1. p # Member(n)
      BY <2>2, PlacesApart
    <3> QED BY <2>2, <3>1 DEF StoresOf
  <2>3. CASE p = Unknown /\ p[1] = 2
    <3>1. p # Member(n)
      BY <2>3, PlacesApart
    <3> QED BY <2>3, <3>1 DEF StoresOf
  <2> QED BY <2>1, <2>2, <2>3, PlaceKinds
<1> HIDE DEF A, B
<1>3. A = B
  BY ONLY <1>1, <1>2
<1>4. IsHeld(c, [h EXCEPT ![n] = v])
  BY DEF IsHeld
<1> QED BY <1>3, <1>4 DEF A, B

LEMMA StoresPutMisplaced ==
    ASSUME NEW c, NEW h, NEW m, NEW u, NEW v
    PROVE  StoresOf(c, h, v, u) = [StoresOf(c, h, m, u) EXCEPT ![Misplaced] = v]
<1> DEFINE A == StoresOf(c, h, v, u)
           B == [StoresOf(c, h, m, u) EXCEPT ![Misplaced] = v]
<1>1. A = [p \in Places(c) |-> A[p]] /\ B = [p \in Places(c) |-> B[p]]
  BY DEF StoresOf
<1>2. ASSUME NEW p \in Places(c) PROVE A[p] = B[p]
  <2>1. p[1] = 1 <=> p = Misplaced
    BY PlaceKinds, PlacesApart
  <2> QED BY <2>1 DEF StoresOf
<1> HIDE DEF A, B
<1>3. A = B
  BY ONLY <1>1, <1>2
<1> QED BY <1>3 DEF A, B

LEMMA StoresPutUnknown ==
    ASSUME NEW c, NEW h, NEW m, NEW u, NEW v
    PROVE  StoresOf(c, h, m, v) = [StoresOf(c, h, m, u) EXCEPT ![Unknown] = v]
<1> DEFINE A == StoresOf(c, h, m, v)
           B == [StoresOf(c, h, m, u) EXCEPT ![Unknown] = v]
<1>1. A = [p \in Places(c) |-> A[p]] /\ B = [p \in Places(c) |-> B[p]]
  BY DEF StoresOf
<1>2. ASSUME NEW p \in Places(c) PROVE A[p] = B[p]
  <2>1. (p[1] # 0 /\ p[1] # 1) <=> p = Unknown
    BY PlaceKinds, PlacesApart
  <2> QED BY <2>1 DEF StoresOf
<1> HIDE DEF A, B
<1>3. A = B
  BY ONLY <1>1, <1>2
<1> QED BY <1>3 DEF A, B

(* A step of the parse: the attributes, or one child.                      *)
Cut(c, as) == {a \in as : ~(a.type \in CodeRow[c].attrs /\ IsBad(a))}

PutCur == [stores EXCEPT ![PlaceOf(class, Cur)] =
             Put(class, PlaceOf(class, Cur), stores[PlaceOf(class, Cur)], Cur)]

ParseStep ==
    /\ class' = class /\ texts' = texts /\ round' = round /\ next' = next + 1
    /\ visited' = visited
    /\ IsHeld(class, held')
    /\ \/ next = 0 /\ stores' = stores /\ attributes' = Cut(class, Text.attrs)
       \/ More /\ attributes' = attributes /\ Dropped(class, Cur) /\ stores' = stores
       \/ More /\ attributes' = attributes /\ ~Dropped(class, Cur) /\ stores' = PutCur

LEMMA ParseSteps ==
    ASSUME Typed, ParseAttributes \/ AddElement \/ AddUnknownElement
    PROVE  ParseStep
<1>1. /\ class' = class /\ texts' = texts /\ round' = round /\ next' = next + 1
      /\ visited' = visited /\ class \in Classes
      /\ IsHeld(class, held)
  BY DEF Typed, ParseAttributes, AddElement, Take, Drop, Misplace, AddUnknownElement, HandOver
<1>2. stores' = StoresOf(class, held', misplaced', unknown')
  BY <1>1 DEF stores
<1>3. CASE ParseAttributes
  <2>1. /\ held' = held /\ misplaced' = misplaced /\ unknown' = unknown /\ next = 0
        /\ attributes' = Cut(class, Text.attrs)
    BY <1>3 DEF ParseAttributes, Cut
  <2>2. stores' = stores
    BY <1>2, <2>1 DEF stores
  <2> QED BY <1>1, <2>1, <2>2 DEF ParseStep
<1>4. CASE Drop
  <2>1. /\ held' = held /\ misplaced' = misplaced /\ unknown' = unknown
        /\ attributes' = attributes /\ More /\ Dropped(class, Cur)
    BY <1>4 DEF Drop, element
  <2>2. stores' = stores
    BY <1>2, <2>1 DEF stores
  <2> QED BY <1>1, <2>1, <2>2 DEF ParseStep
<1>5. CASE Misplace
  <2>1. /\ held' = held /\ misplaced' = Append(misplaced, Cur) /\ unknown' = unknown
        /\ attributes' = attributes /\ More
        /\ Known(Cur) /\ ~Taken(class, Cur) /\ ~Dropped(class, Cur)
    BY <1>5 DEF Misplace
  <2>2. PlaceOf(class, Cur) = Misplaced
    BY <2>1 DEF PlaceOf
  <2> DEFINE v == Append(misplaced, Cur)
  <2>4. Put(class, Misplaced, stores[Misplaced], Cur) = v
    <3>1. Misplaced[1] = 1 /\ stores[Misplaced] = misplaced
      BY StoresHold, PlacesApart
    <3> QED BY <3>1 DEF Put
  <2> HIDE DEF v
  <2>3. stores' = [stores EXCEPT ![Misplaced] = v]
    <3>1. StoresOf(class, held, v, unknown)
            = [StoresOf(class, held, misplaced, unknown) EXCEPT ![Misplaced] = v]
      BY StoresPutMisplaced
    <3>2. stores' = StoresOf(class, held, v, unknown)
      BY <1>2, <2>1 DEF v
    <3> QED BY <3>1, <3>2 DEF stores
  <2>5. stores' = PutCur
    BY <2>2, <2>3, <2>4 DEF PutCur
  <2> QED BY <1>1, <2>1, <2>5 DEF ParseStep
<1>6. CASE AddUnknownElement
  <2>1. /\ held' = held /\ misplaced' = misplaced /\ unknown' = Append(unknown, Cur)
        /\ attributes' = attributes /\ More /\ ~Known(Cur)
    BY <1>6 DEF AddUnknownElement
  <2>2. PlaceOf(class, Cur) = Unknown /\ ~Dropped(class, Cur)
    BY <2>1 DEF PlaceOf, Dropped
  <2> DEFINE v == Append(unknown, Cur)
  <2>4. Put(class, Unknown, stores[Unknown], Cur) = v
    <3>1. Unknown[1] = 2 /\ stores[Unknown] = unknown
      BY StoresHold, PlacesApart
    <3> QED BY <3>1 DEF Put
  <2> HIDE DEF v
  <2>3. stores' = [stores EXCEPT ![Unknown] = v]
    <3>1. StoresOf(class, held, misplaced, v)
            = [StoresOf(class, held, misplaced, unknown) EXCEPT ![Unknown] = v]
      BY StoresPutUnknown
    <3>2. stores' = StoresOf(class, held, misplaced, v)
      BY <1>2, <2>1 DEF v
    <3> QED BY <3>1, <3>2 DEF stores
  <2>5. stores' = PutCur
    BY <2>2, <2>3, <2>4 DEF PutCur
  <2> QED BY <1>1, <2>1, <2>2, <2>5 DEF ParseStep
<1>7. CASE Take
  <2> DEFINE m == Home(class, Cur.type)
             v == Given(class, m, held[m], Cur)
  <2>1. /\ held' = [held EXCEPT ![m] = v] /\ misplaced' = misplaced /\ unknown' = unknown
        /\ attributes' = attributes /\ More /\ Taken(class, Cur)
    BY <1>7 DEF Take
  <2>2. m \in Members(class)
    BY <1>1, <2>1, SchemaAssumption DEF Taken, Known
  <2>3. PlaceOf(class, Cur) = Member(m) /\ ~Dropped(class, Cur)
    BY <2>1 DEF PlaceOf, Dropped, Taken
  <2>4. Put(class, Member(m), stores[Member(m)], Cur) = v
    <3>1. Member(m)[1] = 0 /\ Member(m)[2] = m
      BY PlacesApart
    <3>2. stores[Member(m)] = held[m]
      BY <2>2, StoresHold
    <3> HIDE DEF m
    <3> QED BY <3>1, <3>2 DEF Put
  <2> HIDE DEF m, v
  <2>5. stores' = [stores EXCEPT ![Member(m)] = v]
    <3>1. StoresOf(class, With(held, m, v), misplaced, unknown)
            = With(StoresOf(class, held, misplaced, unknown), Member(m), v)
      BY <1>1, <2>2, StoresPutMember
    <3>2. stores' = StoresOf(class, With(held, m, v), misplaced, unknown)
      BY <1>2, <2>1 DEF With
    <3> QED BY <3>1, <3>2 DEF stores, With
  <2>6. stores' = PutCur
    BY <2>3, <2>4, <2>5 DEF PutCur
  <2>7. IsHeld(class, held')
    BY <1>1, <2>1, <2>2, StoresPutMember DEF With
  <2> QED BY <1>1, <2>1, <2>3, <2>6, <2>7 DEF ParseStep
<1> QED BY <1>3, <1>4, <1>5, <1>6, <1>7 DEF AddElement

(* The members hold what they should of the text as far as it is parsed,   *)
(* and what is written is what the element holds.                          *)
SoundNow   == Sound(stores, class, Text.body, next - 1)
WrittenNow == Len(texts) > round => Parsed /\ texts[round + 1] = Serialized
Kept       == Typed /\ SoundNow /\ WrittenNow

LEMMA Typing ==
    ASSUME Typed
    PROVE  /\ round \in Nat \ {0} /\ Len(texts) \in Nat /\ round \in 1..Len(texts)
           /\ Text = [attrs |-> Text.attrs, body |-> Text.body]
           /\ Text.body \in Seq(Fit(class)) /\ Len(Text.body) \in Nat
           /\ next \in Int /\ next >= 0 /\ next <= Len(Text.body) + 1
           /\ class \in Classes
           /\ More <=> next \in 1..Len(Text.body)
           /\ Parsed <=> next = Len(Text.body) + 1
<1>1. round \in Nat \ {0} /\ Len(texts) \in {round, round + 1}
  BY RoundsAssumption DEF Typed
<1>2. round \in 1..Len(texts) /\ Len(texts) \in Nat
  BY <1>1
<1>3. IsText(class, Text)
  BY <1>2 DEF Typed, Text
<1>4. Text.body \in Seq(Fit(class)) /\ Text = [attrs |-> Text.attrs, body |-> Text.body]
  BY <1>3 DEF IsText
<1> DEFINE n == Len(Text.body)
<1>5. n \in Nat /\ DOMAIN Text.body = 1..n
  BY <1>4, LenProperties
<1>6. next \in 0..(n + 1)
  BY DEF Typed
<1>7. (More <=> next \in 1..n) /\ (Parsed <=> next > n)
  BY <1>5 DEF More, Parsed
<1> HIDE DEF n
<1>8. next \in Int /\ next >= 0 /\ next <= n + 1 /\ (next > n <=> next = n + 1)
  BY <1>5, <1>6
<1> QED BY <1>1, <1>2, <1>4, <1>5, <1>7, <1>8 DEF n, Typed

(* An element that was given nothing yet.                                  *)
Fresh == /\ IsHeld(class, held) /\ \A m \in Members(class) : held[m] = << >>
         /\ misplaced = << >> /\ unknown = << >>

LEMMA FreshStores ==
    ASSUME NEW c, NEW h, NEW T, \A m \in Members(c) : h[m] = << >>
    PROVE  /\ StoresOf(c, h, << >>, << >>) \in [Places(c) -> Seq(T)]
           /\ \A b : Sound(StoresOf(c, h, << >>, << >>), c, b, -1)
<1>1. << >> \in Seq(T)
  OBVIOUS
<1>2. \A m \in Members(c) : h[m] \in Seq(T)
  BY <1>1
<1>3. StoresOf(c, h, << >>, << >>) \in [Places(c) -> Seq(T)]
  BY <1>1, <1>2, StoresType
<1>4. \A p \in Places(c) : StoresOf(c, h, << >>, << >>)[p] = << >>
  BY PlaceKinds, StoresAre
<1>5. \A p, b : SoundAt(<< >>, p, c, b, -1)
  BY SoundNone
<1> QED BY <1>3, <1>4, <1>5 DEF Sound

LEMMA InputIsText ==
    ASSUME NEW c \in Classes, NEW t \in Inputs(c) PROVE IsText(c, t) /\ IdsDiffer(t.body)
<1>1. /\ t = [attrs |-> t.attrs, body |-> t.body] /\ t.body \in Seq(Items)
      /\ \A i \in Range(t.body) : ReadAs(c, NameOf(i.type)) = i.type
      /\ \A j, k \in DOMAIN t.body : t.body[j].id = t.body[k].id => j = k
  BY InputsAssumption
<1> DEFINE b == t.body
<1> HIDE DEF b
<1>2. DOMAIN b = 1..Len(b) /\ \A k \in 1..Len(b) : b[k] \in Items
  BY <1>1, LenProperties DEF b
<1>3. \A k \in 1..Len(b) : b[k] \in Fit(c)
  BY <1>1, <1>2 DEF b, Fit, Range
<1>4. Len(b) \in Nat /\ b \in [1..Len(b) -> Fit(c)]
  <2>1. Len(b) \in Nat /\ b \in [1..Len(b) -> Items]
    BY <1>1, LenProperties DEF b
  <2> QED BY <2>1, <1>3
<1>5. b \in Seq(Fit(c))
  <2> DEFINE F == Fit(c)
             n == Len(b)
  <2> HIDE DEF F, n
  <2>1. n \in Nat /\ b \in [1..n -> F]
    BY <1>4 DEF F, n
  <2>2. b \in Seq(F)
    BY ONLY <2>1
  <2> QED BY <2>2 DEF F
<1>6. IdsDiffer(b)
  BY <1>1, <1>2 DEF IdsDiffer, b
<1> QED BY <1>1, <1>5, <1>6 DEF IsText, b

LEMMA InitKept == ASSUME Init PROVE Kept
<1>1. PICK t \in Inputs(class) : texts = <<t>>
  BY DEF Init
<1>2. /\ class \in Classes /\ round = 1 /\ next = 0 /\ misplaced = << >> /\ unknown = << >>
      /\ held = [m \in Members(class) |-> << >>]
  BY DEF Init
<1>3. IsText(class, t)
  BY <1>1, <1>2, InputIsText
<1>4. IsList(texts) /\ Len(texts) = 1 /\ texts[1] = t /\ Text = t
  BY <1>1, <1>2, SingleList DEF Text
<1>5. IsHeld(class, held) /\ \A m \in Members(class) : held[m] = << >>
  BY <1>2 DEF IsHeld
<1>6. stores \in [Places(class) -> Seq(Fit(class))] /\ \A b : Sound(stores, class, b, -1)
  BY <1>2, <1>5, FreshStores DEF stores
<1>7. next \in 0..(Len(Text.body) + 1)
  <2>1. Len(t.body) \in Nat
    BY <1>3, LenProperties DEF IsText
  <2> QED BY <2>1, <1>2, <1>4
<1>8. \A r \in 1..Len(texts) : IsText(class, texts[r])
  BY <1>3, <1>4
<1>9. Typed
  <2>1. round \in 1..Rounds /\ Len(texts) \in {round, round + 1}
    BY <1>2, <1>4, RoundsAssumption
  <2> QED BY <2>1, <1>2, <1>4, <1>5, <1>6, <1>7, <1>8 DEF Typed
<1>10. SoundNow
  <2>1. next - 1 = -1
    BY <1>2
  <2> QED BY <2>1, <1>6 DEF SoundNow
<1>11. WrittenNow
  BY <1>2, <1>4 DEF WrittenNow
<1> QED BY <1>9, <1>10, <1>11 DEF Kept

LEMMA ParseKept ==
    ASSUME Kept, ParseStep PROVE Kept'
<1> DEFINE b == Text.body
           F == Fit(class)
           P == Places(class)
<1>1. /\ Typed /\ SoundNow /\ WrittenNow
      /\ class' = class /\ texts' = texts /\ round' = round /\ next' = next + 1 /\ Text' = Text
  BY DEF Kept, ParseStep, Text
<1>2. /\ class \in Classes /\ b \in Seq(F) /\ Len(b) \in Nat
      /\ next \in Int /\ next >= 0 /\ next <= Len(b) + 1
      /\ (More <=> next \in 1..Len(b)) /\ (Parsed <=> next = Len(b) + 1)
  BY <1>1, Typing
<1>3. next = 0 \/ More
  BY DEF ParseStep
<1> HIDE DEF b, F, P
<1>4. next <= Len(b) /\ ~Parsed
  BY <1>2, <1>3
<1>5. stores \in [P -> Seq(F)] /\ Sound(stores, class, b, next - 1)
  BY <1>1 DEF Typed, SoundNow, b, F, P
<1>6. stores' \in [P -> Seq(F)] /\ Sound(stores', class, b, next)
  <2>1. CASE stores' = stores
    <3>1. \A p \in P : SoundAt(stores[p], p, class, b, (next - 1) + 1)
      BY <1>2, <1>5, SoundMore DEF Sound, P
    <3>2. (next - 1) + 1 = next
      BY <1>2
    <3> QED BY <2>1, <3>1, <3>2, <1>5 DEF Sound, P
  <2>2. CASE More /\ ~Dropped(class, Cur) /\ stores' = PutCur
    <3> DEFINE n == next - 1
               q == PlaceOf(class, b[n + 1])
    <3>1. n \in Nat /\ n + 1 = next /\ next \in 1..Len(b)
      BY <2>2, <1>2
    <3>2. Cur = b[n + 1] /\ b[n + 1] \in F
      BY <3>1, <1>2, ElementOfSeq DEF Cur, b
    <3>3. q \in P
      BY <1>2, PlaceExists DEF P
    <3>4. stores' = [stores EXCEPT ![q] = Put(class, q, stores[q], b[n + 1])]
      BY <2>2, <3>2 DEF PutCur
    <3>5. Sound(stores, class, b, n) /\ ~Dropped(class, b[n + 1])
      BY <1>5, <2>2, <3>2
    <3> HIDE DEF n, q
    <3>6. Sound([stores EXCEPT ![q] = Put(class, q, stores[q], b[n + 1])], class, b, n + 1)
      BY <3>1, <3>2, <3>3, <3>5, <1>5, SoundPut DEF P, q
    <3>7. Put(class, q, stores[q], b[n + 1]) \in Seq(F)
      <4>1. stores[q] \in Seq(F)
        BY <3>3, <1>5
      <4> QED BY <4>1, <3>2, PutType
    <3>8. stores' \in [P -> Seq(F)]
      <4> DEFINE S == Seq(F)
                 v == Put(class, q, stores[q], b[n + 1])
      <4> HIDE DEF S, v
      <4>1. stores \in [P -> S] /\ v \in S /\ stores' = [stores EXCEPT ![q] = v]
        BY <3>4, <3>7, <1>5 DEF S, v
      <4>2. stores' \in [P -> S]
        BY ONLY <4>1
      <4> QED BY <4>2 DEF S
    <3> QED BY <3>1, <3>4, <3>6, <3>8
  <2> QED BY <2>1, <2>2 DEF ParseStep
<1>7. Len(texts) = round
  <2>1. ~(Len(texts) > round)
    BY <1>1, <1>4 DEF WrittenNow
  <2> QED BY <2>1, <1>1 DEF Typed
<1>8. Typed'
  <2>1. next + 1 \in 0..(Len(b) + 1)
    BY <1>2, <1>4
  <2>2. IsHeld(class, held')
    BY DEF ParseStep
  <2> QED BY <1>1, <1>6, <2>1, <2>2 DEF Typed, b, F, P
<1>9. SoundNow'
  <2>1. next' - 1 = next
    BY <1>1, <1>2
  <2> QED BY <2>1, <1>1, <1>6 DEF SoundNow, b
<1>10. WrittenNow'
  <2>1. ~(Len(texts') > round')
    BY <1>1, <1>7, Typing
  <2> QED BY <2>1 DEF WrittenNow
<1> QED BY <1>8, <1>9, <1>10 DEF Kept

LEMMA RereadSame == ASSUME NEW t, IsText(class, t) PROVE Reread(t) = t
<1> DEFINE b == t.body
           r == [k \in DOMAIN b |-> [b[k] EXCEPT !.type = ReadAs(class, NameOf(b[k].type))]]
<1>1. t = [attrs |-> t.attrs, body |-> b] /\ b \in Seq(Fit(class))
  BY DEF IsText
<1>2. Reread(t) = [t EXCEPT !.body = r]
  BY DEF Reread
<1>3. ASSUME NEW k \in DOMAIN b PROVE [b[k] EXCEPT !.type = ReadAs(class, NameOf(b[k].type))] = b[k]
  <2>0. k \in 1..Len(b)
    BY <1>1, LenProperties
  <2>1. b[k] \in Fit(class)
    BY <1>1, <2>0, ElementOfSeq
  <2>2. b[k] \in [type : STRING, ok : BOOLEAN, id : Nat \ {0}] /\ ReadAs(class, NameOf(b[k].type)) = b[k].type
    BY <2>1 DEF Fit, Items
  <2> DEFINE i == b[k]
             y == b[k].type
  <2>3. i \in [type : STRING, ok : BOOLEAN, id : Nat \ {0}] /\ y = i.type
    BY <2>2
  <2> HIDE DEF i, y
  <2>4. [i EXCEPT !.type = y] = i
    BY ONLY <2>3
  <2> QED BY <2>2, <2>4 DEF i, y
<1>4. b = [k \in DOMAIN b |-> b[k]]
  BY <1>1, LenProperties
<1>5. r = b
  BY <1>3, <1>4
<1> HIDE DEF r
<1>6. [t EXCEPT !.body = r] = t
  <2> DEFINE a == t.attrs
  <2>1. t = [attrs |-> a, body |-> b] /\ r = b
    BY <1>1, <1>5
  <2> HIDE DEF a, b
  <2>2. [t EXCEPT !.body = r] = t
    BY <2>1
  <2> QED BY <2>2
<1> QED BY <1>2, <1>6 DEF b

LEMMA SerializeKept ==
    ASSUME Kept, Serialize, IsText(class, Serialized) PROVE
      /\ Kept' /\ Text' = Text /\ Len(texts') = Len(texts) + 1 /\ Len(texts) = round
      /\ texts'[Len(texts) + 1] = Serialized /\ \A r \in 1..Len(texts) : texts'[r] = texts[r]
<1> DEFINE t == Serialized
           n == Len(texts)
<1>1. /\ Typed /\ SoundNow /\ class' = class /\ round' = round /\ next' = next
      /\ held' = held /\ attributes' = attributes /\ misplaced' = misplaced /\ unknown' = unknown
      /\ Parsed /\ n = round /\ texts' = Append(texts, t)
  BY DEF Kept, Serialize, element
<1>2. stores' = stores /\ Serialized' = Serialized
  BY <1>1 DEF stores, Serialized, InOrder, SerializeUnknown
<1>3. IsList(texts) /\ n \in Nat /\ round \in 1..n
  BY <1>1, Typing DEF Typed
<1> HIDE DEF t, n
<1>4. Len(texts') = n + 1 /\ texts'[n + 1] = t /\ \A r \in 1..n : texts'[r] = texts[r]
  <2> DEFINE S == Range(texts) \cup {t}
  <2>1. texts \in Seq(Range(texts)) /\ Range(texts) \subseteq S
    BY <1>3 DEF IsList
  <2>2. texts \in Seq(S) /\ t \in S
    BY <2>1, SeqMonotonic
  <2> HIDE DEF S
  <2> QED BY <1>1, <2>2, AppendProperties DEF n
<1>5. Text' = Text
  BY <1>1, <1>3, <1>4 DEF Text
<1>6. Typed'
  <2>1. IsList(texts')
    BY <1>1, <1>3, AppendList
  <2>2. ASSUME NEW r \in 1..(n + 1) PROVE IsText(class, texts'[r])
    <3>1. CASE r = n + 1
      BY <3>1, <1>4 DEF t
    <3>2. CASE r # n + 1
      <4>1. r \in 1..n
        BY <3>2, <1>3
      <4> QED BY <4>1, <1>1, <1>4 DEF Typed, n
    <3> QED BY <3>1, <3>2
  <2> QED BY <1>1, <1>2, <1>4, <1>5, <2>1, <2>2 DEF Typed
<1>7. SoundNow'
  BY <1>1, <1>2, <1>5 DEF SoundNow
<1>8. WrittenNow'
  <2>1. Parsed'
    BY <1>1, <1>5 DEF Parsed
  <2> QED BY <2>1, <1>1, <1>2, <1>4 DEF WrittenNow, t
<1> QED BY <1>1, <1>4, <1>5, <1>6, <1>7, <1>8 DEF Kept, t, n

LEMMA ReparseKept ==
    ASSUME Kept, Reparse
    PROVE  Kept' /\ texts' = texts /\ Text' = texts[round + 1] /\ next' = 0 /\ round' = round + 1
<1>1. /\ Typed /\ class' = class /\ round' = round + 1 /\ next' = 0
      /\ held' = [m \in Members(class) |-> << >>] /\ misplaced' = << >> /\ unknown' = << >>
      /\ Len(texts) = round + 1 /\ round < Rounds
      /\ texts' = [texts EXCEPT ![round + 1] = Reread(texts[round + 1])]
  BY DEF Kept, Reparse
<1>2. /\ class \in Classes /\ round \in Nat \ {0} /\ IsList(texts)
      /\ \A r \in 1..Len(texts) : IsText(class, texts[r])
  BY <1>1, Typing DEF Typed
<1>3. round + 1 \in 1..Len(texts)
  BY <1>1, <1>2
<1>4. texts' = texts
  <2>1. Reread(texts[round + 1]) = texts[round + 1]
    BY <1>2, <1>3, RereadSame
  <2>2. texts = [k \in DOMAIN texts |-> texts[k]]
    BY <1>2 DEF IsList
  <2>3. \A S, x : S = [k \in DOMAIN S |-> S[k]] => [S EXCEPT ![x] = S[x]] = S
    OBVIOUS
  <2> QED BY <1>1, <2>1, <2>2, <2>3
<1>5. Text' = texts[round + 1]
  BY <1>1, <1>4 DEF Text
<1>6. stores' \in [Places(class) -> Seq(Fit(class))] /\ \A b : Sound(stores', class, b, -1)
  <2> DEFINE h == [m \in Members(class) |-> << >>]
  <2>1. \A m \in Members(class) : h[m] = << >>
    OBVIOUS
  <2>2. stores' = StoresOf(class, h, << >>, << >>)
    BY <1>1 DEF stores
  <2> HIDE DEF h
  <2> QED BY <2>1, <2>2, FreshStores
<1>7. IsHeld(class, held')
  BY <1>1 DEF IsHeld
<1>8. Typed'
  <2>1. Len(texts[round + 1].body) \in Nat
    BY <1>2, <1>3, LenProperties DEF IsText
  <2>2. 0 \in 0..(Len(texts[round + 1].body) + 1)
    BY <2>1
  <2>3. round + 1 \in 1..Rounds
    BY <1>1, <1>2, RoundsAssumption
  <2> QED BY <1>1, <1>2, <1>4, <1>5, <1>6, <1>7, <2>2, <2>3 DEF Typed
<1>9. SoundNow'
  <2>1. next' - 1 = -1
    BY <1>1
  <2> QED BY <2>1, <1>1, <1>6 DEF SoundNow
<1>10. WrittenNow'
  <2>1. ~(Len(texts) > round + 1)
    BY <1>1, <1>2
  <2> QED BY <2>1, <1>1, <1>4 DEF WrittenNow
<1> QED BY <1>1, <1>4, <1>5, <1>8, <1>9, <1>10 DEF Kept

LEMMA StayKept ==
    ASSUME Kept, UNCHANGED <<class, texts, round, next, element>>
    PROVE  Kept' /\ stores' = stores /\ Text' = Text
<1>1. /\ class' = class /\ texts' = texts /\ round' = round /\ next' = next
      /\ held' = held /\ attributes' = attributes /\ misplaced' = misplaced /\ unknown' = unknown
  BY DEF element
<1>2. stores' = stores /\ Serialized' = Serialized /\ Text' = Text
  BY <1>1 DEF stores, Serialized, InOrder, SerializeUnknown, Text
<1>3. Typed' /\ SoundNow'
  BY <1>1, <1>2 DEF Kept, Typed, SoundNow
<1>4. WrittenNow'
  BY <1>1, <1>2 DEF Kept, WrittenNow, Parsed
<1> QED BY <1>2, <1>3, <1>4 DEF Kept

LEMMA SerializedIsText ==
    ASSUME Kept PROVE IsText(class, Serialized)
<1>1. class \in Classes /\ stores \in [Places(class) -> Seq(Fit(class))]
  BY DEF Kept, Typed
<1>2. /\ Serialized.body \in Seq(Fit(class))
      /\ Serialized = [attrs |-> IF CodeRow[class].keeps THEN attributes ELSE {},
                       body |-> Serialized.body]
  BY <1>1, SerializedJoins
<1>3. \A t, x, y : t = [attrs |-> x, body |-> y] => t = [attrs |-> t.attrs, body |-> t.body]
  OBVIOUS
<1> QED BY <1>2, <1>3 DEF IsText

LEMMA NextKept == ASSUME Kept, [Next]_vars PROVE Kept'
<1>1. CASE ParseAttributes \/ AddElement \/ AddUnknownElement
  BY <1>1, ParseSteps, ParseKept DEF Kept
<1>2. CASE Serialize
  BY <1>2, SerializedIsText, SerializeKept
<1>3. CASE Reparse
  BY <1>3, ReparseKept
<1>4. CASE VisitPreorder \/ VisitPostorder \/ UNCHANGED vars
  BY <1>4, StayKept DEF VisitPreorder, VisitPostorder, vars
<1> QED BY <1>1, <1>2, <1>3, <1>4 DEF Next

LEMMA KeptTypeOK == ASSUME Kept PROVE TypeOK
<1>1. /\ class \in Classes /\ round \in 1..Rounds /\ Len(texts) \in {round, round + 1}
      /\ next \in 0..(Len(Text.body) + 1) /\ IsHeld(class, held)
  BY DEF Kept, Typed
<1>2. DOMAIN held = Members(class)
  BY <1>1 DEF IsHeld
<1>3. ASSUME NEW m \in Members(class) \ ClassRow[class].list PROVE Len(held[m]) <= 1
  <2>1. Member(m) \in Places(class) /\ stores[Member(m)] = held[m] /\ Single(class, Member(m))
    BY StoresHold, PlacesApart
  <2>2. SoundAt(stores[Member(m)], Member(m), class, Text.body, next - 1)
    BY <2>1 DEF Kept, SoundNow, Sound
  <2> QED BY <2>1, <2>2 DEF SoundAt
<1> QED BY <1>1, <1>2, <1>3 DEF TypeOK

(* TypeOK: a member the class keeps one child of never holds two.          *)
THEOREM TypeOKAlways == Spec => []TypeOK
<1>1. Init => Kept
  BY InitKept
<1>2. Kept /\ [Next]_vars => Kept'
  BY NextKept
<1>3. Kept => TypeOK
  BY KeptTypeOK
<1> QED BY <1>1, <1>2, <1>3, PTL DEF Spec

LEMMA InRange ==
    ASSUME NEW T, NEW s \in Seq(T)
    PROVE  /\ \A i : i \in Range(s) <=> \E k \in 1..Len(s) : s[k] = i
           /\ Len(s) \in Nat /\ DOMAIN s = 1..Len(s)
<1>1. Len(s) \in Nat /\ DOMAIN s = 1..Len(s)
  BY LenProperties
<1> QED BY <1>1 DEF Range

(* One of the places of L holds i.                                         *)
HoldsIn(st, L, i) == \E j \in 1..Len(L) : i \in Range(st[L[j]])

(* A join holds what its parts hold.                                       *)
LEMMA JoinHolds ==
    ASSUME NEW P, NEW T, NEW L \in Seq(P), NEW st \in [P -> Seq(T)], NEW s \in Seq(T),
           IsJoin(Blocks(st, L), s), NEW i
    PROVE  i \in Range(s) <=> HoldsIn(st, L, i)
<1> USE DEF HoldsIn
<1> DEFINE ss == Blocks(st, L)
<1>1. PICK w, o : Lays(ss, s, w, o)
  BY DEF IsJoin
<1>2. Len(L) \in Nat /\ Len(ss) = Len(L) /\ \A j \in 1..Len(L) : ss[j] = st[L[j]] /\ L[j] \in P
  BY LenProperties DEF Blocks
<1> HIDE DEF ss
<1>3. /\ \A k \in 1..Len(s) : w[k] \in 1..Len(L) /\ o[k] \in 1..Len(st[L[w[k]]])
                              /\ s[k] = st[L[w[k]]][o[k]]
      /\ \A j \in 1..Len(L) : \A q \in 1..Len(st[L[j]]) : \E k \in 1..Len(s) : w[k] = j /\ o[k] = q
  <2>1. /\ w \in [1..Len(s) -> 1..Len(ss)]
        /\ \A k \in 1..Len(s) : o[k] \in 1..Len(ss[w[k]]) /\ s[k] = ss[w[k]][o[k]]
        /\ \A j \in 1..Len(ss) : \A q \in 1..Len(ss[j]) :
             \E k \in 1..Len(s) : w[k] = j /\ o[k] = q
    BY <1>1 DEF Lays
  <2>2. ASSUME NEW k \in 1..Len(s)
        PROVE  w[k] \in 1..Len(L) /\ o[k] \in 1..Len(st[L[w[k]]]) /\ s[k] = st[L[w[k]]][o[k]]
    <3>1. w[k] \in 1..Len(L)
      BY <2>1, <1>2
    <3> QED BY <2>1, <3>1, <1>2
  <2>3. ASSUME NEW j \in 1..Len(L), NEW q \in 1..Len(st[L[j]])
        PROVE  \E k \in 1..Len(s) : w[k] = j /\ o[k] = q
    <3>1. j \in 1..Len(ss) /\ ss[j] = st[L[j]]
      BY ONLY <1>2, j \in 1..Len(L)
    <3>2. q \in 1..Len(ss[j])
      BY <3>1
    <3> QED BY ONLY <2>1, <3>1, <3>2
  <2> QED BY <2>2, <2>3
<1>4. ASSUME NEW j \in 1..Len(L) PROVE st[L[j]] \in Seq(T)
  BY <1>2
<1>5. ASSUME NEW k \in 1..Len(s), s[k] = i PROVE \E j \in 1..Len(L) : i \in Range(st[L[j]])
  <2>1. w[k] \in 1..Len(L) /\ o[k] \in 1..Len(st[L[w[k]]]) /\ i = st[L[w[k]]][o[k]]
    BY <1>3, <1>5
  <2>2. st[L[w[k]]] \in Seq(T)
    BY <2>1, <1>4
  <2>3. i \in Range(st[L[w[k]]])
    BY <2>1, <2>2, InRange
  <2> QED BY <2>1, <2>3
<1>6. ASSUME NEW j \in 1..Len(L), i \in Range(st[L[j]]) PROVE \E k \in 1..Len(s) : s[k] = i
  <2>1. PICK q \in 1..Len(st[L[j]]) : st[L[j]][q] = i
    BY <1>4, <1>6, InRange
  <2>2. PICK k \in 1..Len(s) : w[k] = j /\ o[k] = q
    BY <1>3
  <2> QED BY <2>1, <2>2, <1>3
<1> QED BY <1>5, <1>6, InRange

(* The places Serialize writes from.                                       *)
LEMMA LayoutOfIs ==
    ASSUME NEW c \in Classes, NEW p
    PROVE  (\E j \in 1..Len(LayoutOf(c)) : LayoutOf(c)[j] = p)
             <=> \/ \E m \in Range(CodeRow[c].writes) : p = Member(m)
                 \/ CodeRow[c].keeps /\ p \in {Misplaced, Unknown}
<1> DEFINE w == CodeRow[c].writes
           L == Layout(w)
           LM == Append(L, Misplaced)
           LMU == Append(LM, Unknown)
<1>1. w \in Seq(Members(c)) /\ L \in Seq(Places(c)) /\ Misplaced \in Places(c) /\ Unknown \in Places(c)
  BY LayoutOfType DEF Places
<1>2. Len(L) = Len(w) /\ Len(L) \in Nat /\ \A j \in 1..Len(w) : L[j] = Member(w[j])
  BY <1>1, LayoutType, LenProperties
<1>3. LM \in Seq(Places(c)) /\ Len(LM) = Len(L) + 1 /\ LM[Len(L) + 1] = Misplaced
      /\ \A j \in 1..Len(L) : LM[j] = L[j]
  BY <1>1, AppendProperties
<1>4. Len(LMU) = Len(LM) + 1 /\ LMU[Len(LM) + 1] = Unknown /\ \A j \in 1..Len(LM) : LMU[j] = LM[j]
  BY <1>1, <1>3, AppendProperties
<1>5. \A m : m \in Range(w) <=> \E j \in 1..Len(w) : w[j] = m
  BY <1>1, InRange
<1>6. LayoutOf(c) = IF CodeRow[c].keeps THEN LMU ELSE L
  BY DEF LayoutOf
<1> HIDE DEF L, LM, LMU
<1>7. (\E j \in 1..Len(L) : L[j] = p) <=> \E m \in Range(w) : p = Member(m)
  BY <1>2, <1>5
<1>8. (\E j \in 1..Len(LM) : LM[j] = p) <=> (\E j \in 1..Len(L) : L[j] = p) \/ p = Misplaced
  <2>1. \A j \in 1..(Len(L) + 1) : j \in 1..Len(L) \/ j = Len(L) + 1
    BY <1>2
  <2>2. \A j \in 1..Len(L) : j \in 1..(Len(L) + 1)
    BY <1>2
  <2>3. Len(L) + 1 \in 1..(Len(L) + 1)
    BY <1>2
  <2> QED BY <1>3, <2>1, <2>2, <2>3
<1>9. (\E j \in 1..Len(LMU) : LMU[j] = p) <=> (\E j \in 1..Len(LM) : LM[j] = p) \/ p = Unknown
  <2>0. Len(LM) \in Nat
    BY <1>2, <1>3
  <2>1. \A j \in 1..(Len(LM) + 1) : j \in 1..Len(LM) \/ j = Len(LM) + 1
    BY <2>0
  <2>2. \A j \in 1..Len(LM) : j \in 1..(Len(LM) + 1)
    BY <2>0
  <2>3. Len(LM) + 1 \in 1..(Len(LM) + 1)
    BY <2>0
  <2> QED BY <1>4, <2>1, <2>2, <2>3
<1> QED BY <1>6, <1>7, <1>8, <1>9

(* Serialize writes the children Holds speaks of.                          *)
LEMMA SerializedHolds ==
    ASSUME Kept, NEW i PROVE i \in Range(Serialized.body) <=> Holds(i)
<1> DEFINE L == LayoutOf(class)
           P == Places(class)
           T == Fit(class)
<1>1. class \in Classes /\ stores \in [P -> Seq(T)] /\ L \in Seq(P)
  BY LayoutOfType DEF Kept, Typed
<1>2. IsJoin(Blocks(stores, L), Serialized.body) /\ Serialized.body \in Seq(T)
  BY <1>1, SerializedJoins
<1> HIDE DEF L, P, T
<1>3. i \in Range(Serialized.body) <=> \E j \in 1..Len(L) : i \in Range(stores[L[j]])
  <2>1. i \in Range(Serialized.body) <=> HoldsIn(stores, L, i)
    BY ONLY <1>1, <1>2, JoinHolds
  <2> QED BY ONLY <2>1 DEF HoldsIn
<1>4. (\E j \in 1..Len(L) : i \in Range(stores[L[j]]))
        <=> \/ \E m \in Range(CodeRow[class].writes) : i \in Range(stores[Member(m)])
            \/ CodeRow[class].keeps /\ (i \in Range(stores[Misplaced]) \/ i \in Range(stores[Unknown]))
  <2>1. ASSUME NEW p
        PROVE  (\E j \in 1..Len(L) : L[j] = p)
             <=> \/ \E m \in Range(CodeRow[class].writes) : p = Member(m)
                 \/ CodeRow[class].keeps /\ p \in {Misplaced, Unknown}
    BY <1>1, LayoutOfIs DEF L
  <2> QED BY <2>1
<1>5. \A m \in Range(CodeRow[class].writes) : m \in Members(class)
  <2>1. CodeRow[class].writes \in Seq(Members(class))
    BY <1>1, LayoutOfType
  <2> QED BY <2>1, RangeOfSeq
<1> QED BY <1>3, <1>4, <1>5, StoresHold DEF Holds

-----------------------------------------------------------------------------
(* The texts an element was written as last, and are in its order.         *)
Clean(c, as) == IF CodeRow[c].keeps THEN Cut(c, as) = as ELSE as = {}

IsWritten(c, t) == Lasting(c, t.body) /\ Arranged(c, LayoutOf(c), t.body) /\ Clean(c, t.attrs)

TextsDiffer == \A r \in 1..Len(texts) : IdsDiffer(texts[r].body)
TextsLast   == \A r \in 2..Len(texts) : IsWritten(class, texts[r])
CompleteNow == round > 1 => Complete(stores, class, Text.body, next - 1)
AttrsNow    == next > 0 => attributes = Cut(class, Text.attrs)
Again       == Kept /\ TextsDiffer /\ TextsLast /\ CompleteNow /\ AttrsNow

LEMMA SerializedCame ==
    ASSUME Kept, Parsed
    PROVE  \E w, f : Came(Serialized.body, LayoutOf(class), class, Text.body, Len(Text.body), w, f)
<1> DEFINE n == Len(Text.body)
<1>1. /\ Typed /\ class \in Classes /\ Text.body \in Seq(Fit(class)) /\ n \in Nat
      /\ next = n + 1
  BY Typing DEF Kept
<1>2. stores \in [Places(class) -> Seq(Fit(class))] /\ LayoutOf(class) \in Seq(Places(class))
  BY <1>1, LayoutOfType DEF Typed
<1>3. Sound(stores, class, Text.body, n)
  <2> HIDE DEF n
  <2>1. next - 1 = n
    BY <1>1
  <2> QED BY <2>1 DEF Kept, SoundNow
<1>4. IsJoin(Blocks(stores, LayoutOf(class)), Serialized.body) /\ Serialized.body \in Seq(Fit(class))
  BY <1>1, <1>2, SerializedJoins
<1> QED BY <1>1, <1>2, <1>3, <1>4, JoinCame

LEMMA SerializedIsWritten ==
    ASSUME WrittenApart, Again, Parsed
    PROVE  IdsDiffer(Serialized.body) /\ IsWritten(class, Serialized)
<1> DEFINE s == Serialized.body
           b == Text.body
           n == Len(b)
           L == LayoutOf(class)
<1>1. /\ Typed /\ class \in Classes /\ b \in Seq(Fit(class)) /\ n \in Nat
      /\ next = n + 1 /\ round \in 1..Len(texts)
  BY Typing DEF Kept, Again
<1>2. L \in Seq(Places(class)) /\ Apart(L) /\ Len(L) \in Nat
  BY <1>1, LayoutOfType, LayoutOfApart, LenProperties
<1>3. PICK w, f : Came(s, L, class, b, n, w, f)
  BY SerializedCame DEF Again
<1>4. /\ s \in Seq(Fit(class)) /\ Len(s) \in Nat
      /\ Serialized = [attrs |-> IF CodeRow[class].keeps THEN attributes ELSE {}, body |-> s]
  <2>1. stores \in [Places(class) -> Seq(Fit(class))]
    BY <1>1 DEF Typed
  <2> QED BY <1>1, <2>1, SerializedJoins, LenProperties
<1>5. IdsDiffer(b)
  BY <1>1 DEF Again, TextsDiffer, Text
<1> HIDE DEF s, b, n, L
<1>6. IdsDiffer(s)
  <2>1. n <= Len(b)
    BY <1>1 DEF n
  <2> QED BY <1>1, <1>2, <1>3, <1>4, <1>5, <2>1, CameIds DEF n
<1>7. Lasting(class, s)
  BY <1>1, <1>2, <1>3, <1>4, CameLasting
<1>8. Arranged(class, L, s)
  BY <1>2, <1>3, <1>4, CameArranged
<1>9. Clean(class, Serialized.attrs)
  <2>1. Serialized.attrs = IF CodeRow[class].keeps THEN attributes ELSE {}
    BY <1>4
  <2>2. attributes = Cut(class, Text.attrs)
    BY <1>1 DEF Again, AttrsNow
  <2>3. Cut(class, Cut(class, Text.attrs)) = Cut(class, Text.attrs)
    BY DEF Cut
  <2> QED BY <2>1, <2>2, <2>3 DEF Clean
<1> QED BY <1>6, <1>7, <1>8, <1>9 DEF IsWritten, s, L

LEMMA InitAgain == ASSUME Init PROVE Again
<1>1. Kept
  BY InitKept
<1>2. PICK t \in Inputs(class) : texts = <<t>>
  BY DEF Init
<1>3. class \in Classes /\ round = 1 /\ next = 0
  BY DEF Init
<1>4. Len(texts) = 1 /\ texts[1] = t
  BY <1>2
<1>5. TextsDiffer
  BY <1>3, <1>4, InputIsText DEF TextsDiffer
<1>6. TextsLast /\ CompleteNow /\ AttrsNow
  BY <1>3, <1>4 DEF TextsLast, CompleteNow, AttrsNow
<1> QED BY <1>1, <1>5, <1>6 DEF Again

LEMMA ParseAgain == ASSUME Again, ParseStep PROVE Again'
<1> DEFINE b == Text.body
           F == Fit(class)
           P == Places(class)
<1>1. /\ Kept /\ Typed /\ class' = class /\ texts' = texts /\ round' = round /\ next' = next + 1
      /\ Text' = Text
  BY DEF Again, Kept, ParseStep, Text
<1>2. /\ class \in Classes /\ b \in Seq(F) /\ Len(b) \in Nat
      /\ next \in Int /\ next >= 0
      /\ (More <=> next \in 1..Len(b)) /\ round \in Nat \ {0} /\ round \in 1..Len(texts)
      /\ Len(texts) \in Nat
  BY <1>1, Typing
<1>3. Kept'
  BY <1>1, ParseKept
<1> HIDE DEF b, F, P
<1>4. TextsDiffer' /\ TextsLast'
  BY <1>1 DEF Again, TextsDiffer, TextsLast
<1>5. CompleteNow'
  <2> SUFFICES ASSUME round > 1 PROVE Complete(stores', class, b, next)
    <3>1. next' - 1 = next
      BY <1>1, <1>2
    <3> QED BY <3>1, <1>1 DEF CompleteNow, b
  <2>1. Complete(stores, class, b, next - 1)
    BY DEF Again, CompleteNow, b
  <2>2. Lasting(class, b)
    <3>1. round \in 2..Len(texts)
      BY <1>2
    <3> QED BY <3>1 DEF Again, TextsLast, IsWritten, Text, b
  <2>3. CASE next = 0
    BY <2>3 DEF Complete
  <2>4. CASE More
    <3> DEFINE n == next - 1
               q == PlaceOf(class, b[n + 1])
    <3>1. n \in Nat /\ n + 1 = next /\ next \in 1..Len(b) /\ n + 1 <= Len(b) /\ next # 0
      BY <2>4, <1>2
    <3>2. Cur = b[n + 1] /\ b[n + 1] \in F
      BY <3>1, <1>2, ElementOfSeq DEF Cur, b
    <3>3. q \in P
      BY <1>2, PlaceExists DEF P
    <3>4. ~Dropped(class, Cur)
      BY <2>2, <3>1, <3>2 DEF Lasting
    <3>5. stores' = [stores EXCEPT ![q] = Put(class, q, stores[q], b[n + 1])]
      BY <3>1, <3>2, <3>4 DEF ParseStep, PutCur
    <3>6. stores \in [P -> Seq(F)]
      BY <1>1 DEF Typed, P, F
    <3>7. Complete(stores, class, b, n)
      BY <2>1
    <3> HIDE DEF n, q
    <3>8. Complete([stores EXCEPT ![q] = Put(class, q, stores[q], b[n + 1])], class, b, n + 1)
      BY <1>2, <2>2, <3>1, <3>2, <3>3, <3>6, <3>7, CompletePut DEF P, q
    <3> QED BY <3>1, <3>5, <3>8
  <2> QED BY <2>3, <2>4 DEF ParseStep
<1>6. AttrsNow'
  <2>1. CASE next = 0 /\ attributes' = Cut(class, Text.attrs)
    BY <2>1, <1>1 DEF AttrsNow
  <2>2. CASE More /\ attributes' = attributes
    <3>1. next > 0
      BY <2>2, <1>2
    <3> QED BY <2>2, <3>1, <1>1 DEF Again, AttrsNow
  <2> QED BY <2>1, <2>2 DEF ParseStep
<1> QED BY <1>3, <1>4, <1>5, <1>6 DEF Again

LEMMA SerializeAgain == ASSUME WrittenApart, Again, Serialize PROVE Again'
<1>1. Kept /\ Parsed /\ class' = class /\ round' = round /\ next' = next
      /\ attributes' = attributes /\ stores' = stores
  BY DEF Again, Serialize, element, stores
<1>2. /\ Kept' /\ Text' = Text /\ Len(texts') = Len(texts) + 1 /\ Len(texts) = round
      /\ texts'[Len(texts) + 1] = Serialized /\ \A r \in 1..Len(texts) : texts'[r] = texts[r]
  BY <1>1, SerializedIsText, SerializeKept
<1>3. IdsDiffer(Serialized.body) /\ IsWritten(class, Serialized)
  BY <1>1, SerializedIsWritten
<1>4. round \in Nat \ {0}
  BY <1>1, Typing DEF Kept
<1>5. TextsDiffer'
  <2> SUFFICES ASSUME NEW r \in 1..(Len(texts) + 1) PROVE IdsDiffer(texts'[r].body)
    BY <1>2 DEF TextsDiffer
  <2>1. CASE r = Len(texts) + 1
    BY <2>1, <1>2, <1>3
  <2>2. CASE r # Len(texts) + 1
    <3>1. r \in 1..Len(texts)
      BY <2>2, <1>2, <1>4
    <3> QED BY <3>1, <1>2 DEF Again, TextsDiffer
  <2> QED BY <2>1, <2>2
<1>6. TextsLast'
  <2> SUFFICES ASSUME NEW r \in 2..(Len(texts) + 1) PROVE IsWritten(class, texts'[r])
    BY <1>1, <1>2 DEF TextsLast
  <2>1. CASE r = Len(texts) + 1
    BY <2>1, <1>2, <1>3
  <2>2. CASE r # Len(texts) + 1
    <3>1. r \in 2..Len(texts) /\ r \in 1..Len(texts)
      BY <2>2, <1>2, <1>4
    <3> QED BY <3>1, <1>2 DEF Again, TextsLast
  <2> QED BY <2>1, <2>2
<1>7. CompleteNow' /\ AttrsNow'
  BY <1>1, <1>2 DEF Again, CompleteNow, AttrsNow
<1> QED BY <1>2, <1>5, <1>6, <1>7 DEF Again

LEMMA ReparseAgain == ASSUME Again, Reparse PROVE Again'
<1>1. Kept' /\ texts' = texts /\ next' = 0 /\ class' = class
  BY ReparseKept DEF Again, Reparse
<1>2. TextsDiffer' /\ TextsLast'
  BY <1>1 DEF Again, TextsDiffer, TextsLast
<1>3. CompleteNow'
  <2>1. next' - 1 = -1
    BY <1>1
  <2> QED BY <2>1 DEF CompleteNow, Complete
<1>4. AttrsNow'
  BY <1>1 DEF AttrsNow
<1> QED BY <1>1, <1>2, <1>3, <1>4 DEF Again

LEMMA StayAgain ==
    ASSUME Again, UNCHANGED <<class, texts, round, next, element>> PROVE Again'
<1>1. Kept' /\ stores' = stores /\ Text' = Text
  BY StayKept DEF Again
<1>2. TextsDiffer' /\ TextsLast' /\ CompleteNow' /\ AttrsNow'
  BY <1>1 DEF Again, TextsDiffer, TextsLast, CompleteNow, AttrsNow, element
<1> QED BY <1>1, <1>2 DEF Again

LEMMA NextAgain == ASSUME WrittenApart, Again, [Next]_vars PROVE Again'
<1>1. CASE ParseAttributes \/ AddElement \/ AddUnknownElement
  BY <1>1, ParseSteps, ParseAgain DEF Again, Kept
<1>2. CASE Serialize
  BY <1>2, SerializeAgain
<1>3. CASE Reparse
  BY <1>3, ReparseAgain
<1>4. CASE VisitPreorder \/ VisitPostorder \/ UNCHANGED vars
  BY <1>4, StayAgain DEF VisitPreorder, VisitPostorder, vars
<1> QED BY <1>1, <1>2, <1>3, <1>4 DEF Next

LEMMA AgainWrittenOnce == ASSUME Again PROVE WrittenOnce
<1> DEFINE b == texts[round + 1].body
<1> SUFFICES ASSUME Len(texts) > round
             PROVE  /\ \A i, j \in DOMAIN b : b[i] = b[j] => i = j
                    /\ Range(b) = {i \in Range(Text.body) : Holds(i)}
  BY DEF WrittenOnce
<1>1. /\ Kept /\ Parsed /\ texts[round + 1] = Serialized
      /\ round \in Nat \ {0} /\ Len(texts) \in Nat
  BY Typing DEF Again, Kept, WrittenNow
<1>2. IdsDiffer(b)
  <2>1. round + 1 \in 1..Len(texts)
    BY <1>1
  <2> QED BY <2>1 DEF Again, TextsDiffer
<1>3. b \in Seq(Fit(class)) /\ Text.body \in Seq(Fit(class))
  BY <1>1, SerializedIsText, Typing DEF IsText, Kept
<1>4. \A i \in Range(b) : i \in Range(Text.body)
  <2>1. PICK w, f : Came(b, LayoutOf(class), class, Text.body, Len(Text.body), w, f)
    BY <1>1, SerializedCame
  <2>2. \A k \in 1..Len(b) : f[k] \in 1..Len(Text.body) /\ b[k] = Text.body[f[k]]
    BY <2>1 DEF Came
  <2> HIDE DEF b
  <2>3. ASSUME NEW i \in Range(b) PROVE i \in Range(Text.body)
    <3>1. PICK k \in 1..Len(b) : b[k] = i
      BY <1>3, InRange
    <3> QED BY <3>1, <2>2, <1>3, InRange
  <2> QED BY <2>3
<1>5. \A i : i \in Range(b) <=> Holds(i)
  BY <1>1, SerializedHolds
<1>6. DOMAIN b = 1..Len(b)
  BY <1>3, InRange
<1> HIDE DEF b
<1>7. \A i, j \in DOMAIN b : b[i] = b[j] => i = j
  BY <1>2, <1>6 DEF IdsDiffer
<1> QED BY <1>4, <1>5, <1>7

LEMMA AgainRoundTrip == ASSUME WrittenApart, Again PROVE RoundTrip
<1> SUFFICES ASSUME round = 2, Len(texts) = 3 PROVE Reread(texts[3]) = texts[2]
  BY DEF RoundTrip
<1> DEFINE b == Text.body
           s == Serialized.body
           L == LayoutOf(class)
           T == Fit(class)
<1>1. /\ Kept /\ Parsed /\ texts[3] = Serialized /\ Text = texts[2]
      /\ Text = [attrs |-> Text.attrs, body |-> b]
      /\ class \in Classes /\ b \in Seq(T) /\ Len(b) \in Nat
      /\ next = Len(b) + 1 /\ next > 0
  <2>1. Kept /\ Parsed /\ texts[3] = Serialized
    <3>1. round + 1 = 3 /\ Len(texts) > round
      OBVIOUS
    <3> QED BY <3>1 DEF Again, Kept, WrittenNow
  <2>2. /\ Text = [attrs |-> Text.attrs, body |-> b]
        /\ class \in Classes /\ b \in Seq(T) /\ Len(b) \in Nat
        /\ next = Len(b) + 1
    BY <2>1, Typing DEF Kept
  <2> HIDE DEF b
  <2> QED BY <2>1, <2>2 DEF Text
<1>2. IsWritten(class, Text) /\ IdsDiffer(b)
  <2>1. 2 \in 2..Len(texts) /\ 2 \in 1..Len(texts)
    OBVIOUS
  <2> QED BY <2>1, <1>1 DEF Again, TextsLast, TextsDiffer
<1>3. stores \in [Places(class) -> Seq(T)] /\ L \in Seq(Places(class)) /\ Apart(L)
  BY <1>1, LayoutOfType, LayoutOfApart DEF Kept, Typed
<1>4. /\ IsJoin(Blocks(stores, L), s) /\ s \in Seq(T)
      /\ Serialized = [attrs |-> IF CodeRow[class].keeps THEN attributes ELSE {}, body |-> s]
  BY <1>1, <1>3, SerializedJoins
<1>5. Sound(stores, class, b, Len(b)) /\ Complete(stores, class, b, Len(b))
  <2> DEFINE n == Len(b)
  <2> HIDE DEF n
  <2>1. next - 1 = n
    BY <1>1 DEF n
  <2>2. Sound(stores, class, b, n) /\ Complete(stores, class, b, n)
    BY <2>1 DEF Again, Kept, SoundNow, CompleteNow
  <2> QED BY <2>2 DEF n
<1>6. s = b
  <2> HIDE DEF s, b, L, T
  <2>1. Arranged(class, L, b)
    BY <1>2 DEF IsWritten, b, L
  <2> QED BY <1>1, <1>2, <1>3, <1>4, <1>5, <2>1, CameAgain
<1>7. (IF CodeRow[class].keeps THEN attributes ELSE {}) = Text.attrs
  <2>1. attributes = Cut(class, Text.attrs)
    BY <1>1 DEF Again, AttrsNow
  <2> QED BY <2>1, <1>2 DEF IsWritten, Clean
<1> HIDE DEF s, b
<1>8. Serialized = Text
  BY <1>1, <1>4, <1>6, <1>7
<1>9. IsText(class, Serialized)
  BY <1>1, SerializedIsText
<1> QED BY <1>1, <1>8, <1>9, RereadSame

(* WrittenOnce: Serialize writes each thing the element holds once, if no  *)
(* class writes a member twice.                                            *)
THEOREM WrittenOnceAlways == ASSUME WrittenApart PROVE Spec => []WrittenOnce
<1>1. Init => Again
  BY InitAgain
<1>2. Again /\ [Next]_vars => Again'
  BY NextAgain
<1>3. Again => WrittenOnce
  BY AgainWrittenOnce
<1> QED BY <1>1, <1>2, <1>3, PTL DEF Spec

(* RoundTrip: a text an element was written as is parsed and written again *)
(* as it was.                                                              *)
THEOREM RoundTripAlways == ASSUME WrittenApart PROVE Spec => []RoundTrip
<1>1. Init => Again
  BY InitAgain
<1>2. Again /\ [Next]_vars => Again'
  BY NextAgain
<1>3. Again => RoundTrip
  BY AgainRoundTrip
<1> QED BY <1>1, <1>2, <1>3, PTL DEF Spec

-----------------------------------------------------------------------------
(* e is in s at one place.                                                 *)
Once(e, s) == \E n \in 1..Len(s) : s[n] = e /\ \A k \in 1..Len(s) : s[k] = e => k = n

LEMMA OnceCardinality ==
    ASSUME NEW T, NEW s \in Seq(T), NEW e, Once(e, s)
    PROVE  Cardinality({n \in DOMAIN s : s[n] = e}) = 1
<1>1. DOMAIN s = 1..Len(s)
  BY LenProperties
<1>2. PICK n \in 1..Len(s) : s[n] = e /\ \A k \in 1..Len(s) : s[k] = e => k = n
  BY DEF Once
<1>3. {k \in DOMAIN s : s[k] = e} = {n}
  BY <1>1, <1>2
<1> QED BY <1>3, FS_Singleton

LEMMA OnceConcat ==
    ASSUME NEW T, NEW s \in Seq(T), NEW t \in Seq(T), NEW e, Once(e, s),
           \A k \in 1..Len(t) : t[k] # e
    PROVE  Once(e, s \o t) /\ Once(e, t \o s)
<1>1. PICK n \in 1..Len(s) : s[n] = e /\ \A k \in 1..Len(s) : s[k] = e => k = n
  BY DEF Once
<1> DEFINE L == Len(s)
           M == Len(t)
<1>2. L \in Nat /\ M \in Nat
  BY LenProperties
<1>3. Once(e, s \o t)
  <2> DEFINE x == s \o t
  <2>1. Len(x) = L + M /\ \A k \in 1..(L + M) : x[k] = IF k <= L THEN s[k] ELSE t[k - L]
    BY ConcatProperties
  <2> HIDE DEF x, L, M
  <2>2. n \in 1..(L + M) /\ n <= L
    BY <1>1, <1>2 DEF L
  <2>3. x[n] = e
    BY <2>1, <2>2, <1>1
  <2>4. ASSUME NEW k \in 1..(L + M), x[k] = e PROVE k = n
    <3>1. CASE k <= L
      <4>1. k \in 1..L /\ s[k] = e
        BY <2>1, <2>4, <3>1, <1>2
      <4> QED BY <4>1, <1>1 DEF L
    <3>2. CASE ~(k <= L)
      <4>1. k - L \in 1..M /\ t[k - L] = e
        BY <2>1, <2>4, <3>2, <1>2
      <4> QED BY <4>1 DEF M
    <3> QED BY <3>1, <3>2
  <2>5. Once(e, x)
    BY <2>1, <2>2, <2>3, <2>4 DEF Once
  <2> QED BY <2>5 DEF x
<1>4. Once(e, t \o s)
  <2> DEFINE x == t \o s
  <2>1. Len(x) = M + L /\ \A k \in 1..(M + L) : x[k] = IF k <= M THEN t[k] ELSE s[k - M]
    BY ConcatProperties
  <2> HIDE DEF x, L, M
  <2>2. M + n \in 1..(M + L) /\ ~(M + n <= M) /\ (M + n) - M = n
    BY <1>1, <1>2 DEF L
  <2>3. x[M + n] = e
    BY <2>1, <2>2, <1>1
  <2>4. ASSUME NEW k \in 1..(M + L), x[k] = e PROVE k = M + n
    <3>1. CASE k <= M
      <4>1. k \in 1..M /\ t[k] = e
        BY <2>1, <2>4, <3>1, <1>2
      <4> QED BY <4>1 DEF M
    <3>2. CASE ~(k <= M)
      <4>1. k - M \in 1..L /\ s[k - M] = e
        BY <2>1, <2>4, <3>2, <1>2
      <4>2. k - M = n
        BY <4>1, <1>1 DEF L
      <4> QED BY <4>2, <1>2
    <3> QED BY <3>1, <3>2
  <2>5. Once(e, x)
    BY <2>1, <2>2, <2>3, <2>4 DEF Once
  <2> QED BY <2>5 DEF x
<1> QED BY <1>3, <1>4

(* What is in one part only, and there once, is once in the join.          *)
LEMMA OnceJoin ==
    ASSUME NEW ss, NEW s, NEW e, Len(s) \in Nat, IsJoin(ss, s), NEW i \in 1..Len(ss), Once(e, ss[i]),
           \A j \in 1..Len(ss) : \A q \in 1..Len(ss[j]) : ss[j][q] = e => j = i
    PROVE  Once(e, s)
<1>1. PICK w, o : Lays(ss, s, w, o)
  BY DEF IsJoin
<1>2. PICK q \in 1..Len(ss[i]) : ss[i][q] = e /\ \A k \in 1..Len(ss[i]) : ss[i][k] = e => k = q
  BY DEF Once
<1>3. /\ w \in [1..Len(s) -> 1..Len(ss)]
      /\ \A k \in 1..Len(s) : o[k] \in 1..Len(ss[w[k]]) /\ s[k] = ss[w[k]][o[k]]
      /\ \A j, k \in 1..Len(s) : j < k => w[j] < w[k] \/ (w[j] = w[k] /\ o[j] < o[k])
      /\ \A j \in 1..Len(ss) : \A x \in 1..Len(ss[j]) :
           \E k \in 1..Len(s) : w[k] = j /\ o[k] = x
  BY <1>1 DEF Lays
<1>4. PICK n \in 1..Len(s) : w[n] = i /\ o[n] = q
  BY <1>2, <1>3
<1>5. s[n] = e
  BY <1>2, <1>3, <1>4
<1>6. ASSUME NEW k \in 1..Len(s), s[k] = e PROVE k = n
  <2>1. w[k] \in 1..Len(ss) /\ o[k] \in 1..Len(ss[w[k]]) /\ ss[w[k]][o[k]] = e
    BY <1>3, <1>6
  <2>2. w[k] = i
    BY <2>1
  <2>3. o[k] = q
    BY <2>1, <2>2, <1>2
  <2>4. w[k] = w[n] /\ o[k] = o[n] /\ ~(w[k] < w[n]) /\ ~(o[k] < o[n])
        /\ ~(w[n] < w[k]) /\ ~(o[n] < o[k])
    <3>1. i \in Int /\ q \in Int
      OBVIOUS
    <3> QED BY <3>1, <2>2, <2>3, <1>4
  <2>5. ~(k < n) /\ ~(n < k)
    BY <2>4, <1>3
  <2> QED BY <2>5
<1> QED BY <1>5, <1>6 DEF Once

(* One Accept.                                                             *)
LEMMA AcceptType ==
    ASSUME CallsReach, NEW t, NEW id \in Nat
    PROVE  /\ Accept(t, id) \in Seq(Nat \X Methods) /\ CallsOf(t) \in Seq(Methods)
           /\ Len(Accept(t, id)) = Len(CallsOf(t)) /\ Len(CallsOf(t)) \in Nat
           /\ \A k \in 1..Len(CallsOf(t)) : Accept(t, id)[k] = <<id, CallsOf(t)[k]>>
<1>1. CallsOf(t) \in Seq(Methods)
  <2>1. CASE t \in Classes
    BY <2>1 DEF CallsReach
  <2>2. CASE t \notin Classes
    BY <2>2 DEF CallsReach, CallsOf
  <2> QED BY <2>1, <2>2
<1> DEFINE c == CallsOf(t)
           n == Len(c)
<1> HIDE DEF c
<1>2. n \in Nat /\ DOMAIN c = 1..n /\ \A k \in 1..n : c[k] \in Methods
  BY <1>1, LenProperties DEF c
<1> HIDE DEF n
<1> DEFINE P == Nat \X Methods
           a == Accept(t, id)
<1>3. a = [k \in 1..n |-> <<id, c[k]>>]
  BY <1>2 DEF Accept, c
<1>4. \A k \in 1..n : <<id, c[k]>> \in P
  BY <1>2
<1> HIDE DEF P, a
<1>5. a \in [1..n -> P]
  BY <1>3, <1>4
<1>6. a \in Seq(P) /\ Len(a) = n
  BY ONLY <1>5, <1>2
<1> QED BY <1>1, <1>2, <1>3, <1>6 DEF P, a, c, n

Children == InOrder(CodeRow[class].visits)

(* The children in members, in the order AcceptChildren takes them.        *)
LEMMA ChildrenAre ==
    ASSUME VisitsReach, Again
    PROVE  /\ Children \in Seq(Fit(class)) /\ IdsDiffer(Children)
           /\ \A m \in Members(class) \ ClassRow[class].value : \A i \in Range(held[m]) :
                i.type \in Classes \ Unvisited => i \in Fit(class) /\ i \in Range(Children)
<1> DEFINE v == CodeRow[class].visits
           L == Layout(v)
           P == Places(class)
           T == Fit(class)
           b == Text.body
           n == next - 1
<1>1. /\ Typed /\ class \in Classes /\ b \in Seq(T) /\ Len(b) \in Nat
      /\ next \in Int /\ next >= 0 /\ next <= Len(b) + 1 /\ round \in 1..Len(texts)
  BY Typing DEF Again, Kept
<1>2. v \in Seq(Members(class)) /\ stores \in [P -> Seq(T)]
  BY <1>1, SchemaAssumption DEF Typed
<1>3. L \in Seq(P) /\ Apart(L)
  BY <1>1, <1>2, LayoutType, LayoutApart DEF VisitsReach
<1>4. IsJoin(Blocks(stores, L), Children) /\ Children \in Seq(T)
  BY <1>2, InOrderJoins DEF Children
<1>5. Sound(stores, class, b, n)
  BY DEF Again, Kept, SoundNow
<1>6. n \in Int
  BY <1>1
<1>7. IdsDiffer(b)
  BY <1>1 DEF Again, TextsDiffer, Text
<1> HIDE DEF L, P, T, b, v
<1>8. IdsDiffer(Children)
  <2>0. Len(Children) \in Nat
    BY <1>4, LenProperties
  <2>1. PICK w, f : Came(Children, L, class, b, n, w, f)
    BY <1>2, <1>3, <1>4, <1>5, <1>6, JoinCame DEF P
  <2>2. CASE n \in Nat
    <3>1. n <= Len(b)
      BY <1>1
    <3> HIDE DEF n
    <3> QED BY <2>0, <2>1, <2>2, <3>1, <1>1, <1>3, <1>7, CameIds
  <2>3. CASE n \notin Nat
    <3>1. 1..n = {}
      BY <2>3, <1>1
    <3> HIDE DEF n
    <3>2. f \in [1..Len(Children) -> 1..n]
      BY <2>1 DEF Came
    <3>3. \A k \in 1..Len(Children) : FALSE
      BY <3>1, <3>2
    <3> QED BY <3>3 DEF IdsDiffer
  <2> QED BY <2>2, <2>3
<1> HIDE DEF n
<1>9. ASSUME NEW m \in Members(class) \ ClassRow[class].value, NEW i \in Range(held[m]),
             i.type \in Classes \ Unvisited
      PROVE  i \in T /\ i \in Range(Children)
  <2>1. Member(m) \in P /\ stores[Member(m)] = held[m]
    BY StoresHold DEF P
  <2>2. stores[Member(m)] \in Seq(T)
    BY <2>1, <1>2
  <2>3. PICK q \in 1..Len(stores[Member(m)]) : stores[Member(m)][q] = i
    BY <2>1, <2>2, InRange
  <2>4. i \in T
    BY <2>2, <2>3, ElementOfSeq
  <2>5. PlaceOf(class, i) = Member(m)
    BY <1>5, <2>1, <2>3 DEF Sound, SoundAt, P
  <2>6. Known(i) /\ Taken(class, i) /\ Home(class, i.type) = m
    BY <2>5, PlacesApart DEF PlaceOf
  <2>7. m \in Range(v)
    BY <1>1, <1>9, <2>6 DEF VisitsReach, Known, Taken, v
  <2>8. PICK j \in 1..Len(v) : v[j] = m
    BY <2>7, <1>2, InRange
  <2>9. j \in 1..Len(L) /\ L[j] = Member(m)
    BY <2>8, <1>2, LayoutType DEF L
  <2>10. i \in Range(stores[L[j]])
    BY <2>1, <2>9, <1>9
  <2> QED BY <2>4, <2>9, <2>10, <1>2, <1>3, <1>4, JoinHolds DEF HoldsIn
<1> QED BY <1>4, <1>8, <1>9 DEF T

(* AcceptChildren calls the method of each group for a child once.         *)
LEMMA ChildrenOnce ==
    ASSUME CallsReach, NEW T, Children \in Seq(T), IdsDiffer(Children),
           \A i \in T : i.id \in Nat, NEW i \in Range(Children),
           i.type \in Classes \ Unvisited, NEW g \in IsA(i.type) \cap Methods
    PROVE  AcceptChildren \in Seq(Nat \X Methods) /\ Once(<<i.id, g>>, AcceptChildren)
<1> DEFINE n == Len(Children)
           e == <<i.id, g>>
           A(k) == Accept(Children[k].type, Children[k].id)
           ss == [k \in 1..n |-> A(k)]
           C == Nat \X Methods
<1>1. n \in Nat /\ DOMAIN Children = 1..n /\ \A k \in 1..n : Children[k].id \in Nat
  BY LenProperties
<1>2. AcceptChildren = FlattenSeq(ss)
  BY <1>1 DEF AcceptChildren, Children
<1>3. PICK x \in 1..n : Children[x] = i
  BY InRange
<1> HIDE DEF n
<1>4. ASSUME NEW k \in 1..n
      PROVE  /\ A(k) \in Seq(C) /\ Len(A(k)) = Len(CallsOf(Children[k].type))
             /\ \A q \in 1..Len(A(k)) : A(k)[q] = <<Children[k].id, CallsOf(Children[k].type)[q]>>
  BY <1>1, AcceptType
<1> HIDE DEF A, C
<1>5. Len(ss) = n /\ \A k \in 1..n : ss[k] = A(k)
  BY <1>1
<1>6. ss \in Seq(Seq(C))
  <2> DEFINE S == Seq(C)
  <2>1. \A k \in 1..n : A(k) \in S
    BY <1>4
  <2> HIDE DEF S
  <2>2. ss \in [1..n -> S]
    BY <2>1
  <2> HIDE DEF ss
  <2>3. ss \in Seq(S)
    BY ONLY <2>2, <1>1
  <2> QED BY <2>3 DEF S
<1> HIDE DEF ss
<1>7. IsJoin(ss, AcceptChildren) /\ AcceptChildren \in Seq(C)
  BY <1>2, <1>6, FlattenJoins, FlattenType
<1>8. Once(e, ss[x])
  <2> DEFINE c == CallsOf(i.type)
  <2>1. /\ g \in Range(c) /\ \A j, k \in DOMAIN c : c[j] = g /\ c[k] = g => j = k
    BY DEF CallsReach
  <2>2. c \in Seq(Methods)
    BY AcceptType, 0 \in Nat
  <2>3. DOMAIN c = 1..Len(c)
    BY <2>2, LenProperties
  <2>4. PICK q \in 1..Len(c) : c[q] = g
    BY <2>1, <2>2, InRange
  <2>5. Len(ss[x]) = Len(c) /\ \A j \in 1..Len(c) : ss[x][j] = <<i.id, c[j]>>
    BY <1>3, <1>4, <1>5
  <2> HIDE DEF c
  <2>6. ss[x][q] = e
    BY <2>4, <2>5
  <2>7. ASSUME NEW j \in 1..Len(c), ss[x][j] = e PROVE j = q
    <3>1. <<i.id, c[j]>> = <<i.id, g>>
      BY <2>5, <2>7
    <3>2. c[j] = g
      BY <3>1
    <3> QED BY <3>2, <2>1, <2>3, <2>4
  <2> HIDE DEF e
  <2> QED BY <2>4, <2>5, <2>6, <2>7 DEF Once
<1>9. ASSUME NEW j \in 1..n, NEW q \in 1..Len(ss[j]), ss[j][q] = e PROVE j = x
  <2>1. <<Children[j].id, CallsOf(Children[j].type)[q]>> = <<i.id, g>>
    BY <1>4, <1>5, <1>9
  <2>2. Children[j].id = Children[x].id
    BY <2>1, <1>3
  <2> QED BY <2>2 DEF IdsDiffer, n
<1>10. Len(AcceptChildren) \in Nat
  BY <1>7, LenProperties
<1> HIDE DEF e
<1>11. Once(e, AcceptChildren)
  BY <1>3, <1>5, <1>7, <1>8, <1>9, <1>10, OnceJoin
<1> QED BY <1>7, <1>11 DEF e, C

(* What a visit has called is what the element, unchanged since, asks for. *)
VisitedNow ==
    visited # << >> =>
      /\ Parsed
      /\ \/ visited = Accept(class, 0) \o AcceptChildren
         \/ visited = AcceptChildren \o Accept(class, 0)

Seen == Again /\ VisitedNow

LEMMA NextSeen == ASSUME WrittenApart, Seen, [Next]_vars PROVE Seen'
<1>1. Again' /\ Again /\ VisitedNow
  BY NextAgain DEF Seen
<1>2. CASE ParseAttributes \/ AddElement \/ AddUnknownElement
  <2>1. Typed /\ ParseStep
    BY <1>1, <1>2, ParseSteps DEF Again, Kept
  <2>2. next = 0 \/ More
    BY <2>1 DEF ParseStep
  <2>3. ~Parsed
    BY <2>1, <2>2, Typing
  <2>4. visited' = << >>
    BY <1>1, <2>1, <2>3 DEF VisitedNow, ParseStep
  <2> QED BY <1>1, <2>4 DEF Seen, VisitedNow
<1>3. CASE Serialize \/ Reparse
  <2>1. visited' = << >>
    BY <1>3 DEF Serialize, Reparse
  <2> QED BY <1>1, <2>1 DEF Seen, VisitedNow
<1>4. ASSUME UNCHANGED <<class, texts, round, next, element>>,
             visited' = visited \/ (Parsed /\ (\/ visited' = Accept(class, 0) \o AcceptChildren
                                               \/ visited' = AcceptChildren \o Accept(class, 0)))
      PROVE  Seen'
  <2>1. /\ class' = class /\ held' = held /\ Text' = Text /\ next' = next
    BY <1>4, StayKept, <1>1 DEF element, Again
  <2>2. AcceptChildren' = AcceptChildren /\ Accept(class, 0)' = Accept(class, 0)
    BY <2>1 DEF AcceptChildren, InOrder
  <2>3. Parsed' <=> Parsed
    BY <2>1 DEF Parsed
  <2>4. VisitedNow'
    BY <1>1, <1>4, <2>2, <2>3 DEF VisitedNow
  <2> QED BY <1>1, <2>4 DEF Seen
<1>5. CASE VisitPreorder
  BY <1>4, <1>5 DEF VisitPreorder
<1>6. CASE VisitPostorder
  BY <1>4, <1>6 DEF VisitPostorder
<1>7. CASE UNCHANGED vars
  BY <1>4, <1>7 DEF vars
<1> QED BY <1>2, <1>3, <1>5, <1>6, <1>7 DEF Next

LEMMA SeenVisited ==
    ASSUME VisitsReach, CallsReach, Seen PROVE ChildrenVisited
<1> DEFINE Visits(id, v) == {n \in DOMAIN visited : visited[n] = <<id, v>>}
           All == UNION {Range(held[m]) : m \in Members(class) \ ClassRow[class].value}
<1> SUFFICES ASSUME visited # << >>, NEW i \in All, i.type \in Classes \ Unvisited,
                    NEW g \in IsA(i.type) \cap Methods
             PROVE  Cardinality(Visits(i.id, g)) = 1
  BY DEF ChildrenVisited
<1>1. PICK m \in Members(class) \ ClassRow[class].value : i \in Range(held[m])
  OBVIOUS
<1>2. /\ Children \in Seq(Fit(class)) /\ IdsDiffer(Children)
      /\ i \in Fit(class) /\ i \in Range(Children)
  BY <1>1, ChildrenAre DEF Seen
<1>3. \A x \in Fit(class) : x.id \in Nat /\ x.id # 0
  BY DEF Fit, Items
<1>4. AcceptChildren \in Seq(Nat \X Methods) /\ Once(<<i.id, g>>, AcceptChildren)
  BY <1>2, <1>3, ChildrenOnce
<1> DEFINE a == Accept(class, 0)
           e == <<i.id, g>>
<1>5. a \in Seq(Nat \X Methods) /\ \A k \in 1..Len(a) : a[k] # e
  <2>1. /\ a \in Seq(Nat \X Methods) /\ Len(a) = Len(CallsOf(class))
        /\ \A k \in 1..Len(CallsOf(class)) : a[k] = <<0, CallsOf(class)[k]>>
    BY AcceptType, 0 \in Nat
  <2>2. i.id # 0
    BY <1>2, <1>3
  <2> HIDE DEF a
  <2> QED BY <2>1, <2>2
<1> HIDE DEF a, e
<1>6. Once(e, a \o AcceptChildren) /\ Once(e, AcceptChildren \o a)
  BY <1>4, <1>5, OnceConcat DEF e
<1>7. a \o AcceptChildren \in Seq(Nat \X Methods) /\ AcceptChildren \o a \in Seq(Nat \X Methods)
  BY <1>4, <1>5, ConcatProperties
<1>8. visited \in Seq(Nat \X Methods) /\ Once(e, visited)
  <2>1. visited = a \o AcceptChildren \/ visited = AcceptChildren \o a
    BY DEF Seen, VisitedNow, a
  <2> QED BY <1>6, <1>7, <2>1
<1>9. Cardinality({n \in DOMAIN visited : visited[n] = e}) = 1
  BY ONLY <1>8, OnceCardinality
<1> QED BY ONLY <1>9 DEF e

(* ChildrenVisited: a visit calls, for each child in a member, the method  *)
(* of each group it belongs to once, if the tables pass the child on.      *)
THEOREM ChildrenVisitedAlways ==
    ASSUME WrittenApart, VisitsReach, CallsReach PROVE Spec => []ChildrenVisited
<1>1. Init => Seen
  BY InitAgain DEF Seen, VisitedNow, Init
<1>2. Seen /\ [Next]_vars => Seen'
  BY NextSeen
<1>3. Seen => ChildrenVisited
  BY SeenVisited
<1> QED BY <1>1, <1>2, <1>3, PTL DEF Spec
=============================================================================
