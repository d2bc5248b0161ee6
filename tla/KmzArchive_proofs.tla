-------------------------- MODULE KmzArchive_proofs --------------------------
(***************************************************************************)
(* Whatever the documents, their links, the files there are and the sizes: *)
(* an archive made from a document stands for it, and the errors are the   *)
(* files it lacks.  The invariant is that of the loop of AddFileList: what *)
(* is in stored_hrefs are the links it has passed, and each of these that  *)
(* can be in the archive is there, once (Packed, Halfway).  It holds of a  *)
(* finished archive as of one that is being written (OnDisk, InHand).      *)
(***************************************************************************)
EXTENDS KmzArchive, SequenceTheorems, FiniteSetTheorems, WellFoundedInduction, TLAPS

Target(h) == Normalize(h)
KeyOf(h)  == <<h.rooted, Target(h)>>

(* Of the first m links: those above the base, and the keys of the others. *)
AboveOf(doc, m) == {k \in 1..m : Above(RelativeLinks(doc)[k])}
KeysOf(doc, m)  == {KeyOf(RelativeLinks(doc)[k]) : k \in (1..m) \ AboveOf(doc, m)}

Brought(es) == {<<FALSE, es[k].path>> : k \in 2..Len(es)}

(* es is the document and, once each, the files that keys name.            *)
Packed(doc, es, keys) ==
  /\ es \in Seq([path : {DocKml} \cup DOMAIN Local, data : {doc} \cup Range(Local)])
  /\ Len(es) >= 1 /\ es[1] = Entry(DocKml, doc)
  /\ \A k \in 2..Len(es) : /\ es[k].path \in DOMAIN Local /\ es[k].data = Local[es[k].path]
                           /\ <<FALSE, es[k].path>> \in keys
  /\ \A k, l \in 2..Len(es) : k # l => es[k].path # es[l].path
  /\ \A p \in DOMAIN Local : <<FALSE, p>> \in keys => \E k \in 2..Len(es) : es[k].path = p

Full(doc, es) == doc \in Docs /\ Packed(doc, es, KeysOf(doc, Len(RelativeLinks(doc))))

(* AddFileList has passed m links of the document: rest are the others,    *)
(* keys and errs what it has counted.                                      *)
Halfway(doc, es, rest, keys, errs, m) ==
  /\ rest \in Seq(Range(Links[doc])) /\ m + Len(rest) = Len(RelativeLinks(doc))
  /\ \A j \in 1..Len(rest) : rest[j] = RelativeLinks(doc)[m + j]
  /\ keys = KeysOf(doc, m) /\ Packed(doc, es, keys)
  /\ errs = Cardinality(AboveOf(doc, m)) + Cardinality(keys \ Brought(es))

(* A KmzFile that is being written, and the disk below it.                 *)
InWork(w, d, docs, rest, keys, errs) ==
  /\ w = [name |-> w.name, entries |-> w.entries, whole |-> w.whole]
  /\ w.name \in DOMAIN d
  /\ w.whole \in BOOLEAN
  /\ ~ w.whole => docs[w.name] = NULL
  /\ w.whole => /\ docs[w.name] \in Docs
                /\ \E m \in Nat : Halfway(docs[w.name], w.entries, rest, keys, errs, m)

AllFull(d, docs) ==
  /\ DOMAIN docs = DOMAIN d
  /\ \A n \in DOMAIN d : docs[n] # NULL /\ d[n] # Unfinished => Full(docs[n], d[n])

Writing == writer # NULL => InWork(writer, disk, made, todo, stored, errors)
OnDisk  == AllFull(disk, made)

InHand ==
  reader # NULL =>
    /\ reader = [entries |-> reader.entries, max |-> reader.max, made |-> reader.made]
    /\ reader.max \in Nat
    /\ reader.made # NULL => Full(reader.made, reader.entries)

IInv == Writing /\ OnDisk /\ InHand

-----------------------------------------------------------------------------
(* A nonempty set of natural numbers has a smallest element.               *)
LEMMA SmallestNat ==
    ASSUME NEW T \in SUBSET Nat, T # {}
    PROVE  \E m \in T : \A n \in T : m <= n
<1> DEFINE R == OpToRel(<, Nat)
<1>1. \E m \in T : \A n \in T : ~ (<<n, m>> \in R)
  BY NatLessThanWellFounded, WFMin
<1>2. \A m, n \in T : ~ (<<n, m>> \in R) => m <= n
  BY DEF OpToRel
<1> QED BY <1>1, <1>2

(* Min is it.                                                              *)
FirstOf(I) == CHOOSE x \in I : \A y \in I : x <= y

LEMMA FirstIs ==
    ASSUME NEW n \in Nat, NEW I \in SUBSET (1..n), I # {}
    PROVE  FirstOf(I) \in I /\ (1 \in I => FirstOf(I) = 1)
<1>1. I \in SUBSET Nat
  OBVIOUS
<1>2. \E m \in I : \A y \in I : m <= y
  BY <1>1, SmallestNat
<1>3. FirstOf(I) \in I /\ \A y \in I : FirstOf(I) <= y
  BY <1>2 DEF FirstOf
<1>4. \A x \in I : x \in Nat /\ x >= 1
  OBVIOUS
<1>5. \A x \in I : x <= 1 => x = 1
  BY <1>4
<1> QED BY <1>3, <1>5

-----------------------------------------------------------------------------
(* What is read from an archive.                                           *)
ReadAs(kmz, d) == IF SizeOf[d] = 0 \/ SizeOf[d] > kmz.max THEN NULL ELSE d

LEMMA EntryIsFound ==
    ASSUME NEW kmz, NEW S, kmz.entries \in Seq(S), NEW p
    PROVE  /\ p \in Toc(kmz) <=> \E k \in 1..Len(kmz.entries) : kmz.entries[k].path = p
           /\ p \notin Toc(kmz) => GetEntry(kmz, p) = NULL
           /\ p \in Toc(kmz) =>
                \E k \in 1..Len(kmz.entries) :
                  /\ kmz.entries[k].path = p
                  /\ kmz.entries[1].path = p => k = 1
                  /\ GetEntry(kmz, p) = ReadAs(kmz, kmz.entries[k].data)
<1> DEFINE es == kmz.entries
           n == Len(es)
           I == {k \in 1..n : es[k].path = p}
           k == FirstOf(I)
<1>1. n \in Nat /\ DOMAIN es = 1..n
  BY LenProperties
<1>2. p \in Toc(kmz) <=> I # {}
  BY <1>1 DEF Toc
<1>3. p \notin Toc(kmz) => GetEntry(kmz, p) = NULL
  BY DEF GetEntry
<1>4. ASSUME p \in Toc(kmz)
      PROVE  /\ k \in I /\ (1 \in I => k = 1)
             /\ GetEntry(kmz, p) = ReadAs(kmz, es[k].data)
  <2>1. I \in SUBSET (1..n) /\ I # {}
    BY <1>2, <1>4
  <2>2. k \in I /\ (1 \in I => k = 1)
    <3> HIDE DEF I, n
    <3> QED BY <1>1, <2>1, FirstIs
  <2>3. SelectInSeq(es, LAMBDA e : e.path = p) = k
    BY <2>1 DEF SelectInSeq, Min, FirstOf
  <2>4. GetEntry(kmz, p) = ReadAs(kmz, es[SelectInSeq(es, LAMBDA e : e.path = p)].data)
    BY <1>4 DEF GetEntry, ReadAs
  <2> QED BY <2>2, <2>3, <2>4
<1>5. p \in Toc(kmz) => 1 \in 1..n
  BY <1>1, <1>2
<1> HIDE DEF k
<1> QED BY <1>2, <1>3, <1>4, <1>5

(* The document comes first, and each file can be read under its path.     *)
Reads(kmz, doc, p) ==
  /\ GetEntry(kmz, DocKml) = ReadAs(kmz, doc)
  /\ (p # DocKml /\ \E k \in 2..Len(kmz.entries) : kmz.entries[k].path = p) =>
       GetEntry(kmz, p) = ReadAs(kmz, Local[p])
  /\ (p # DocKml /\ GetEntry(kmz, p) # NULL) =>
       \E k \in 2..Len(kmz.entries) : kmz.entries[k].path = p

LEMMA PackedIsRead ==
    ASSUME NEW doc, NEW keys, NEW kmz, Packed(doc, kmz.entries, keys), NEW p
    PROVE  Reads(kmz, doc, p)
<1> DEFINE es == kmz.entries
           n == Len(es)
           S == [path : {DocKml} \cup DOMAIN Local, data : {doc} \cup Range(Local)]
<1>1. /\ es \in Seq(S) /\ n \in Nat /\ n >= 1 /\ es[1].path = DocKml /\ es[1].data = doc
      /\ \A k \in 2..n : es[k].data = Local[es[k].path]
  <2>1. es \in Seq(S) /\ n >= 1 /\ es[1] = Entry(DocKml, doc) /\ \A k \in 2..n : es[k].data = Local[es[k].path]
    BY DEF Packed
  <2>2. n \in Nat
    BY <2>1, LenProperties
  <2> QED BY <2>1, <2>2 DEF Entry
<1> HIDE DEF S
<1>2. \A k \in 1..n : k = 1 \/ k \in 2..n
  BY <1>1
<1>3. \A k \in 2..n : k \in 1..n
  BY <1>1
<1>4. 1 \in 1..n
  BY <1>1
<1>5. GetEntry(kmz, DocKml) = ReadAs(kmz, doc)
  <2>1. DocKml \in Toc(kmz)
    BY <1>1, <1>4, EntryIsFound
  <2>2. \E k \in 1..n : /\ es[1].path = DocKml => k = 1
                        /\ GetEntry(kmz, DocKml) = ReadAs(kmz, es[k].data)
    BY <1>1, <2>1, EntryIsFound
  <2> QED BY <1>1, <2>2
<1>6. ASSUME p # DocKml, p \in Toc(kmz)
      PROVE  \E k \in 2..n : es[k].path = p /\ GetEntry(kmz, p) = ReadAs(kmz, Local[p])
  <2>1. PICK k \in 1..n : es[k].path = p /\ GetEntry(kmz, p) = ReadAs(kmz, es[k].data)
    BY <1>1, <1>6, EntryIsFound
  <2>2. k \in 2..n
    BY <1>1, <1>2, <1>6, <2>1
  <2> QED BY <1>1, <2>1, <2>2
<1>7. (\E k \in 2..n : es[k].path = p) => p \in Toc(kmz)
  BY <1>1, <1>3, EntryIsFound
<1>8. GetEntry(kmz, p) # NULL => p \in Toc(kmz)
  BY <1>1, EntryIsFound
<1> QED BY <1>5, <1>6, <1>7, <1>8 DEF Reads

LEMMA PackedReadsKml ==
    ASSUME NEW doc, NEW keys, NEW kmz, Packed(doc, kmz.entries, keys)
    PROVE  ReadKml(kmz) = ReadAs(kmz, doc)
<1> DEFINE es == kmz.entries
           n == Len(es)
           I == {k \in 1..n : IsKml(es[k].path)}
<1>1. n \in Nat /\ n >= 1 /\ es[1].path = DocKml
  BY LenProperties DEF Packed, Entry
<1>2. IsKml(DocKml)
  BY NameAssumption DEF IsKml, DocKml, NameAssumption, Last
<1>3. I \in SUBSET (1..n) /\ 1 \in I /\ I # {}
  BY <1>1, <1>2
<1>4. FirstOf(I) = 1
  <2> HIDE DEF I, n
  <2> QED BY <1>1, <1>3, FirstIs
<1>5. SelectInSeq(es, LAMBDA e : IsKml(e.path)) = 1
  BY <1>3, <1>4 DEF SelectInSeq, Min, FirstOf
<1>6. ReadKml(kmz) = GetEntry(kmz, es[1].path)
  BY <1>5 DEF ReadKml
<1>7. Reads(kmz, doc, DocKml)
  BY PackedIsRead
<1> QED BY <1>1, <1>6, <1>7 DEF Reads


-----------------------------------------------------------------------------
(* GetRelativeLinks goes through the links once.                           *)
FoundUpTo(l, n, g) ==
  g = [k \in 0..n |-> IF k = 0 THEN << >>
                     ELSE IF IsRelativePath(l[k]) THEN Append(g[k - 1], l[k]) ELSE g[k - 1]]

LEMMA FoundExists == ASSUME NEW l, NEW n \in Nat PROVE \E g : FoundUpTo(l, n, g)
<1> DEFINE Is(g, m) == FoundUpTo(l, m, g)
           T == {m \in Nat : ~ \E g : Is(g, m)}
<1> SUFFICES T = {}
  OBVIOUS
<1> SUFFICES ASSUME T # {} PROVE FALSE
  OBVIOUS
<1>1. PICK m \in T : \A i \in T : m <= i
  BY SmallestNat
<1>2. CASE m = 0
  <2> DEFINE g == [k \in 0..0 |-> << >>]
  <2>1. Is(g, 0)
    BY DEF FoundUpTo
  <2> QED BY <1>1, <1>2, <2>1
<1>3. CASE m # 0
  <2>0. m \in Nat
    OBVIOUS
  <2>1. m - 1 \in Nat /\ m - 1 \notin T
    <3> HIDE DEF T
    <3> QED BY <1>1, <1>3, <2>0
  <2>2. PICK g : Is(g, m - 1)
    BY <2>1
  <2> DEFINE last == IF IsRelativePath(l[m]) THEN Append(g[m - 1], l[m]) ELSE g[m - 1]
             h == [k \in 0..m |-> IF k = m THEN last ELSE g[k]]
  <2>3. ASSUME NEW k \in 0..m
        PROVE  h[k] = IF k = 0 THEN << >>
                      ELSE IF IsRelativePath(l[k]) THEN Append(h[k - 1], l[k]) ELSE h[k - 1]
    <3>1. CASE k = m
      <4>1. h[k] = last /\ h[k - 1] = g[m - 1]
        BY <1>1, <1>3, <3>1
      <4> QED BY <1>3, <3>1, <4>1
    <3>2. CASE k # m
      <4>1. k \in 0..(m - 1) /\ h[k] = g[k]
        BY <1>1, <3>2
      <4>2. k # 0 => k - 1 \in 0..m /\ k - 1 # m
        BY <1>1
      <4>3. k # 0 => h[k - 1] = g[k - 1]
        BY <4>2
      <4>4. g[k] = IF k = 0 THEN << >>
                   ELSE IF IsRelativePath(l[k]) THEN Append(g[k - 1], l[k]) ELSE g[k - 1]
        BY <2>2, <4>1 DEF FoundUpTo
      <4> HIDE DEF h
      <4> QED BY <4>1, <4>3, <4>4
    <3> QED BY <3>1, <3>2
  <2>4. h = [k \in 0..m |-> h[k]]
    OBVIOUS
  <2> HIDE DEF h
  <2>5. Is(h, m)
    BY <2>3, <2>4 DEF FoundUpTo
  <2> QED BY <1>1, <2>5
<1> QED BY <1>2, <1>3

LEMMA AppendRange ==
    ASSUME NEW T, NEW s \in Seq(T), NEW x \in T
    PROVE  /\ Append(s, x) \in Seq(T) /\ Len(Append(s, x)) = Len(s) + 1 /\ Len(s) \in Nat
           /\ Range(Append(s, x)) = Range(s) \cup {x}
           /\ \A i \in 1..Len(s) : Append(s, x)[i] = s[i]
           /\ Append(s, x)[Len(s) + 1] = x
<1>1. /\ Append(s, x) \in Seq(T) /\ Len(Append(s, x)) = Len(s) + 1 /\ Len(s) \in Nat
      /\ \A i \in 1..Len(s) : Append(s, x)[i] = s[i]
      /\ Append(s, x)[Len(s) + 1] = x
      /\ DOMAIN s = 1..Len(s) /\ DOMAIN Append(s, x) = 1..(Len(s) + 1)
  BY AppendProperties
<1> DEFINE t == Append(s, x)
           n == Len(s)
<1> HIDE DEF t, n
<1>2. /\ n \in Nat /\ DOMAIN s = 1..n /\ DOMAIN t = 1..(n + 1)
      /\ \A i \in 1..n : t[i] = s[i]
      /\ t[n + 1] = x
  BY <1>1 DEF t, n
<1>3. \A i \in 1..(n + 1) : i \in 1..n \/ i = n + 1
  BY <1>2
<1>4. n + 1 \in 1..(n + 1) /\ \A i \in 1..n : i \in 1..(n + 1)
  BY <1>2
<1>5. Range(t) = Range(s) \cup {x}
  BY <1>2, <1>3, <1>4 DEF Range
<1> QED BY <1>1, <1>5 DEF t, n

(* What it returns are the relative links, and no others.                  *)
LEMMA RelativeLinksAre ==
    ASSUME NEW doc \in Docs
    PROVE  /\ RelativeLinks(doc) \in Seq(Range(Links[doc]))
           /\ Range(RelativeLinks(doc)) = {h \in Range(Links[doc]) : IsRelativePath(h)}
<1> DEFINE l == Links[doc]
           T == Range(l)
           N == Len(l)
           found == CHOOSE g : FoundUpTo(l, N, g)
<1>1. l \in Seq(T)
  BY LinksAssumption DEF LinksAssumption
<1>2. N \in Nat /\ DOMAIN l = 1..N /\ T = {l[a] : a \in 1..N}
  BY <1>1, LenProperties DEF Range
<1> HIDE DEF N, T
<1>3. FoundUpTo(l, N, found)
  BY <1>2, FoundExists
<1>4. RelativeLinks(doc) = found[N]
  BY DEF RelativeLinks, FoundUpTo, N
<1> HIDE DEF found
<1>5. /\ found[0] = << >>
      /\ \A k \in 1..N :
           found[k] = IF IsRelativePath(l[k]) THEN Append(found[k - 1], l[k]) ELSE found[k - 1]
  <2>1. \A k \in 0..N :
          found[k] = IF k = 0 THEN << >>
                     ELSE IF IsRelativePath(l[k]) THEN Append(found[k - 1], l[k]) ELSE found[k - 1]
    BY <1>3 DEF FoundUpTo
  <2>2. 0 \in 0..N /\ \A k \in 1..N : k \in 0..N /\ k # 0
    BY <1>2
  <2> QED BY <2>1, <2>2
<1> DEFINE Those(k) == {h \in {l[a] : a \in 1..k} : IsRelativePath(h)}
           P(k) == found[k] \in Seq(T) /\ Range(found[k]) = Those(k)
           Bad == {k \in 0..N : ~ P(k)}
<1>6. P(0)
  <2>1. << >> \in Seq(T) /\ Range(<< >>) = {}
    BY DEF Range
  <2>2. Those(0) = {}
    OBVIOUS
  <2> HIDE DEF Those
  <2> QED BY <1>5, <2>1, <2>2
<1>7. ASSUME NEW k \in 1..N, P(k - 1) PROVE P(k)
  <2> DEFINE s == found[k - 1]
             t == found[k]
             x == l[k]
  <2>1. x \in T
    BY <1>2
  <2>2. s \in Seq(T) /\ Range(s) = Those(k - 1) /\ t = IF IsRelativePath(x) THEN Append(s, x) ELSE s
    BY <1>5, <1>7
  <2>3. {l[a] : a \in 1..k} = {l[a] : a \in 1..(k - 1)} \cup {x}
    <3>1. (\A a \in 1..k : a \in 1..(k - 1) \/ a = k) /\ k \in 1..k /\ \A a \in 1..(k - 1) : a \in 1..k
      BY <1>2
    <3> QED BY <3>1
  <2>4. Those(k) = IF IsRelativePath(x) THEN Those(k - 1) \cup {x} ELSE Those(k - 1)
    BY <2>3
  <2> HIDE DEF Those, s, t, x
  <2>5. s \in Seq(T) /\ x \in T
    BY ONLY <2>1, <2>2
  <2>6. Append(s, x) \in Seq(T) /\ Range(Append(s, x)) = Range(s) \cup {x}
    BY <2>5, AppendRange
  <2>7. t \in Seq(T) /\ Range(t) = Those(k)
    BY ONLY <2>2, <2>4, <2>6
  <2> QED BY <2>7 DEF t
<1> HIDE DEF P
<1>8. Bad = {}
  <2> SUFFICES ASSUME Bad # {} PROVE FALSE
    OBVIOUS
  <2>1. Bad \in SUBSET Nat
    BY <1>2
  <2>2. PICK m \in Bad : \A i \in Bad : m <= i
    BY <2>1, SmallestNat
  <2>3. m \in 0..N /\ ~ P(m)
    OBVIOUS
  <2>4. m \in 1..N /\ m - 1 \in 0..N
    BY <1>2, <1>6, <2>3
  <2>5. m - 1 \notin Bad
    <3> HIDE DEF Bad
    <3> QED BY <2>2, <2>4
  <2>6. P(m - 1)
    BY <2>4, <2>5
  <2> QED BY <1>7, <2>3, <2>4, <2>6
<1>9. P(N)
  BY <1>2, <1>8
<1>10. found[N] \in Seq(T) /\ Range(found[N]) = Those(N)
  BY <1>9 DEF P
<1> HIDE DEF Those
<1>11. Those(N) = {h \in T : IsRelativePath(h)}
  BY <1>2 DEF Those
<1> QED BY <1>4, <1>10, <1>11 DEF T


-----------------------------------------------------------------------------
(* The keys of the links that AddFileList has passed.                      *)
LEMMA NoKeysYet ==
    ASSUME NEW doc
    PROVE  AboveOf(doc, 0) = {} /\ KeysOf(doc, 0) = {} /\ Cardinality(AboveOf(doc, 0)) = 0
<1>1. 1..0 = {}
  OBVIOUS
<1>2. AboveOf(doc, 0) = {} /\ KeysOf(doc, 0) = {}
  BY <1>1 DEF AboveOf, KeysOf
<1> QED BY <1>2, FS_EmptySet

(* One more link is above the base, or has a key.                          *)
LEMMA OneMoreLink ==
    ASSUME NEW doc, NEW m \in Nat, NEW h, h = RelativeLinks(doc)[m + 1]
    PROVE  /\ Above(h) => /\ AboveOf(doc, m + 1) = AboveOf(doc, m) \cup {m + 1}
                                  /\ KeysOf(doc, m + 1) = KeysOf(doc, m)
           /\ ~ Above(h) => /\ AboveOf(doc, m + 1) = AboveOf(doc, m)
                                    /\ KeysOf(doc, m + 1) = KeysOf(doc, m) \cup {KeyOf(h)}
<1> DEFINE l == RelativeLinks(doc)
           A(n) == {k \in 1..n : Above(l[k])}
           K(n) == {KeyOf(l[k]) : k \in (1..n) \ A(n)}
<1>1. 1..(m + 1) = (1..m) \cup {m + 1} /\ m + 1 \notin 1..m
  OBVIOUS
<1>2. Above(h) => A(m + 1) = A(m) \cup {m + 1}
  BY <1>1
<1>3. ~ Above(h) => A(m + 1) = A(m)
  BY <1>1
<1>4. m + 1 \notin A(m)
  BY <1>1
<1> HIDE DEF A
<1>5. Above(h) => (1..(m + 1)) \ A(m + 1) = (1..m) \ A(m)
  BY <1>1, <1>2
<1>6. ~ Above(h) => (1..(m + 1)) \ A(m + 1) = ((1..m) \ A(m)) \cup {m + 1}
  BY <1>1, <1>3, <1>4
<1>7. Above(h) => K(m + 1) = K(m)
  BY <1>5
<1>8. ~ Above(h) => K(m + 1) = K(m) \cup {KeyOf(h)}
  BY <1>6
<1>9. \A n : AboveOf(doc, n) = A(n) /\ KeysOf(doc, n) = K(n)
  BY DEF AboveOf, KeysOf, A
<1> QED BY <1>2, <1>3, <1>7, <1>8, <1>9

LEMMA KeysFinite ==
    ASSUME NEW doc, NEW m \in Nat
    PROVE  /\ IsFiniteSet(AboveOf(doc, m)) /\ IsFiniteSet(KeysOf(doc, m))
           /\ m + 1 \notin AboveOf(doc, m)
<1>1. IsFiniteSet(1..m)
  BY FS_Interval
<1>2. AboveOf(doc, m) \subseteq 1..m /\ m + 1 \notin 1..m
  BY DEF AboveOf
<1>3. IsFiniteSet(AboveOf(doc, m)) /\ IsFiniteSet((1..m) \ AboveOf(doc, m))
  BY <1>1, <1>2, FS_Subset, FS_Difference
<1>4. IsFiniteSet(KeysOf(doc, m))
  <2> DEFINE S == (1..m) \ AboveOf(doc, m)
             T == KeysOf(doc, m)
             f == [k \in S |-> KeyOf(RelativeLinks(doc)[k])]
  <2>1. T = {KeyOf(RelativeLinks(doc)[k]) : k \in S}
    BY DEF KeysOf
  <2> HIDE DEF S, T
  <2>2. f \in Surjection(S, T)
    BY <2>1 DEF Surjection
  <2> HIDE DEF f
  <2>3. IsFiniteSet(S)
    BY <1>3 DEF S
  <2> QED BY <2>2, <2>3, FS_Surjection DEF T
<1> QED BY <1>2, <1>3, <1>4

-----------------------------------------------------------------------------
(* What is packed, entry by entry.                                         *)
LEMMA PackedAtFirst ==
    ASSUME NEW doc
    PROVE  /\ Packed(doc, <<Entry(DocKml, doc)>>, {})
           /\ Brought(<<Entry(DocKml, doc)>>) = {}
<1> DEFINE es == <<Entry(DocKml, doc)>>
           S == [path : {DocKml} \cup DOMAIN Local, data : {doc} \cup Range(Local)]
<1>1. Entry(DocKml, doc) \in S
  BY DEF Entry
<1>2. es \in Seq(S) /\ Len(es) = 1 /\ es[1] = Entry(DocKml, doc)
  BY <1>1
<1>3. 2..Len(es) = {}
  BY <1>2
<1> HIDE DEF es
<1> QED BY <1>2, <1>3 DEF Packed, Brought, es

LEMMA BroughtAreKeys ==
    ASSUME NEW doc, NEW es, NEW keys, Packed(doc, es, keys)
    PROVE  Brought(es) \subseteq keys
<1>1. \A k \in 2..Len(es) : <<FALSE, es[k].path>> \in keys
  BY DEF Packed
<1> QED BY <1>1 DEF Brought

(* A link is stored, and its file with it.                                 *)
Stores(doc, es, keys, p) ==
  /\ Packed(doc, Append(es, Entry(p, Local[p])), keys \cup {<<FALSE, p>>})
  /\ Brought(Append(es, Entry(p, Local[p]))) = Brought(es) \cup {<<FALSE, p>>}

LEMMA PackedOneMore ==
    ASSUME NEW doc, NEW es, NEW keys, Packed(doc, es, keys),
           NEW p \in DOMAIN Local, <<FALSE, p>> \notin keys
    PROVE  Stores(doc, es, keys, p)
<1> DEFINE e == Entry(p, Local[p])
           S == [path : {DocKml} \cup DOMAIN Local, data : {doc} \cup Range(Local)]
           t == Append(es, e)
           n == Len(es)
<1>0. /\ es \in Seq(S) /\ n >= 1 /\ es[1] = Entry(DocKml, doc)
      /\ \A k \in 2..n : /\ es[k].path \in DOMAIN Local /\ es[k].data = Local[es[k].path]
                         /\ <<FALSE, es[k].path>> \in keys
      /\ \A k, l \in 2..n : k # l => es[k].path # es[l].path
      /\ \A q \in DOMAIN Local : <<FALSE, q>> \in keys => \E k \in 2..n : es[k].path = q
  BY DEF Packed
<1>1. e.path = p /\ e.data = Local[p] /\ e \in S
  BY DEF Entry, Range
<1> HIDE DEF S, e
<1>2. /\ t \in Seq(S) /\ Len(t) = n + 1 /\ n \in Nat
      /\ \A i \in 1..n : t[i] = es[i]
      /\ t[n + 1] = e
  BY <1>0, <1>1, AppendRange
<1> HIDE DEF t, n
<1>3. /\ 1 \in 1..n /\ 2..(n + 1) = (2..n) \cup {n + 1} /\ n + 1 \notin 2..n
      /\ \A k \in 2..n : k \in 1..n
  BY <1>0, <1>2
<1>4. /\ \A k \in 2..n : t[k] = es[k]
      /\ \A k \in 2..(n + 1) : k \in 2..n \/ (k = n + 1 /\ t[k] = e)
  BY <1>2, <1>3
<1>5. ASSUME NEW k \in 2..(n + 1)
      PROVE  /\ t[k].path \in DOMAIN Local /\ t[k].data = Local[t[k].path]
             /\ <<FALSE, t[k].path>> \in keys \cup {<<FALSE, p>>}
  BY <1>0, <1>1, <1>4
<1>6. \A k \in 2..n : es[k].path # p
  BY <1>0
<1>7. ASSUME NEW k \in 2..(n + 1), NEW l \in 2..(n + 1), k # l
      PROVE  t[k].path # t[l].path
  BY <1>0, <1>1, <1>4, <1>6, <1>7
<1>8. ASSUME NEW q \in DOMAIN Local, <<FALSE, q>> \in keys \cup {<<FALSE, p>>}
      PROVE  \E k \in 2..(n + 1) : t[k].path = q
  <2>1. CASE <<FALSE, q>> \in keys
    BY <1>0, <1>3, <1>4, <2>1
  <2>2. CASE <<FALSE, q>> \notin keys
    <3>1. q = p
      BY <1>8, <2>2
    <3> QED BY <1>1, <1>2, <1>3, <3>1
  <2> QED BY <2>1, <2>2
<1>9. {<<FALSE, t[k].path>> : k \in 2..(n + 1)} = {<<FALSE, es[k].path>> : k \in 2..n} \cup {<<FALSE, p>>}
  <2> DEFINE N == 2..n
             M == 2..(n + 1)
  <2>1. M = N \cup {n + 1} /\ (\A k \in N : t[k] = es[k]) /\ t[n + 1].path = p
    BY <1>1, <1>2, <1>3, <1>4
  <2> HIDE DEF N, M
  <2>2. {<<FALSE, t[k].path>> : k \in M} = {<<FALSE, es[k].path>> : k \in N} \cup {<<FALSE, p>>}
    BY ONLY <2>1
  <2> QED BY <2>2 DEF N, M
<1>10. Len(t) >= 1 /\ t[1] = Entry(DocKml, doc)
  BY <1>0, <1>2, <1>3
<1>11. Packed(doc, t, keys \cup {<<FALSE, p>>})
  BY <1>2, <1>5, <1>7, <1>8, <1>10 DEF Packed, S
<1>12. Brought(t) = Brought(es) \cup {<<FALSE, p>>}
  BY <1>2, <1>9 DEF Brought, n
<1> QED BY <1>11, <1>12 DEF Stores, t, e

(* A link is stored that brings no file.                                   *)
LEMMA PackedNoMore ==
    ASSUME NEW doc, NEW es, NEW keys, Packed(doc, es, keys),
           NEW r, NEW p, r = TRUE \/ p \notin DOMAIN Local
    PROVE  Packed(doc, es, keys \cup {<<r, p>>})
<1>1. \A q \in DOMAIN Local : <<FALSE, q>> # <<r, p>>
  OBVIOUS
<1> QED BY <1>1 DEF Packed


-----------------------------------------------------------------------------
(* One turn of the loop of AddFileList, whichever way it goes.             *)
LEMMA TailOf ==
    ASSUME NEW T, NEW rest \in Seq(T), rest # << >>, NEW l, NEW m \in Nat,
           m + Len(rest) = Len(l), \A j \in 1..Len(rest) : rest[j] = l[m + j]
    PROVE  /\ Head(rest) = l[m + 1] /\ Head(rest) \in T
           /\ Tail(rest) \in Seq(T) /\ (m + 1) + Len(Tail(rest)) = Len(l)
           /\ \A j \in 1..Len(Tail(rest)) : Tail(rest)[j] = l[(m + 1) + j]
<1> DEFINE t == Tail(rest)
           n == Len(rest)
<1>1. /\ n \in Nat /\ n >= 1 /\ Head(rest) = rest[1] /\ rest[1] \in T
      /\ t \in Seq(T) /\ Len(t) = n - 1 /\ \A j \in 1..Len(t) : t[j] = rest[j + 1]
  OBVIOUS
<1> HIDE DEF t
<1>2. m + n = Len(l) /\ \A j \in 1..n : rest[j] = l[m + j]
  OBVIOUS
<1> HIDE DEF n
<1>3. 1 \in 1..n /\ (m + 1) + (n - 1) = m + n
  BY <1>1
<1>4. ASSUME NEW j \in 1..Len(t) PROVE t[j] = l[(m + 1) + j]
  <2>1. j + 1 \in 1..n /\ m + (j + 1) = (m + 1) + j
    BY <1>1
  <2>2. rest[j + 1] = l[m + (j + 1)]
    BY <1>2, <2>1
  <2> QED BY <1>1, <2>1, <2>2
<1>5. (m + 1) + Len(t) = Len(l)
  BY <1>1, <1>2, <1>3
<1> QED BY <1>1, <1>2, <1>3, <1>4, <1>5 DEF t

(* Counting what a turn adds.                                              *)
LEMMA CountedOnce ==
    ASSUME NEW A, IsFiniteSet(A), NEW x, x \notin A
    PROVE  /\ IsFiniteSet(A \cup {x}) /\ Cardinality(A \cup {x}) = Cardinality(A) + 1
           /\ Cardinality(A) \in Nat
BY FS_AddElement, FS_CardinalityType

LEMMA LoopTurn ==
    ASSUME NEW doc \in Docs, NEW m \in Nat, NEW es, NEW rest, NEW keys, NEW errs,
           Halfway(doc, es, rest, keys, errs, m), rest # << >>, NEW h, h = Head(rest)
    PROVE  /\ Above(h) => Halfway(doc, es, Tail(rest), keys, errs + 1, m + 1)
           /\ (~ Above(h) /\ KeyOf(h) \in keys) =>
                Halfway(doc, es, Tail(rest), keys, errs, m + 1)
           /\ (/\ ~ Above(h) /\ KeyOf(h) \notin keys
               /\ Target(h) \in DOMAIN Local /\ MayAddEntry(h.rooted, Target(h))) =>
                Halfway(doc, Append(es, Entry(Target(h), Local[Target(h)])), Tail(rest),
                        keys \cup {KeyOf(h)}, errs, m + 1)
           /\ (/\ ~ Above(h) /\ KeyOf(h) \notin keys
               /\ ~ (Target(h) \in DOMAIN Local /\ MayAddEntry(h.rooted, Target(h)))) =>
                Halfway(doc, es, Tail(rest), keys \cup {KeyOf(h)}, errs + 1, m + 1)
<1> DEFINE p    == Target(h)
           l    == RelativeLinks(doc)
           A(n) == AboveOf(doc, n)
           K(n) == KeysOf(doc, n)
           c    == Cardinality(keys \ Brought(es))
<1>1. /\ rest \in Seq(Range(Links[doc])) /\ m + Len(rest) = Len(l)
      /\ \A j \in 1..Len(rest) : rest[j] = l[m + j]
      /\ keys = K(m) /\ Packed(doc, es, keys)
      /\ errs = Cardinality(A(m)) + c
  BY DEF Halfway
<1>2. /\ h = l[m + 1] /\ h \in Range(Links[doc])
      /\ Tail(rest) \in Seq(Range(Links[doc])) /\ (m + 1) + Len(Tail(rest)) = Len(l)
      /\ \A j \in 1..Len(Tail(rest)) : Tail(rest)[j] = l[(m + 1) + j]
  <2> HIDE DEF l
  <2> QED BY <1>1, TailOf
<1>3. h.rooted \in BOOLEAN
  BY <1>2, LinksAssumption DEF LinksAssumption
<1>4. /\ IsFiniteSet(A(m)) /\ IsFiniteSet(K(m)) /\ m + 1 \notin A(m)
  BY KeysFinite
<1>5. IsFiniteSet(keys \ Brought(es))
  BY <1>1, <1>4, FS_Subset
<1>6. Cardinality(A(m)) \in Nat /\ c \in Nat
  BY <1>4, <1>5, FS_CardinalityType
<1>7. /\ Above(h) => A(m + 1) = A(m) \cup {m + 1} /\ K(m + 1) = K(m)
      /\ ~ Above(h) => A(m + 1) = A(m) /\ K(m + 1) = K(m) \cup {KeyOf(h)}
  BY <1>2, OneMoreLink, ZenonT(40)
<1> HIDE DEF A, K, p, c
<1>8. Cardinality(A(m) \cup {m + 1}) = Cardinality(A(m)) + 1
  BY <1>4, CountedOnce
<1>9. ASSUME Above(h) PROVE Halfway(doc, es, Tail(rest), keys, errs + 1, m + 1)
  <2>1. K(m + 1) = keys
    BY <1>1, <1>7, <1>9
  <2>2. errs + 1 = Cardinality(A(m + 1)) + c
    <3>1. Cardinality(A(m + 1)) = Cardinality(A(m)) + 1
      BY <1>7, <1>8, <1>9
    <3> QED BY <1>1, <1>6, <3>1
  <2> QED BY <1>1, <1>2, <2>1, <2>2 DEF Halfway, A, K, c
<1>10. ASSUME ~ Above(h), KeyOf(h) \in keys
       PROVE  Halfway(doc, es, Tail(rest), keys, errs, m + 1)
  <2>1. K(m + 1) = keys /\ A(m + 1) = A(m)
    BY <1>1, <1>7, <1>10
  <2> QED BY <1>1, <1>2, <2>1 DEF Halfway, A, K, c
<1>11. ASSUME ~ Above(h), KeyOf(h) \notin keys, p \in DOMAIN Local, MayAddEntry(h.rooted, p)
       PROVE  Halfway(doc, Append(es, Entry(p, Local[p])), Tail(rest), keys \cup {KeyOf(h)}, errs, m + 1)
  <2> DEFINE t == Append(es, Entry(p, Local[p]))
  <2>1. K(m + 1) = keys \cup {KeyOf(h)} /\ A(m + 1) = A(m)
    BY <1>1, <1>7, <1>11
  <2>2. KeyOf(h) = <<FALSE, p>>
    BY <1>3, <1>11 DEF MayAddEntry, KeyOf, p
  <2>3. Packed(doc, t, keys \cup {KeyOf(h)}) /\ Brought(t) = Brought(es) \cup {KeyOf(h)}
    <3>1. <<FALSE, p>> \notin keys /\ Packed(doc, es, keys)
      BY <1>1, <1>11, <2>2
    <3>2. Stores(doc, es, keys, p)
      BY ONLY <1>11, <3>1, PackedOneMore
    <3> QED BY <2>2, <3>2 DEF Stores
  <2> HIDE DEF t
  <2>4. (keys \cup {KeyOf(h)}) \ Brought(t) = keys \ Brought(es)
    BY <1>11, <2>3
  <2> QED BY <1>1, <1>2, <2>1, <2>3, <2>4 DEF Halfway, A, K, c, t
<1>12. ASSUME ~ Above(h), KeyOf(h) \notin keys, ~ (p \in DOMAIN Local /\ MayAddEntry(h.rooted, p))
       PROVE  Halfway(doc, es, Tail(rest), keys \cup {KeyOf(h)}, errs + 1, m + 1)
  <2>1. K(m + 1) = keys \cup {KeyOf(h)} /\ A(m + 1) = A(m)
    BY <1>1, <1>7, <1>12
  <2>2. h.rooted = TRUE \/ p \notin DOMAIN Local
    BY <1>3, <1>12 DEF MayAddEntry, Above, p, Target
  <2>3. Packed(doc, es, keys \cup {KeyOf(h)})
    BY <1>1, <2>2, PackedNoMore DEF KeyOf, p
  <2>4. KeyOf(h) \notin Brought(es)
    BY <1>1, <1>12, BroughtAreKeys
  <2>5. (keys \cup {KeyOf(h)}) \ Brought(es) = (keys \ Brought(es)) \cup {KeyOf(h)}
    BY <2>4
  <2>6. Cardinality((keys \ Brought(es)) \cup {KeyOf(h)}) = c + 1
    BY <1>5, <1>12, CountedOnce DEF c
  <2>7. errs + 1 = Cardinality(A(m + 1)) + Cardinality((keys \cup {KeyOf(h)}) \ Brought(es))
    <3>1. errs + 1 = Cardinality(A(m)) + (c + 1)
      BY <1>1, <1>6
    <3> QED BY <2>1, <2>5, <2>6, <3>1, Zenon
  <2> QED BY <1>1, <1>2, <2>1, <2>3, <2>7 DEF Halfway, A, K
<1> QED BY <1>9, <1>10, <1>11, <1>12 DEF p


-----------------------------------------------------------------------------
(* The invariant, action by action.  Put changes what one name has.        *)
PutAt(f, n, x, g) ==
  /\ DOMAIN g = DOMAIN f \cup {n} /\ g[n] = x
  /\ \A k \in DOMAIN f \ {n} : g[k] = f[k]

LEMMA PutIs == ASSUME NEW f, NEW n, NEW x PROVE PutAt(f, n, x, Put(f, n, x))
BY DEF Put, PutAt

LEMMA StaysFull ==
    ASSUME NEW d, NEW docs, AllFull(d, docs), NEW n, NEW x,
           NEW g, DOMAIN g = DOMAIN d \cup {n}, \A k \in DOMAIN d \ {n} : g[k] = docs[k],
           (g[n] # NULL /\ x # Unfinished) => Full(g[n], x),
           NEW e, e = Put(d, n, x)
    PROVE  AllFull(e, g)
<1>0. PutAt(d, n, x, e)
  BY PutIs
<1>1. DOMAIN e = DOMAIN d \cup {n} /\ e[n] = x /\ \A k \in DOMAIN d \ {n} : e[k] = d[k]
  BY <1>0 DEF PutAt
<1>2. ASSUME NEW k \in DOMAIN e, g[k] # NULL, e[k] # Unfinished
      PROVE  Full(g[k], e[k])
  <2>1. CASE k = n
    BY <1>1, <1>2, <2>1
  <2>2. CASE k # n
    <3>1. k \in DOMAIN d \ {n}
      BY <1>1, <2>2
    <3> QED BY <1>1, <1>2, <3>1 DEF AllFull
  <2> QED BY <2>1, <2>2
<1> QED BY <1>1, <1>2 DEF AllFull

LEMMA InitIInv == Init => IInv
BY DEF Init, IInv, Writing, OnDisk, AllFull, InHand

(* zipOpen leaves the name with nothing finished.                          *)
LEMMA CreateOnDisk ==
    ASSUME OnDisk, NEW n, NEW entries, NEW whole, NEW doc, Create(n, entries, whole, doc)
    PROVE  OnDisk' /\ n \in DOMAIN disk' /\ made'[n] = doc
<1>1. disk' = Put(disk, n, Unfinished) /\ made' = Put(made, n, doc) /\ DOMAIN made = DOMAIN disk
  BY DEF Create, OnDisk, AllFull
<1>0. PutAt(disk, n, Unfinished, disk') /\ PutAt(made, n, doc, made')
  BY <1>1, PutIs
<1>2. /\ DOMAIN made' = DOMAIN disk \cup {n} /\ made'[n] = doc
      /\ \A k \in DOMAIN disk \ {n} : made'[k] = made[k]
  BY <1>0, <1>1 DEF PutAt
<1>3. n \in DOMAIN disk'
  BY <1>0 DEF PutAt
<1>4. AllFull(disk', made')
  BY <1>1, <1>2, StaysFull DEF OnDisk
<1> QED BY <1>2, <1>3, <1>4 DEF OnDisk

LEMMA ClientCreatesKeeps ==
    ASSUME IInv, NEW n, ClientCreates(n)
    PROVE  IInv'
<1>1. OnDisk' /\ n \in DOMAIN disk' /\ made'[n] = NULL
  BY CreateOnDisk DEF ClientCreates, IInv
<1>2. writer' = [name |-> n, entries |-> << >>, whole |-> FALSE]
  BY DEF ClientCreates, Create
<1>3. InWork(writer', disk', made', todo', stored', errors')
  BY <1>1, <1>2 DEF InWork
<1>4. InHand'
  BY DEF ClientCreates, IInv, InHand
<1> QED BY <1>1, <1>3, <1>4 DEF IInv, Writing

LEMMA CreateFromElementKeeps ==
    ASSUME IInv, NEW n, NEW doc \in Docs, CreateFromElement(doc, n)
    PROVE  IInv'
<1> DEFINE es == <<Entry(DocKml, doc)>>
           l  == RelativeLinks(doc)
<1>1. OnDisk' /\ n \in DOMAIN disk' /\ made'[n] = doc
  BY CreateOnDisk DEF CreateFromElement, IInv
<1>2. /\ writer' = [name |-> n, entries |-> es, whole |-> TRUE]
      /\ todo' = l /\ stored' = {} /\ errors' = 0
  BY DEF CreateFromElement, Create
<1>3. Halfway(doc, es, l, {}, 0, 0)
  <2>1. l \in Seq(Range(Links[doc])) /\ Len(l) \in Nat
    BY RelativeLinksAre, LenProperties
  <2>2. Packed(doc, es, {}) /\ Brought(es) = {}
    BY PackedAtFirst
  <2>3. KeysOf(doc, 0) = {} /\ Cardinality(AboveOf(doc, 0)) = 0
    BY NoKeysYet
  <2> HIDE DEF es, l
  <2>4. 0 + Len(l) = Len(l) /\ \A j \in 1..Len(l) : l[j] = l[0 + j]
    BY <2>1
  <2>5. {} \ Brought(es) = {} /\ Cardinality({}) = 0
    BY FS_EmptySet
  <2> QED BY <2>1, <2>2, <2>3, <2>4, <2>5 DEF Halfway, l
<1> HIDE DEF es, l
<1>4. /\ writer'.name = n /\ writer'.entries = es /\ writer'.whole = TRUE
      /\ writer' = [name |-> writer'.name, entries |-> writer'.entries, whole |-> writer'.whole]
  BY <1>2
<1>5. \E m \in Nat : Halfway(doc, es, todo', stored', errors', m)
  BY <1>2, <1>3
<1>6. InWork(writer', disk', made', todo', stored', errors')
  BY <1>1, <1>4, <1>5 DEF InWork
<1>7. InHand'
  BY DEF CreateFromElement, IInv, InHand
<1> QED BY <1>1, <1>6, <1>7 DEF IInv, Writing

LEMMA CreateFromKmlFilepathKeeps ==
    ASSUME IInv, NEW n, NEW doc \in Docs, CreateFromKmlFilepath(doc, n)
    PROVE  IInv'
<1>1. CASE CreateFromElement(doc, n)
  BY <1>1, CreateFromElementKeeps
<1>2. CASE writer' = NULL /\ reader' = NULL /\ UNCHANGED <<disk, made>>
  BY <1>2 DEF IInv, Writing, OnDisk, InHand
<1> QED BY <1>1, <1>2 DEF CreateFromKmlFilepath

LEMMA WriteKmzKeeps ==
    ASSUME IInv, NEW n, NEW doc \in Docs, WriteKmz(doc, n)
    PROVE  IInv'
<1> DEFINE es == <<Entry(DocKml, doc)>>
<1>1. /\ writer = NULL /\ writer' = NULL /\ DOMAIN made = DOMAIN disk
      /\ disk' = Put(disk, n, es) /\ made' = Put(made, n, NULL)
  BY DEF WriteKmz, IInv, OnDisk, AllFull
<1> HIDE DEF es
<1>2. /\ DOMAIN made' = DOMAIN disk \cup {n} /\ made'[n] = NULL
      /\ \A k \in DOMAIN disk \ {n} : made'[k] = made[k]
  <2>1. PutAt(made, n, NULL, made')
    BY <1>1, PutIs
  <2> QED BY <1>1, <2>1 DEF PutAt
<1>3. AllFull(disk', made')
  BY <1>1, <1>2, StaysFull DEF IInv, OnDisk
<1>4. InHand'
  BY DEF WriteKmz, IInv, InHand
<1> QED BY <1>1, <1>3, <1>4 DEF IInv, Writing, OnDisk

(* A writer of the client's own.                                           *)
LEMMA AddFileKeeps ==
    ASSUME IInv, NEW data, NEW rooted, NEW path, AddFile(data, rooted, path)
    PROVE  IInv'
<1>1. InWork(writer, disk, made, todo, stored, errors) /\ ~ writer.whole
  BY DEF AddFile, Idle, IInv, Writing
<1>2. disk' = disk /\ made' = made
  BY DEF AddFile
<1>3. writer' = writer \/ writer' = [writer EXCEPT !.entries = Append(@, Entry(path, data))]
  BY DEF AddFile, AddEntry
<1>4. /\ writer' = [name |-> writer'.name, entries |-> writer'.entries, whole |-> writer'.whole]
      /\ writer'.name = writer.name /\ writer'.whole = writer.whole
  BY <1>1, <1>3 DEF InWork
<1>5. InWork(writer', disk', made', todo', stored', errors')
  BY <1>1, <1>2, <1>4 DEF InWork
<1>6. InHand' /\ OnDisk'
  BY <1>2 DEF AddFile, IInv, InHand, OnDisk
<1> QED BY <1>5, <1>6 DEF IInv, Writing

LEMMA AddFileListKeeps ==
    ASSUME IInv, NEW doc, AddFileList(doc)
    PROVE  IInv'
<1>1. InWork(writer, disk, made, todo, stored, errors) /\ ~ writer.whole
  BY DEF AddFileList, Idle, IInv, Writing
<1>2. disk' = disk /\ made' = made /\ writer' = writer /\ reader' = reader
  BY DEF AddFileList
<1>3. InWork(writer', disk', made', todo', stored', errors')
  BY <1>1, <1>2 DEF InWork
<1> QED BY <1>2, <1>3 DEF IInv, Writing, InHand, OnDisk


LEMMA AddNextKeeps ==
    ASSUME IInv, AddNext
    PROVE  IInv'
<1> DEFINE h     == Head(todo)
           p     == Target(h)
           added == p \in DOMAIN Local /\ MayAddEntry(h.rooted, p)
<1>1. /\ writer # NULL /\ InWork(writer, disk, made, todo, stored, errors) /\ todo # << >>
      /\ todo' = Tail(todo) /\ disk' = disk /\ made' = made /\ reader' = reader
  BY DEF AddNext, IInv, Writing
<1>2. \/ /\ Above(h) /\ errors' = errors + 1 /\ writer' = writer /\ stored' = stored
      \/ /\ ~ Above(h) /\ KeyOf(h) \in stored
         /\ writer' = writer /\ stored' = stored /\ errors' = errors
      \/ /\ ~ Above(h) /\ KeyOf(h) \notin stored /\ stored' = stored \cup {KeyOf(h)} /\ added
         /\ writer' = [writer EXCEPT !.entries = Append(@, Entry(p, Local[p]))] /\ errors' = errors
      \/ /\ ~ Above(h) /\ KeyOf(h) \notin stored /\ stored' = stored \cup {KeyOf(h)} /\ ~ added
         /\ writer' = writer /\ errors' = errors + 1
  BY DEF AddNext, AddEntry, Remembered, Target, KeyOf
<1> HIDE DEF h, p, added
<1>3. writer = [name |-> writer.name, entries |-> writer.entries, whole |-> writer.whole]
  BY <1>1 DEF InWork
<1>4. /\ writer' = [name |-> writer'.name, entries |-> writer'.entries, whole |-> writer'.whole]
      /\ writer'.name = writer.name /\ writer'.whole = writer.whole
  BY <1>2, <1>3
<1>5. CASE ~ writer.whole
  <2>1. InWork(writer', disk', made', todo', stored', errors')
    BY <1>1, <1>4, <1>5 DEF InWork
  <2> QED BY <1>1, <2>1 DEF IInv, Writing, InHand, OnDisk
<1>6. CASE writer.whole
  <2> DEFINE doc == made[writer.name]
             es  == writer.entries
  <2>1. doc \in Docs
    BY <1>1, <1>6 DEF InWork
  <2>2. PICK m \in Nat : Halfway(doc, es, todo, stored, errors, m)
    BY <1>1, <1>6 DEF InWork
  <2> HIDE DEF doc, es
  <2>3. /\ Above(h) => Halfway(doc, es, Tail(todo), stored, errors + 1, m + 1)
        /\ (~ Above(h) /\ KeyOf(h) \in stored) => Halfway(doc, es, Tail(todo), stored, errors, m + 1)
        /\ (~ Above(h) /\ KeyOf(h) \notin stored /\ added) =>
             Halfway(doc, Append(es, Entry(p, Local[p])), Tail(todo), stored \cup {KeyOf(h)}, errors, m + 1)
        /\ (~ Above(h) /\ KeyOf(h) \notin stored /\ ~ added) =>
             Halfway(doc, es, Tail(todo), stored \cup {KeyOf(h)}, errors + 1, m + 1)
    BY <1>1, <2>1, <2>2, LoopTurn DEF h, p, added
  <2>4. Halfway(doc, writer'.entries, todo', stored', errors', m + 1)
    <3>1. CASE Above(h)
      <4>1. errors' = errors + 1 /\ writer' = writer /\ stored' = stored
        BY <1>2, <3>1, Zenon
      <4>2. writer'.entries = es
        BY <4>1 DEF es
      <4> QED BY <1>1, <2>3, <3>1, <4>1, <4>2
    <3>2. CASE ~ Above(h) /\ KeyOf(h) \in stored
      <4>1. errors' = errors /\ writer' = writer /\ stored' = stored
        BY <1>2, <3>2, Zenon
      <4>2. writer'.entries = es
        BY <4>1 DEF es
      <4> QED BY <1>1, <2>3, <3>2, <4>1, <4>2
    <3>3. CASE ~ Above(h) /\ KeyOf(h) \notin stored /\ added
      <4>1. /\ errors' = errors /\ stored' = stored \cup {KeyOf(h)}
            /\ writer' = [writer EXCEPT !.entries = Append(@, Entry(p, Local[p]))]
        BY <1>2, <3>3, Zenon
      <4>2. writer'.entries = Append(es, Entry(p, Local[p]))
        BY <1>3, <4>1 DEF es
      <4> QED BY <1>1, <2>3, <3>3, <4>1, <4>2
    <3>4. CASE ~ Above(h) /\ KeyOf(h) \notin stored /\ ~ added
      <4>1. errors' = errors + 1 /\ writer' = writer /\ stored' = stored \cup {KeyOf(h)}
        BY <1>2, <3>4, Zenon
      <4>2. writer'.entries = es
        BY <4>1 DEF es
      <4> QED BY <1>1, <2>3, <3>4, <4>1, <4>2
    <3> QED BY <3>1, <3>2, <3>3, <3>4, Zenon
  <2>5. \E n \in Nat : Halfway(doc, writer'.entries, todo', stored', errors', n)
    BY <2>4
  <2>6. made'[writer'.name] = doc
    BY <1>1, <1>4 DEF doc
  <2>7. InWork(writer', disk', made', todo', stored', errors')
    BY <1>1, <1>4, <1>6, <2>1, <2>5, <2>6 DEF InWork
  <2> QED BY <1>1, <2>7 DEF IInv, Writing, InHand, OnDisk
<1> QED BY <1>5, <1>6

(* The archive is finished when no link is left.                           *)
LEMMA PassedAll ==
    ASSUME NEW doc, NEW es, NEW keys, NEW errs, NEW m \in Nat,
           Halfway(doc, es, << >>, keys, errs, m)
    PROVE  m = Len(RelativeLinks(doc)) /\ keys = KeysOf(doc, m) /\ Packed(doc, es, keys)
<1>1. m + Len(<< >>) = Len(RelativeLinks(doc)) /\ keys = KeysOf(doc, m) /\ Packed(doc, es, keys)
  BY DEF Halfway
<1>2. m + Len(<< >>) = m
  OBVIOUS
<1> QED BY <1>1, <1>2

LEMMA CloseKeeps ==
    ASSUME IInv, Close
    PROVE  IInv'
<1>1. /\ InWork(writer, disk, made, todo, stored, errors) /\ todo = << >>
      /\ disk' = Put(disk, writer.name, writer.entries)
      /\ writer' = NULL /\ made' = made /\ reader' = reader
  BY DEF Close, IInv, Writing
<1>2. DOMAIN made' = DOMAIN disk \cup {writer.name} /\ \A k \in DOMAIN disk \ {writer.name} : made'[k] = made[k]
  BY <1>1 DEF IInv, OnDisk, AllFull, InWork
<1>3. ASSUME made[writer.name] # NULL
      PROVE  Full(made[writer.name], writer.entries)
  <2> DEFINE doc == made[writer.name]
             es  == writer.entries
  <2>1. doc \in Docs /\ \E m \in Nat : Halfway(doc, es, << >>, stored, errors, m)
    BY <1>1, <1>3 DEF InWork
  <2> HIDE DEF doc, es
  <2>2. PICK m \in Nat : Halfway(doc, es, << >>, stored, errors, m)
    BY <2>1
  <2>3. Full(doc, es)
    BY <2>1, <2>2, PassedAll DEF Full
  <2> QED BY <2>3 DEF doc, es
<1>4. AllFull(disk', made')
  BY <1>1, <1>2, <1>3, StaysFull DEF IInv, OnDisk
<1> QED BY <1>1, <1>4 DEF IInv, Writing, InHand, OnDisk

LEMMA OpenFromFileKeeps ==
    ASSUME IInv, NEW n, OpenFromFile(n)
    PROVE  IInv'
<1>1. /\ n \in DOMAIN disk
      /\ disk' = disk /\ made' = made /\ writer' = writer
      /\ todo' = todo /\ stored' = stored /\ errors' = errors
      /\ \/ reader' = NULL
         \/ reader' = KmzFile(<< >>, NULL)
         \/ disk[n] # Unfinished /\ reader' = KmzFile(disk[n], made[n])
  BY DEF OpenFromFile
<1>2. MaxUncompressed \in Nat
  BY SizeAssumption DEF SizeAssumption
<1>3. \A es, doc : KmzFile(es, doc) = [entries |-> es, max |-> MaxUncompressed, made |-> doc]
  BY DEF KmzFile
<1>4. (disk[n] # Unfinished /\ made[n] # NULL) => Full(made[n], disk[n])
  BY <1>1 DEF IInv, OnDisk, AllFull
<1>5. InHand'
  BY <1>1, <1>2, <1>3, <1>4 DEF InHand
<1> QED BY <1>1, <1>5 DEF IInv, Writing, OnDisk

LEMMA SetMaxKeeps ==
    ASSUME IInv, NEW max \in MaxSizes, SetMaxUncompressedFileSize(max)
    PROVE  IInv'
<1>1. max \in Nat
  BY SizeAssumption DEF SizeAssumption
<1>2. /\ reader # NULL /\ reader' = [reader EXCEPT !.max = max]
      /\ disk' = disk /\ made' = made /\ writer' = writer
      /\ todo' = todo /\ stored' = stored /\ errors' = errors
  BY DEF SetMaxUncompressedFileSize
<1>3. InHand'
  BY <1>1, <1>2 DEF IInv, InHand
<1> QED BY <1>2, <1>3 DEF IInv, Writing, OnDisk

LEMMA NextIInv == IInv /\ [Next]_vars => IInv'
<1> SUFFICES ASSUME IInv, [Next]_vars PROVE IInv'
  OBVIOUS
<1>1. ASSUME NEW n \in Archives, ClientCreates(n) PROVE IInv'
  BY <1>1, ClientCreatesKeeps
<1>2. ASSUME NEW n \in Archives, OpenFromFile(n) PROVE IInv'
  BY <1>2, OpenFromFileKeeps
<1>3. ASSUME NEW n \in Archives, NEW doc \in Docs, CreateFromElement(doc, n) PROVE IInv'
  BY <1>3, CreateFromElementKeeps
<1>4. ASSUME NEW n \in Archives, NEW doc \in Docs, WriteKmz(doc, n) PROVE IInv'
  BY <1>4, WriteKmzKeeps
<1>5. ASSUME NEW doc \in Docs, AddFileList(doc) PROVE IInv'
  BY <1>5, AddFileListKeeps
<1>6. ASSUME NEW h \in Added, AddFile(h.data, h.rooted, h.path) PROVE IInv'
  BY <1>6, AddFileKeeps
<1>7. CASE AddNext
  BY <1>7, AddNextKeeps
<1>8. CASE Close
  BY <1>8, CloseKeeps
<1>9. ASSUME NEW max \in MaxSizes, SetMaxUncompressedFileSize(max) PROVE IInv'
  BY <1>9, SetMaxKeeps
<1>10. ASSUME NEW n \in Archives, NEW doc \in Docs, CreateFromKmlFilepath(doc, n) PROVE IInv'
  BY <1>10, CreateFromKmlFilepathKeeps
<1>11. CASE UNCHANGED vars
  BY <1>11 DEF vars, IInv, Writing, OnDisk, InHand
<1> QED BY <1>1, <1>2, <1>3, <1>4, <1>5, <1>6, <1>7, <1>8, <1>9, <1>10, <1>11 DEF Next

LEMMA IInvAlways == Spec => []IInv
BY InitIInv, NextIInv, PTL DEF Spec


-----------------------------------------------------------------------------
(* What the invariant says of an archive that is open.                     *)
LEMMA LinkedFiles ==
    ASSUME NEW doc \in Docs, NEW p \in DOMAIN Local
    PROVE  <<FALSE, p>> \in KeysOf(doc, Len(RelativeLinks(doc))) <=>
             \E h \in Range(RelativeLinks(doc)) : ~ h.rooted /\ Normalize(h) = p
<1> DEFINE l == RelativeLinks(doc)
           n == Len(l)
           A == AboveOf(doc, n)
<1>1. l \in Seq(Range(Links[doc])) /\ Range(l) = {g \in Range(Links[doc]) : IsRelativePath(g)}
  BY RelativeLinksAre
<1>2. n \in Nat /\ DOMAIN l = 1..n
  BY <1>1, LenProperties
<1>3. Range(l) = {l[k] : k \in 1..n}
  BY <1>2 DEF Range
<1>4. \A h \in Range(l) : h.rooted \in BOOLEAN
  BY <1>1, LinksAssumption DEF LinksAssumption
<1>5. ~ GoesUp(p)
  BY LocalAssumption DEF LocalAssumption
<1>6. A = {k \in 1..n : Above(l[k])} /\ KeysOf(doc, n) = {KeyOf(l[k]) : k \in (1..n) \ A}
  BY DEF AboveOf, KeysOf
<1> HIDE DEF l, n, A
<1>7. ASSUME <<FALSE, p>> \in KeysOf(doc, n)
      PROVE  \E h \in Range(l) : ~ h.rooted /\ Normalize(h) = p
  <2>1. PICK k \in 1..n : KeyOf(l[k]) = <<FALSE, p>>
    BY <1>6, <1>7
  <2>2. l[k].rooted = FALSE /\ Normalize(l[k]) = p
    BY <2>1 DEF KeyOf, Target
  <2> QED BY <1>3, <2>2
<1>8. ASSUME NEW h \in Range(l), ~ h.rooted, Normalize(h) = p
      PROVE  <<FALSE, p>> \in KeysOf(doc, n)
  <2>1. PICK k \in 1..n : h = l[k]
    BY <1>3
  <2>2. KeyOf(h) = <<FALSE, p>> /\ Target(h) = p
    BY <1>4, <1>8 DEF KeyOf, Target
  <2>3. k \notin A
    BY <1>5, <1>6, <2>1, <2>2 DEF Above, Target
  <2> QED BY <1>6, <2>1, <2>2, <2>3
<1> QED BY <1>7, <1>8 DEF l, n

LEMMA FullStandsFor ==
    ASSUME InHand
    PROVE  SelfContained
<1> SUFFICES ASSUME reader # NULL, reader.made # NULL PROVE SelfContained
  BY DEF SelfContained
<1> DEFINE doc     == reader.made
           es      == reader.entries
           n       == Len(es)
           keys    == KeysOf(doc, Len(RelativeLinks(doc)))
           toc     == [k \in DOMAIN es |-> es[k].path]
           Fits(d) == SizeOf[d] \in 1..reader.max
           links   == {Normalize(h) : h \in {g \in Range(RelativeLinks(doc)) : ~ g.rooted}}
           S       == [path : {DocKml} \cup DOMAIN Local, data : {doc} \cup Range(Local)]
<1>1. doc \in Docs /\ Packed(doc, es, keys) /\ reader.max \in Nat
  BY DEF InHand, Full
<1>2. /\ es \in Seq(S) /\ n >= 1
      /\ \A k \in 2..n : /\ es[k].path \in DOMAIN Local /\ es[k].data = Local[es[k].path]
                         /\ <<FALSE, es[k].path>> \in keys
      /\ \A k, l \in 2..n : k # l => es[k].path # es[l].path
      /\ \A p \in DOMAIN Local : <<FALSE, p>> \in keys => \E k \in 2..n : es[k].path = p
  BY <1>1 DEF Packed
<1>3. \A d \in Docs \cup Range(Local) : ReadAs(reader, d) = IF Fits(d) THEN d ELSE NULL
  <2> TAKE d \in Docs \cup Range(Local)
  <2>1. SizeOf[d] \in Nat
    BY SizeAssumption DEF SizeAssumption
  <2>2. (SizeOf[d] = 0 \/ SizeOf[d] > reader.max) <=> ~ Fits(d)
    BY <1>1, <2>1
  <2> HIDE DEF Fits
  <2> QED BY <2>2 DEF ReadAs
<1>4. DOMAIN toc = 1..n /\ (\A k \in 1..n : toc[k] = es[k].path) /\ n \in Nat
  <2>1. DOMAIN es = 1..n /\ n \in Nat
    BY <1>2, LenProperties
  <2> QED BY <2>1
<1>5. \A p \in DOMAIN Local : <<FALSE, p>> \in keys <=> p \in links
  <2> TAKE p \in DOMAIN Local
  <2>1. <<FALSE, p>> \in keys <=> \E h \in Range(RelativeLinks(doc)) : ~ h.rooted /\ Normalize(h) = p
    BY <1>1, LinkedFiles
  <2>2. p \in links <=> \E h \in Range(RelativeLinks(doc)) : ~ h.rooted /\ Normalize(h) = p
    OBVIOUS
  <2> QED BY <2>1, <2>2
<1> HIDE DEF doc, es, n, keys, toc, Fits, links, S
<1>6. ReadKml(reader) = IF Fits(doc) THEN doc ELSE NULL
  <2>1. ReadKml(reader) = ReadAs(reader, doc)
    BY <1>1, PackedReadsKml DEF es
  <2> QED BY <1>1, <1>3, <2>1
<1>7. ASSUME NEW p \in (links \cap DOMAIN Local) \ {DocKml}
      PROVE  GetEntry(reader, p) = IF Fits(Local[p]) THEN Local[p] ELSE NULL
  <2>1. \E k \in 2..n : es[k].path = p
    BY <1>2, <1>5
  <2>2. GetEntry(reader, p) = ReadAs(reader, Local[p])
    <3>1. Packed(doc, reader.entries, keys) /\ \E k \in 2..Len(reader.entries) : reader.entries[k].path = p
      BY <1>1, <2>1 DEF es, n
    <3>2. p # DocKml
      OBVIOUS
    <3>3. Reads(reader, doc, p)
      BY <3>1, PackedIsRead
    <3> QED BY <3>1, <3>2, <3>3 DEF Reads
  <2>3. Local[p] \in Range(Local)
    BY DEF Range
  <2> QED BY <1>3, <2>2, <2>3
<1>8. ASSUME NEW k \in DOMAIN toc \ {1}
      PROVE  /\ toc[k] \in links \cap DOMAIN Local /\ es[k].data = Local[toc[k]]
             /\ \A l \in DOMAIN toc \ {1, k} : toc[l] # toc[k]
  <2>1. (\A l \in DOMAIN toc \ {1} : l \in 2..n /\ l \in 1..n) /\ k \in 2..n /\ k \in 1..n
    BY <1>4
  <2>2. toc[k] = es[k].path /\ \A l \in DOMAIN toc \ {1} : toc[l] = es[l].path
    BY <1>4, <2>1
  <2>3. es[k].path \in DOMAIN Local /\ es[k].data = Local[es[k].path] /\ <<FALSE, es[k].path>> \in keys
    BY <1>2, <2>1
  <2>4. toc[k] \in links \cap DOMAIN Local /\ es[k].data = Local[toc[k]]
    BY <1>5, <2>2, <2>3
  <2>5. ASSUME NEW l \in DOMAIN toc \ {1, k} PROVE toc[l] # toc[k]
    BY <1>2, <2>1, <2>2
  <2> QED BY <2>4, <2>5
<1> QED BY <1>6, <1>7, <1>8 DEF SelfContained, doc, es, toc, Fits, links

(* An archive made from a document can stand for it: the document is what  *)
(* is read first, each file it links to is found, and nothing else         *)
(* (CreateFromElement, AddFileList).                                       *)
THEOREM ArchiveStandsForDocument == Spec => []SelfContained
<1>1. IInv => SelfContained
  BY FullStandsFor DEF IInv
<1> QED BY <1>1, IInvAlways, PTL


-----------------------------------------------------------------------------
(* What it says of the errors, at the end of AddFileList.                  *)
Lost(doc, es) == KeysOf(doc, Len(RelativeLinks(doc))) \ Brought(es)

(* A link is lost if it has a key and no file; it is missing if there is   *)
(* nothing to read.  For plain links that is the same.                     *)
LEMMA PlainLinks ==
    ASSUME NEW doc \in Docs, NEW kmz, kmz.max = MaxUncompressed,
           NEW keys, keys = KeysOf(doc, Len(RelativeLinks(doc))), Packed(doc, kmz.entries, keys),
           \A h \in Range(Links[doc]) : Plain(h)
    PROVE  MissingLinks(kmz, doc) = {} <=>
             (AboveOf(doc, Len(RelativeLinks(doc))) = {} /\ Lost(doc, kmz.entries) = {})
<1> DEFINE l  == RelativeLinks(doc)
           n  == Len(l)
           es == kmz.entries
           A  == AboveOf(doc, n)
           T  == Range(Links[doc])
           Has(p)   == \E k \in 2..Len(es) : es[k].path = p
           There(h) == ~ h.rooted /\ GetEntry(kmz, h.path) # NULL
<1>1. l \in Seq(T) /\ Range(l) = {g \in T : IsRelativePath(g)}
  BY RelativeLinksAre
<1>2. Range(l) = {l[k] : k \in 1..n}
  <2>1. DOMAIN l = 1..n
    BY <1>1, LenProperties
  <2> QED BY <2>1 DEF Range
<1>3. \A h \in T : h.rooted \in BOOLEAN
  BY LinksAssumption DEF LinksAssumption
<1>4. A = {k \in 1..n : Above(l[k])} /\ keys = {KeyOf(l[k]) : k \in (1..n) \ A}
  BY DEF AboveOf, KeysOf
<1>5. /\ \A k \in 2..Len(es) : es[k].path \in DOMAIN Local
      /\ Brought(es) = {<<FALSE, es[k].path>> : k \in 2..Len(es)}
  BY DEF Packed, Brought
<1>6. \A p \in DOMAIN Local : ~ GoesUp(p)
  BY LocalAssumption DEF LocalAssumption
<1>7. \A h \in T : IsRelative(h) => /\ Target(h) = h.path /\ h.path # DocKml /\ h \in Range(l)
                                    /\ (h.path \in DOMAIN Local => SizeOf[Local[h.path]] \in 1..MaxUncompressed)
  BY <1>1 DEF Plain, Target, IsRelative, IsRelativePath
<1>8. \A h \in Range(l) : h \in T /\ IsRelative(h)
  BY <1>1 DEF IsRelativePath, IsRelative
<1>9. \A p : Reads(kmz, doc, p)
  BY PackedIsRead
<1> HIDE DEF l, n, A, T, Has, There
<1>10. MissingLinks(kmz, doc) = {h \in T : IsRelative(h) /\ ~ There(h)}
  <2>1. MissingLinks(kmz, doc) = {h \in T : IsRelative(h) /\ (h.rooted \/ GetEntry(kmz, h.path) = NULL)}
    BY DEF MissingLinks, T
  <2> QED BY <2>1 DEF There
<1>11. ASSUME NEW h \in Range(l)
       PROVE  There(h) <=> ~ h.rooted /\ Has(h.path)
  <2>1. /\ h.path # DocKml
        /\ (h.path \in DOMAIN Local => SizeOf[Local[h.path]] \in 1..MaxUncompressed)
    BY <1>7, <1>8, <1>11
  <2>2. GetEntry(kmz, h.path) # NULL => Has(h.path)
    BY <1>9, <2>1 DEF Reads, Has
  <2>3. ASSUME Has(h.path) PROVE GetEntry(kmz, h.path) # NULL
    <3>1. h.path \in DOMAIN Local
      BY <1>5, <2>3 DEF Has
    <3>2. GetEntry(kmz, h.path) = ReadAs(kmz, Local[h.path])
      BY <1>9, <2>1, <2>3 DEF Reads, Has
    <3>3. Local[h.path] \in Range(Local) /\ Local[h.path] # NULL
      BY <3>1, NameAssumption DEF Range, NameAssumption
    <3>4. MaxUncompressed \in Nat /\ SizeOf[Local[h.path]] \in Nat
      BY <3>3, SizeAssumption DEF SizeAssumption
    <3>5. ~ (SizeOf[Local[h.path]] = 0 \/ SizeOf[Local[h.path]] > kmz.max)
      BY <2>1, <3>1, <3>4
    <3> QED BY <3>2, <3>3, <3>5 DEF ReadAs
  <2> QED BY <2>2, <2>3 DEF There
<1>12. \A p : Has(p) => ~ GoesUp(p)
  BY <1>5, <1>6 DEF Has
<1>13. \A h \in Range(l) : ~ h.rooted /\ Has(h.path) <=> KeyOf(h) \in Brought(es)
  <2> TAKE h \in Range(l)
  <2>1. h.rooted \in BOOLEAN /\ KeyOf(h) = <<h.rooted, h.path>>
    BY <1>3, <1>7, <1>8 DEF KeyOf
  <2>2. KeyOf(h) \in Brought(es) <=> \E k \in 2..Len(es) : <<FALSE, es[k].path>> = <<h.rooted, h.path>>
    BY <1>5, <2>1
  <2>3. \A q : <<FALSE, q>> = <<h.rooted, h.path>> <=> (~ h.rooted /\ q = h.path)
    BY <2>1
  <2> QED BY <2>2, <2>3 DEF Has
<1>14. ASSUME A = {}, keys \ Brought(es) = {}, NEW h \in Range(l)
       PROVE  There(h)
  <2>1. PICK k \in 1..n : h = l[k]
    BY <1>2, <1>14
  <2>2. KeyOf(h) \in keys
    BY <1>4, <1>14, <2>1
  <2> QED BY <1>11, <1>13, <1>14, <2>2
<1>15. ASSUME \A h \in Range(l) : There(h)
       PROVE  A = {} /\ keys \ Brought(es) = {}
  <2>1. \A k \in 1..n : l[k] \in Range(l)
    BY <1>2
  <2>2. \A k \in 1..n : ~ Above(l[k]) /\ KeyOf(l[k]) \in Brought(es)
    <3> TAKE k \in 1..n
    <3>1. l[k] \in Range(l) /\ Target(l[k]) = l[k].path
      BY <1>7, <1>8, <2>1
    <3>2. ~ l[k].rooted /\ Has(l[k].path)
      BY <1>11, <1>15, <3>1
    <3> QED BY <1>12, <1>13, <3>1, <3>2 DEF Above, Target
  <2> QED BY <1>4, <2>2
<1>16. MissingLinks(kmz, doc) = {} <=> \A h \in Range(l) : There(h)
  BY <1>7, <1>8, <1>10
<1> QED BY <1>14, <1>15, <1>16 DEF Lost, A, n, l

LEMMA LostIs ==
    ASSUME NEW doc \in Docs, NEW es, NEW S, es \in Seq(S), Len(es) >= 1
    PROVE  LET links == RelativeLinks(doc)
               above == {k \in DOMAIN links : Above(links[k])} IN
           /\ above = AboveOf(doc, Len(links))
           /\ Lost(doc, es) =
                {<<links[k].rooted, Normalize(links[k])>> : k \in DOMAIN links \ above}
                  \ {<<FALSE, e.path>> : e \in Range(Tail(es))}
<1> DEFINE l == RelativeLinks(doc)
           n == Len(l)
           t == Tail(es)
           m == Len(es)
<1>1. l \in Seq(Range(Links[doc]))
  BY RelativeLinksAre
<1>2. DOMAIN l = 1..n
  BY <1>1, LenProperties
<1>3. AboveOf(doc, n) = {k \in DOMAIN l : Above(l[k])}
  BY <1>2 DEF AboveOf, Target
<1>4. KeysOf(doc, n) = {<<l[k].rooted, Normalize(l[k])>> : k \in DOMAIN l \ AboveOf(doc, n)}
  BY <1>2 DEF KeysOf, KeyOf, Target
<1>5. m \in Nat /\ DOMAIN t = 1..(m - 1) /\ \A j \in 1..(m - 1) : t[j] = es[j + 1]
  OBVIOUS
<1>6. Range(t) = {es[k] : k \in 2..m}
  <2> HIDE DEF m, t
  <2>1. Range(t) = {t[j] : j \in 1..(m - 1)}
    BY <1>5 DEF Range
  <2>2. \A j \in 1..(m - 1) : j + 1 \in 2..m
    BY <1>5
  <2>3. \A k \in 2..m : k - 1 \in 1..(m - 1) /\ (k - 1) + 1 = k
    BY <1>5
  <2>4. \A k \in 2..m : t[k - 1] = es[k]
    BY <1>5, <2>3
  <2> QED BY <1>5, <2>1, <2>2, <2>3, <2>4
<1>7. Brought(es) = {<<FALSE, e.path>> : e \in Range(t)}
  BY <1>6 DEF Brought
<1> QED BY <1>3, <1>4, <1>7 DEF Lost


(* A writer that has passed all links.                                     *)
LEMMA ErrorsAreCounted ==
    ASSUME Writing
    PROVE  MissingAreCounted
<1> SUFFICES ASSUME writer # NULL, writer.whole, todo = << >> PROVE MissingAreCounted
  BY DEF MissingAreCounted
<1> DEFINE doc   == made[writer.name]
           es    == writer.entries
           kmz   == [entries |-> es, max |-> MaxUncompressed]
           links == RelativeLinks(doc)
           n     == Len(links)
           above == {k \in DOMAIN links : Above(links[k])}
           lost  == {<<links[k].rooted, Normalize(links[k])>> : k \in DOMAIN links \ above}
                      \ {<<FALSE, e.path>> : e \in Range(Tail(es))}
           S     == [path : {DocKml} \cup DOMAIN Local, data : {doc} \cup Range(Local)]
<1>1. doc \in Docs /\ \E m \in Nat : Halfway(doc, es, << >>, stored, errors, m)
  BY DEF Writing, InWork
<1> HIDE DEF doc, es
<1>2. PICK m \in Nat : Halfway(doc, es, << >>, stored, errors, m)
  BY <1>1
<1>3. m = n /\ stored = KeysOf(doc, n) /\ Packed(doc, es, stored)
  BY <1>2, PassedAll
<1>4. errors = Cardinality(AboveOf(doc, n)) + Cardinality(Lost(doc, es))
  BY <1>2, <1>3 DEF Halfway, Lost
<1>5. es \in Seq(S) /\ Len(es) >= 1
  BY <1>3 DEF Packed
<1> HIDE DEF S
<1>6. above = AboveOf(doc, n) /\ lost = Lost(doc, es)
  BY <1>1, <1>5, LostIs
<1>7. n \in Nat
  BY <1>1, RelativeLinksAre, LenProperties
<1>8. IsFiniteSet(AboveOf(doc, n)) /\ IsFiniteSet(Lost(doc, es))
  <2>1. IsFiniteSet(AboveOf(doc, n)) /\ IsFiniteSet(KeysOf(doc, n))
    BY <1>7, KeysFinite
  <2>2. Lost(doc, es) \subseteq KeysOf(doc, n)
    BY DEF Lost
  <2> QED BY <2>1, <2>2, FS_Subset
<1>9. errors = 0 <=> (AboveOf(doc, n) = {} /\ Lost(doc, es) = {})
  <2>1. /\ Cardinality(AboveOf(doc, n)) \in Nat /\ Cardinality(Lost(doc, es)) \in Nat
        /\ Cardinality(AboveOf(doc, n)) = 0 <=> AboveOf(doc, n) = {}
        /\ Cardinality(Lost(doc, es)) = 0 <=> Lost(doc, es) = {}
    BY <1>8, FS_CardinalityType, FS_EmptySet
  <2>2. \A a, b \in Nat : a + b = 0 <=> (a = 0 /\ b = 0)
    OBVIOUS
  <2>3. errors = 0 <=> (Cardinality(AboveOf(doc, n)) = 0 /\ Cardinality(Lost(doc, es)) = 0)
    BY <1>4, <2>1, <2>2, Zenon
  <2> QED BY <2>1, <2>3, Zenon
<1>10. ASSUME \A h \in Range(Links[doc]) : Plain(h)
       PROVE  MissingLinks(kmz, doc) = {} <=> errors = 0
  <2>1. kmz.max = MaxUncompressed /\ kmz.entries = es
    OBVIOUS
  <2> HIDE DEF kmz
  <2>2. MissingLinks(kmz, doc) = {} <=> (AboveOf(doc, n) = {} /\ Lost(doc, kmz.entries) = {})
    BY <1>1, <1>3, <1>10, <2>1, PlainLinks
  <2> QED BY <1>9, <2>1, <2>2
<1>11. errors = Cardinality(above) + Cardinality(lost)
  BY <1>4, <1>6
<1> HIDE DEF kmz, links, n, above, lost
<1> QED BY <1>10, <1>11 DEF MissingAreCounted, doc, es, kmz, links, above, lost

(* The errors of AddFileList are the files that are not in the archive     *)
(* (AddFileList), and KmzCheckLinks finds a plain link missing just if     *)
(* there was one.                                                          *)
THEOREM ErrorsAreTheMissing == Spec => []MissingAreCounted
<1>1. IInv => MissingAreCounted
  BY ErrorsAreCounted DEF IInv
<1> QED BY <1>1, IInvAlways, PTL

=============================================================================
