--------------------------- MODULE KmlCache_proofs ---------------------------
(***************************************************************************)
(* The KMZ-aware search over the three caches answers what the site        *)
(* serves, for every site, size of the caches and sequence of calls.       *)
(***************************************************************************)
EXTENDS KmlCache, FiniteSetTheorems, SequenceTheorems, TLAPS

(* A nonempty set of natural numbers has a smallest element.               *)
LEMMA SmallestNat ==
    ASSUME NEW T \in SUBSET Nat, T # {}
    PROVE  \E m \in T : \A n \in T : m <= n
<1> DEFINE R == OpToRel(<, Nat)
<1>1. \E m \in T : \A n \in T : ~ (<<n, m>> \in R)
  BY NatLessThanWellFounded, WFMin
<1>2. \A m, n \in T : ~ (<<n, m>> \in R) => m <= n
  BY DEF OpToRel
<1> QED BY <1>1, <1>2

(* What the clients resolve: FetchKmlAbsolute makes an href of a url.      *)
Targets == Hrefs \cup {Absolute(url) : url \in Urls}

AllCalls == [kind : {"kml", "data"}, base : Urls, href : Targets,
             url : AllUrls, fetched_url : AllUrls, out : BOOLEAN, lost : BOOLEAN]

-----------------------------------------------------------------------------
(* The three caches.  Every entry is what the site serves, whole, opened,  *)
(* or parsed as an absolute fetch of its url would.                        *)
FilesAgree ==
    \A u \in Cached(memory_file_cache) :
        /\ u.path \in DOMAIN Site
        /\ memory_file_cache.map[u].item = Site[u.path]

KmzsAgree ==
    \A u \in Cached(kmz_file_cache) :
        /\ u.path \in DOMAIN Site
        /\ kmz_file_cache.map[u].item = OpenKmz(Site[u.path])

(* The file the absolute url u names: what is parsed from what it serves.  *)
IsFileOf(kml_file, u) ==
    /\ kml_file = [url |-> u, doc |-> kml_file.doc]
    /\ kml_file.doc \in Docs
    /\ Serve(u) # NULL /\ kml_file.doc = Parse(Serve(u))

KmlsAgree ==
    \A u \in Cached(kml_file_cache) :
        u \in AllUrls /\ IsFileOf(kml_file_cache.map[u].item, u)

(* The call under way: which level its url is at, and where its result     *)
(* will be saved.                                                          *)
Asked == Resolve(call.base, call.href)

Second == Beside(call.base, call.href)

Third == Beyond(Second, call.href)

Last == Level(call.base, call.href)

Searching ==
    /\ call \in AllCalls /\ call.href # NULL
    /\ call.url \in {Asked, Second, Third, Last}
    /\ call.out => call.kind = "kml" /\ call.url = Asked
    /\ call.kind = "kml" /\ ~ call.out =>
          call.fetched_url = Second /\ call.url \in {Second, Third, Last}

IInv ==
    /\ pc \in {"idle", "fetch", "read"}
    /\ FilesAgree /\ KmzsAgree /\ KmlsAgree
    /\ pc # "idle" => Searching
    /\ pc = "read" => IsKmz(call.url) /\ Archive # NULL
    /\ Transparent

-----------------------------------------------------------------------------
(* Save adds or refuses its own entry, evicts perhaps another, and changes *)
(* none.                                                                   *)
LEMMA SavedEntries ==
    ASSUME NEW c, NEW u, NEW i, NEW v \in Cached(Save(c, u, i))
    PROVE  \/ v \in Cached(c) /\ Save(c, u, i).map[v].item = c.map[v].item
           \/ v = u /\ Save(c, u, i).map[v].item = i
<1>1. CASE SaveRefused(c, u)
  BY <1>1 DEF Save
<1>2. CASE ~ SaveRefused(c, u)
  <2> DEFINE d == MakeRoom(c)
  <2>1. Save(c, u, i) = Stamped(d, u, i)
    BY <1>2 DEF Save
  <2>2. \A w \in Cached(d) : w \in Cached(c) /\ d.map[w] = c.map[w]
    BY DEF MakeRoom, RemoveOldest, Without, Cached, Restrict
  <2> HIDE DEF d
  <2>3. v \in Cached(d) \cup {u}
    BY <2>1 DEF Stamped, Entered, Cached
  <2>4. Save(c, u, i).map[v] =
          IF v = u THEN [item |-> i, stamp |-> d.count] ELSE d.map[v]
    BY <2>1, <2>3 DEF Stamped, Entered
  <2>5. CASE v = u
    BY <2>4, <2>5
  <2>6. CASE v # u
    BY <2>2, <2>3, <2>4, <2>6
  <2> QED BY <2>5, <2>6
<1> QED BY <1>1, <1>2

(* What was saved for a url that had no item can be looked up.             *)
LEMMA SavedIsThere ==
    ASSUME NEW c, NEW u, NEW i, LookUp(c, u) = NULL
    PROVE  LookUp(Save(c, u, i), u) = i
<1>1. Save(c, u, i) = Stamped(MakeRoom(c), u, i)
  BY DEF Save, SaveRefused
<1> DEFINE d == MakeRoom(c)
<1> HIDE DEF d
<1>2. u \in Cached(Stamped(d, u, i)) /\ Stamped(d, u, i).map[u].item = i
  BY DEF Stamped, Entered, Cached
<1> QED BY <1>1, <1>2 DEF LookUp, d
-----------------------------------------------------------------------------
(* Urls.                                                                   *)
LEMMA Parts ==
    ASSUME NEW path \in Seq(Segments), NEW m \in Nat, NEW n \in Nat, n <= Len(path)
    PROVE  SubSeq(path, m + 1, n) \in Seq(Segments)
<1>1. Len(path) \in Nat /\ \A i \in 1..Len(path) : path[i] \in Segments
  OBVIOUS
<1>2. \A i \in (m + 1)..n : i \in 1..Len(path)
  BY <1>1
<1>3. \A i \in (m + 1)..n : path[i] \in Segments
  BY <1>1, <1>2
<1> QED BY <1>3, SubSeqProperties

LEMMA ResolveIsUrl ==
    ASSUME NEW base \in AllUrls, NEW href \in AllHrefs
    PROVE  Resolve(base, href) \in AllUrls
<1> DEFINE n == Len(base.path) - 1 - href.up
           m == IF n < 0 THEN 0 ELSE n
<1>1. base.path \in Seq(Segments) /\ href.path \in Seq(Segments) /\ href.up \in Nat
      /\ Len(base.path) \in Nat /\ href.frag \in Frags
  BY DEF AllUrls, AllHrefs
<1>2. m \in Nat /\ m <= Len(base.path)
  BY <1>1
<1>3. Dir(base.path, href.up) \in Seq(Segments)
  <2>1. Dir(base.path, href.up) = SubSeq(base.path, 0 + 1, m)
    BY DEF Dir
  <2> HIDE DEF m
  <2> QED BY <1>1, <1>2, <2>1, Parts
<1>4. Resolve(base, href).path \in Seq(Segments)
  <2>1. Dir(base.path, href.up) \o href.path \in Seq(Segments)
    BY <1>1, <1>3
  <2> QED BY <1>1, <2>1 DEF Resolve
<1> QED BY <1>1, <1>4 DEF Resolve, AllUrls

LEMMA AbsoluteIsItself ==
    ASSUME NEW u \in AllUrls
    PROVE  /\ Absolute(u) \in AllHrefs
           /\ \A base : Resolve(base, Absolute(u)) = u
BY DEF Absolute, AllHrefs, AllUrls, Resolve

(* KmzSplit: the first segment with ".kmz".                                *)
LEMMA KmzEndIsFirst ==
    ASSUME NEW u \in AllUrls, IsKmz(u)
    PROVE  /\ KmzEnd(u) \in Nat \ {0} /\ KmzEnd(u) <= Len(u.path)
           /\ u.path[KmzEnd(u)] \in KmzNames
           /\ \A j \in 1..(KmzEnd(u) - 1) : u.path[j] \notin KmzNames
<1> DEFINE T == {i \in DOMAIN u.path : u.path[i] \in KmzNames}
<1>1. u.path \in Seq(Segments)
  BY DEF AllUrls
<1>2. DOMAIN u.path = 1..Len(u.path) /\ Len(u.path) \in Nat
  BY <1>1
<1>3. T \in SUBSET Nat /\ T # {}
  BY <1>2 DEF IsKmz
<1>4. PICK m \in T : \A i \in T : m <= i
  BY <1>3, SmallestNat
<1>5. \A j \in 1..(m - 1) : u.path[j] \notin KmzNames
  <2>1. m \in Nat /\ m <= Len(u.path)
    BY <1>2
  <2>2. ASSUME NEW j \in 1..(m - 1), u.path[j] \in KmzNames PROVE FALSE
    <3>1. j \in DOMAIN u.path /\ ~ m <= j
      BY <1>2, <2>1
    <3> QED BY <1>4, <2>2, <3>1
  <2> QED BY <2>2
<1>6. m \in DOMAIN u.path /\ u.path[m] \in KmzNames
  OBVIOUS
<1>7. /\ KmzEnd(u) \in DOMAIN u.path /\ u.path[KmzEnd(u)] \in KmzNames
      /\ \A j \in 1..(KmzEnd(u) - 1) : u.path[j] \notin KmzNames
  BY <1>5, <1>6 DEF KmzEnd
<1> QED BY <1>2, <1>7

LEMMA KmzParts ==
    ASSUME NEW u \in AllUrls, IsKmz(u)
    PROVE  /\ KmzUrl(u) \in AllUrls
           /\ PathInKmz(u) \in Seq(Segments)
<1>1. u.path \in Seq(Segments) /\ KmzEnd(u) \in Nat /\ KmzEnd(u) <= Len(u.path)
      /\ Len(u.path) \in Nat
  BY KmzEndIsFirst DEF AllUrls
<1>2. SubSeq(u.path, 0 + 1, KmzEnd(u)) \in Seq(Segments)
  BY <1>1, Parts
<1>3. SubSeq(u.path, KmzEnd(u) + 1, Len(u.path)) \in Seq(Segments)
  BY <1>1, Parts
<1> QED BY <1>2, <1>3, UrlAssumption DEF KmzUrl, PathInKmz, AllUrls

(* set_path_in_kmz keeps the archive and replaces what follows it.         *)
LEMMA SetPathSplits ==
    ASSUME NEW u \in AllUrls, IsKmz(u), NEW path \in Seq(Segments)
    PROVE  LET w == SetPathInKmz(u, path)
           IN  /\ w \in AllUrls /\ IsKmz(w)
               /\ KmzUrl(w) = KmzUrl(u) /\ PathInKmz(w) = path
<1> DEFINE w == SetPathInKmz(u, path)
           a == KmzUrl(u).path
           n == KmzEnd(u)
<1>1. u.path \in Seq(Segments) /\ Len(u.path) \in Nat /\ n \in Nat \ {0} /\ n <= Len(u.path)
      /\ u.path[n] \in KmzNames /\ \A j \in 1..(n - 1) : u.path[j] \notin KmzNames
  BY KmzEndIsFirst DEF AllUrls
<1>2. a \in Seq(Segments) /\ a = SubSeq(u.path, 1, n)
  BY KmzParts DEF KmzUrl, AllUrls
<1> HIDE DEF n, a
<1>3. Len(a) = n /\ \A j \in 1..n : a[j] = u.path[j]
  <2>1. \A j \in 1..n : j \in 1..Len(u.path)
    BY <1>1
  <2>2. \A j \in 1..n : u.path[j] \in Segments
    BY <1>1, <2>1
  <2>3. Len(SubSeq(u.path, 1, n)) = IF 1 <= n THEN n - 1 + 1 ELSE 0
    BY <1>1, <2>2, SubSeqProperties
  <2>4. \A j \in 1..(n - 1 + 1) : SubSeq(u.path, 1, n)[j] = u.path[1 + j - 1]
    BY <1>1, <2>2, SubSeqProperties
  <2> QED BY <1>1, <1>2, <2>3, <2>4
<1>4. w.path = a \o path /\ w.frag = NoFrag /\ w = [path |-> a \o path, frag |-> NoFrag]
  BY DEF SetPathInKmz, a
<1>5. /\ w.path \in Seq(Segments) /\ Len(w.path) = n + Len(path)
      /\ \A j \in 1..n : w.path[j] = a[j]
      /\ \A j \in 1..Len(path) : w.path[n + j] = path[j]
  BY <1>1, <1>2, <1>3, <1>4
<1>6. w \in AllUrls
  BY <1>4, <1>5, UrlAssumption DEF AllUrls
<1>7. n \in DOMAIN w.path /\ w.path[n] \in KmzNames
      /\ \A j \in 1..(n - 1) : w.path[j] \notin KmzNames
  <2>1. n \in 1..n /\ n \in 1..Len(w.path) /\ \A j \in 1..(n - 1) : j \in 1..n
    BY <1>1, <1>5
  <2>2. DOMAIN w.path = 1..Len(w.path)
    BY <1>5
  <2> QED BY <1>1, <1>3, <1>5, <2>1, <2>2
<1> HIDE DEF w
<1>8. IsKmz(w)
  BY <1>7 DEF IsKmz
<1>9. KmzEnd(w) = n
  <2>1. /\ KmzEnd(w) \in Nat \ {0} /\ w.path[KmzEnd(w)] \in KmzNames
        /\ \A j \in 1..(KmzEnd(w) - 1) : w.path[j] \notin KmzNames
    BY <1>6, <1>8, KmzEndIsFirst
  <2> DEFINE k == KmzEnd(w)
  <2> HIDE DEF k
  <2>2. ~ k < n
    <3>1. k < n => k \in 1..(n - 1)
      BY <1>1, <2>1 DEF k
    <3> QED BY <1>7, <2>1, <3>1 DEF k
  <2>3. ~ n < k
    <3>1. n < k => n \in 1..(k - 1)
      BY <1>1, <2>1 DEF k
    <3> QED BY <1>7, <2>1, <3>1 DEF k
  <2> QED BY <1>1, <2>1, <2>2, <2>3 DEF k
<1>10. SubSeq(w.path, 1, n) = a
  <2>1. \A j \in 1..n : w.path[j] \in Segments
    BY <1>1, <1>5
  <2>2. Len(SubSeq(w.path, 1, n)) = n /\ SubSeq(w.path, 1, n) \in Seq(Segments)
    BY <1>1, <2>1, SubSeqProperties
  <2>3. \A j \in 1..n : SubSeq(w.path, 1, n)[j] = w.path[j]
    <3>1. \A j \in 1..(n - 1 + 1) : SubSeq(w.path, 1, n)[j] = w.path[1 + j - 1]
      BY <1>1, <2>1, SubSeqProperties
    <3> QED BY <1>1, <3>1
  <2> QED BY <1>2, <1>3, <1>5, <2>2, <2>3, SeqEqual
<1>11. SubSeq(w.path, n + 1, Len(w.path)) = path
  <2> DEFINE m == Len(w.path)
             s == SubSeq(w.path, n + 1, m)
  <2>1. m = n + Len(path) /\ Len(path) \in Nat /\ m \in Nat
    BY <1>1, <1>5
  <2>2. \A j \in (n + 1)..m : w.path[j] \in Segments
    BY <1>1, <1>5
  <2> HIDE DEF m
  <2>3. s \in Seq(Segments) /\ Len(s) = IF n + 1 <= m THEN m - (n + 1) + 1 ELSE 0
    BY <1>1, <2>1, <2>2, SubSeqProperties
  <2>4. Len(s) = Len(path)
    BY <1>1, <2>1, <2>3
  <2>5. \A j \in 1..(m - (n + 1) + 1) : s[j] = w.path[(n + 1) + j - 1]
    BY <1>1, <2>1, <2>2, SubSeqProperties
  <2>6. \A j \in 1..Len(path) : s[j] = path[j]
    <3>1. \A j \in 1..Len(path) : j \in 1..(m - (n + 1) + 1) /\ (n + 1) + j - 1 = n + j
      BY <1>1, <2>1
    <3> QED BY <1>5, <2>5, <3>1
  <2> HIDE DEF s
  <2>7. s = path
    BY <2>3, <2>4, <2>6, SeqEqual
  <2> QED BY <2>7 DEF s, m
<1>12. KmzUrl(w) = KmzUrl(u)
  BY <1>2, <1>9, <1>10 DEF KmzUrl, n, a
<1>13. PathInKmz(w) = path
  BY <1>9, <1>11 DEF PathInKmz
<1> QED BY <1>6, <1>8, <1>12, <1>13 DEF w

-----------------------------------------------------------------------------
(* The default file of an archive of the site has a path.                  *)
LEMMA KmlPathIsPath ==
    ASSUME NEW path \in DOMAIN Site, KmlPath(Site[path]) # NULL
    PROVE  KmlPath(Site[path]) \in Seq(Segments)
<1> DEFINE toc == Site[path].toc
           kml == {p \in {toc[i].path : i \in DOMAIN toc} : p[Len(p)] \in KmlNames}
           T == {i \in DOMAIN toc : toc[i].path \in kml}
           e == FirstEntry(toc, kml)
<1>1. /\ DOMAIN toc = 1..Len(toc) /\ Len(toc) \in Nat
      /\ \A i \in DOMAIN toc : toc[i].path \in Seq(Segments)
  <2>1. toc \in Seq(Range(toc)) /\ \A entry \in Range(toc) : entry.path \in Seq(Segments)
    BY SiteAssumption
  <2> HIDE DEF toc
  <2>2. \A i \in DOMAIN toc : toc[i] \in Range(toc)
    BY DEF Range
  <2> QED BY <2>1, <2>2
<1>2. KmlPath(Site[path]) = IF e = NULL THEN NULL ELSE e.path
  BY DEF KmlPath
<1> HIDE DEF kml
<1>3. T # {}
  BY <1>2 DEF FirstEntry
<1>4. PICK m \in T : \A i \in T : m <= i
  <2>1. T \in SUBSET Nat
    BY <1>1
  <2> QED BY <1>3, <2>1, SmallestNat
<1>5. m \in Nat /\ m \in DOMAIN toc /\ toc[m].path \in kml
  BY <1>1
<1>6. \A j \in 1..(m - 1) : ~ (toc[j].path \in kml)
  <2>1. ASSUME NEW j \in 1..(m - 1), toc[j].path \in kml PROVE FALSE
    <3>1. ~ m <= j /\ j \in DOMAIN toc
      BY <1>1, <1>5
    <3> QED BY <1>4, <2>1, <3>1
  <2> QED BY <2>1
<1>7. \E i \in DOMAIN toc : e = toc[i]
  BY <1>5, <1>6 DEF FirstEntry
<1> QED BY <1>1, <1>2, <1>7

(* What stands in an archive of the site where the url says, and for the   *)
(* url of the archive itself its default file.                             *)
LEMMA ServedFromArchive ==
    ASSUME NEW u \in AllUrls, IsKmz(u),
           KmzUrl(u).path \in DOMAIN Site, Site[KmzUrl(u).path].zip
    PROVE  LET kmz == Site[KmzUrl(u).path]
               w   == SetPathInKmz(u, KmlPath(kmz))
           IN  /\ PathInKmz(u) # << >> => Serve(u) = ReadFile(kmz, PathInKmz(u))
               /\ PathInKmz(u) = << >> => Serve(u) = KmlData(kmz)
               /\ PathInKmz(u) = << >> /\ KmlPath(kmz) = NULL => Serve(u) = NULL
               /\ PathInKmz(u) = << >> /\ KmlPath(kmz) # NULL =>
                    /\ w \in AllUrls /\ Serve(w) = Serve(u)
                    /\ Serve(u) = ReadFile(kmz, PathInKmz(w))
<1> DEFINE kmz == Site[KmzUrl(u).path]
           p == KmlPath(kmz)
           w == SetPathInKmz(u, p)
<1>1. /\ PathInKmz(u) # << >> => Serve(u) = ReadFile(kmz, PathInKmz(u))
      /\ PathInKmz(u) = << >> => Serve(u) = KmlData(kmz)
  BY DEF Serve
<1>2. KmlData(kmz) = IF p = NULL THEN NULL ELSE ReadFile(kmz, p)
  BY DEF KmlData
<1>3. ASSUME PathInKmz(u) = << >>, p # NULL
      PROVE  w \in AllUrls /\ Serve(w) = Serve(u) /\ Serve(u) = ReadFile(kmz, PathInKmz(w))
  <2>1. p \in Seq(Segments)
    BY <1>3, KmlPathIsPath
  <2>2. w \in AllUrls /\ IsKmz(w) /\ KmzUrl(w) = KmzUrl(u) /\ PathInKmz(w) = p
    BY <2>1, SetPathSplits
  <2> HIDE DEF w, p
  <2>3. Serve(w) = IF p # << >> THEN ReadFile(kmz, p) ELSE KmlData(kmz)
    BY <2>2 DEF Serve
  <2> QED BY <1>1, <1>2, <1>3, <2>2, <2>3
<1> QED BY <1>1, <1>2, <1>3

-----------------------------------------------------------------------------
(* Levels of the search.                                                   *)
LEMMA BeyondIsUrl ==
    ASSUME NEW u \in AllUrls, NEW href \in AllHrefs
    PROVE  Beyond(u, href) \in AllUrls
<1>1. CASE Passes(u)
  BY <1>1, KmzParts, ResolveIsUrl DEF Beyond, Passes
<1>2. CASE ~ Passes(u)
  BY <1>2 DEF Beyond
<1> QED BY <1>1, <1>2

LEMMA TargetsAreHrefs ==
    ASSUME NEW href \in Targets, href # NULL PROVE href \in AllHrefs
BY UrlAssumption, AbsoluteIsItself DEF Targets

(* The search is over at the last level, also that of an absolute fetch.   *)
LEMMA LastLevel ==
    ASSUME NEW base \in Urls, NEW href \in Targets, href # NULL
    PROVE  /\ Beyond(Level(base, href), href) = Level(base, href)
           /\ Passes(Beside(base, href)) => Serve(Level(base, href)) = NULL
<1>1. CASE href \in Hrefs
  BY <1>1, LevelAssumption
<1>2. CASE \E url \in Urls : href = Absolute(url)
  <2>1. PICK u \in Urls : href = Absolute(u)
    BY <1>2
  <2>2. \A b : Resolve(b, href) = u
    BY <2>1, UrlAssumption, AbsoluteIsItself
  <2>3. Beyond(u, href) = u
    BY <2>2 DEF Beyond
  <2>4. Resolve(base, href) = u
    BY <2>2
  <2>5. Beside(base, href) = u /\ Level(base, href) = u
    BY <2>3, <2>4 DEF Beside, Level
  <2> QED BY <2>3, <2>5 DEF Passes
<1> QED BY <1>1, <1>2 DEF Targets

LEMMA SearchTypes ==
    ASSUME Searching
    PROVE  /\ call.base \in AllUrls /\ call.href \in AllHrefs
           /\ call.url \in AllUrls /\ Second \in AllUrls
           /\ Second = Beyond(Asked, call.href) /\ Third = Beyond(Second, call.href)
           /\ Last = Beyond(Third, call.href) /\ Beyond(Last, call.href) = Last
           /\ Passes(Second) => Serve(Last) = NULL
<1>1. /\ call.base \in Urls /\ call.href \in Targets /\ call.href # NULL
      /\ call.url \in AllUrls
  BY DEF Searching, AllCalls
<1>2. call.base \in AllUrls /\ call.href \in AllHrefs
  BY <1>1, UrlAssumption, TargetsAreHrefs
<1>3. Second = Beyond(Asked, call.href) /\ Asked \in AllUrls
  BY <1>2, ResolveIsUrl DEF Second, Beside, Asked
<1>4. Second \in AllUrls
  BY <1>2, <1>3, BeyondIsUrl
<1>5. Third = Beyond(Second, call.href) /\ Last = Beyond(Third, call.href)
  BY DEF Third, Last, Second, Level
<1>6. Beyond(Last, call.href) = Last /\ (Passes(Second) => Serve(Last) = NULL)
  BY <1>1, LastLevel DEF Last, Second
<1> QED BY <1>1, <1>2, <1>3, <1>4, <1>5, <1>6

(* A search that has found something, or may not go on, is at its end.     *)
LEMMA EndOfSearch ==
    ASSUME Searching, ~ Passes(call.url) PROVE Last = call.url
<1>1. Beyond(call.url, call.href) = call.url
  BY DEF Beyond
<1>2. call.url \in {Asked, Second, Third, Last}
  BY DEF Searching
<1> QED BY <1>1, <1>2, SearchTypes

(* What a search finds behind its first archive is saved under its url.    *)
LEMMA SavedUnderItsUrl ==
    ASSUME Searching, call.kind = "kml", ~ call.out,
           ~ Passes(call.url), Serve(call.url) # NULL
    PROVE  call.fetched_url = call.url
<1>1. Last = call.url /\ call.fetched_url = Second /\ call.url \in {Second, Third, Last}
  BY EndOfSearch DEF Searching
<1>2. ~ Passes(Second)
  BY <1>1, SearchTypes
<1>3. Third = Second /\ Last = Third
  BY <1>2, SearchTypes DEF Beyond
<1> QED BY <1>1, <1>3

(* FetchFromCache reads what the site serves.                              *)
LEMMA ReadsTheSite ==
    ASSUME IInv, pc = "read"
    PROVE  /\ call.url \in AllUrls /\ IsKmz(call.url)
           /\ KmzUrl(call.url).path \in DOMAIN Site /\ Site[KmzUrl(call.url).path].zip
           /\ ReadContent = Serve(call.url)
           /\ ReadContent # NULL => ReadUrl \in AllUrls /\ Serve(ReadUrl) = ReadContent
<1> DEFINE u == call.url
           kmz == Site[KmzUrl(u).path]
<1>1. u \in AllUrls /\ IsKmz(u) /\ Archive # NULL
  BY SearchTypes DEF IInv
<1>2. KmzUrl(u) \in Cached(kmz_file_cache) /\ kmz_file_cache.map[KmzUrl(u)].item = Archive
  BY <1>1 DEF Archive, LookUp
<1>3. KmzUrl(u).path \in DOMAIN Site /\ Archive = OpenKmz(kmz)
  BY <1>2 DEF IInv, KmzsAgree
<1>4. kmz.zip /\ Archive = kmz
  BY <1>1, <1>3 DEF OpenKmz
<1> DEFINE p == KmlPath(kmz)
           w == SetPathInKmz(u, p)
<1>5. ReadUrl = IF PathInKmz(u) # << >> THEN u ELSE IF p = NULL THEN NULL ELSE w
  BY <1>1, <1>4 DEF ReadUrl
<1>6. /\ PathInKmz(u) # << >> => Serve(u) = ReadFile(kmz, PathInKmz(u))
      /\ PathInKmz(u) = << >> /\ p = NULL => Serve(u) = NULL
      /\ PathInKmz(u) = << >> /\ p # NULL =>
           w \in AllUrls /\ Serve(w) = Serve(u) /\ Serve(u) = ReadFile(kmz, PathInKmz(w))
  BY <1>1, <1>3, <1>4, ServedFromArchive
<1>7. ReadContent = IF ReadUrl = NULL THEN NULL ELSE ReadFile(kmz, PathInKmz(ReadUrl))
  BY <1>4 DEF ReadContent
<1> HIDE DEF w, p, kmz
<1>8. u # NULL /\ (w \in AllUrls => w # NULL)
  BY <1>1, NullAssumption
<1>9. CASE PathInKmz(u) # << >>
  BY <1>1, <1>3, <1>4, <1>5, <1>6, <1>7, <1>8, <1>9 DEF kmz
<1>10. CASE PathInKmz(u) = << >> /\ p = NULL
  BY <1>1, <1>3, <1>4, <1>5, <1>6, <1>7, <1>8, <1>10 DEF kmz
<1>11. CASE PathInKmz(u) = << >> /\ p # NULL
  BY <1>1, <1>3, <1>4, <1>5, <1>6, <1>7, <1>8, <1>11 DEF kmz
<1> QED BY <1>9, <1>10, <1>11

(* What a served file holds is what the call must answer.                  *)
LEMMA AnswerOf ==
    ASSUME Searching, ~ Passes(call.url)
    PROVE  LET content == Serve(call.url)
           IN  Answer(call.kind, call.base, call.href) =
                 IF call.kind = "kml" /\ content # NULL THEN Parse(content) ELSE content
<1>1. Level(call.base, call.href) = call.url
  BY EndOfSearch DEF Last
<1> QED BY <1>1 DEF Answer, Searching

(* An absolute fetch of a url that serves something answers that.          *)
LEMMA AbsoluteAnswer ==
    ASSUME NEW u \in AllUrls, Serve(u) # NULL
    PROVE  Answer("kml", u, Absolute(u)) = Parse(Serve(u))
<1>1. \A b : Resolve(b, Absolute(u)) = u
  BY AbsoluteIsItself
<1>2. Beyond(u, Absolute(u)) = u
  BY <1>1 DEF Beyond
<1>3. Resolve(u, Absolute(u)) = u
  BY <1>1
<1>4. Level(u, Absolute(u)) = u
  BY <1>2, <1>3 DEF Level, Beside
<1>5. Absolute(u) # NULL
  BY AbsoluteIsItself, NullAssumption
<1> QED BY <1>4, <1>5 DEF Answer

-----------------------------------------------------------------------------
(* Actions.                                                                *)
LEMMA ParseIsDoc == ASSUME NEW content, Parse(content) # NULL PROVE Parse(content) \in Docs
BY DEF Parse

(* Deliver saves and answers what the site serves for the call.            *)
LEMMA DeliverAgrees ==
    ASSUME IInv, pc # "idle", NEW content, NEW url,
           content # NULL, content = Serve(call.url),
           call.kind = "kml" => url \in AllUrls /\ Serve(url) = content,
           Deliver(content, url),
           call'.kind = call.kind, call'.base = call.base, call'.href = call.href
    PROVE  pc' = "idle" /\ KmlsAgree' /\ Transparent'
<1> DEFINE answer == Answer(call.kind, call.base, call.href)
           kml_file == [url |-> url, doc |-> Parse(content)]
<1>1. Searching /\ ~ Passes(call.url)
  BY DEF IInv, Passes
<1>2. answer = IF call.kind = "kml" THEN Parse(content) ELSE content
  BY <1>1, AnswerOf
<1>3. pc' = "idle"
  BY DEF Deliver, Return
<1>4. KmlsAgree
  BY DEF IInv
<1>5. Answer(call.kind, call.base, call.href)' = answer
  OBVIOUS
<1>6. CASE call.kind = "data"
  <2>1. reply' = content /\ kml_file_cache' = kml_file_cache
    BY <1>6 DEF Deliver, Return
  <2>2. ReplyData' = content
    BY <1>6, <2>1 DEF ReplyData
  <2>3. KmlsAgree'
    BY <1>4, <2>1 DEF KmlsAgree
  <2> HIDE DEF answer
  <2>4. ReplyData' = answer
    BY <1>2, <1>6, <2>2
  <2> QED BY <1>3, <1>5, <2>3, <2>4 DEF Transparent
<1>7. CASE call.kind = "kml" /\ Parse(content) = NULL
  <2>1. reply' = NULL /\ kml_file_cache' = kml_file_cache
    BY <1>7 DEF Deliver, Return
  <2>2. ReplyData' = NULL
    BY <2>1 DEF ReplyData
  <2>3. KmlsAgree'
    BY <1>4, <2>1 DEF KmlsAgree
  <2> HIDE DEF answer
  <2>4. ReplyData' = answer
    BY <1>2, <1>7, <2>2
  <2> QED BY <1>3, <1>5, <2>3, <2>4 DEF Transparent
<1>8. CASE call.kind = "kml" /\ Parse(content) # NULL
  <2>1. reply' = kml_file /\ kml_file_cache' = Save(kml_file_cache, url, kml_file)
    BY <1>8 DEF Deliver, Return
  <2>2. url \in AllUrls /\ Serve(url) = content /\ Parse(content) \in Docs
    BY <1>8, ParseIsDoc
  <2>3. kml_file # NULL
    BY <2>2, NullAssumption DEF AllKmlFiles
  <2>4. ReplyData' = Parse(content)
    BY <1>8, <2>1, <2>3 DEF ReplyData
  <2>5. IsFileOf(kml_file, url)
    BY <2>2 DEF IsFileOf
  <2> HIDE DEF kml_file
  <2>6. KmlsAgree'
    <3>1. ASSUME NEW u \in Cached(kml_file_cache')
          PROVE  u \in AllUrls /\ IsFileOf(kml_file_cache'.map[u].item, u)
      <4>1. \/ u \in Cached(kml_file_cache)
               /\ kml_file_cache'.map[u].item = kml_file_cache.map[u].item
            \/ u = url /\ kml_file_cache'.map[u].item = kml_file
        BY <2>1, <3>1, SavedEntries
      <4> QED BY <1>4, <2>2, <2>5, <4>1 DEF KmlsAgree
    <3> QED BY <3>1 DEF KmlsAgree, Cached, IsFileOf, Serve, Parse, KmlData
  <2> HIDE DEF answer
  <2>7. ReplyData' = answer
    BY <1>2, <1>8, <2>4
  <2> QED BY <1>3, <1>5, <2>6, <2>7 DEF Transparent
<1>9. call.kind \in {"kml", "data"}
  BY <1>1 DEF Searching, AllCalls
<1> QED BY <1>6, <1>7, <1>8, <1>9

(* A Fetch of one of the caches leaves its entries what the site serves.   *)
LEMMA FetchAgrees ==
    ASSUME NEW c, NEW url, NEW archive, NEW r \in NetFetch(c, url, archive),
           \A u \in Cached(c) :
               u.path \in DOMAIN Site /\ c.map[u].item = CreateItem(archive, Site[u.path])
    PROVE  /\ \A u \in Cached(r.cache) :
                /\ u.path \in DOMAIN Site
                /\ r.cache.map[u].item = CreateItem(archive, Site[u.path])
           /\ r.item # NULL =>
                /\ url.path \in DOMAIN Site /\ r.item = CreateItem(archive, Site[url.path])
                /\ LookUp(r.cache, url) = r.item
           /\ r.item = NULL /\ ~ r.lost /\ url.path \in DOMAIN Site =>
                CreateItem(archive, Site[url.path]) = NULL
<1> DEFINE item == CreateItem(archive, Site[url.path])
<1>1. CASE LookUp(c, url) # NULL
  <2>1. r.cache = c /\ r.item = LookUp(c, url)
    BY <1>1 DEF NetFetch
  <2>2. url \in Cached(c) /\ LookUp(c, url) = c.map[url].item
    BY <1>1 DEF LookUp
  <2> QED BY <1>1, <2>1, <2>2
<1>2. CASE LookUp(c, url) = NULL /\ r = [cache |-> c, item |-> NULL,
                                         lost |-> url.path \in DOMAIN Site]
  BY <1>2
<1>3. CASE /\ LookUp(c, url) = NULL /\ url.path \in DOMAIN Site
           /\ r = [cache |-> Save(c, url, item), item |-> item, lost |-> FALSE]
  <2> HIDE DEF item
  <2>1. r.cache = Save(c, url, item) /\ r.item = item
    BY <1>3
  <2>2. LookUp(r.cache, url) = item
    BY <1>3, <2>1, SavedIsThere
  <2>3. ASSUME NEW u \in Cached(r.cache)
        PROVE  u.path \in DOMAIN Site
               /\ r.cache.map[u].item = CreateItem(archive, Site[u.path])
    <3>1. \/ u \in Cached(c) /\ r.cache.map[u].item = c.map[u].item
          \/ u = url /\ r.cache.map[u].item = item
      BY <2>1, <2>3, SavedEntries
    <3> QED BY <1>3, <3>1 DEF item
  <2> QED BY <1>3, <2>1, <2>2, <2>3 DEF item
<1> QED BY <1>1, <1>2, <1>3 DEF NetFetch

LEMMA InitInv == Init => IInv
BY DEF Init, IInv, FilesAgree, KmzsAgree, KmlsAgree, EmptyCache, Cached, Transparent, Replied

(* A call that begins and has to search.                                   *)
LEMMA BeginSearches ==
    ASSUME NEW kind \in {"kml", "data"}, NEW base \in Urls, NEW href \in Targets,
           Begin(kind, base, href), CreateRelative(base, href) # NULL
    PROVE  Searching'
<1>1. href # NULL
  BY DEF CreateRelative
<1>2. href \in AllHrefs /\ base \in AllUrls
  BY <1>1, TargetsAreHrefs, UrlAssumption
<1> DEFINE url == Resolve(base, href)
<1>3. url \in AllUrls /\ CreateRelative(base, href) = url
  BY <1>1, <1>2, ResolveIsUrl DEF CreateRelative
<1>4. call' = [kind |-> kind, base |-> base, href |-> href, url |-> url,
               fetched_url |-> url, out |-> kind = "kml", lost |-> FALSE]
  BY <1>3 DEF Begin
<1> HIDE DEF url
<1>5. call' \in AllCalls
  BY <1>3, <1>4 DEF AllCalls
<1>6. call'.url = url /\ call'.base = base /\ call'.href = href /\ call'.kind = kind
      /\ (call'.out <=> kind = "kml")
  BY <1>4
<1>7. Asked' = url
  BY <1>6 DEF Asked, url
<1> QED BY <1>1, <1>5, <1>6, <1>7 DEF Searching

(* A call that ends where it begins: nothing to resolve, or a cached file. *)
LEMMA FetchKmlInv ==
    ASSUME IInv, NEW base \in Urls, NEW href \in Targets, FetchKmlRelative(base, href)
    PROVE  IInv'
<1> DEFINE url == CreateRelative(base, href)
<1>1. Begin("kml", base, href)
      /\ UNCHANGED <<memory_file_cache, kmz_file_cache, kml_file_cache>>
  BY DEF FetchKmlRelative
<1>2. FilesAgree' /\ KmzsAgree' /\ KmlsAgree'
  <2>1. FilesAgree' /\ KmzsAgree'
    BY <1>1 DEF IInv, FilesAgree, KmzsAgree
  <2>2. KmlsAgree'
    BY <1>1 DEF IInv, KmlsAgree
  <2> QED BY <2>1, <2>2
<1>3. call'.kind = "kml" /\ call'.base = base /\ call'.href = href
  BY <1>1 DEF Begin
<1>4. CASE url = NULL /\ Return(NULL)
  <2>1. pc' = "idle" /\ reply' = NULL
    BY <1>4 DEF Return
  <2>2. href = NULL
    <3>1. href # NULL => Resolve(base, href) \in AllUrls
      BY TargetsAreHrefs, UrlAssumption, ResolveIsUrl
    <3> QED BY <1>4, <3>1, NullAssumption DEF CreateRelative
  <2>3. Answer(call'.kind, call'.base, call'.href) = NULL
    BY <1>3, <2>2 DEF Answer
  <2>4. ReplyData' = NULL
    BY <2>1 DEF ReplyData
  <2>5. Transparent'
    BY <2>3, <2>4 DEF Transparent
  <2> QED BY <1>2, <2>1, <2>5 DEF IInv
<1>5. CASE /\ url # NULL /\ LookUp(kml_file_cache, url) # NULL
           /\ Return(LookUp(kml_file_cache, url))
  <2> DEFINE kml_file == kml_file_cache.map[url].item
  <2>1. pc' = "idle" /\ reply' = kml_file /\ url \in Cached(kml_file_cache)
        /\ kml_file # NULL
    BY <1>5 DEF Return, LookUp
  <2>2. url \in AllUrls /\ IsFileOf(kml_file, url)
    BY <2>1 DEF IInv, KmlsAgree
  <2>3. href # NULL /\ url = Resolve(base, href)
    BY <1>5 DEF CreateRelative
  <2>4. ~ Passes(url)
    BY <2>2 DEF IsFileOf, Passes
  <2>5. Level(base, href) = url
    BY <2>3, <2>4 DEF Level, Beside, Beyond
  <2>6. Parse(Serve(url)) \in Docs
    BY <2>2 DEF IsFileOf
  <2>7. Answer("kml", base, href) = Parse(Serve(url))
    BY <2>2, <2>3, <2>5 DEF Answer, IsFileOf
  <2>8. ReplyData' = Parse(Serve(url))
    BY <1>3, <2>1, <2>2 DEF ReplyData, IsFileOf
  <2>9. Transparent'
    <3>1. Answer(call'.kind, call'.base, call'.href) = ReplyData'
      BY <1>3, <2>7, <2>8
    <3> QED BY <3>1 DEF Transparent
  <2> QED BY <1>2, <2>1, <2>9 DEF IInv
<1>6. CASE url # NULL /\ LookUp(kml_file_cache, url) = NULL /\ pc' = "fetch"
  <2>1. Searching'
    BY <1>1, <1>6, BeginSearches
  <2>2. Transparent'
    BY <1>6 DEF Transparent, Replied
  <2> QED BY <1>2, <1>6, <2>1, <2>2 DEF IInv
<1> QED BY <1>4, <1>5, <1>6 DEF FetchKmlRelative

LEMMA FetchDataInv ==
    ASSUME IInv, NEW base \in Urls, NEW href \in Targets, FetchDataRelative(base, href)
    PROVE  IInv'
<1>1. Begin("data", base, href)
      /\ UNCHANGED <<memory_file_cache, kmz_file_cache, kml_file_cache>>
  BY DEF FetchDataRelative
<1>2. FilesAgree' /\ KmzsAgree' /\ KmlsAgree'
  <2>1. FilesAgree' /\ KmzsAgree'
    BY <1>1 DEF IInv, FilesAgree, KmzsAgree
  <2>2. KmlsAgree'
    BY <1>1 DEF IInv, KmlsAgree
  <2> QED BY <2>1, <2>2
<1>3. call'.kind = "data" /\ call'.base = base /\ call'.href = href
  BY <1>1 DEF Begin
<1>4. CASE CreateRelative(base, href) = NULL /\ Return(NULL)
  <2>1. pc' = "idle" /\ reply' = NULL
    BY <1>4 DEF Return
  <2>2. href = NULL
    <3>1. href # NULL => Resolve(base, href) \in AllUrls
      BY TargetsAreHrefs, UrlAssumption, ResolveIsUrl
    <3> QED BY <1>4, <3>1, NullAssumption DEF CreateRelative
  <2>3. Answer(call'.kind, call'.base, call'.href) = NULL
    BY <1>3, <2>2 DEF Answer
  <2>4. ReplyData' = NULL
    BY <2>1 DEF ReplyData
  <2>5. Transparent'
    BY <2>3, <2>4 DEF Transparent
  <2> QED BY <1>2, <2>1, <2>5 DEF IInv
<1>5. CASE CreateRelative(base, href) # NULL /\ pc' = "fetch"
  <2>1. Searching'
    BY <1>1, <1>5, BeginSearches
  <2>2. Transparent'
    BY <1>5 DEF Transparent, Replied
  <2> QED BY <1>2, <1>5, <2>1, <2>2 DEF IInv
<1> QED BY <1>4, <1>5 DEF FetchDataRelative

(* The url of a served file is the one the call saves it under.            *)
LEMMA FetchRawInv == ASSUME IInv, FetchRaw PROVE IInv'
<1> DEFINE u == call.url
<1>1. pc = "fetch" /\ ~ IsKmz(u) /\ kmz_file_cache' = kmz_file_cache
  BY DEF FetchRaw
<1>2. Searching /\ u \in AllUrls /\ call \in AllCalls
  BY <1>1, SearchTypes DEF IInv, Searching
<1>3. PICK r \in NetFetch(memory_file_cache, u, FALSE) :
          /\ memory_file_cache' = r.cache
          /\ call' = [call EXCEPT !.lost = @ \/ r.lost]
          /\ IF r.item = NULL
               THEN Return(NULL) /\ UNCHANGED kml_file_cache
               ELSE Deliver(r.item, FetchedUrl(u))
  BY DEF FetchRaw
<1>4. \A x \in DOMAIN Site : CreateItem(FALSE, Site[x]) = Site[x] /\ Site[x] # NULL
  BY SiteAssumption DEF CreateItem
<1>5. \A v \in Cached(memory_file_cache) :
          v.path \in DOMAIN Site
          /\ memory_file_cache.map[v].item = CreateItem(FALSE, Site[v.path])
  BY <1>4 DEF IInv, FilesAgree
<1>6. /\ \A v \in Cached(r.cache) :
            v.path \in DOMAIN Site /\ r.cache.map[v].item = CreateItem(FALSE, Site[v.path])
      /\ r.item # NULL => u.path \in DOMAIN Site /\ r.item = CreateItem(FALSE, Site[u.path])
      /\ r.item = NULL /\ ~ r.lost /\ u.path \in DOMAIN Site =>
            CreateItem(FALSE, Site[u.path]) = NULL
  <2> DEFINE archive == FALSE
             c == memory_file_cache
  <2>1. /\ r \in NetFetch(c, u, archive)
        /\ \A v \in Cached(c) :
              v.path \in DOMAIN Site /\ c.map[v].item = CreateItem(archive, Site[v.path])
    BY <1>5
  <2> HIDE DEF archive, c
  <2>2. /\ \A v \in Cached(r.cache) :
              v.path \in DOMAIN Site /\ r.cache.map[v].item = CreateItem(archive, Site[v.path])
        /\ r.item # NULL =>
              /\ u.path \in DOMAIN Site /\ r.item = CreateItem(archive, Site[u.path])
              /\ LookUp(r.cache, u) = r.item
        /\ r.item = NULL /\ ~ r.lost /\ u.path \in DOMAIN Site =>
              CreateItem(archive, Site[u.path]) = NULL
    BY <2>1, FetchAgrees
  <2> QED BY <2>2 DEF archive
<1>7. FilesAgree'
  BY <1>3, <1>4, <1>6 DEF FilesAgree
<1>8. KmzsAgree'
  BY <1>1 DEF IInv, KmzsAgree
<1>9. /\ call'.kind = call.kind /\ call'.base = call.base /\ call'.href = call.href
      /\ call'.lost <=> (call.lost \/ r.lost)
  BY <1>2, <1>3 DEF AllCalls
<1>10. ~ Passes(u)
  BY <1>1 DEF Passes
<1>11. Serve(u) = IF u.path \in DOMAIN Site THEN Site[u.path] ELSE NULL
  BY <1>1 DEF Serve
<1>12. CASE r.item = NULL
  <2>1. pc' = "idle" /\ reply' = NULL /\ kml_file_cache' = kml_file_cache
    BY <1>3, <1>12 DEF Return
  <2>2. KmlsAgree'
    BY <2>1 DEF IInv, KmlsAgree
  <2>3. ReplyData' = NULL
    BY <2>1 DEF ReplyData
  <2>4. ASSUME r.lost PROVE Transparent'
    BY <1>9, <2>3, <2>4 DEF Transparent
  <2>5. ASSUME ~ r.lost PROVE Transparent'
    <3>1. Serve(u) = NULL
      BY <1>4, <1>6, <1>11, <1>12, <2>5
    <3>2. Answer(call.kind, call.base, call.href) = NULL
      BY <1>2, <1>10, <3>1, AnswerOf
    <3> QED BY <1>9, <2>3, <3>2 DEF Transparent
  <2>6. Transparent'
    BY <2>4, <2>5
  <2> QED BY <1>7, <1>8, <2>1, <2>2, <2>6 DEF IInv
<1>13. CASE r.item # NULL
  <2>1. r.item = Serve(u)
    BY <1>4, <1>6, <1>11, <1>13
  <2>2. call.kind = "kml" => FetchedUrl(u) = u
    BY <1>2, <1>10, <1>13, <2>1, SavedUnderItsUrl DEF FetchedUrl
  <2>3. Deliver(r.item, FetchedUrl(u))
    BY <1>3, <1>13
  <2>4. pc' = "idle" /\ KmlsAgree' /\ Transparent'
    BY <1>1, <1>2, <1>9, <1>13, <2>1, <2>2, <2>3, DeliverAgrees
  <2> QED BY <1>7, <1>8, <2>4 DEF IInv
<1> QED BY <1>12, <1>13

(* The archive that has been fetched is there to be read.                  *)
LEMMA FetchKmzInv == ASSUME IInv, FetchKmz PROVE IInv'
<1> DEFINE u == call.url
           k == KmzUrl(u)
<1>1. /\ pc = "fetch" /\ IsKmz(u)
      /\ memory_file_cache' = memory_file_cache /\ kml_file_cache' = kml_file_cache
  BY DEF FetchKmz
<1>2. Searching /\ u \in AllUrls /\ call \in AllCalls
  BY <1>1, SearchTypes DEF IInv, Searching
<1>3. PICK r \in NetFetch(kmz_file_cache, k, TRUE) :
          /\ kmz_file_cache' = r.cache
          /\ call' = [call EXCEPT !.lost = @ \/ r.lost]
          /\ IF r.item = NULL THEN Return(NULL) ELSE pc' = "read" /\ UNCHANGED reply
  BY DEF FetchKmz
<1>4. \A x : CreateItem(TRUE, x) = OpenKmz(x)
  BY DEF CreateItem
<1>5. /\ \A v \in Cached(r.cache) :
            v.path \in DOMAIN Site /\ r.cache.map[v].item = OpenKmz(Site[v.path])
      /\ r.item # NULL =>
            /\ k.path \in DOMAIN Site /\ r.item = OpenKmz(Site[k.path])
            /\ LookUp(r.cache, k) = r.item
      /\ r.item = NULL /\ ~ r.lost /\ k.path \in DOMAIN Site => OpenKmz(Site[k.path]) = NULL
  <2> DEFINE archive == TRUE
             c == kmz_file_cache
  <2>1. /\ r \in NetFetch(c, k, archive)
        /\ \A v \in Cached(c) :
              v.path \in DOMAIN Site /\ c.map[v].item = CreateItem(archive, Site[v.path])
    BY <1>4 DEF IInv, KmzsAgree
  <2> HIDE DEF archive, c, k
  <2>2. /\ \A v \in Cached(r.cache) :
              v.path \in DOMAIN Site /\ r.cache.map[v].item = CreateItem(archive, Site[v.path])
        /\ r.item # NULL =>
              /\ k.path \in DOMAIN Site /\ r.item = CreateItem(archive, Site[k.path])
              /\ LookUp(r.cache, k) = r.item
        /\ r.item = NULL /\ ~ r.lost /\ k.path \in DOMAIN Site =>
              CreateItem(archive, Site[k.path]) = NULL
    BY <2>1, FetchAgrees
  <2> QED BY <1>4, <2>2 DEF archive
<1>6. KmzsAgree' /\ FilesAgree' /\ KmlsAgree'
  <2>1. KmzsAgree'
    BY <1>3, <1>5 DEF KmzsAgree
  <2>2. FilesAgree'
    BY <1>1 DEF IInv, FilesAgree
  <2>3. KmlsAgree'
    BY <1>1 DEF IInv, KmlsAgree
  <2> QED BY <2>1, <2>2, <2>3
<1>7. /\ call'.kind = call.kind /\ call'.base = call.base /\ call'.href = call.href
      /\ call'.url = u /\ call'.fetched_url = call.fetched_url
      /\ call'.lost <=> (call.lost \/ r.lost)
  BY <1>2, <1>3 DEF AllCalls
<1>8. call' \in AllCalls /\ (call'.out <=> call.out)
  BY <1>2, <1>3 DEF AllCalls
<1>9. CASE r.item = NULL
  <2>1. pc' = "idle" /\ reply' = NULL
    BY <1>3, <1>9 DEF Return
  <2>2. ReplyData' = NULL
    BY <2>1 DEF ReplyData
  <2>3. ASSUME r.lost PROVE Transparent'
    BY <1>7, <2>2, <2>3 DEF Transparent
  <2>4. ASSUME ~ r.lost PROVE Transparent'
    <3>1. k.path \notin DOMAIN Site \/ ~ Site[k.path].zip
      <4>1. k.path \in DOMAIN Site => OpenKmz(Site[k.path]) = NULL
        BY <1>5, <1>9, <2>4
      <4>2. k.path \in DOMAIN Site => Site[k.path] # NULL
        BY SiteAssumption
      <4> QED BY <4>1, <4>2 DEF OpenKmz
    <3>2. Serve(u) = NULL
      BY <1>1, <3>1 DEF Serve
    <3>3. ~ Passes(u)
      BY <3>1 DEF Passes
    <3>4. Answer(call.kind, call.base, call.href) = NULL
      BY <1>2, <3>2, <3>3, AnswerOf
    <3> QED BY <1>7, <2>2, <3>4 DEF Transparent
  <2>5. Transparent'
    BY <2>3, <2>4
  <2> QED BY <1>6, <2>1, <2>5 DEF IInv
<1>10. CASE r.item # NULL
  <2>1. pc' = "read"
    BY <1>3, <1>10
  <2>2. Searching'
    BY <1>2, <1>7, <1>8 DEF Searching, Asked, Second, Third, Last
  <2>3. Archive' # NULL
    BY <1>3, <1>5, <1>7, <1>10 DEF Archive
  <2>4. IsKmz(call'.url)
    BY <1>1, <1>7
  <2>5. Transparent'
    BY <2>1 DEF Transparent, Replied
  <2> QED BY <1>6, <2>1, <2>2, <2>3, <2>4, <2>5 DEF IInv
<1> QED BY <1>9, <1>10

LEMMA ReadHitInv == ASSUME IInv, ReadHit PROVE IInv'
<1>1. /\ pc = "read" /\ call' = call /\ ReadContent # NULL
      /\ Deliver(ReadContent, FetchedUrl(ReadUrl))
      /\ memory_file_cache' = memory_file_cache /\ kmz_file_cache' = kmz_file_cache
  BY DEF ReadHit
<1>2. Searching
  BY <1>1 DEF IInv
<1>3. /\ call.url \in AllUrls /\ ReadContent = Serve(call.url)
      /\ ReadUrl \in AllUrls /\ Serve(ReadUrl) = ReadContent
  BY <1>1, ReadsTheSite
<1>4. ~ Passes(call.url)
  BY <1>1, <1>3 DEF Passes
<1>5. call.kind = "kml" =>
          FetchedUrl(ReadUrl) \in AllUrls /\ Serve(FetchedUrl(ReadUrl)) = ReadContent
  <2>1. ASSUME call.kind = "kml", call.out
        PROVE  FetchedUrl(ReadUrl) = ReadUrl
    BY <2>1 DEF FetchedUrl
  <2>2. ASSUME call.kind = "kml", ~ call.out
        PROVE  FetchedUrl(ReadUrl) = call.url
    BY <1>1, <1>2, <1>3, <1>4, <2>2, SavedUnderItsUrl DEF FetchedUrl
  <2> QED BY <1>3, <2>1, <2>2
<1>6. pc' = "idle" /\ KmlsAgree' /\ Transparent'
  BY <1>1, <1>3, <1>5, DeliverAgrees
<1>7. FilesAgree' /\ KmzsAgree'
  BY <1>1 DEF IInv, FilesAgree, KmzsAgree
<1> QED BY <1>6, <1>7 DEF IInv

(* The search goes one level on.                                           *)
LEMMA ReadMissInv == ASSUME IInv, ReadMiss PROVE IInv'
<1> DEFINE u == call.url
           href == call.href
<1>1. /\ pc = "read" /\ pc' = "fetch" /\ ReadContent = NULL
      /\ call' = [call EXCEPT !.url = NextUrl, !.fetched_url = FetchedUrl(NextUrl),
                              !.out = FALSE]
      /\ memory_file_cache' = memory_file_cache /\ kmz_file_cache' = kmz_file_cache
      /\ kml_file_cache' = kml_file_cache
  BY DEF ReadMiss
<1>2. Searching /\ call \in AllCalls /\ href # NULL
  BY <1>1 DEF IInv, Searching
<1>3. Passes(u)
  BY <1>1, ReadsTheSite DEF Passes
<1>4. NextUrl = Beyond(u, href) /\ NextUrl \in AllUrls
  BY <1>2, <1>3, SearchTypes, BeyondIsUrl DEF Beyond, NextUrl
<1>5. FetchedUrl(NextUrl) \in AllUrls
  BY <1>2, <1>4 DEF FetchedUrl, AllCalls
<1>6. /\ call'.kind = call.kind /\ call'.base = call.base /\ call'.href = href
      /\ call'.url = NextUrl /\ call'.fetched_url = FetchedUrl(NextUrl) /\ ~ call'.out
      /\ call'.lost = call.lost
  BY <1>1, <1>2 DEF AllCalls
<1>7. call' \in AllCalls
  <2> DEFINE a == NextUrl
             b == FetchedUrl(NextUrl)
  <2>1. call' = [call EXCEPT !.url = a, !.fetched_url = b, !.out = FALSE]
    BY <1>1
  <2>2. a \in AllUrls /\ b \in AllUrls
    BY <1>4, <1>5
  <2> HIDE DEF a, b
  <2> QED BY <1>2, <2>1, <2>2 DEF AllCalls
<1>8. Asked' = Asked /\ Second' = Second /\ Third' = Third /\ Last' = Last
  BY <1>6 DEF Asked, Second, Third, Last
<1>9. NextUrl \in {Second, Third, Last}
  BY <1>2, <1>4, SearchTypes DEF Searching
<1>10. call.kind = "kml" => FetchedUrl(NextUrl) = Second
  <2>1. ASSUME call.kind = "kml", call.out PROVE FetchedUrl(NextUrl) = Second
    <3>1. u = Asked
      BY <1>2, <2>1 DEF Searching
    <3>2. NextUrl = Second
      BY <1>2, <1>4, <3>1, SearchTypes
    <3> QED BY <2>1, <3>2 DEF FetchedUrl
  <2>2. ASSUME call.kind = "kml", ~ call.out PROVE FetchedUrl(NextUrl) = Second
    BY <1>2, <2>2 DEF FetchedUrl, Searching
  <2> QED BY <2>1, <2>2
<1>11. Searching'
  BY <1>2, <1>6, <1>7, <1>8, <1>9, <1>10 DEF Searching
<1>12. FilesAgree' /\ KmzsAgree' /\ KmlsAgree'
  <2>1. FilesAgree' /\ KmzsAgree'
    BY <1>1 DEF IInv, FilesAgree, KmzsAgree
  <2>2. KmlsAgree'
    BY <1>1 DEF IInv, KmlsAgree
  <2> QED BY <2>1, <2>2
<1>13. Transparent'
  BY <1>1 DEF Transparent, Replied
<1> QED BY <1>1, <1>11, <1>12, <1>13 DEF IInv

LEMMA NextInv == ASSUME IInv, [Next]_vars PROVE IInv'
<1>1. ASSUME NEW url \in Urls, FetchKmlAbsolute(url) PROVE IInv'
  <2>1. Absolute(url) \in Targets
    BY DEF Targets
  <2> QED BY <1>1, <2>1, FetchKmlInv DEF FetchKmlAbsolute
<1>2. ASSUME NEW base \in Urls, NEW href \in Hrefs, FetchKmlRelative(base, href) PROVE IInv'
  BY <1>2, FetchKmlInv DEF Targets
<1>3. ASSUME NEW base \in Urls, NEW href \in Hrefs, FetchDataRelative(base, href) PROVE IInv'
  BY <1>3, FetchDataInv DEF Targets
<1>4. CASE Step
  BY <1>4, FetchRawInv, FetchKmzInv, ReadHitInv, ReadMissInv DEF Step
<1>5. CASE UNCHANGED vars
  <2>1. /\ memory_file_cache' = memory_file_cache /\ kmz_file_cache' = kmz_file_cache
        /\ kml_file_cache' = kml_file_cache /\ pc' = pc /\ call' = call /\ reply' = reply
    BY <1>5 DEF vars
  <2>2. FilesAgree' /\ KmzsAgree'
    BY <2>1 DEF IInv, FilesAgree, KmzsAgree
  <2>3. KmlsAgree'
    BY <2>1 DEF IInv, KmlsAgree
  <2>4. Searching' = Searching
    BY <2>1 DEF Searching, Asked, Second, Third, Last
  <2>5. Archive' = Archive
    BY <2>1 DEF Archive
  <2>6. Transparent'
    BY <2>1 DEF IInv, Transparent, Replied, ReplyData
  <2> QED BY <2>1, <2>2, <2>3, <2>4, <2>5, <2>6 DEF IInv
<1> QED BY <1>1, <1>2, <1>3, <1>4, <1>5 DEF Next

-----------------------------------------------------------------------------
(* Between two steps of a call every entry of the three caches is what the *)
(* site serves, and the search is at a level its target leads to.          *)
THEOREM CacheInv == Spec => []IInv
BY InitInv, NextInv, PTL DEF Spec

(* Caching is transparent: see Transparent.  KmlCache::FetchKmlRelative,   *)
(* FetchKmlAbsolute and FetchDataRelative, whatever was evicted, is held   *)
(* as null or failed before.                                               *)
THEOREM CachingIsTransparent == Spec => []Transparent
<1>1. IInv => Transparent
  BY DEF IInv
<1> QED BY <1>1, CacheInv, PTL

(* No entry of kml_file_cache_ is poisoned: see CachedFilesAgree.          *)
THEOREM NoEntryIsPoisoned == Spec => []CachedFilesAgree
<1>1. IInv => CachedFilesAgree
  <2> SUFFICES ASSUME IInv, NEW u \in Cached(kml_file_cache)
               PROVE  LET kml_file == kml_file_cache.map[u].item
                      IN  /\ kml_file.url = u
                          /\ kml_file.doc = Answer("kml", u, Absolute(u))
    BY DEF CachedFilesAgree
  <2>1. u \in AllUrls /\ IsFileOf(kml_file_cache.map[u].item, u)
    BY DEF IInv, KmlsAgree
  <2>2. Answer("kml", u, Absolute(u)) = Parse(Serve(u))
    BY <2>1, AbsoluteAnswer DEF IsFileOf
  <2> QED BY <2>1, <2>2 DEF IsFileOf
<1> QED BY <1>1, CacheInv, PTL

(* Between DoFetch of an archive and FetchFromCache nothing evicts it: see *)
(* KmzStaysForRead.                                                        *)
THEOREM KmzIsThereToRead == Spec => []KmzStaysForRead
<1>1. IInv => KmzStaysForRead
  BY DEF IInv, KmzStaysForRead, Archive
<1> QED BY <1>1, CacheInv, PTL

=============================================================================
