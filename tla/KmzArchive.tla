------------------------------ MODULE KmzArchive ------------------------------
(***************************************************************************)
(* Writing and reading KMZ archives (src/src/kml/engine/kmz_file.cc over   *)
(* base/zip_file.cc): a client makes an archive from a KML document and    *)
(* the local files it links to, or file by file, and opens what is on the  *)
(* disk, finished or not.  KmzCheckLinks (convenience) is the client that  *)
(* asks whether all that a KML file links to is in its archive.            *)
(*                                                                         *)
(* An href is a scheme, or none, a path from the base or from the root,    *)
(* and a fragment.  A path is a sequence of segments, ".." among them.     *)
(***************************************************************************)
EXTENDS Naturals, Sequences, FiniteSets, SequencesExt

CONSTANTS
    Docs,        \* KML documents
    Unparsed,    \* those that do not parse, as one nested too deeply
    Links,       \* their hrefs, as GetLinks returns them: none if unparsed
    Local,       \* the files at and below the base url: data by path
    Added,       \* what a client adds itself: data, rooted and path
    SizeOf,      \* the size of each data, documents included
    MaxSizes,    \* uncompressed file sizes a client may allow,
    MaxUncompressed, \* and the default
    KmlNames,    \* the file names that end with .kml
    Archives,    \* names of archives
    NULL,
    MaxEntries   \* a bound: the entries of one archive

(* An href has a scheme or not, and its path is from the root or not.      *)
LinksAssumption ==
  \A doc \in Docs :
    /\ doc \in Unparsed => Links[doc] = << >>
    /\ Links[doc] \in Seq(Range(Links[doc]))
    /\ \A h \in Range(Links[doc]) : h.scheme \in BOOLEAN /\ h.rooted \in BOOLEAN
ASSUME LinksAssumption

(* A path that leaves its base.                                            *)
GoesUp(path) == path # << >> /\ path[1] = ".."

(* What is at the base, a directory, or below it, is not above it.         *)
LocalAssumption == \A p \in DOMAIN Local : ~ GoesUp(p)
ASSUME LocalAssumption

(* Sizes are unsigned integers.                                            *)
SizeAssumption ==
  /\ MaxUncompressed \in Nat /\ MaxSizes \subseteq Nat
  /\ \A d \in Docs \cup Range(Local) : SizeOf[d] \in Nat
ASSUME SizeAssumption

(* doc.kml ends with .kml, and what is in a file is never NULL.            *)
NameAssumption == "doc.kml" \in KmlNames /\ NULL \notin Range(Local)
ASSUME NameAssumption

VARIABLES
    disk,    \* what is in the files of those names: entries, if finished
    writer,  \* the KmzFile from Create, or NULL
    todo,    \* the file_paths that AddFileList has not come to
    stored,  \* its stored_hrefs
    errors,  \* its error_count
    reader,  \* the KmzFile from OpenFromFile, or NULL
    made     \* the document each archive was made from, or NULL

vars == <<disk, writer, todo, stored, errors, reader, made>>

Unfinished == "unfinished"
DocKml     == <<"doc.kml">>     \* kDefaultKmlFilename
IsKml(path) == path # << >> /\ Last(path) \in KmlNames

HasPath(h)        == h.path # << >>
IsRelative(h)     == ~ h.scheme
IsRelativePath(h) == ~ h.scheme /\ HasPath(h)

(* NormalizeHref resolves ".." where it can.  Above the root is the root.  *)
Normalize(h) ==
  FoldLeft(LAMBDA done, s : CASE s # ".." -> Append(done, s)
                              [] s = ".." /\ done # << >> /\ Last(done) # ".." -> Front(done)
                              [] OTHER -> IF h.rooted THEN done ELSE Append(done, s),
           << >>, h.path)

Above(h) == ~ h.rooted /\ GoesUp(Normalize(h))

----------------------------------------------------------------------------
(* ZipFile.  A path is written as it is, also one that is there already    *)
(* and one that is empty.                                                  *)
MayAddEntry(rooted, path) == ~ rooted /\ ~ GoesUp(path)

Entry(path, data) == [path |-> path, data |-> data]

AddEntry(data, path) ==
  writer' = [writer EXCEPT !.entries = Append(@, Entry(path, data))]

Toc(kmz) == {kmz.entries[k].path : k \in DOMAIN kmz.entries}

(* GetEntry: minizip locates the first one.  What is empty or too large is *)
(* not read.                                                               *)
GetEntry(kmz, path) ==
  IF path \notin Toc(kmz) THEN NULL
  ELSE LET data == SelectInSeq(kmz.entries, LAMBDA e : e.path = path) IN
       LET d == kmz.entries[data].data IN
       IF SizeOf[d] = 0 \/ SizeOf[d] > kmz.max THEN NULL ELSE d

(* ReadKml: the first .kml of the table of contents.                       *)
SlipReadKml(kmz) ==
  LET k == SelectLastInSeq(kmz.entries, LAMBDA e : IsKml(e.path)) IN
  IF k = 0 THEN NULL ELSE GetEntry(kmz, kmz.entries[k].path)
ReadKml(kmz) ==
  LET k == SelectInSeq(kmz.entries, LAMBDA e : IsKml(e.path)) IN
  IF k = 0 THEN NULL ELSE GetEntry(kmz, kmz.entries[k].path)

----------------------------------------------------------------------------
Init ==
  /\ disk = [n \in {} |-> NULL] /\ made = [n \in {} |-> NULL]
  /\ writer = NULL /\ reader = NULL
  /\ todo = << >> /\ stored = {} /\ errors = 0

Put(f, n, x) == [m \in DOMAIN f \cup {n} |-> IF m = n THEN x ELSE f[m]]

Idle == writer # NULL => ~ writer.whole /\ todo = << >>

(* zipOpen truncates the file, zipClose writes the directory at its end.   *)
Create(n, entries, whole, doc) ==
  /\ writer = NULL
  /\ writer' = [name |-> n, entries |-> entries, whole |-> whole]
  /\ disk' = Put(disk, n, Unfinished)
  /\ made' = Put(made, n, doc)

ClientCreates(n) ==
  /\ Create(n, << >>, FALSE, NULL)
  /\ UNCHANGED <<todo, stored, errors, reader>>

AddFile(data, rooted, path) ==
  /\ writer # NULL /\ Idle /\ Len(writer.entries) < MaxEntries
  /\ IF MayAddEntry(rooted, path) THEN AddEntry(data, path) ELSE UNCHANGED writer
  /\ UNCHANGED <<disk, made, todo, stored, errors, reader>>

(* GetRelativeLinks appends them one by one, in their order.               *)
RelativeLinks(doc) ==
  LET all == Links[doc]
      found[k \in 0..Len(all)] ==
        IF k = 0 THEN << >>
        ELSE IF IsRelativePath(all[k]) THEN Append(found[k - 1], all[k]) ELSE found[k - 1]
  IN found[Len(all)]

AddFileList(doc) ==
  /\ writer # NULL /\ Idle /\ Len(writer.entries) < MaxEntries
  /\ todo' = RelativeLinks(doc) /\ stored' = {} /\ errors' = 0
  /\ UNCHANGED <<disk, made, writer, reader>>

(* One turn of its loop.  A file that cannot be read is not tried again.   *)
SlipRemembered(added, p) == IF added THEN stored \cup {p} ELSE stored
Remembered(added, p) == stored \cup {p}

AddNext ==
  /\ writer # NULL /\ todo # << >>
  /\ LET h == Head(todo)
         p == Normalize(h)
         added == p \in DOMAIN Local /\ MayAddEntry(h.rooted, p) IN
     \/ /\ Above(h)
        /\ errors' = errors + 1
        /\ UNCHANGED <<writer, stored>>
     \/ /\ ~ Above(h) /\ <<h.rooted, p>> \in stored
        /\ UNCHANGED <<writer, stored, errors>>
     \/ /\ ~ Above(h) /\ <<h.rooted, p>> \notin stored
        /\ stored' = Remembered(added, <<h.rooted, p>>)
        /\ IF added THEN AddEntry(Local[p], p) /\ UNCHANGED errors
           ELSE errors' = errors + 1 /\ UNCHANGED writer
  /\ todo' = Tail(todo)
  /\ UNCHANGED <<disk, made, reader>>

(* CreateFromElement, and CreateFromKmlFile that calls it: the document,   *)
(* then the files, then the destructor.  Without links, as GetRelativeLinks*)
(* finds none in what does not parse, there is no AddFileList.             *)
CreateFromElement(doc, n) ==
  /\ Create(n, <<Entry(DocKml, doc)>>, TRUE, doc)
  /\ todo' = RelativeLinks(doc) /\ stored' = {} /\ errors' = 0
  /\ UNCHANGED reader

(* CreateFromKmlFilepath of a file that can be read.  (One that cannot     *)
(* changes nothing.)  Without a KmlFile its get_root ends the process, and *)
(* with it what the client has open.                                       *)
CreateFromKmlFilepath(doc, n) ==
  \/ /\ doc \notin Unparsed
     /\ CreateFromElement(doc, n)
  \/ /\ doc \in Unparsed /\ Idle
     /\ writer' = NULL /\ reader' = NULL
     /\ todo' = << >> /\ stored' = {} /\ errors' = 0
     /\ UNCHANGED <<disk, made>>

WriteKmz(doc, n) ==
  /\ writer = NULL
  /\ disk' = Put(disk, n, <<Entry(DocKml, doc)>>)
  /\ made' = Put(made, n, NULL)
  /\ UNCHANGED <<writer, todo, stored, errors, reader>>

Close ==
  /\ writer # NULL /\ todo = << >>
  /\ disk' = Put(disk, writer.name, writer.entries)
  /\ writer' = NULL
  /\ UNCHANGED <<made, todo, stored, errors, reader>>

KmzFile(entries, doc) == [entries |-> entries, max |-> MaxUncompressed, made |-> doc]

(* OpenFromFile reads all of the file.  What is not a zip file, as an      *)
(* archive without entries is not, does not open; one without a directory  *)
(* opens, if the first entry has reached the disk, as one with no entries. *)
OpenFromFile(n) ==
  /\ n \in DOMAIN disk
  /\ \/ /\ disk[n] = Unfinished
        /\ reader' \in {NULL, KmzFile(<< >>, NULL)}
     \/ /\ disk[n] # Unfinished
        /\ reader' = IF disk[n] = << >> THEN NULL ELSE KmzFile(disk[n], made[n])
  /\ UNCHANGED <<disk, made, writer, todo, stored, errors>>

SetMaxUncompressedFileSize(max) ==
  /\ reader # NULL /\ reader' = [reader EXCEPT !.max = max]
  /\ UNCHANGED <<disk, made, writer, todo, stored, errors>>

Next ==
  \/ \E n \in Archives :
       \/ ClientCreates(n) \/ OpenFromFile(n)
       \/ \E doc \in Docs :
            CreateFromElement(doc, n) \/ CreateFromKmlFilepath(doc, n) \/ WriteKmz(doc, n)
  \/ \E doc \in Docs : AddFileList(doc)
  \/ \E h \in Added : AddFile(h.data, h.rooted, h.path)
  \/ AddNext \/ Close
  \/ \E max \in MaxSizes : SetMaxUncompressedFileSize(max)

Spec == Init /\ [][Next]_vars

----------------------------------------------------------------------------
(* KmzCheckLinks of an archive with that KML file: the links it misses.    *)
MissingLinks(kmz, doc) ==
  {h \in Range(Links[doc]) : IsRelative(h) /\ (h.rooted \/ GetEntry(kmz, h.path) = NULL)}

(* What CreateFromElement promises (kmz_file.h): the archive can stand for *)
(* the document and its files, and one that is open does, whatever becomes *)
(* of the file.  The document is what is read first; a link is found under *)
(* the path it has there, with what was in the file, unless that is empty  *)
(* or too large; nothing else is in the archive, nor anything twice.  A    *)
(* link to a local doc.kml gets the document.                              *)
SelfContained ==
  reader # NULL /\ reader.made # NULL =>
    LET doc   == reader.made
        toc   == [k \in DOMAIN reader.entries |-> reader.entries[k].path]
        Fits(d) == SizeOf[d] \in 1..reader.max
        links == {Normalize(h) : h \in {g \in Range(RelativeLinks(doc)) : ~ g.rooted}} IN
    /\ ReadKml(reader) = IF Fits(doc) THEN doc ELSE NULL
    /\ \A p \in (links \cap DOMAIN Local) \ {DocKml} :
         GetEntry(reader, p) = IF Fits(Local[p]) THEN Local[p] ELSE NULL
    /\ \A k \in DOMAIN toc \ {1} :
         /\ (toc[k] \in links \cap DOMAIN Local) /\ reader.entries[k].data = Local[toc[k]]
         /\ \A l \in DOMAIN toc \ {1, k} : toc[l] # toc[k]

(* The errors AddFileList counts are the files that are not there: those   *)
(* above the base for each of their links, the others once.  KmzCheckLinks *)
(* finds a link missing just if there was an error, for links that need no *)
(* normalization, to files that are neither empty nor too large to be read.*)
Plain(h) ==
  IsRelative(h) =>
    /\ Normalize(h) = h.path /\ HasPath(h) /\ h.path # DocKml
    /\ (h.path \in DOMAIN Local => SizeOf[Local[h.path]] \in 1..MaxUncompressed)

MissingAreCounted ==
  writer # NULL /\ writer.whole /\ todo = << >> =>
    LET doc   == made[writer.name]
        kmz   == [entries |-> writer.entries, max |-> MaxUncompressed]
        links == RelativeLinks(doc)
        above == {k \in DOMAIN links : Above(links[k])}
        lost  == {<<links[k].rooted, Normalize(links[k])>> : k \in DOMAIN links \ above}
                    \ {<<FALSE, e.path>> : e \in Range(Tail(writer.entries))} IN
    /\ errors = Cardinality(above) + Cardinality(lost)
    /\ (\A h \in Range(Links[doc]) : Plain(h)) =>
          (MissingLinks(kmz, doc) = {} <=> errors = 0)
=============================================================================
