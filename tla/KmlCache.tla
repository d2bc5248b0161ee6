------------------------------- MODULE KmlCache -------------------------------
(***************************************************************************)
(* kmlengine::KmlCache: FetchKmlRelative, FetchKmlAbsolute and             *)
(* FetchDataRelative over three NetCaches (parsed files, KMZ archives, raw *)
(* files), with the KMZ-aware search of KmzCache::DoFetchAndReturnUrl and  *)
(* the URL arithmetic of KmlUri.  The calls of one client are sequential;  *)
(* each passes through the levels of the tail-recursive DoFetch, and every *)
(* FetchUrl may fail.                                                      *)
(***************************************************************************)
EXTENDS NetCacheOps, Sequences

CONSTANTS
    Segments,   \* what stands between the slashes of a path
    Frags,      \* what may follow its "#"
    KmzNames,   \* path segments that contain ".kmz"
    KmlNames,   \* path segments that end with ".kml"
    Docs,       \* data that parses as KML
    Site,       \* what the network serves: path -> content
    Urls,       \* the absolute URLs clients start from
    Hrefs,      \* the targets clients resolve against them
    NoFrag,     \* no "#" in the URL
    MaxCalls    \* bound on the number of calls

ASSUME CallsAssumption == MaxCalls \in Nat

(***************************************************************************)
(* A URL is [path, frag]: the path as a sequence of segments.  An href is  *)
(* [abs, up, path, frag]: absolute or relative, up counts the leading      *)
(* "..", or it is NULL, a string the uri parser rejects.  Content is       *)
(* [zip, data, toc]: raw data, or an archive whose toc is a sequence of    *)
(* [path, content] with content NULL for an entry minizip cannot read.     *)
(***************************************************************************)
AllUrls == [path : Seq(Segments), frag : Frags]
AllHrefs == [abs : BOOLEAN, up : Nat, path : Seq(Segments), frag : Frags]
AllKmlFiles == [url : AllUrls, doc : Docs]

ASSUME UrlAssumption ==
    NoFrag \in Frags /\ Urls \subseteq AllUrls /\ Hrefs \subseteq AllHrefs \cup {NULL}

ASSUME SiteAssumption ==
    \A path \in DOMAIN Site :
        /\ Site[path] # NULL
        /\ Site[path].toc \in Seq(Range(Site[path].toc))
        /\ \A entry \in Range(Site[path].toc) : entry.path \in Seq(Segments)

ASSUME NullAssumption ==
    /\ NULL \notin Docs /\ NULL \notin AllUrls
    /\ NULL \notin AllHrefs /\ NULL \notin AllKmlFiles

VARIABLES
    memory_file_cache, kmz_file_cache, kml_file_cache,
    pc,        \* "idle", "fetch": DoFetchAndReturnUrl is entered, "read": its
               \* KMZ has been fetched and FetchFromCache comes next
    call,      \* the arguments and locals of the call, the last one's when idle
    reply,     \* what the last call returned
    calls      \* how many calls there have been

vars == <<memory_file_cache, kmz_file_cache, kml_file_cache, pc, call, reply, calls>>

-----------------------------------------------------------------------------
(* KmlUri *)

Dir(path, up) ==
    LET n == Len(path) - 1 - up IN SubSeq(path, 1, IF n < 0 THEN 0 ELSE n)

Resolve(base, href) ==
    [path |-> IF href.abs THEN href.path
              ELSE IF href.path = <<>> THEN base.path
              ELSE Dir(base.path, href.up) \o href.path,
     frag |-> href.frag]

CreateRelative(base, href) == IF href = NULL THEN NULL ELSE Resolve(base, href)

IsKmz(url) == \E i \in DOMAIN url.path : url.path[i] \in KmzNames

(* KmzSplit cuts after the first ".kmz". *)
KmzEnd(url) ==
    CHOOSE i \in DOMAIN url.path :
        /\ url.path[i] \in KmzNames
        /\ \A j \in 1..(i - 1) : url.path[j] \notin KmzNames

KmzUrl(url) == [path |-> SubSeq(url.path, 1, KmzEnd(url)), frag |-> NoFrag]

PathInKmz(url) == SubSeq(url.path, KmzEnd(url) + 1, Len(url.path))

SetPathInKmz(url, path) == [path |-> KmzUrl(url).path \o path, frag |-> NoFrag]

-----------------------------------------------------------------------------
(* KmzFile over ZipFile *)

FirstEntry(toc, paths) ==
    LET Matches(i) == toc[i].path \in paths
    IN  IF \E i \in DOMAIN toc : Matches(i)
          THEN toc[CHOOSE i \in DOMAIN toc :
                     Matches(i) /\ \A j \in 1..(i - 1) : ~ Matches(j)]
          ELSE NULL

ReadFile(kmz, path) ==
    LET e == FirstEntry(kmz.toc, {path}) IN IF e = NULL THEN NULL ELSE e.content

(* The path ReadKmlAndGetPath finds: the first entry whose name ends in .kml *)
KmlPath(kmz) ==
    LET kml == {p \in {kmz.toc[i].path : i \in DOMAIN kmz.toc} : p[Len(p)] \in KmlNames}
        e   == FirstEntry(kmz.toc, kml)
    IN  IF e = NULL THEN NULL ELSE e.path

(* KmzFile::CreateFromString *)
OpenKmz(content) == IF content.zip THEN content ELSE NULL

(* KmlFile::CreateFromString: archives are opened, data that is not KML is *)
(* rejected.                                                               *)
KmlData(content) ==
    IF ~ content.zip THEN content
    ELSE LET p == KmlPath(content) IN IF p = NULL THEN NULL ELSE ReadFile(content, p)

Parse(content) ==
    LET kml == KmlData(content)
    IN  IF kml # NULL /\ ~ kml.zip /\ kml.data \in Docs THEN kml.data ELSE NULL

-----------------------------------------------------------------------------
(* NetCache::Fetch over the flaky site: the possible outcomes, lost says   *)
(* that FetchUrl failed although the site serves the path.  CreateItem is  *)
(* the CreateFromString of MemoryFile or of KmzFile.                       *)
CreateItem(archive, content) == IF archive THEN OpenKmz(content) ELSE content

NetFetch(c, url, archive) ==
    LET served == url.path \in DOMAIN Site
        item   == CreateItem(archive, Site[url.path])
    IN  IF LookUp(c, url) # NULL
          THEN {[cache |-> c, item |-> LookUp(c, url), lost |-> FALSE]}
          ELSE {[cache |-> c, item |-> NULL, lost |-> served]} \cup
               (IF served THEN {[cache |-> Save(c, url, item), item |-> item, lost |-> FALSE]}
                          ELSE {})

-----------------------------------------------------------------------------
Init ==
    /\ memory_file_cache = EmptyCache
    /\ kmz_file_cache = EmptyCache
    /\ kml_file_cache = EmptyCache
    /\ pc = "idle"
    /\ call = NULL
    /\ reply = NULL
    /\ calls = 0

Return(value) == pc' = "idle" /\ reply' = value

(* Enter DoFetchAndReturnUrl; FetchKmlRelative passes &url, FetchData NULL. *)
Begin(kind, base, href) ==
    /\ pc = "idle" /\ calls < MaxCalls
    /\ calls' = calls + 1
    /\ call' = [kind |-> kind, base |-> base, href |-> href,
                url |-> CreateRelative(base, href),
                fetched_url |-> CreateRelative(base, href),
                out |-> kind = "kml", lost |-> FALSE]

FetchKmlRelative(base, href) ==
    LET url == CreateRelative(base, href) IN
    /\ Begin("kml", base, href)
    /\ \/ url = NULL /\ Return(NULL)
       \/ /\ url # NULL /\ LookUp(kml_file_cache, url) # NULL
          /\ Return(LookUp(kml_file_cache, url))
       \/ /\ url # NULL /\ LookUp(kml_file_cache, url) = NULL
          /\ pc' = "fetch" /\ reply' = NULL
    /\ UNCHANGED <<memory_file_cache, kmz_file_cache, kml_file_cache>>

Absolute(url) == [abs |-> TRUE, up |-> 0, path |-> url.path, frag |-> url.frag]

FetchKmlAbsolute(url) == FetchKmlRelative(url, Absolute(url))

FetchDataRelative(base, href) ==
    /\ Begin("data", base, href)
    /\ \/ CreateRelative(base, href) = NULL /\ Return(NULL)
       \/ CreateRelative(base, href) # NULL /\ pc' = "fetch" /\ reply' = NULL
    /\ UNCHANGED <<memory_file_cache, kmz_file_cache, kml_file_cache>>

(* The content is there: parse it, save it under the fetched url, return.  *)
Deliver(content, url) ==
    \/ /\ call.kind = "data"
       /\ Return(content)
       /\ UNCHANGED kml_file_cache
    \/ /\ call.kind = "kml" /\ Parse(content) = NULL
       /\ Return(NULL)
       /\ UNCHANGED kml_file_cache
    \/ /\ call.kind = "kml" /\ Parse(content) # NULL
       /\ LET kml_file == [url |-> url, doc |-> Parse(content)]
          IN  /\ kml_file_cache' = Save(kml_file_cache, url, kml_file)
              /\ Return(kml_file)

(* Slip: the fetched url stays the one asked for. *)
SlipAskedUrl(url) == call.fetched_url

FetchedUrl(url) == IF call.out THEN url ELSE call.fetched_url

(* Case 1 of DoFetchAndReturnUrl: not a KMZ reference. *)
FetchRaw ==
    /\ pc = "fetch" /\ ~ IsKmz(call.url)
    /\ \E r \in NetFetch(memory_file_cache, call.url, FALSE) :
          /\ memory_file_cache' = r.cache
          /\ call' = [call EXCEPT !.lost = @ \/ r.lost]
          /\ IF r.item = NULL
               THEN Return(NULL) /\ UNCHANGED kml_file_cache
               ELSE Deliver(r.item, FetchedUrl(call.url))
    /\ UNCHANGED <<kmz_file_cache, calls>>

(* Case 2: get the archive into the cache. *)
FetchKmz ==
    /\ pc = "fetch" /\ IsKmz(call.url)
    /\ \E r \in NetFetch(kmz_file_cache, KmzUrl(call.url), TRUE) :
          /\ kmz_file_cache' = r.cache
          /\ call' = [call EXCEPT !.lost = @ \/ r.lost]
          /\ IF r.item = NULL THEN Return(NULL) ELSE pc' = "read" /\ UNCHANGED reply
    /\ UNCHANGED <<memory_file_cache, kml_file_cache, calls>>

(* FetchFromCache: where it looks, and what it finds there.  Slip: the     *)
(* default file is preferred to the path.                                  *)
Archive == LookUp(kmz_file_cache, KmzUrl(call.url))

SlipDefaultFirst ==
    IF Archive = NULL THEN NULL
    ELSE IF KmlPath(Archive) # NULL THEN SetPathInKmz(call.url, KmlPath(Archive))
    ELSE IF PathInKmz(call.url) # <<>> THEN call.url
    ELSE NULL

ReadUrl ==
    IF Archive = NULL THEN NULL
    ELSE IF PathInKmz(call.url) # <<>> THEN call.url
    ELSE IF KmlPath(Archive) = NULL THEN NULL
    ELSE SetPathInKmz(call.url, KmlPath(Archive))

ReadContent ==
    IF ReadUrl = NULL THEN NULL
    ELSE ReadFile(Archive, PathInKmz(ReadUrl))

ReadHit ==
    /\ pc = "read"
    /\ \E content \in {ReadContent} \ {NULL}, url \in {FetchedUrl(ReadUrl)} :
          Deliver(content, url)
    /\ UNCHANGED <<memory_file_cache, kmz_file_cache, call, calls>>

(* Case 3: resolve the target against the archive's own url and recurse,   *)
(* with no place to store the fetched url.  Slip: resolve it against the   *)
(* url inside the archive again.                                           *)
SlipNextUrl == Resolve(call.url, call.href)

NextUrl == Resolve(KmzUrl(call.url), call.href)

ReadMiss ==
    /\ pc = "read" /\ ReadContent = NULL
    /\ call' = [call EXCEPT !.url = NextUrl, !.fetched_url = FetchedUrl(NextUrl),
                            !.out = FALSE]
    /\ pc' = "fetch"
    /\ UNCHANGED <<memory_file_cache, kmz_file_cache, kml_file_cache, reply, calls>>

Step == FetchRaw \/ FetchKmz \/ ReadHit \/ ReadMiss

Next ==
    \/ \E url \in Urls : FetchKmlAbsolute(url)
    \/ \E base \in Urls, href \in Hrefs : FetchKmlRelative(base, href)
    \/ \E base \in Urls, href \in Hrefs : FetchDataRelative(base, href)
    \/ Step

Spec == Init /\ [][Next]_vars

(* A call, once made, runs: there is one thread and FetchUrl returns. *)
FairSpec == Spec /\ WF_vars(Step)

-----------------------------------------------------------------------------
(* What a call must answer, from the site alone: the search passes a level *)
(* whose archive is served but lacks the file, and ends at the next one.   *)
Serve(url) ==
    LET path == IF IsKmz(url) THEN KmzUrl(url).path ELSE url.path IN
    IF path \notin DOMAIN Site THEN NULL
    ELSE IF ~ IsKmz(url) THEN Site[path]
    ELSE IF ~ Site[path].zip THEN NULL
    ELSE IF PathInKmz(url) # <<>> THEN ReadFile(Site[path], PathInKmz(url))
    ELSE KmlData(Site[path])

Passes(url) ==
    /\ IsKmz(url)
    /\ KmzUrl(url).path \in DOMAIN Site /\ Site[KmzUrl(url).path].zip
    /\ Serve(url) = NULL

Beyond(url, href) == IF Passes(url) THEN Resolve(KmzUrl(url), href) ELSE url

(* The url asked for, the one beside its archive, and two more. *)
Beside(base, href) == Beyond(Resolve(base, href), href)
Level(base, href) == Beyond(Beyond(Beside(base, href), href), href)

(* By then the search has ended or goes round, and if the file was not in  *)
(* the archive beside either, it was found nowhere.  An href without a     *)
(* directory before its ".kmz" goes round at once.  One that climbs or     *)
(* descends to it, "d/b.kmz/x", may go on to d/d/b.kmz/x: a site that has  *)
(* that one too is left out, what is found there is cached as d/b.kmz/x.   *)
ASSUME LevelAssumption ==
    \A base \in Urls, href \in Hrefs \ {NULL} :
        /\ Beyond(Level(base, href), href) = Level(base, href)
        /\ Passes(Beside(base, href)) => Serve(Level(base, href)) = NULL

Answer(kind, base, href) ==
    IF href = NULL THEN NULL
    ELSE LET content == Serve(Level(base, href))
         IN  IF kind = "kml" /\ content # NULL THEN Parse(content) ELSE content

Replied == pc = "idle" /\ call # NULL

ReplyData ==
    IF reply = NULL THEN NULL ELSE IF call.kind = "kml" THEN reply.doc ELSE reply

-----------------------------------------------------------------------------
(* Caching is transparent: whatever the three caches hold, evicted or      *)
(* hold as null, and whichever fetches failed before, a call answers what  *)
(* the site serves for its base and target, and answers NULL for something *)
(* served only if one of its own fetches failed.                           *)
Transparent ==
    Replied =>
        LET answer == Answer(call.kind, call.base, call.href)
        IN  ReplyData = answer \/ (ReplyData = NULL /\ call.lost)

(* A parsed file is cached under its own url and is the parse of what an   *)
(* absolute fetch of that url finds: a relative fetch that fell out of its *)
(* KMZ, or was for the default file, poisons no entry.                     *)
CachedFilesAgree ==
    \A u \in Cached(kml_file_cache) :
        LET kml_file == kml_file_cache.map[u].item
        IN  kml_file.url = u /\ kml_file.doc = Answer("kml", u, Absolute(u))

(* The archive just fetched is still cached when FetchFromCache looks it   *)
(* up again (kmz_cache.cc:103): no other Save comes in between.            *)
KmzStaysForRead ==
    pc = "read" => LookUp(kmz_file_cache, KmzUrl(call.url)) # NULL

(* The search goes round in place: the level it would try next is this one *)
(* and its archive is there without the file.                              *)
SelfResolving ==
    pc = "read" /\ ReadContent = NULL /\ Resolve(KmzUrl(call.url), call.href) = call.url

(* Every call returns unless its target resolves to itself.                *)
ReturnsOrSelfResolves == pc # "idle" ~> (pc = "idle" \/ SelfResolving)
=============================================================================
