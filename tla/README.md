# libkml in TLA+

A verification development for libkml, the C++ library that parses, edits, fetches and
writes KML. Paths below are relative to the repository's `src/kml/` unless they say otherwise.

## The system

libkml is a single-threaded library. What makes it hard is not concurrency but state that
has to stay consistent over long sequences of callbacks and calls: expat's events, observers
that interfere with the parse, caches filled by re-entrant fetches, ids that must keep
pointing at the right objects.

| Component | State | Operations | Talks to | What makes it correct |
|---|---|---|---|---|
| **base/net_cache** `NetCache<Item>` | map url -> (item, stamp), counter | Fetch, LookUp, Save, Delete, RemoveOldest | calls the application's `NetFetcher::FetchUrl`, which may call back | bounded, first in first out, an item is never replaced |
| **engine/kml_cache, kmz_cache, kml_uri** | three NetCaches: files, archives, parsed KML | FetchKmlRelative, FetchKmlAbsolute, FetchDataRelative | NetCache, KmzFile, KmlFile | answers do not depend on the caches; calls return |
| **engine/kmz_file, base/zip_file** | archive in memory, table of contents; entries being written | open, read an entry, the default KML, add a file or all a document links to, write, close | minizip, get_links | an archive holds its document and what that links to; first entry wins; what is missing is counted |
| **dom/kml_handler, parser, engine/kml_stream** | element stack, character data stack, three depth counters, old-Schema state | StartElement, EndElement, CharData, PopRoot; a stream fed buffer by buffer | expat (events), observers (callbacks), element tree (AddElement) | the tree is the document; unknown markup is kept |
| **engine/kml_file** | root, object id map, shared style map, link parents | CreateFrom..., lookups by id | parser observers | the maps describe the tree |
| **dom elements, factory, serializer, visitor** | fields and children of the element classes (92 that the factory makes, and their bases), one parent each | set/add/clear, AddElement, Serialize, Accept | each other | what is parsed is written, once; what is written is read back as it was; every child is visited; one parent |
| **engine/style_merger, style_resolver** | resolved style, remaining budget | MergeStyleUrl, MergeStyleSelector | KmlCache, merge | terminates; last match wins |
| **engine/style_splitter, style_inliner** | root Document, shared styles, in_update flag | NewElement, EndElement, AddChild | parser | references resolve to the same style |
| **engine/update_processor** | the KmlFile it changes | Change, Create, Delete | id map, merge, clone | an operation touches its target and what is below it, nothing else; an element stands in one place |
| **regionator** | numbers of Regions, the call stack of the walk, what each Region shows | Regionate | RegionHandler (HasData, GetFeature, SaveKml), FeatureList, bbox, location_util | each feature in one file; files and links agree; no file written twice; the walk ends |
| **engine traversals** (find, clone, merge, get_links, id_mapper, bbox, balloons) | none between calls | pure functions of a tree | | |
| **convenience, xsd, swig, examples, base utilities** | little | conversions, web clients, bindings | network, files | |

Hard behaviours: a callback (`FetchUrl`, an observer) that runs between two steps of an
operation; a fetch that fails or brings rubbish at any level of a search; evictions between
two look-ups; early returns of an event handler that must all leave the same counters and
stacks in step; unsigned counters at zero; limits (cache size, nesting depth, nested
styleUrls) reached exactly; recursion without a bound; ids and pointers that go stale; tables of
92 classes whose AddElement, Serialize and AcceptChildren must say the same; an operation of an
Update that finds the traces of an earlier one.
`PROJECT.json` lists each with its line under "hazards".

## Modules

| Module | Models | |
|---|---|---|
| `NetCacheOps` | the data structure of `base/net_cache.h`: LookUp, Save, Delete, RemoveOldest as functions of a cache | constants `MaxSize`, `NULL` |
| `NetCache` | a NetCache and its caller; Fetch is split where it calls FetchUrl | extends NetCacheOps |
| `FifoStore` | the abstract promise: a bounded store that forgets in the order it was filled, with no clock | refined by NetCache |
| `KmlCache` | KmlCache, KmzCache and KmlUri over three NetCaches | extends NetCacheOps |
| `KmlHandler` | the expat handler, its observers and the environment that produces the document | |
| `StyleMerger` | the resolution of a Feature's style over shared styles, style maps and other files | |
| `StyleRules` | the reference: which styles apply, in which order; the properties of StyleMerger | extends StyleMerger |
| `StyleObservers` | StyleSplitter and StyleInliner, as the parser calls them | |
| `DomElement` | what every element class does: attributes, AddElement, Serialize, parsing again, Accept and AcceptChildren | classes are constants |
| `DomSchema` | how a class is described, and the row of `Element`; helpers that build a class on its base | |
| `DomFeatures`, `DomStyles`, `DomGeometry`, `DomExtensions` | the classes of `kml/dom`, two rows each | DomSchema; Features on the others |
| `KmlSchema` | the names of `kml22.cc`, the classes of KmlFactory, the Visit methods | extends the tables |
| `KmlFileUpdate` | a KmlFile, its id map, UpdateProcessor with merge and clone, and a client of its Containers | |
| `UpdatePromise` | the abstract promise: which elements an operation may touch, and which it must | refined by KmlFileUpdate |
| `Regionator` | the walk, both handlers, FeatureList, the bounds of features, the quadtree | |
| `KmzArchive` | KmzFile and ZipFile written and read on a disk; KmzCheckLinks | |
| `MC...` | instances for TLC | |
| `NetCache_proofs` | lemmas about the operators; the inductive invariant and the theorems; the refinement of FifoStore | |
| `KmlCache_proofs` | the inductive invariant of the search and its three theorems | |
| `KmlHandler_proofs` | the inductive invariants of the handler, of its texts and of its types, and the seven properties that follow | |
| `Styles_proofs` | the two trees, of the parser alone and of the observer, related style by style; then the merger, what is on its stack against what is promised; eight theorems | extends StyleObservers and StyleRules |
| `DomElement_proofs` | what an element keeps, writes and passes on of a text, in three inductive invariants; five theorems | |
| `UpdatePromise_proofs` | elements have one home; no parent_ dangles; KmlFileUpdate implements UpdatePromise, action by action | extends KmlFileUpdate |
| `KmzArchive_proofs` | lemmas about what is read and found; the invariant of AddFileList's loop and two theorems | |
| `Regionator_proofs` | files and links; then, on top of them, where the features go | |

Operators named `Slip...` are plausible mistakes in the definition that follows them (a
missing test, a swapped order). No specification uses them; replacing the definition by its
slip shows that a property notices.

### NetCache

`cache` is `cache_map_` with `cache_count_`. `LookUp` returns NULL both for an absent url and
for one mapped to a null item: Save stores the null item of data that `CreateFromString`
rejected, and overwrites it later. `calls` is the stack of Fetches that wait for FetchUrl; while
it is not empty any other operation may run, as application code inside FetchUrl may call the
cache (the class is documented as not thread safe, so other threads may not). `saved_at` is a
history variable for `RecentSavesSurvive`.

`ImplementsFifo` maps the cache to `FifoStore`: the entries without their stamps, and the order
of the stamps as a relation.

### KmlCache

A url is a sequence of path segments and a fragment; an href also has a number of leading
`..`. `Resolve` is what uriparser does with them (external); `KmzUrl`, `PathInKmz` are
`KmzSplit`; an archive is its table of contents, in order, with NULL for an entry minizip cannot
read. A call is atomic up to its first fetch and then proceeds one level of
`DoFetchAndReturnUrl` at a time: `FetchRaw` (case 1), `FetchKmz` (case 2, the archive) followed
by `ReadHit` or `ReadMiss` (FetchFromCache; a miss is case 3, the tail call `DoFetch`). Every
FetchUrl may fail, whether or not the site serves the url, and the call remembers that one
did (`lost`). Queries and ports of urls are left out, as is re-entry of the caches by FetchUrl,
which `NetCache` has.

`Answer` is the reference: what the call should return computed from the site alone. It follows
the search to the archive beside the target (`Beside`) and two further (`Level`). That this is
enough is `LevelAssumption`: by then the search has ended or goes round, and a file that is not in
the archive beside is nowhere. What it leaves out is an href with a directory before its archive
(`f/b.kmz/x.kml`) on a site that has both `f/b.kmz`, without the file, and `f/f/b.kmz`, with it; see
Observations.

### KmlHandler

The environment (`ExpatStarts`, `ExpatEnds`, `CharData`, `ParserStops`) produces any well-formed
document, one event at a time, and keeps it in `doc`, so that the properties can compare the
tree with it. One action per path through `StartElement` (too deep, skipped, known, child of an
old style substitute, unknown) and through `EndElement` (skipped, nothing on the stack, old
child, known). The strings of `char_data_` are sequences of tokens: a run of text, the start or
end of a tag. `skip_depth_` and `in_description_` wrap at `UIntSize`. Observers are three sets of
names: those some `NewElement` refuses (`Stopping`), some `EndElement` (`Vetoed`), some `AddChild`
(`Unwanted`). Phase "stopping" is the time between `XML_StopParser` and the return of expat, in which
the end of an empty tag is still reported; phase "undefined" stands for every continuation
after an access through a null pointer or to the top of an empty stack. Attributes matter only
as `parent=` on a Schema; every SimpleField carries the same name.

`InputFails` is the loop of KmlStream: the stream goes bad between two buffers, the loop ends as if the
document had, and `PopRoot` is handed out if it stands alone on the stack (phase "lost").
`TreeIsDocument` says what that result is: the part of the document that was read.

`confused` is a history variable: it is true once the document has had one of four shapes for
which the code does not do what its comments say (see Finding 1 and the observations). The invariants hold for
all other documents and say so.

### StyleMerger

The recursion MergeStyle, MergeStyleUrl, MergeStyleSelector, MergeStyleMap is a stack of work
(`todo`), next first; a step takes its head as far as the next recursive call. A styleUrl is a path
and an id; `NoUrl` stands for one that is empty, malformed or without fragment. A Style is a
function from the paths of its elements to their values, so that `MergeElements` (element by
element, field by field) is one definition. Contents of the files and whether a `KmlCache` is there
are chosen by `Init` and stay; a file outside `site` is one that cannot be fetched. Each entry of
`todo` also carries the file it was written in: the code has no such thing, and looks up every
"#id" in the Feature's own file (`FileOf`). `strayed` records that this made a difference.

`StyleRules` says what is promised, from the files alone, with levels counted by depth: the Styles of a
url and those of a selector are given by two rules that call each other (`UrlRule`, `SelectorRule`). The
operators that follow them are constants (`StylesOfUrl`, `StylesOf`, `RulesAssumption`): MCStyleMerger
computes them recursively, and TLC evaluates the assumption there; the proof takes any that do.

### StyleObservers

The environment starts and ends Documents, Folders (to the observers, any other Feature is one)
and an Update, and gives them StyleSelectors and styleUrls, in any order; a Feature that gets a second
StyleSelector loses the first (`replaced`), as `set_styleselector` does. `plain` is the tree
the parser would build alone, `tree` the one it builds with the observer; a StyleSelector is its
id and what it means (a Style, told apart by a number, or a map onto an id). `StyleOf` is what a
Feature is drawn with. `CreateResolvedStyleSelector` is `Means` over the captured styles: that
the merger computes this is the subject of `StyleMerger`. `Means` follows a chain of style maps to
its end, where the merger stops after `kDefaultMaxNestedStyleUrls` (`engine_constants.h:36`); documents
with longer chains are not its subject. `early` is a history variable: what a
styleUrl meant when it was read, as InlineStyles promises only those. `InlineKeepsStyles` leaves out
documents with shared styles in an Update (`SharedInUpdate`): the inliner does not capture these, so
that a style map onto one is inlined without it.

The shapes of documents in which SplitStyles does change how Features are drawn have names (`Odd`,
`OddDocument`) and are left out of `SplitKeepsStyles` and `AllAreSplit`: see Findings 2 and 3 and the
observations. `UpdatesUntouched` is for every document, at every moment and for both observers: the flag
is up just while an element of the Update is the innermost, and what is in the Update is as the parser
built it. Its one exception is the Document that the splitter itself took for the home of the styles, if
that is one of the Update (`IsHomeOfMore`), and even that keeps what it has and only gets more styles.
`NothingTouched` is the same without the exception, as the comment has it: Finding 3.

### DomElement and the tables

KmlFactory makes 92 element classes, whose code follows a few patterns by hand, which is where
mistakes hide: a member added to AddElement and forgotten in Serialize, a base class's
AcceptChildren called twice. The tables state, class by class and method by method, what the code
does; `DomElement` is the machine that all the classes share. A "class" row is the header (the
types `IsA` answers TRUE for, the members with `x_`/`has_x_`, the children, the arrays), a "code" row
is the implementation (what AddElement takes and into which member, what Serialize writes in
which order, what AcceptChildren visits, which attributes ParseAttributes cuts). `Part` passes
on to the base class what the code passes on. Nothing in the tables says that the methods agree:
that is what the properties are for.

An element gets its attributes and then its children one at a time; a child is its type, its place in
the text and whether its word is one the schema lists (`SetEnum`). It is taken into a member
(`Take`), dropped (a class that uses AddElement for its own text), `misplaced` or `unknown`.
`Serialize` writes what it holds, `Reparse` makes a new element of that text, with the types found
again from the names (`ReadAs`: `Icon` within an IconStyle), and the two visitor drivers call Accept
and AcceptChildren at any time. A text is of names in XML; here it is of types, those the parser finds for
the names (`InputsAssumption`).

### KmlFileUpdate

An element is a number, `heap` has all that were ever made: kind, id, targetId, simple fields, parent,
children. `idMap` is the map of ids made when the file is read; no Update changes it. Documents and what
an operation brings are trees (`IsTree`, an assumption that TLC evaluates). Change goes down
its child's tree a node at a time (`work`: what each node was merged into and which children that
had before), as MergeElements does. The child may be of another kind than its target, which the code
does not look at: the fields that both have are merged (`SameFields`: between two features or two
geometries), a child that the target takes is cloned into it, and AddElement keeps a clone that it does
not take as misplaced (`strays` has the elements that got one; Serialize writes these and no id finds
them, but what comes later in the merge may go into one). Create is CopyFeatures; Delete is DeleteFeatureById. Between the
operations a client makes features, adds and erases them. `Live` is what reference counts keep:
`parent_` is a raw pointer and keeps nothing. What leaves an array and is neither in the map nor kept by
the client is released; the history `dropped` has it, so that `ParentsLive` can say that no other
`parent_` dangles. A Delete that would read such a `parent_` is undefined: the model ends there (`Defined`).

`UpdatePromise` has no merge and no map to maintain: it says, of the tree seen from the root, what may
differ after each operation (`Removed`, `Appended`, `Amended`) and when it must. `StepsAsPromised` maps
the model to it: the tree is `Seen(heap)`, what is reached from the root.

### Regionator

`stack` is the recursion of `_Regionate` and Recurse, a call being its Region, the quadrant it asks
next and the children that had data. `numbers` is `qid_map_`, `count` is `region_count_`. HasData
splits the list (Split, Without), makes a Folder of what has no parent yet, and a progress monitor
may say no afterwards; SaveKml writes the document under the name of the Region, unless GetFeature
returned NULL. Places are integers on a grid of `Half` units to 180 degrees, so that quarters are
exact; where a feature is follows from its geometry (`Points`, `Bounds`, `Place`) as in location_util, of a finite drawing. Scores are integers of either
sign. What the C++ does with loops over a list are recursive functions, so that they can be proved
about: `Kept` (what Split moves to the other list and what it leaves, in the order of the list),
`Inserted` and `Sort`, `Aligned`.
`task.given` and `task.refused` are history: what was asked for, and what monitor and handler refused.
`MaxStack` bounds the calls that are open at once, as the stack of a process does. The lists of the run
need no more than five; without the bound a Split that left the list as it was would have no behaviour
that ends or repeats, and TLC would search on for ever.

### KmzArchive

`disk` has the files; an archive that is being written is `Unfinished` there until `Close`. AddFileList
is a loop over the links (`todo`, `stored`), one turn per step, so that a reader can open the
file in between. An href is a scheme or none, a path from the base or the root, and no string; a path may
be empty, which is the base itself, and `Normalize` stays at the root where `..` would leave it, as
NormalizeHref does. `Above` is the test of the code, which looks at the first two characters of the
normalized href. `Unparsed` documents are written and read as any other, and GetRelativeLinks finds nothing
in them; but `CreateFromKmlFilepath`, which uses the KmlFile without a look at it, ends the process: the
archives in memory are gone, and what was not closed stays unfinished. Left out: a slash at the end of a
path, a fragment, and a disk that takes no file (Create then returns NULL and nothing changes).

## What is checked

| Run | Question | Bounds | Result |
|---|---|---|---|
| `net_cache` | is the cache a bounded FIFO store under every sequence of calls, re-entrant Fetches included? | 4 urls, 2 items, size 2, 7 saves, depth 2, symmetry | holds |
| `kml_cache` | are answers independent of the caches and failures, do calls return? | 7 served paths, 4 bases, 11 targets, caches of 1, 3 calls | holds |
| `kml_handler` | is the tree the document, is every text in its place, do stacks and counters agree, when an input breaks off too? | 5 tags of 7 names, or 6 with an old style Schema, 1 run of text, nesting limit 4 | holds |
| `kml_handler_old` | is the element that ends an old style substitute its Placemark? | 6 tags | violated |
| `style_merger` | are just the right styles merged, in order, and does it end? | 250 sites of 3 ids and a second file, 4 Features, 2 calls, count 3 | holds |
| `style_observers` | do Features keep their styles, is every style split that may be, are Updates left alone? | size 7, 2 ids, 3 generated ones, one of them an id of the document | holds |
| `style_observers_url` | does the new styleUrl name the new style (`style_splitter.cc:95`)? | size 6 | violated |
| `style_observers_update` | is nothing in an Update touched (`style_splitter.cc:45`)? | size 6 | violated |
| `dom_element` | does every class write what it takes, once, read it back as it was, and visit its children? | every class, each pair of children it takes or may not, 2 rounds | holds |
| `update` | does every operation keep its promise, has each element one home, are parents alive? | 3 files of 4 to 6 elements, 7 Changes (2 of another kind), 5 Creates, 2 id maps, 3 operations or calls | holds |
| `regionator` | is each feature in one file, is every file linked and none written twice, do higher scores come first, does the walk end? | 5 lists of 5 features, limits 0, 1 and 2 per Region, 2 Regions or alignment, 2 root names, depth 24, 6 calls deep, 2 rounds | holds |
| `kmz_archive` | does an archive stand for its document, are missing files counted? | 6 documents (1 does not parse), 6 local paths, 2 limits of size, archives of 2 added entries | holds |

The bounds. A cache of 2 with 4 urls has every order of eviction, deletion and overwriting, and
7 saves wrap around it three times; nesting two deep gives a Fetch that comes back after
another one of the same url saved and lost it. The site of `kml_cache` has each case
of the search (a file in the archive, beside it, in both, in neither, a sibling archive, one
without KML, a file that is no archive), and caches of one entry evict at every save; the
third call sees what two others left. The documents of `kml_handler` put known, unknown and
description tags below each other in every order up to five deep; old style documents begin
with a Document, a Schema and a SimpleField (`Documents`, a constraint of the instance),
so that six tags leave three for the substitute, its children and a nested one. `UIntSize = 16`
keeps the counters far from a false wrap-around: they move by at most twice the number of tags.

The ids of `style_merger` make every cycle of up to three style maps, with nested and repeated pairs;
count 3 is used up by some and suffices for others. The invariant `Small` of its instance cuts
no behaviour of the code; it keeps a mistake that never ends finite. A size of 7 (elements, StyleSelectors
and styleUrls together, `MaxElements`) gives `style_observers` a Document with two shared styles and a Folder
with a styleUrl, or two Folders with a style each, or a Document, an Update and two Folders around
a style; `UniqueIds` of 3 ids bounds the counter of the splitter at what a document
of this size can use, and one of them is an id of the document.

The members of a class in `dom_element` do not see each other but in pairs (the same home, before or
after), so texts of two children, of every pair of types, and the element's own text are
enough; two rounds show that the second text is a fixed point. The files of `update` have a
Folder in a Folder, a Folder without a kml above it and two Folders of one id, of which the map
has the second; a Change gives an element the id of another, or is a Placemark for a Folder or the reverse,
with children that fit and that do not; three operations make, delete and find again. The lists of `regionator` have two features in one place (which send
the walk down to `MaxDepth` of the alignment and as deep as there are features), one on the border of two
quadrants, one on the cross of four, one with no place; two rounds find parents already
given. The documents of `kmz_archive` link to a file in three ways, to missing files and such above
the base twice, from the root above it (which is at the root), to a file called as the document in the
archive, to an empty one, to one too large to be read, to the base, and to themselves; one does not parse.

Deadlock is checked for `net_cache`. The other models end: the calls run out, the parse is over, or the
last text is written.

Fairness: only `kml_cache`, `style_merger` (`WF_vars(Step)`) and `regionator` (`WF_vars(Walk)`) use any: a
call that was made runs on, since it runs in the caller's thread and each FetchUrl and each handler
is assumed to return. No fairness makes clients call, or fetches succeed.

### Findings

The first two were also reproduced with the library itself.

1. `kml_handler_old`: `in_old_schema_placemark_` is reset by any tag inside the child; the substitute
   is then popped too early.
2. `style_observers_url`: SplitStyles sets the id of the new shared style and then merges the inline
   one into it, id included; the styleUrl names the id that was overwritten.
3. `style_observers_update`: NewElement takes the first Document there is as the home of the styles before it
   looks whether it is in an Update (`style_splitter.cc:42`); an inline style after the Update is then added
   to that Document, against "Don't touch anything inside an <Update>." (`style_splitter.cc:45`).

### Observations

Smaller or already visible in a comment; no run states them, and where they limit a property it says so.

* KmlCache: the third case of the search resolves the same target again; for an absolute target, or one
  that names its own archive, that is the same url, and the call does not return (`kmz_cache.cc:125`,
  `kml_cache.h:76`). `ReturnsOrSelfResolves` shows that this is the only way. The default file of a
  sibling KMZ is reported, and cached, under the url of the archive (`kmz_cache.cc:123`). When the third
  case passes two archives on its way (`f/b.kmz`, then `f/f/b.kmz`), what it finds in the second is cached
  as if it were the first's (`kmz_cache.cc:112`, `kml_cache.h:59`), where an absolute fetch finds
  nothing: the cache then makes a difference. `LevelAssumption` leaves such sites out. A bare KMZ
  never hits the cache of parsed files; urls that differ in their fragment are parsed separately; a
  KmlFile keeps a pointer to its KmlCache and may outlive it.
* NetCache: one built with `max_size` 0 is never pruned.
* KmlHandler: `in_description_` is decremented for a description inside an unknown element and goes below
  zero (`kml_handler.cc:213`); the end of an empty tag beyond the nesting limit is taken for the end
  of its parent (`:272`). A tag called as the old style Schema's name that is inside another one is cast to a Placemark
  it is not (`InsideNamesake`). `confused` names these documents. KmlStream promises NULL and an error on any
  I/O failure (`kml_stream.h:54`), but hands out a partial root if only that was open.
* StyleMerger: `nesting_depth_` counts every url, followed or not, and is not given back on return; a "#id"
  inside a remote style map is looked up in the Feature's file (the TODO at `style_merger.cc:119`).
* StyleSplitter does not look whether the document uses a generated id; it loses an inline style
  that a styleUrl follows, and does not split the second of a Feature, which has its styleUrl by then. It makes the chain
  of an inline StyleMap one url longer, so that one which used every level of the merger loses its last.
* DOM: a Field and coordinates lose unknown children and attributes; a second value of an enum that is no
  word of the schema takes the first away; XalLocality never writes LocalityName (`xal.cc:165`); no
  AcceptChildren visits an Atom or xAL child; GxPlaylist takes a primitive without SetParent
  (`gx_tour.cc:84`); a StyleSelector given to a Document by `set_styleselector` is never written.
* Update: a Change merges every attribute of its child into the target, `id` included (`merge.cc:57-66`): a
  child with both `targetId` and `id`, or a matching child with an id, renames an object of the file, where
  `update_processor.h:44` says that ids are not changed. Nothing compares the kinds of the two: a Change of
  another kind gives its target what that can take and leaves the rest in it as misplaced children
  (`merge.cc:123-157`). Nothing maintains the id map, so a deleted object is still found and a created one is not;
  a Delete by an id that two siblings share, or that a Change or a Create gave a sibling, may release a
  Folder that the map does not have, while a child of it is in the map: its `parent_` dangles, and a Delete
  of the child reads it (`update_processor.cc:119`, `container.cc:66-78`); the feature of a kml is deleted
  whatever its id is by now; a root added below itself makes a cycle.
* Regionator: `Regionate` called twice on one Regionator goes on counting, so its root is no longer
  "1.kml", as the links say; `SetRootFilename("2.kml")` collides with a child's file
  (`RootNameAssumption`); a FeatureList regionated a second time gives empty folders, as its features
  have parents already; a NULL from GetFeature leaves the children's files without a link.
* KMZ: CreateFromKmlFilepath of a file that does not parse uses a null KmlFile (`kmz_file.cc:213-217`); the
  other ways to make an archive take such a document and find no links in it; a link to the base, if that
  can be read as a file, gives an entry with an empty name; a link to a local `doc.kml` adds a second entry of that name that is never read; AddFileList called
  twice stores files twice; an unfinished archive opens with an empty table of contents, an archive without
  entries does not open; KmzCheckLinks does not normalize paths as the writer does, and reports links
  as missing that are there.

## What is proved

### NetCache

`NetCache_proofs` proves for all sets of urls and items, sizes and bounds:

* `TypeCorrect`, `StampsStayDistinct`, `RecentSavesLive`: the invariants of the run;
* `SizeBounded`: with `MaxSize > 0`, the size never exceeds it;
* `ItemsAreStable`: the action property `StableEntry`.

None of the invariants but the first is inductive. The invariant `Inv` adds `RecentStamps`: for
every stamp among the last MaxSize ones whose save is still owed, the entry is there with
just that stamp. Then RemoveOldest on a full map cannot hit it: the map has MaxSize entries
with distinct stamps below the counter, so the smallest is at least MaxSize old. That the
smallest exists (`OldestExists`) needs the well-ordering of Nat and finiteness of the map;
both are lemmas, as is the size of the map after each operation. `SizeBounded`
needs only that Save makes room at exactly MaxSize, and that no operation adds two entries.
Assumptions: `MaxSize \in Nat`, `NULL \notin Items`, the bounds are naturals.

`NetCache_proofs` also proves `CacheIsFifo`, that every behaviour of NetCache implements FifoStore:
the initial cache maps to the empty store, and each action to one of its actions or to a
stutter (`NextRefines`, one case per action). Three facts about the mapping carry it: `Without`
is `Keep`; `Stamped` is `PutLast`, as the counter is above every stamp; and the oldest entry is
`IsFirst`, as stamps are distinct. The last two need `Inv`.

### KmlCache

`KmlCache_proofs` proves for every site, set of urls, size of the caches and number of calls:

* `CachingIsTransparent`: a call in which no fetch failed answers what the site alone says (`Answer`);
  one in which a fetch failed answers that or nothing;
* `NoEntryIsPoisoned` (`CachedFilesAgree`): a parsed file in the cache is what an absolute fetch of
  its url would parse;
* `KmzIsThereToRead` (`KmzStaysForRead`): the archive FetchFromCache reads is still the one that was
  fetched a step before.

The invariant says of all three caches that each entry is what the site serves (`FilesAgree`, `KmzsAgree`,
`KmlsAgree`), as an answer is only as good as the entries it comes from; and of the call under way at
which level of the search it is and that what it will be saved under is the url `Beside` names
(`Searching`), so that the save keeps `KmlsAgree`. Eviction plays no role: `SavedEntries` (a Save adds its
own entry, takes others away, changes none) is all the proof needs to know of `NetCacheOps`.
Assumptions: `UrlAssumption`, `SiteAssumption`, `NullAssumption` (what the constants are),
`LevelAssumption`.

### KmlHandler

For documents of any size and depth, any schema and observers, and any nesting limit:

* `StacksInSync` (`InSync`): between two events the stack of elements, that of character data and the three
  counters are what the open tags say;
* `NothingUndefined` (`NeverUndefined`): no path through the handler pops an empty stack, reads its top
  or uses a null, unless the document is confused;
* `TreeOfTheDocument` (`TreeIsDocument`): what the parser hands out is the tree of the known elements;
* `UnknownMarkupSurvives` (`UnknownIntact`): each unknown tag in a known element is handed to it once, as
  its complete, nested text;
* `TextsSurvive` (`TextsInPlace`): every run of text of a parsed document is in one place, the right one;
* `OldDataAdopted` (`OldDataReachesPlacemark`): no child of an old style substitute is left without a
  Placemark;
* `HandlerTypeOK` (`TypeOK`), the only one that speaks of confused documents too.

The invariant `IInv` is for one k the statement that the first k open tags are known (`Path`)
and the handler is in one of four modes: in an element, in a description, in a child of an old style
substitute, in something unknown. Each mode fixes the lengths of the stacks and what
`skip_depth_`, `in_description_` and `in_old_schema_placemark_` are. InSync alone is not inductive: it does not know that
what is open below k is nested in what is skipped, nor that the counters, which may stand one below
zero (`Balanced`), come back with the next tag. `TypesFit` is what makes the casts of the Schema and of
the Placemark substitute safe, `Tree` what has been attached so far, and `EndsWell` what the last event
finds after XML_StopParser. Assumptions: `NameAssumption` (the schema's names) and that the counters
do not wrap around within `MaxTags` (`BoundAssumption`).

The texts need an invariant of their own, `TInv`, which holds along with `IInv` (`TextInv`). It is stated over
`Strings`, all the strings there are: those being gathered in `char_data_`, the content of the elements,
the unknown markup and the simple data. `AllGathered` says what each string of `char_data_` is: the own text
of the known element it belongs to or, for the innermost, the `Markup` of the tag that is skipped, with the
start tags of the open tags inside it and no end tag for them yet. `AllGiven` and `AllHandedOn` say the same of
what elements were given and handed, where the markup has no tag left open, `FieldsOwned` of the children of
old style substitutes and the Placemark that adopted them; and `Once` that no run of text is in two strings and each
is in one. `Below`, a recursive function over the parents, is reasoned about through the fact that it
climbs (`Climbs`): below a tag are it and the tags whose parent is below it.

Of `IInv`, `TypeOK` needs only that the open tags are a path of the document (`DocShape`), but besides what the
counters are in every document (`Counters`), the confused ones too: what is skipped is the innermost `skip_depth_` open tags; `char_data_` has a string for each tag that is not skipped
and one for those that are; and `in_description_` counts the descriptions inside the outermost skipped one, or it
is at zero or has wrapped around by no more than the number of tags that have ended. So no confused document makes
the handler pop `char_data_` when it is empty, and none makes a counter run away; what it can do is use a null.

### StyleObservers

For documents of any size and shape, with any ids, styleUrls and style maps:

* `SplitKeepsStylesAlways` (`SplitKeepsStyles`): after SplitStyles every Feature is drawn as before, but
  for the shapes named `Odd` and `OddDocument`;
* `AllAreSplitAlways` (`AllAreSplit`): no inline style is left that the conditions of the header admit;
* `UpdatesUntouchedAlways` (`UpdatesUntouched`): the guard is up just inside an Update, and what is in it is
  as the parser built it, for both observers and in every document, but for the Document that the splitter
  itself took as the home of the styles, which may only get more;
* `InlineKeepsStylesAlways` (`InlineKeepsStyles`): after InlineStyles a Feature with a styleUrl that meant
  all it means when it was read is drawn as before.

They compare two trees, three of them at the end of the parse, so the invariant `IInv` relates them element by
element and id by id at every moment. `Guarded` says that the observers' flag is up just inside the
Update, and `UpdatesKept` that the trees agree there. `SplitInv`, which holds while no inline style has an id of
its own, says that a tree has the shared styles of the other and those under generated ids (`SplitIds`,
`SplitStyles`), and that a Feature has either its own style or the url of one that means the same
(`EachSplit`, `NoneLeft`). `InlineInv` says that what was captured is what plain shares (`SharedOf(shared)` is
`SharedIn(plain)`, while no shared style is in an Update), and what each Feature got (`Inlined`). That
the closures over the two trees agree where no generated id is met is `MeansAgree`, from `ReachedLeast`; what
a split adds to them, `SplitSplit`; what the inliner copies, `InlineSelector` and `InlineUrl`.

Assumptions: `UniqueIdsAssumption`, that ids made of different counters are different; `NullAssumption`, that
"no id" is no id and NULL nothing else.

### StyleMerger

For every content of the files, every cycle in them, any nesting depth and number of calls:

* `LastOneWinsAlways` (`LastOneWins`): what is resolved is what the last Style that sets it says;
* `InlineWinsAlways` (`InlineWins`): a Feature's inline Style is over all its styleUrl leads to;
* `MergedAsPromisedAlways` (`MergedAsPromised`): StyleMerger follows the rules: what it merges is part of
  what they give, in their order, and all of it if the count lasted;
* `MergerTypeOKAlways` (`TypeOK`).

`LastOneWins` is inductive by itself. `InlineWins` speaks of the end of a call, so `InlineWaits` says of one
under way that the inline selector is the last thing on the stack until it is merged, and that nothing
goes over it then. For `MergedAsPromised` the recursion of the rules has to be compared with a stack and
one count, which is never given back. `PromiseInv` says that some list of Styles is what the stack is
still worth (`Pays`: the list can be cut into one piece for each url or selector on the stack, each
what a rule gives for it at some level not below the count), and that what was merged followed by
this list is part of the promise, and all of it while the count is not below zero (`Keeps`). A url that is
dropped takes its piece out of the list, one that is followed gives the rule's right side for it (`PaysUrl`),
a style map the pieces of its Pairs one after another (`PaysMap`). At the end the stack is worth nothing, so
what was merged is what the invariant promised. `strayed` is what the proof needs to know that each url on
the stack was written in the Feature's own file. That "part of, in order" is what `IsSubsequence` computes
by going through the sequence once is `WithinIsSubsequence`.

Assumptions: `NestingAssumption`, that depth and calls are natural numbers; `SelectorsAssumption`, that a
StyleSelector is a Style or a StyleMap and that the Feature's file is there; `RulesAssumption`.

### DomElement

`NothingIsLost`: for every table of classes, every set of texts and every number of rounds, a child that
was parsed is held for writing, but for the ways `Forgettable` lists. Its hypothesis is `Covered`, that
each class writes the members it takes children into, for all but `Unwritten`; for libkml's
own tables TLC evaluates it (`TablesAssumption`). `NothingLost` is inductive with two
facts beside it: the members are lists (`Shape`), and each holds only what was taken for it
(`AtHome`), so that what a `Take` pushes out of a single member had the same home, which is what
`Forgettable` asks.

The other four, for the same tables, texts and rounds:

* `TypeOKAlways` (`TypeOK`): a member the class keeps one child of never holds two;
* `WrittenOnceAlways` (`WrittenOnce`) and `RoundTripAlways` (`RoundTrip`), if no class writes a
  member twice (`WrittenApart`);
* `ChildrenVisitedAlways` (`ChildrenVisited`), if also each class passes on the members of its children,
  each once (`VisitsReach`), and Accept calls the method of every group (`CallsReach`).

So of libkml's 92 classes only these facts matter, which can be read off the tables and which TLC evaluates
for all of them (`TablesAssumption`); the run shows the behaviour for texts of two children, the theorems
for all. The proofs put members, misplaced and unknown children into one function (`stores`), which a step
of the parse changes at one place at most (`ParseSteps`). Three invariants build on each other:

* `Kept`: each place holds items of the text parsed so far that belong there, in their order,
  and a single member one good one at most (`Sound`); a text just written is what the element holds;
* `Again` adds that the children of every text differ; that a text that was written has nothing the parser
  would drop or replace (`Lasting`) and stands in the order of the places (`Arranged`); and that an
  element parsed from one has every item of it (`Complete`). `Complete` is not inductive for the first text,
  where a later value replaces an earlier one: it is `Lasting` that makes it so;
* `Seen` adds that what a visit called is what the element, unchanged since, would ask again.

What Serialize writes is a FlattenSeq of what the places hold; `FlattenJoins` says of it that every element
comes from one part, in order (`IsJoin`), an induction on the number of parts. `JoinCame` turns that
into an order of the items of the text, and `CameAgain` shows that for an `Arranged` text this order is
increasing and onto, hence the identity: the text is written as it was.

Assumptions: `SchemaAssumption`, that a class takes into, writes and visits members it has;
`InputsAssumption`; `RoundsAssumption`, that there is a round.

### KmlFileUpdate

For all documents, Updates, id maps, numbers of calls and whatever a client does:

* `OneHomeAlways` (`OneHome`): an element stands in at most one array, once, below the element it has for
  its parent;
* `ParentsLiveAlways` (`ParentsLive`): the `parent_` of a feature that can still be found, which
  DeleteFeatureById reads, was released only if it was dropped or stood below what was dropped;
* `StepsAsPromisedAlways` (`StepsAsPromised`): KmlFileUpdate implements UpdatePromise. The initial states
  map to initial states, and every step to a step of the promise or a stutter (`NextPromise`).

The invariant of the first, `IInv`, is `Good(heap)` (OneHome with types), that `idMap`, the client's
pointers and `dropped` are elements of the heap, and that so are those of the merge under way
(`WorkGood`). The work is in the operators, each of which keeps a heap good: Clone (`CloneGood`: the
nodes below one are consecutive, shifted), CopyFeatures, AddElement, Erase.

`TInv` adds what the schema gives (`Schemed`: an element is of a kind its parent takes, only a Folder has
two children, a kml is the root and never has a second child); that every element but a geometry is
reached from the root, the map, the client's pointers or from what was dropped (`Kept`); and that the merge
knows its elements as the source's nodes stand below one another (`WorkFits`). An element keeps its
`parent_` for good, so `Kept` of the parent is all that `ParentsLive` asks. `Kept` is inductive because an
array loses an element to `dropped` or to a pointer, or, in a merge, a geometry, which has nothing
below it; that the new elements of a clone are reached is an induction on their numbers (`NewAreKept`).

For the promise the proof works with two closures: what is in the file (`InFile`, reached from the root)
and what is below an element (`Under`). `BelowIsUnder` shows that UpdatePromise, which computes the
latter on the tree it sees, means the same. Then each kind of step is shown once, on any two heaps:
what takes a child away takes just what is under it (`EraseIsRemoved`; what is under a feature is
reached by no other way, by OneHome), what concatenates children only appends (`AppendsIs`), and what
changes only elements under the target of a Change, and takes no feature from an array, amends
(`AmendsIs`). `WorkFits` is what keeps a merge below its target (`MergedBelowTarget`): below the
target an element is merged with one of its kind; the target itself may be of another kind, and
what counts is then that it is no kml (`NoKmlIn`). A Delete finds the
very element the map has if that has its id and is the first that does (`AddressedIs`,
`OneIsFirst`).

Assumptions: `TreesAssumption`, that documents and what operations bring are trees; `SchemaAssumption`,
that they follow the schema, as the parser, which adds by type, makes sure; `IdsAssumption`, that the ids
of a map are ids.

### Regionator

For all features, places, scores, Regions, limits and answers of monitor and handler:

* `NoFileLost` (`NoFileTwice`): no file that a Regionator has written in a walk is written over by another
  of the same walk;
* `LinksAreRight` (`LinksMatchFiles`): a link is to a file, of the Region it is for, one deeper than the file
  it is in; and every file but the root's is linked to, unless GetFeature refused its parent;
* `EveryFeatureOnce` (`EachOnce`): of the features given, each that lies in the root's Region is shown in one
  file, in whose Region it is, unless a refusal took it away; no file shows more than was asked for;
* `HigherScoresFirst` (`HigherFirst`): of a sorted list, no feature is shown below one that scores less.

`NoFileTwice` needs to know that names are new: a Region is numbered before its children are and written
after, so every call on the stack has a number that waits. `IInv`: the calls are of Regions one deeper
each (`CallsDeepen`), so they are different Regions; those numbered have different numbers up to `count` that
are not names yet (`NumbersWait`), and all names are such numbers (`NamesGiven`), but for the name the
client gave the root, with which the walk ends.

`LinksInv` adds what a call has gathered: quarters it has asked whose files are written under the numbers
they had (`ChildrenWritten`), and that a file no other links to is awaited by a call, or was lost with its
parent (`NoneForgotten`).

`FeaturesInv` follows the features. `EachOnce` of a finished walk says nothing of one under way, so the
invariant says of every quarter already asked that nothing of it is left but what a refusal covers
(`AskedFor`); that a feature is left or in one folder (`OnePlace`); and that the folder of a Region stays
reachable, from a call or a file (`Visited`), the walk never coming back to an id it has passed.
`HigherLeft` says that what is left in a Region scores no more than what it shows, which needs that
the Regions of the calls lie in each other (`Nested`). The lemmas on data are proved by induction on
numbers, with the functions named: `Kept` and `Sort` keep order and members, quarters cover their square,
the bounds of a drawing hold its points, the aligned Region holds what the root did.

Assumptions: `RootNameAssumption`, that the root's name is not one that the walk may give ("2.kml"). No code makes
sure of it: `SetRootFilename` (`regionator.h:75`) takes any name, and with such a one a file is written twice
and links lead to the wrong one, so the theorems say nothing of it. `RegionatorAssumption`, that drawings are
finite, lists have no feature twice, scores and coordinates are integers, and the bounds are naturals.

### KmzArchive

For all documents, links, local files, sizes and limits, and archives written and opened in any order:

* `ArchiveStandsForDocument` (`SelfContained`): an open archive that was made from a document has it as the
  KML that is read first, each local file a link needs under the path it has there, and nothing else;
* `ErrorsAreTheMissing` (`MissingAreCounted`): when AddFileList returns, its errors are the links above the
  base and the files the archive lacks; KmzCheckLinks finds a plain link missing just if there was one.

Both speak of the end of a loop that other calls interrupt. `IInv` says where the loop is: for some
number of links passed, `stored_hrefs` has their keys (`KeysOf`), the entries are the document and, once each,
the files that keys name (`Packed`), and the errors are the links above the base (`AboveOf`) and the keys that
brought no file (`Halfway`). `LoopTurn` shows that for each way a turn goes. The rest carries it along:
to the disk when the archive is closed (`OnDisk`), and into
a reader's copy (`InHand`), which outlives the file. That a path is found under its first entry is
`EntryIsFound`; that GetRelativeLinks returns the relative links and no others is an induction on their
number (`RelativeLinksAre`); that a link is lost just if it is missing is `PlainLinks`.

Assumptions: `LinksAssumption`, that an href has a scheme or not and is from the root or not, and that there are
none in what does not parse; `LocalAssumption`, that what is at the base or below it has no name that starts with `..`; `SizeAssumption`, that
sizes are natural numbers; `NameAssumption`, that `doc.kml` ends with `.kml` and a file's data is not NULL.

### Only model-checked

* Liveness (`ReturnsOrSelfResolves`, `Terminates`, `WalkEnds`), which is out of the prover's reach.
* KmzArchive: what NormalizeHref makes of a path, a fold; the proofs take it for any function of hrefs.
* DomElement: that the tables of libkml's classes satisfy the hypotheses (`TablesAssumption`), which only
  evaluation shows.

## Not modelled

The table of components in `PROJECT.json` says for each part why. In short:

* of modelled components: the map of link parents of KmlFile and the `xmlns` attributes it adds when it
  writes; the layout, quoting and tag stack of XmlSerializer; ComputeBboxLookAt (trigonometry);
  GetElementsById, ClearIds and GetLinkParents (traversals of a finished tree, without state);
* text into text: the entity mapper and the balloon text, CSV and GPX, the vec2, color and date strings;
* clients of web services (Google document lists, maps and spreadsheets), HTTP and file I/O;
* `xsd`, which reads XML schemas into lists and is used by no other part; swig bindings, examples and
  tests; expat, uriparser, minizip, boost, zlib. The last are modelled only as `src/kml` uses them
  (marked external).

## Plan

1. (done) NetCache and FifoStore with proofs; KmlCache; KmlHandler.
2. (done) StyleMerger against StyleRules; StyleObservers.
3. (done) DomElement and the tables; KmlFileUpdate against UpdatePromise; Regionator; KmzArchive; KmlStream.
4. (done) Proofs: NetCache implements FifoStore; NothingIsLost; OneHomeAlways; NoFileLost.
5. (done) Proofs: KmlHandler's stacks, accesses, tree, texts and types; the transparency of KmlCache; the links and
   the features of Regionator; KmlFileUpdate keeps UpdatePromise; KmzArchive; StyleObservers; StyleMerger
   follows StyleRules; DomElement writes once what it holds, and reads it back.
