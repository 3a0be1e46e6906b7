------------------------------ MODULE FileProofs -----------------------------
(***************************************************************************)
(* The files the panel keeps.  Of its Geo directory: the files that        *)
(* versions name are there and updates keep the lists, for any lists, any  *)
(* number of pages and requests and any number of retained versions, and   *)
(* scheduled updates keep their interval.  Of the query log: its hourly    *)
(* files are sound, for any number of records, ticks and events, any hour  *)
(* and any limits.  LogInv is inductive: the table is in the order of its  *)
(* segments' first ids, whatever any step still has at hand - the segments *)
(* to compress, those taken out and those cleared - names segments by the  *)
(* same keys, every file fits between its neighbours, and a file without a *)
(* segment is one that a step is about to remove.  Numbers and lists are   *)
(* counted through with a set of naturals that has a least member.         *)
(***************************************************************************)
EXTENDS GeoFiles, UpdateSchedule, LogSegments, SequenceTheorems, FiniteSetTheorems,
        WellFoundedInduction, TLAPS

---------------------------------------------------------------------------
(* The Geo files.  The invariant: what every step of a download, a build   *)
(* or a clean-up relies on.                                                *)

Files == {GeoFile(n) : n \in Copies} \union {RawFile(s) : s \in Lists \X Copies}
           \union {MergedFile(p) : p \in SUBSET (Lists \X Copies)}
Pcs == {"idle", "download", "manifest", "apply", "recall", "fetch", "merge", "record",
        "clean", "cleanLists", "remove"}
Kinds == {"none", "geo", "import", "seed", "build", "refresh"}
WorkType ==
  [pc : Pcs, kind : Kinds, copy : Copies \union {NoFile}, subs : SUBSET Lists,
   on : SUBSET Lists, named : SUBSET Lists, state : ListsType, old : PathOrNone,
   new : PathOrNone, retained : SUBSET ContentType, doomed : SUBSET Files]

FileTypes ==
  /\ stored \subseteq Files /\ manifest \in Copies \union {NoFile} /\ lists \in ListsType
  /\ published \in Copies /\ seedMarker \in BOOLEAN /\ geoEvents \in 0 .. MaxGeoEvents
  /\ {syncLock, listLock} \subseteq Actors \union {Free}
ConfigTypes ==
  /\ {formal, draft} \subseteq ContentType /\ waiting \in BOOLEAN
  /\ versions \in Seq(ContentType) /\ Len(versions) \in 1 .. KeptVersions
  /\ exposed \in [Flaws -> SUBSET Retained]
GeoTypes == FileTypes /\ ConfigTypes /\ work \in [Actors -> WorkType]

\* The retained contents without a flaw, and what the panel has on record.
Fit(flaw) == Retained \ exposed[flaw]
Named(contents) == UNION {FilesOf(c) : c \in contents}
FilesOnRecord ==
  FileOf(manifest, GeoFile(manifest)) \union FileOf(lists.built, MergedFile(lists.built))
    \union FileOf(lists.refreshed, MergedFile(lists.refreshed))
RawsIn(state) ==
  {RawFile(<<l, state.sources[l]>>) : l \in {l \in Lists : state.sources[l] \in Copies}}

VersionsAreThere ==
  /\ exposed["file"] \subseteq exposed["copy"]
  /\ \A flaw \in Flaws : \A content \in Fit(flaw) : Needed(flaw, content) \subseteq stored
RecordIsThere == FilesOnRecord \union RawsIn(lists) \subseteq stored

\* Whoever is at a file holds the lock of it.
HoldsLocks(a) ==
  /\ work[a].pc \in {"download", "manifest", "remove"} => syncLock = a
  /\ work[a].pc \in {"fetch", "merge", "record", "cleanLists", "remove"} => listLock = a
  /\ work[a].pc # "remove" => work[a].doomed = {}
  /\ work[a].pc \in {"recall", "apply"} => a = Task
  /\ work[a].pc \in {"recall", "fetch", "merge", "record"} => (work[a].kind = "refresh" <=> a = Task)
  /\ work[a].kind = "refresh" =>
       a = Task /\ work[a].pc \in {"recall", "fetch", "merge", "record", "apply"}

\* What is about to go on record is there.
HasFiles(a) ==
  /\ work[a].pc = "manifest" => work[a].copy \in Copies /\ GeoFile(work[a].copy) \in stored
  /\ work[a].pc = "apply" /\ work[a].kind # "refresh" => work[a].copy \in Copies
  /\ work[a].pc \in {"fetch", "merge", "record"} =>
       /\ work[a].state.built = lists.built /\ work[a].state.refreshed = lists.refreshed
       /\ RawsIn(work[a].state) \subseteq stored
  /\ work[a].pc = "record" => FileOf(work[a].new, MergedFile(work[a].new)) \subseteq stored

\* A refresh of a file that a sound version names has a copy of each of its lists.
InUse(path) == \E c \in Fit("copy") : c.block = path
KeepsLists(a) ==
  work[a].kind = "refresh" =>
    /\ work[a].old # NoFile
    /\ work[a].pc \in {"fetch", "merge"} =>
         /\ work[a].on = ListsIn(work[a].old)
         /\ InUse(work[a].old) =>
              \A l \in ListsIn(work[a].old) : work[a].state.sources[l] \in Copies
    /\ work[a].pc \in {"record", "apply"} /\ work[a].new # NoFile /\ InUse(work[a].old) =>
         ListsIn(work[a].new) = ListsIn(work[a].old)
    /\ work[a].pc = "apply" => work[a].new = lists.refreshed

\* A clean-up knows of every sound version, or of a record of its files.
Seen(a, content) == FilesOf(content) \subseteq Named(work[a].retained) \union FilesOnRecord
ListsSeen(a, content) ==
  content.block # NoFile => \E c \in work[a].retained : c.block = content.block
CleansWhatIsLeft(a) ==
  work[a].pc \in {"clean", "cleanLists"} =>
    /\ \A content \in Fit("file") : Seen(a, content)
    /\ \A content \in Fit("copy") : ListsSeen(a, content)

\* What it is about to remove is nothing that is needed.
Spares(a, files) == files \intersect work[a].doomed = {}
RemovesTheRest(a) ==
  work[a].pc = "remove" =>
    /\ work[a].doomed \subseteq stored
    /\ Spares(a, FilesOnRecord) /\ Spares(a, RawsIn(lists))
    /\ \A flaw \in Flaws : \A content \in Fit(flaw) : Spares(a, Needed(flaw, content))
    /\ \A content \in work[a].retained :
         /\ Spares(a, FilesOf(content))
         /\ content.block # NoFile /\ MergedFile(content.block) \in stored =>
              Spares(a, CopiesOf(content))

ActorInv(a) ==
  HoldsLocks(a) /\ HasFiles(a) /\ KeepsLists(a) /\ CleansWhatIsLeft(a) /\ RemovesTheRest(a)

GeoInv ==
  GeoTypes /\ VersionsAreThere /\ RecordIsThere /\ \A a \in Actors : ActorInv(a)

USE DEF Flaws

---------------------------------------------------------------------------
(* Contents and work.                                                      *)

LEMMA EditedContents ==
  ASSUME NEW c \in ContentType, NEW n \in Copies \union {NoFile}, NEW p \in PathOrNone
  PROVE  /\ WithGeo(c, n) \in ContentType
         /\ WithGeo(c, n).geo = n /\ WithGeo(c, n).block = c.block
         /\ [c EXCEPT !.block = p] \in ContentType
         /\ [c EXCEPT !.block = p].geo = c.geo /\ [c EXCEPT !.block = p].block = p
BY DEF ContentType, WithGeo

LEMMA ReplacedLists ==
  ASSUME NEW c \in ContentType, NEW old \in PathOrNone, NEW new \in PathOrNone
  PROVE  /\ WithLists(c, old, new) \in ContentType
         /\ WithLists(c, old, new).geo = c.geo
         /\ \/ WithLists(c, old, new).block = c.block
            \/ new # NoFile /\ WithLists(c, old, new).block = new
<1>1. /\ [c EXCEPT !.block = new] \in ContentType
      /\ [c EXCEPT !.block = new].geo = c.geo /\ [c EXCEPT !.block = new].block = new
  BY EditedContents, NoFile \in Copies \union {NoFile}
<1>2. CASE new # NoFile /\ c.block = old
  BY <1>1, <1>2 DEF WithLists
<1>3. CASE ~(new # NoFile /\ c.block = old)
  BY <1>3 DEF WithLists
<1> QED
  BY <1>2, <1>3

LEMMA NoneAtRest == NoLists \in ListsType /\ Rest \in WorkType /\ Rest.doomed = {}
<1>1. NoLists \in ListsType
  BY DEF NoLists, ListsType, PathOrNone
<1> QED
  BY <1>1 DEF Rest, WorkType, Pcs, Kinds, PathOrNone

\* One actor's work changes.
LEMMA OneWorks ==
  ASSUME work \in [Actors -> WorkType], NEW a \in Actors, NEW w \in WorkType,
         work' = [work EXCEPT ![a] = w]
  PROVE  /\ work' \in [Actors -> WorkType] /\ work'[a] = w
         /\ \A b \in Actors \ {a} : work'[b] = work[b]
OBVIOUS

LEMMA FilesAreFiles ==
  ASSUME NEW n \in Copies, NEW s \in Lists \X Copies, NEW p \in SUBSET (Lists \X Copies)
  PROVE  GeoFile(n) \in Files /\ RawFile(s) \in Files /\ MergedFile(p) \in Files
BY DEF Files

LEMMA FilesHaveKinds == \A f \in Files : f.kind \in {"geo", "raw", "merged"}
BY DEF Files, GeoFile, RawFile, MergedFile

---------------------------------------------------------------------------
(* The versions.                                                           *)

\* The newest versions of a longer history are versions of it, and end as it does.
LEMMA NewestOf ==
  ASSUME NEW S, NEW s \in Seq(S), NEW n \in Nat \ {0}, Len(s) > 0
  PROVE  LET kept == SubSeq(s, IF Len(s) > n THEN Len(s) - n + 1 ELSE 1, Len(s))
         IN  /\ kept \in Seq(S) /\ Len(kept) \in 1 .. n
             /\ ToSet(kept) \subseteq ToSet(s)
<1> DEFINE m == IF Len(s) > n THEN Len(s) - n + 1 ELSE 1
           kept == SubSeq(s, m, Len(s))
<1>1. Len(s) \in Nat /\ m \in 1 .. Len(s) /\ m \in Int /\ Len(s) \in Int /\ Len(s) - m + 1 \in 1 .. n
  BY LenProperties
<1>2. \A i \in m .. Len(s) : s[i] \in S
  BY <1>1, ElementOfSeq
<1> HIDE DEF m
<1>3. /\ kept \in Seq(S) /\ Len(kept) = Len(s) - m + 1
      /\ \A i \in 1 .. Len(s) - m + 1 : kept[i] = s[m + i - 1]
  BY <1>1, <1>2, SubSeqProperties
<1>4. DOMAIN kept = 1 .. (Len(s) - m + 1) /\ DOMAIN s = 1 .. Len(s)
  BY <1>3, LenProperties
<1>5. ToSet(kept) \subseteq ToSet(s)
  <2> SUFFICES ASSUME NEW i \in DOMAIN kept PROVE kept[i] \in ToSet(s)
    BY DEF ToSet
  <2>1. m + i - 1 \in DOMAIN s /\ kept[i] = s[m + i - 1]
    BY <1>1, <1>3, <1>4
  <2> QED
    BY <2>1 DEF ToSet
<1> QED
  BY <1>1, <1>3, <1>5 DEF m

LEMMA JoinedSets ==
  ASSUME NEW S, NEW s \in Seq(S), NEW t \in Seq(S)
  PROVE  s \o t \in Seq(S) /\ Len(s \o t) = Len(s) + Len(t)
         /\ ToSet(s \o t) \subseteq ToSet(s) \union ToSet(t)
<1>1. /\ s \o t \in Seq(S) /\ Len(s \o t) = Len(s) + Len(t)
      /\ Len(s) \in Nat /\ Len(t) \in Nat
      /\ DOMAIN s = 1 .. Len(s) /\ DOMAIN t = 1 .. Len(t)
      /\ DOMAIN (s \o t) = 1 .. (Len(s) + Len(t))
      /\ \A i \in 1 .. (Len(s) + Len(t)) :
           (s \o t)[i] = IF i <= Len(s) THEN s[i] ELSE t[i - Len(s)]
  BY ConcatProperties, LenProperties
<1> DEFINE st == s \o t
<1> HIDE DEF st
<1>2. ASSUME NEW i \in DOMAIN st PROVE st[i] \in ToSet(s) \union ToSet(t)
  <2>1. CASE i <= Len(s)
    <3>1. i \in DOMAIN s /\ st[i] = s[i]
      BY <1>1, <1>2, <2>1 DEF st
    <3> QED
      BY <3>1 DEF ToSet
  <2>2. CASE ~(i <= Len(s))
    <3>1. i - Len(s) \in DOMAIN t /\ st[i] = t[i - Len(s)]
      BY <1>1, <1>2, <2>2 DEF st
    <3> QED
      BY <3>1 DEF ToSet
  <2> QED
    BY <2>1, <2>2
<1> QED
  BY <1>1, <1>2 DEF st, ToSet

LEMMA SingletonSeq ==
  ASSUME NEW S, NEW x \in S PROVE <<x>> \in Seq(S) /\ ToSet(<<x>>) = {x}
<1>1. DOMAIN <<x>> = {1} /\ <<x>>[1] = x
  OBVIOUS
<1> QED
  BY <1>1 DEF ToSet

LEMMA PairSeq ==
  ASSUME NEW x, NEW y PROVE ToSet(<<x, y>>) = {x, y}
<1>1. DOMAIN <<x, y>> = {1, 2} /\ <<x, y>>[1] = x /\ <<x, y>>[2] = y
  OBVIOUS
<1> QED
  BY <1>1 DEF ToSet

\* Contents are stored: the retained ones are those and retained ones, and fit is what was
\* fit, or is new and was stored without the flaw.
LEMMA Stored ==
  ASSUME ConfigTypes, NEW contents \in Seq(ContentType), NEW flaws \in SUBSET Flaws,
         NEW new, new = ToSet(contents),
         Store(contents, flaws), formal' \in Retained \union new, draft' \in ContentType,
         waiting' \in BOOLEAN
  PROVE  /\ ConfigTypes' /\ Retained' \subseteq Retained \union new
         /\ \A flaw \in Flaws : Fit(flaw)' \subseteq
              Fit(flaw) \union (IF flaw \in flaws THEN {} ELSE new \ Retained)
         /\ exposed["file"] \subseteq exposed["copy"] /\ ("file" \in flaws => "copy" \in flaws)
              => exposed'["file"] \subseteq exposed'["copy"]
<1> DEFINE all == versions \o contents
<1> USE GeoAssumption DEF GeoAssumption
<1>1. /\ all \in Seq(ContentType) /\ Len(all) > 0
      /\ ToSet(all) \subseteq ToSet(versions) \union new
  <2>1. Len(versions) > 0 /\ Len(contents) \in Nat /\ Len(versions) \in Nat
    BY LenProperties DEF ConfigTypes
  <2> QED
    BY <2>1, JoinedSets DEF ConfigTypes
<1>2. /\ versions' \in Seq(ContentType) /\ Len(versions') \in 1 .. KeptVersions
      /\ ToSet(versions') \subseteq ToSet(versions) \union new
  <2> HIDE DEF all
  <2>1. versions' = SubSeq(all, IF Len(all) > KeptVersions THEN Len(all) - KeptVersions + 1
                                                        ELSE 1, Len(all))
    BY DEF Store, all
  <2> DEFINE kept == SubSeq(all, IF Len(all) > KeptVersions THEN Len(all) - KeptVersions + 1
                                                        ELSE 1, Len(all))
  <2>2. kept \in Seq(ContentType) /\ Len(kept) \in 1 .. KeptVersions /\ ToSet(kept) \subseteq ToSet(all)
    BY <1>1, NewestOf
  <2> HIDE DEF kept
  <2>3. versions' = kept
    BY <2>1 DEF kept
  <2> QED
    BY <1>1, <2>2, <2>3
<1>3. Retained' \subseteq Retained \union new
  BY <1>2 DEF Retained
<1>4. Retained \union new \subseteq ContentType
  <2>1. ToSet(versions) \subseteq ContentType /\ new \subseteq ContentType
    BY ElementOfSeq, LenProperties DEF ToSet, ConfigTypes
  <2> QED
    BY <2>1 DEF Retained, ConfigTypes
<1>5. exposed' = [flaw \in Flaws |->
        (exposed[flaw] \union (IF flaw \in flaws THEN new ELSE {})) \intersect Retained']
  BY DEF Store, Retained
<1>6. ConfigTypes'
  BY <1>2, <1>4, <1>5 DEF ConfigTypes
<1>7. \A flaw \in Flaws : Fit(flaw)' \subseteq
        Fit(flaw) \union (IF flaw \in flaws THEN {} ELSE new \ Retained)
  BY <1>3, <1>5 DEF Fit
<1> QED
  BY <1>3, <1>5, <1>6, <1>7

---------------------------------------------------------------------------
(* What a step leaves alone.                                               *)

\* Another actor's step is nothing to one whose locks, files and versions stay.
Undisturbed(b) ==
  /\ work'[b] = work[b]
  /\ syncLock = b => syncLock' = b /\ manifest' = manifest
  /\ listLock = b => listLock' = b /\ lists' = lists
  /\ b = Task => lists'.refreshed = lists.refreshed
  /\ syncLock = b \/ listLock = b => stored \subseteq stored'
  /\ syncLock = b /\ listLock = b => stored' = stored
  /\ \A flaw \in Flaws : Fit(flaw)' \subseteq Fit(flaw)
  /\ work[b].pc \in {"clean", "cleanLists"} =>
       (FilesOnRecord \subseteq FilesOnRecord') \/ (Fit("file")' \subseteq work[b].retained)

LEMMA OthersKeepLocks ==
  ASSUME NEW b \in Actors, Undisturbed(b), HoldsLocks(b) PROVE HoldsLocks(b)'
BY DEF Undisturbed, HoldsLocks

LEMMA OthersKeepFiles ==
  ASSUME NEW b \in Actors, Undisturbed(b), HoldsLocks(b), HasFiles(b) PROVE HasFiles(b)'
<1>1. CASE work[b].pc = "manifest"
  BY <1>1 DEF Undisturbed, HoldsLocks, HasFiles
<1>2. CASE work[b].pc \in {"fetch", "merge", "record"}
  <2>1. stored \subseteq stored' /\ lists' = lists /\ work'[b] = work[b]
    BY <1>2 DEF Undisturbed, HoldsLocks
  <2> QED
    BY <1>2, <2>1 DEF HasFiles, RawsIn
<1>3. CASE work[b].pc \notin {"manifest", "fetch", "merge", "record"}
  BY <1>3 DEF Undisturbed, HasFiles
<1> QED
  BY <1>1, <1>2, <1>3

LEMMA OthersKeepLists ==
  ASSUME NEW b \in Actors, Undisturbed(b), HoldsLocks(b), KeepsLists(b) PROVE KeepsLists(b)'
<1> SUFFICES ASSUME work[b].kind = "refresh" PROVE KeepsLists(b)'
  BY DEF KeepsLists, Undisturbed
<1>1. work'[b] = work[b] /\ lists'.refreshed = lists.refreshed
  BY DEF HoldsLocks, Undisturbed
<1>2. \A path : InUse(path)' => InUse(path)
  BY DEF Undisturbed, InUse
<1> QED
  BY <1>1, <1>2 DEF KeepsLists

LEMMA OthersCleanWhatIsLeft ==
  ASSUME NEW b \in Actors, Undisturbed(b), CleansWhatIsLeft(b) PROVE CleansWhatIsLeft(b)'
<1> SUFFICES ASSUME work[b].pc \in {"clean", "cleanLists"} PROVE CleansWhatIsLeft(b)'
  BY DEF CleansWhatIsLeft, Undisturbed
<1>1. work'[b] = work[b] /\ \A flaw \in Flaws : Fit(flaw)' \subseteq Fit(flaw)
  BY DEF Undisturbed
<1>2. ASSUME NEW content \in Fit("file")' PROVE Seen(b, content)'
  <2>1. Seen(b, content)
    BY <1>1, <1>2 DEF CleansWhatIsLeft
  <2>2. CASE FilesOnRecord \subseteq FilesOnRecord'
    BY <1>1, <2>1, <2>2 DEF Seen
  <2>3. CASE content \in work[b].retained
    BY <1>1, <2>3 DEF Seen, Named
  <2> QED
    BY <1>2, <2>2, <2>3 DEF Undisturbed
<1>3. ASSUME NEW content \in Fit("copy")' PROVE ListsSeen(b, content)'
  BY <1>1, <1>3 DEF CleansWhatIsLeft, ListsSeen
<1> QED
  BY <1>1, <1>2, <1>3 DEF CleansWhatIsLeft

LEMMA OthersRemoveTheRest ==
  ASSUME NEW b \in Actors, Undisturbed(b), HoldsLocks(b), RemovesTheRest(b)
  PROVE  RemovesTheRest(b)'
<1> SUFFICES ASSUME work[b].pc = "remove" PROVE RemovesTheRest(b)'
  BY DEF RemovesTheRest, Undisturbed
<1>1. /\ work'[b] = work[b] /\ stored' = stored /\ manifest' = manifest /\ lists' = lists
      /\ \A flaw \in Flaws : Fit(flaw)' \subseteq Fit(flaw)
  BY DEF HoldsLocks, Undisturbed
<1>2. FilesOnRecord' = FilesOnRecord /\ RawsIn(lists)' = RawsIn(lists)
  BY <1>1 DEF FilesOnRecord, RawsIn
<1>3. \A files : Spares(b, files)' <=> Spares(b, files)
  BY <1>1 DEF Spares
<1> QED
  BY <1>1, <1>2, <1>3 DEF RemovesTheRest, Spares

LEMMA OthersKeep ==
  ASSUME NEW b \in Actors, Undisturbed(b), ActorInv(b) PROVE ActorInv(b)'
BY OthersKeepLocks, OthersKeepFiles, OthersKeepLists, OthersCleanWhatIsLeft, OthersRemoveTheRest
   DEF ActorInv

\* An actor's step that disturbs nobody else.
LEMMA ActorSteps ==
  ASSUME GeoInv, NEW a \in Actors, NEW w \in WorkType, work' = [work EXCEPT ![a] = w],
         FileTypes', ConfigTypes', VersionsAreThere', RecordIsThere',
         \A b \in Actors \ {a} : Undisturbed(b), ActorInv(a)'
  PROVE  GeoInv'
<1>1. work' \in [Actors -> WorkType]
  BY DEF GeoInv, GeoTypes
<1>2. ASSUME NEW b \in Actors \ {a} PROVE ActorInv(b)'
  BY <1>2, OthersKeep DEF GeoInv
<1> QED
  BY <1>1, <1>2 DEF GeoInv, GeoTypes

\* The configuration and its history stay.
LEMMA Unwritten ==
  ASSUME UNCHANGED <<geoConfig, exposed>>
  PROVE  /\ Retained' = Retained /\ \A flaw \in Flaws : Fit(flaw)' = Fit(flaw)
         /\ ConfigTypes /\ draft' \in ContentType => ConfigTypes'
<1>1. Retained' = Retained
  BY DEF geoConfig, Retained
<1> QED
  BY <1>1 DEF geoConfig, Fit, ConfigTypes

\* A step that only takes or gives back locks, and changes what its actor is at.
LEMMA QuietSteps ==
  ASSUME GeoInv, NEW a \in Actors, NEW w \in WorkType, work' = [work EXCEPT ![a] = w],
         UNCHANGED <<stored, manifest, lists, geoConfig, exposed, published>>,
         draft' \in ContentType, seedMarker' \in BOOLEAN, geoEvents' \in 0 .. MaxGeoEvents,
         syncLock' = syncLock \/ (syncLock = Free /\ syncLock' = a) \/ (syncLock = a /\ syncLock' = Free),
         listLock' = listLock \/ (listLock = Free /\ listLock' = a) \/ (listLock = a /\ listLock' = Free),
         ActorInv(a)'
  PROVE  GeoInv'
<1> USE GeoAssumption DEF GeoAssumption
<1>1. FileTypes'
  BY DEF GeoInv, GeoTypes, FileTypes
<1>2. /\ ConfigTypes' /\ \A flaw \in Flaws : Fit(flaw)' = Fit(flaw)
  BY Unwritten DEF GeoInv, GeoTypes
<1>3. VersionsAreThere'
  BY <1>2 DEF GeoInv, VersionsAreThere
<1>4. FilesOnRecord' = FilesOnRecord /\ RawsIn(lists)' = RawsIn(lists)
  BY DEF FilesOnRecord, RawsIn
<1>5. RecordIsThere'
  BY <1>4 DEF GeoInv, RecordIsThere
<1>6. ASSUME NEW b \in Actors \ {a} PROVE Undisturbed(b)
  <2>1. work'[b] = work[b]
    BY DEF GeoInv, GeoTypes
  <2> QED
    BY <1>2, <1>4, <2>1 DEF Undisturbed, Actors
<1> QED
  BY <1>1, <1>2, <1>3, <1>5, <1>6, ActorSteps

---------------------------------------------------------------------------
(* The steps that only begin or end something.                             *)

LEMMA Begun ==
  ASSUME geoEvents < MaxGeoEvents, geoEvents' = geoEvents + 1, FileTypes
  PROVE  geoEvents' \in 0 .. MaxGeoEvents
BY GeoAssumption DEF GeoAssumption, FileTypes

LEMMA AtWork ==
  ASSUME GeoInv, NEW a \in Actors
  PROVE  work[a] \in WorkType /\ ActorInv(a)
BY DEF GeoInv, GeoTypes

\* At work on Geo data, or at rest.
LEMMA SimpleWork ==
  ASSUME NEW a \in Actors, work'[a].pc \in {"idle", "download", "apply"},
         work'[a].kind # "refresh", work'[a].doomed = {},
         work'[a].pc = "download" => syncLock' = a,
         work'[a].pc = "apply" => a = Task /\ work'[a].copy \in Copies
  PROVE  ActorInv(a)'
BY DEF ActorInv, HoldsLocks, HasFiles, KeepsLists, CleansWhatIsLeft, RemovesTheRest

LEMMA RestsWell == ASSUME NEW a \in Actors, work'[a] = Rest PROVE ActorInv(a)'
BY SimpleWork DEF Rest

\* A request or run that begins with a download.
LEMMA DownloadBegins ==
  ASSUME GeoInv, NEW a \in Actors, NEW kind \in {"geo", "import", "seed"},
         Begin(a, [Rest EXCEPT !.pc = "download", !.kind = kind]), TakeSyncLock(a),
         UNCHANGED <<stored, manifest, lists, geoConfig, draft, published, listLock, seedMarker,
                     exposed>>
  PROVE  GeoInv'
<1> DEFINE w == [Rest EXCEPT !.pc = "download", !.kind = kind]
<1>1. /\ w \in WorkType /\ w.pc = "download" /\ w.kind # "refresh" /\ w.doomed = {}
  BY NoneAtRest DEF WorkType, Pcs, Kinds
<1> HIDE DEF w
<1>2. work' = [work EXCEPT ![a] = w] /\ syncLock = Free /\ syncLock' = a
  BY DEF Begin, TakeSyncLock, w
<1>3. work'[a] = w
  BY <1>1, <1>2, OneWorks DEF GeoInv, GeoTypes
<1>4. ActorInv(a)'
  BY <1>1, <1>2, <1>3, SimpleWork
<1>5. /\ draft' \in ContentType /\ seedMarker' \in BOOLEAN
      /\ geoEvents' \in 0 .. MaxGeoEvents
  BY Begun DEF GeoInv, GeoTypes, FileTypes, ConfigTypes, Begin, Event
<1> QED
  BY <1>1, <1>2, <1>4, <1>5, QuietSteps

LEMMA SyncsGeoData == ASSUME GeoInv, NEW p \in Pages, SyncGeoData(p) PROVE GeoInv'
BY DownloadBegins DEF SyncGeoData, Actors

LEMMA UpdatesGeoData == ASSUME GeoInv, ScheduledGeoUpdate PROVE GeoInv'
BY DownloadBegins DEF ScheduledGeoUpdate, Actors

LEMMA ImportsBuiltin == ASSUME GeoInv, NEW p \in Pages, ImportBuiltin(p) PROVE GeoInv'
BY DownloadBegins DEF ImportBuiltin, Actors

LEMMA SeedsBuiltin == ASSUME GeoInv, SeedBuiltin PROVE GeoInv'
<1> USE DEF SeedBuiltin
<1>1. CASE /\ TakeSyncLock(Task) /\ Begin(Task, [Rest EXCEPT !.pc = "download", !.kind = "seed"])
           /\ UNCHANGED seedMarker
  BY <1>1, DownloadBegins DEF Actors
<1>2. CASE /\ UNCHANGED <<syncLock, seedMarker>>
           /\ Begin(Task, [Rest EXCEPT !.pc = "apply", !.kind = "seed", !.copy = 0])
  <2> DEFINE w == [Rest EXCEPT !.pc = "apply", !.kind = "seed", !.copy = 0]
  <2>1. 0 \in Copies
    BY GeoAssumption DEF GeoAssumption, Copies
  <2>2. /\ w \in WorkType /\ w.pc = "apply" /\ w.kind # "refresh" /\ w.doomed = {}
        /\ w.copy \in Copies
    BY <2>1, NoneAtRest DEF WorkType, Pcs, Kinds
  <2> HIDE DEF w
  <2>3. work' = [work EXCEPT ![Task] = w] /\ Task \in Actors
    BY <1>2 DEF Begin, w, Actors
  <2>4. ActorInv(Task)'
    BY <2>2, <2>3, SimpleWork, OneWorks DEF GeoInv, GeoTypes
  <2>5. /\ draft' \in ContentType /\ seedMarker' \in BOOLEAN
        /\ geoEvents' \in 0 .. MaxGeoEvents
    BY <1>2, Begun DEF GeoInv, GeoTypes, FileTypes, ConfigTypes, Begin, Event
  <2> QED
    BY <1>2, <2>2, <2>3, <2>4, <2>5, QuietSteps
<1>3. CASE Begin(Task, Rest) /\ seedMarker' = FALSE /\ UNCHANGED syncLock
  <2>1. work' = [work EXCEPT ![Task] = Rest] /\ Task \in Actors
    BY <1>3 DEF Begin, Actors
  <2>2. ActorInv(Task)'
    BY <2>1, NoneAtRest, RestsWell, OneWorks DEF GeoInv, GeoTypes
  <2>3. /\ draft' \in ContentType /\ seedMarker' \in BOOLEAN
        /\ geoEvents' \in 0 .. MaxGeoEvents
    BY <1>3, Begun DEF GeoInv, GeoTypes, FileTypes, ConfigTypes, Begin, Event
  <2> QED
    BY <1>3, <2>1, <2>2, <2>3, NoneAtRest, QuietSteps
<1> QED
  BY <1>1, <1>2, <1>3

\* A build begins with the state as it is.
LEMMA BuildsBlocklists == ASSUME GeoInv, NEW p \in Pages, BuildBlocklists(p) PROVE GeoInv'
<1>1. PICK subs \in SUBSET Lists, on \in SUBSET Lists, named \in SUBSET Lists :
        Begin(p, [Rest EXCEPT !.pc = "fetch", !.kind = "build", !.subs = subs, !.on = on,
                              !.named = named, !.state = lists])
  BY DEF BuildBlocklists
<1> DEFINE w == [Rest EXCEPT !.pc = "fetch", !.kind = "build", !.subs = subs, !.on = on,
                             !.named = named, !.state = lists]
<1>2. /\ w \in WorkType /\ w.pc = "fetch" /\ w.kind = "build" /\ w.doomed = {} /\ w.state = lists
  BY NoneAtRest DEF WorkType, Pcs, Kinds, GeoInv, GeoTypes, FileTypes
<1> HIDE DEF w
<1>3. work' = [work EXCEPT ![p] = w] /\ listLock = Free /\ listLock' = p /\ p \in Actors
  BY <1>1 DEF Begin, BuildBlocklists, TakeListLock, w, Actors
<1>4. work'[p] = w
  BY <1>2, <1>3, OneWorks DEF GeoInv, GeoTypes
<1>5. ActorInv(p)'
  <2>1. p # Task
    BY GeoAssumption DEF GeoAssumption
  <2>2. HoldsLocks(p)'
    BY <1>2, <1>3, <1>4, <2>1 DEF HoldsLocks
  <2>3. lists' = lists /\ stored' = stored /\ RawsIn(lists) \subseteq stored
    BY DEF BuildBlocklists, GeoInv, RecordIsThere
  <2>4. HasFiles(p)'
    BY <1>2, <1>4, <2>3 DEF HasFiles, RawsIn
  <2> QED
    BY <1>2, <1>4, <2>2, <2>4 DEF ActorInv, KeepsLists, CleansWhatIsLeft, RemovesTheRest
<1>6. /\ draft' \in ContentType /\ seedMarker' \in BOOLEAN
      /\ geoEvents' \in 0 .. MaxGeoEvents
  BY <1>1, Begun DEF BuildBlocklists, GeoInv, GeoTypes, FileTypes, ConfigTypes, Begin, Event
<1>7. UNCHANGED <<stored, manifest, lists, geoConfig, exposed, published, syncLock>>
  BY DEF BuildBlocklists
<1> QED
  BY <1>2, <1>3, <1>5, <1>6, <1>7, QuietSteps

\* The base of a write is a retained content.
LEMMA BaseIsRetained ==
  ASSUME ConfigTypes, NEW up \in BOOLEAN
  PROVE  SystemBase(up) \in Retained /\ SystemBase(up) \in ContentType
<1>1. Len(versions) \in DOMAIN versions /\ versions[Len(versions)] \in ContentType
  BY LenProperties, ElementOfSeq DEF ConfigTypes
<1> QED
  BY <1>1 DEF SystemBase, Last, Retained, ToSet, ConfigTypes

LEMMA RefreshBegins == ASSUME GeoInv, ScheduledRefresh PROVE GeoInv'
<1>1. PICK up \in BOOLEAN :
        /\ SystemBase(up).block # NoFile
        /\ Begin(Task, [Rest EXCEPT !.pc = "recall", !.kind = "refresh",
                                    !.old = SystemBase(up).block])
  BY DEF ScheduledRefresh
<1> DEFINE old == SystemBase(up).block
           w == [Rest EXCEPT !.pc = "recall", !.kind = "refresh", !.old = old]
<1>2. old \in PathOrNone
  BY BaseIsRetained DEF GeoInv, GeoTypes, ContentType
<1>3. /\ w \in WorkType /\ w.pc = "recall" /\ w.kind = "refresh" /\ w.doomed = {} /\ w.old = old
  <2> HIDE DEF old
  <2> QED
    BY <1>2, NoneAtRest DEF WorkType, Pcs, Kinds
<1>4. w.old # NoFile
  BY <1>1, <1>3
<1>5. work' = [work EXCEPT ![Task] = w] /\ Task \in Actors
  BY <1>1 DEF Begin, Actors
<1> HIDE DEF w
<1>6. work'[Task] = w
  BY <1>3, <1>5, OneWorks DEF GeoInv, GeoTypes
<1>7. ActorInv(Task)'
  BY <1>3, <1>4, <1>6
     DEF ActorInv, HoldsLocks, HasFiles, KeepsLists, CleansWhatIsLeft, RemovesTheRest
<1>8. /\ draft' \in ContentType /\ seedMarker' \in BOOLEAN
      /\ geoEvents' \in 0 .. MaxGeoEvents
  BY <1>1, Begun DEF ScheduledRefresh, GeoInv, GeoTypes, FileTypes, ConfigTypes, Begin, Event
<1>9. UNCHANGED <<stored, manifest, lists, geoConfig, exposed, published, syncLock, listLock>>
  BY DEF ScheduledRefresh
<1> QED
  BY <1>3, <1>5, <1>7, <1>8, <1>9, QuietSteps

LEMMA RetainedAreContents == ASSUME ConfigTypes PROVE Retained \subseteq ContentType
<1>1. ToSet(versions) \subseteq ContentType
  BY ElementOfSeq, LenProperties DEF ToSet, ConfigTypes
<1> QED
  BY <1>1 DEF Retained, ConfigTypes

\* What is recalled is there, and it is a copy of each list of a file whose copies are there.
LEMMA Recalls ==
  ASSUME NEW state \in ListsType, NEW old \in PathOrNone, RawsIn(state) \subseteq stored
  PROVE  LET recalled == Recalled(state, old)
         IN  /\ recalled \in ListsType
             /\ recalled.built = state.built /\ recalled.refreshed = state.refreshed
             /\ RawsIn(recalled) \subseteq stored
             /\ old # NoFile /\ (\A s \in old : RawFile(s) \in stored) =>
                  \A l \in ListsIn(old) : recalled.sources[l] \in Copies
<1> DEFINE held(l) == {n \in Copies : <<l, n>> \in old /\ RawFile(<<l, n>>) \in stored}
           sources == [l \in Lists |-> IF state.sources[l] \in Copies THEN state.sources[l]
                         ELSE IF held(l) = {} THEN state.sources[l]
                         ELSE CHOOSE n \in held(l) : TRUE]
           recalled == Recalled(state, old)
<1>1. ASSUME NEW l \in Lists
      PROVE  /\ sources[l] \in Copies \union {NoFile, Untried}
             /\ sources[l] \in Copies => RawFile(<<l, sources[l]>>) \in stored
             /\ held(l) # {} => sources[l] \in Copies
  <2>1. state.sources[l] \in Copies \union {NoFile, Untried}
    BY DEF ListsType
  <2>2. CASE state.sources[l] \in Copies
    BY <2>1, <2>2 DEF RawsIn
  <2>3. CASE state.sources[l] \notin Copies /\ held(l) # {}
    BY <2>3
  <2>4. CASE state.sources[l] \notin Copies /\ held(l) = {}
    BY <2>1, <2>4
  <2> QED
    BY <2>2, <2>3, <2>4
<1>2. recalled = [state EXCEPT !.sources = sources]
  BY DEF Recalled
<1>3. sources \in [Lists -> Copies \union {NoFile, Untried}]
  BY <1>1
<1> HIDE DEF sources, recalled, held
<1>4. /\ recalled \in ListsType /\ recalled.sources = sources
      /\ recalled.built = state.built /\ recalled.refreshed = state.refreshed
  BY <1>2, <1>3 DEF ListsType
<1>5. RawsIn(recalled) \subseteq stored
  BY <1>1, <1>4 DEF RawsIn
<1>6. ASSUME old # NoFile, \A s \in old : RawFile(s) \in stored, NEW l \in ListsIn(old)
      PROVE  recalled.sources[l] \in Copies
  <2>1. PICK s \in old : l = s[1]
    BY <1>6 DEF ListsIn
  <2>2. s \in Lists \X Copies
    BY <1>6 DEF PathOrNone
  <2>3. s = <<l, s[2]>> /\ s[2] \in Copies /\ l \in Lists
    BY <2>1, <2>2
  <2>4. s[2] \in held(l)
    BY <1>6, <2>3 DEF held
  <2> QED
    BY <1>1, <1>4, <2>3, <2>4
<1> QED
  BY <1>4, <1>5, <1>6 DEF recalled

LEMMA RecallsSources == ASSUME GeoInv, RecallSources PROVE GeoInv'
<1> DEFINE old == work[Task].old
           state == Recalled(lists, old)
           w == [work[Task] EXCEPT !.pc = "fetch", !.subs = ListsIn(old), !.on = ListsIn(old),
                                   !.named = ListsIn(old), !.state = state]
<1>1. Task \in Actors /\ work[Task] \in WorkType /\ ActorInv(Task) /\ work[Task].pc = "recall"
  BY AtWork DEF Actors, RecallSources
<1>2. work[Task].kind = "refresh" /\ old # NoFile /\ old \in PathOrNone /\ work[Task].doomed = {}
  BY <1>1 DEF ActorInv, HoldsLocks, KeepsLists, WorkType
<1>3. lists \in ListsType /\ RawsIn(lists) \subseteq stored
  BY DEF GeoInv, GeoTypes, FileTypes, RecordIsThere
<1>4. /\ state \in ListsType /\ state.built = lists.built /\ state.refreshed = lists.refreshed
      /\ RawsIn(state) \subseteq stored
      /\ (\A s \in old : RawFile(s) \in stored) =>
           \A l \in ListsIn(old) : state.sources[l] \in Copies
  BY <1>2, <1>3, Recalls
<1>5. ListsIn(old) \subseteq Lists
  BY <1>2 DEF ListsIn, PathOrNone
<1> HIDE DEF state
<1>6. /\ w \in WorkType /\ w.pc = "fetch" /\ w.kind = "refresh" /\ w.doomed = {}
      /\ w.state = state /\ w.old = old /\ w.on = ListsIn(old)
  BY <1>1, <1>2, <1>4, <1>5 DEF WorkType, Pcs
<1> HIDE DEF w, old
<1>7. work' = [work EXCEPT ![Task] = w] /\ listLock = Free /\ listLock' = Task
      /\ UNCHANGED geoEvents
  BY DEF RecallSources, Go, TakeListLock, w, state, old
<1>8. work'[Task] = w
  BY <1>1, <1>6, <1>7, OneWorks DEF GeoInv, GeoTypes
<1>9. UNCHANGED <<stored, manifest, lists, geoConfig, exposed, published, syncLock, draft,
                  seedMarker>>
  BY DEF RecallSources
<1>10. InUse(old) => \A l \in ListsIn(old) : state.sources[l] \in Copies
  <2> SUFFICES ASSUME InUse(old) PROVE \A s \in old : RawFile(s) \in stored
    BY <1>4
  <2>1. PICK c \in Fit("copy") : c.block = old
    BY DEF InUse
  <2>2. CopiesOf(c) \subseteq stored
    BY DEF GeoInv, VersionsAreThere, Needed
  <2> QED
    BY <1>2, <2>1, <2>2 DEF CopiesOf
<1>11. ActorInv(Task)'
  <2>1. HoldsLocks(Task)'
    BY <1>6, <1>7, <1>8 DEF HoldsLocks
  <2>2. HasFiles(Task)'
    BY <1>4, <1>6, <1>8, <1>9 DEF HasFiles, RawsIn
  <2>3. KeepsLists(Task)'
    <3>1. Fit("copy")' = Fit("copy")
      BY <1>9, Unwritten
    <3> QED
      BY <1>2, <1>6, <1>8, <1>10, <3>1 DEF KeepsLists, InUse
  <2> QED
    BY <1>6, <1>8, <2>1, <2>2, <2>3 DEF ActorInv, CleansWhatIsLeft, RemovesTheRest
<1>12. /\ draft' \in ContentType /\ seedMarker' \in BOOLEAN
       /\ geoEvents' \in 0 .. MaxGeoEvents
  BY <1>7, <1>9 DEF GeoInv, GeoTypes, FileTypes, ConfigTypes
<1> QED
  BY <1>1, <1>6, <1>7, <1>9, <1>11, <1>12, QuietSteps

\* A clean-up that has just read the retained versions knows of every sound one.
LEMMA CleanUpBegins ==
  ASSUME NEW a \in Actors, work'[a].pc = "clean", work'[a].retained = Retained',
         work'[a].doomed = {}, work'[a].kind # "refresh"
  PROVE  ActorInv(a)'
<1>1. \A flaw \in Flaws : Fit(flaw)' \subseteq work'[a].retained
  BY DEF Fit
<1>2. CleansWhatIsLeft(a)'
  BY <1>1 DEF CleansWhatIsLeft, Seen, ListsSeen, Named
<1> QED
  BY <1>2 DEF ActorInv, HoldsLocks, HasFiles, KeepsLists, RemovesTheRest

LEMMA CleansUp == ASSUME GeoInv, NEW p \in Pages, CleanUp(p) PROVE GeoInv'
<1> DEFINE w == [Rest EXCEPT !.pc = "clean", !.retained = Retained]
<1>1. Retained \subseteq ContentType /\ p \in Actors
  BY RetainedAreContents DEF GeoInv, GeoTypes, Actors
<1>2. /\ w \in WorkType /\ w.pc = "clean" /\ w.retained = Retained /\ w.doomed = {}
      /\ w.kind # "refresh"
  <2> DEFINE retained == Retained
  <2> HIDE DEF retained
  <2>1. retained \subseteq ContentType
    BY <1>1 DEF retained
  <2>2. LET v == [Rest EXCEPT !.pc = "clean", !.retained = retained]
        IN  v \in WorkType /\ v.pc = "clean" /\ v.retained = retained /\ v.doomed = {}
              /\ v.kind = "none"
    BY <2>1, NoneAtRest DEF WorkType, Pcs, Rest
  <2> QED
    BY <2>2 DEF retained
<1> HIDE DEF w
<1>3. work' = [work EXCEPT ![p] = w] /\ Event
  BY DEF CleanUp, Begin, w
<1>4. work'[p] = w
  BY <1>1, <1>2, <1>3, OneWorks DEF GeoInv, GeoTypes
<1>5. UNCHANGED <<stored, manifest, lists, geoConfig, exposed, published, syncLock, listLock,
                  draft, seedMarker>>
  BY DEF CleanUp
<1>6. ActorInv(p)'
  BY <1>1, <1>2, <1>4, <1>5, Unwritten, CleanUpBegins
<1>7. /\ draft' \in ContentType /\ seedMarker' \in BOOLEAN
      /\ geoEvents' \in 0 .. MaxGeoEvents
  BY <1>3, <1>5, Begun DEF GeoInv, GeoTypes, FileTypes, ConfigTypes, Event
<1> QED
  BY <1>1, <1>2, <1>3, <1>5, <1>6, <1>7, QuietSteps

\* What is found unreferenced is needed by nothing.
LEMMA FindsUnreferenced == ASSUME GeoInv, NEW a \in Actors, FindUnreferenced(a) PROVE GeoInv'
<1> DEFINE retained == work[a].retained
           doomed == stored \ Protected(retained)
           w == [work[a] EXCEPT !.pc = "remove", !.doomed = doomed]
<1>1. work[a] \in WorkType /\ ActorInv(a) /\ work[a].pc = "cleanLists"
  BY AtWork DEF FindUnreferenced
<1>2. listLock = a /\ work[a].kind # "refresh" /\ CleansWhatIsLeft(a)
  BY <1>1 DEF ActorInv, HoldsLocks
<1>3. doomed \subseteq stored /\ doomed \subseteq Files
  BY DEF GeoInv, GeoTypes, FileTypes
<1> HIDE DEF doomed
<1>4. /\ w \in WorkType /\ w.pc = "remove" /\ w.doomed = doomed /\ w.kind = work[a].kind
      /\ w.retained = retained
  BY <1>1, <1>3 DEF WorkType, Pcs
<1> HIDE DEF w
<1>5. work' = [work EXCEPT ![a] = w] /\ syncLock = Free /\ syncLock' = a
      /\ UNCHANGED geoEvents
  BY DEF FindUnreferenced, Go, TakeSyncLock, w, doomed
<1>6. work'[a] = w
  BY <1>4, <1>5, OneWorks DEF GeoInv, GeoTypes
<1>7. UNCHANGED <<stored, manifest, lists, geoConfig, exposed, published, listLock, draft,
                  seedMarker>>
  BY DEF FindUnreferenced
<1>8. FilesOnRecord' = FilesOnRecord /\ RawsIn(lists)' = RawsIn(lists)
      /\ \A flaw \in Flaws : Fit(flaw)' = Fit(flaw)
  BY <1>7, Unwritten DEF FilesOnRecord, RawsIn
<1>9. /\ doomed \intersect Named(retained) = {} /\ doomed \intersect FilesOnRecord = {}
      /\ doomed \intersect RawsIn(lists) = {}
      /\ \A source \in RetainedSources(retained) : RawFile(source) \notin doomed
  <2>1. Protected(retained) = Named(retained) \union FilesOnRecord \union RawsIn(lists)
                                \union {RawFile(source) : source \in RetainedSources(retained)}
    <3>1. Protected(retained) = Named(retained)
            \union FileOf(manifest, GeoFile(manifest))
            \union FileOf(lists.built, MergedFile(lists.built))
            \union FileOf(lists.refreshed, MergedFile(lists.refreshed))
            \union RawsIn(lists)
            \union {RawFile(source) : source \in RetainedSources(retained)}
      BY DEF Protected, Named, RawsIn
    <3> QED
      BY <3>1 DEF FilesOnRecord
  <2> QED
    BY <2>1 DEF doomed
<1>10. \A c \in retained : FilesOf(c) \intersect doomed = {}
  BY <1>9 DEF Named
<1>11. ASSUME NEW c, c.block # NoFile, MergedFile(c.block) \in stored,
              NEW r \in retained, r.block = c.block
       PROVE  CopiesOf(c) \intersect doomed = {}
  BY <1>9, <1>11 DEF CopiesOf, RetainedSources
<1>12. ASSUME NEW c \in Fit("file") PROVE FilesOf(c) \intersect doomed = {}
  <2>1. FilesOf(c) \subseteq Named(retained) \union FilesOnRecord
    BY <1>1, <1>2 DEF CleansWhatIsLeft, Seen
  <2> QED
    BY <1>9, <2>1
<1>13. ASSUME NEW c \in Fit("copy")
       PROVE  FilesOf(c) \intersect doomed = {} /\ CopiesOf(c) \intersect doomed = {}
  <2>1. c \in Fit("file")
    BY DEF GeoInv, VersionsAreThere, Fit
  <2>2. CASE c.block = NoFile
    BY <1>12, <2>1, <2>2 DEF CopiesOf
  <2>3. CASE c.block # NoFile
    <3>1. PICK r \in retained : r.block = c.block
      BY <1>1, <1>2, <2>3 DEF CleansWhatIsLeft, ListsSeen
    <3>2. MergedFile(c.block) \in stored
      BY <2>1, <2>3 DEF GeoInv, VersionsAreThere, Needed, FilesOf, FileOf
    <3> QED
      BY <1>11, <1>12, <2>1, <2>3, <3>1, <3>2
  <2> QED
    BY <2>2, <2>3
<1>14. RemovesTheRest(a)'
  <2>1. \A files : Spares(a, files)' <=> files \intersect doomed = {}
    BY <1>4, <1>6 DEF Spares
  <2>2. \A flaw \in Flaws : \A c \in Fit(flaw) : Needed(flaw, c) \intersect doomed = {}
    BY <1>12, <1>13 DEF Needed
  <2>3. work'[a].doomed \subseteq stored' /\ work'[a].retained = retained
    BY <1>3, <1>4, <1>6, <1>7
  <2>4. \A c \in retained : c.block # NoFile /\ MergedFile(c.block) \in stored =>
          CopiesOf(c) \intersect doomed = {}
    BY <1>11
  <2> QED
    BY <1>4, <1>6, <1>7, <1>8, <1>9, <1>10, <2>1, <2>2, <2>3, <2>4 DEF RemovesTheRest, Spares
<1>15. HoldsLocks(a)'
  BY <1>2, <1>4, <1>5, <1>6, <1>7 DEF HoldsLocks
<1>16. ActorInv(a)'
  BY <1>2, <1>4, <1>6, <1>14, <1>15 DEF ActorInv, HasFiles, KeepsLists, CleansWhatIsLeft
<1>17. /\ draft' \in ContentType /\ seedMarker' \in BOOLEAN
       /\ geoEvents' \in 0 .. MaxGeoEvents
  BY <1>5, <1>7 DEF GeoInv, GeoTypes, FileTypes, ConfigTypes
<1> QED
  BY <1>4, <1>5, <1>7, <1>16, <1>17, QuietSteps

LEMMA EndsCleanup == ASSUME GeoInv, NEW a \in Actors, EndCleanup(a) PROVE GeoInv'
<1>1. work[a].pc = "remove" /\ ActorInv(a)
  BY AtWork DEF EndCleanup
<1>2. syncLock = a /\ listLock = a
  BY <1>1 DEF ActorInv, HoldsLocks
<1>3. work' = [work EXCEPT ![a] = Rest] /\ syncLock' = Free /\ listLock' = Free
      /\ UNCHANGED <<stored, manifest, lists, geoConfig, draft, published, seedMarker, exposed,
                     geoEvents>>
  BY DEF EndCleanup, Ends, Go
<1>4. ActorInv(a)'
  BY <1>3, NoneAtRest, RestsWell, OneWorks DEF GeoInv, GeoTypes
<1>5. /\ draft' \in ContentType /\ seedMarker' \in BOOLEAN
      /\ geoEvents' \in 0 .. MaxGeoEvents
  BY <1>3 DEF GeoInv, GeoTypes, FileTypes, ConfigTypes
<1> QED
  BY <1>2, <1>3, <1>4, <1>5, NoneAtRest, QuietSteps

---------------------------------------------------------------------------
(* The steps that add files.                                               *)

\* Whoever adds files holds a lock that a clean-up needs.
LEMMA GrowingSteps ==
  ASSUME GeoInv, NEW a \in Actors, NEW w \in WorkType, work' = [work EXCEPT ![a] = w],
         UNCHANGED <<manifest, lists, geoConfig, exposed, published, draft, seedMarker, geoEvents>>,
         stored \subseteq stored', stored' \subseteq Files, syncLock = a \/ listLock = a,
         syncLock' = syncLock \/ (syncLock = a /\ syncLock' = Free),
         listLock' = listLock \/ (listLock = a /\ listLock' = Free),
         ActorInv(a)'
  PROVE  GeoInv'
<1> USE GeoAssumption DEF GeoAssumption
<1>1. FileTypes'
  BY DEF GeoInv, GeoTypes, FileTypes
<1>2. /\ ConfigTypes' /\ \A flaw \in Flaws : Fit(flaw)' = Fit(flaw)
  BY Unwritten DEF GeoInv, GeoTypes, ConfigTypes
<1>3. VersionsAreThere'
  <2>1. \A flaw \in Flaws : \A c : Needed(flaw, c)' = Needed(flaw, c)
    BY DEF Needed
  <2> QED
    BY <1>2, <2>1 DEF GeoInv, VersionsAreThere
<1>4. FilesOnRecord' = FilesOnRecord /\ RawsIn(lists)' = RawsIn(lists)
  BY DEF FilesOnRecord, RawsIn
<1>5. RecordIsThere'
  BY <1>4 DEF GeoInv, RecordIsThere
<1>6. ASSUME NEW b \in Actors \ {a} PROVE Undisturbed(b)
  <2>1. work'[b] = work[b]
    BY DEF GeoInv, GeoTypes
  <2> QED
    BY <1>2, <1>4, <2>1 DEF Undisturbed, Actors
<1> QED
  BY <1>1, <1>2, <1>3, <1>5, <1>6, ActorSteps

LEMMA Downloads == ASSUME GeoInv, NEW a \in Actors, Download(a) PROVE GeoInv'
<1>1. work[a] \in WorkType /\ ActorInv(a) /\ work[a].pc = "download"
  BY AtWork DEF Download
<1>2. syncLock = a /\ work[a].doomed = {} /\ work[a].kind # "refresh"
  BY <1>1 DEF ActorInv, HoldsLocks
<1>3. UNCHANGED <<manifest, lists, geoConfig, draft, published, listLock, seedMarker, exposed>>
      /\ UNCHANGED geoEvents
  BY DEF Download, Go, Ends
<1>4. stored \subseteq Files
  BY DEF GeoInv, GeoTypes, FileTypes
<1> DEFINE copy == IF work[a].kind = "geo" THEN published ELSE 0
           w == [work[a] EXCEPT !.pc = "manifest", !.copy = copy]
<1>5. CASE /\ stored' = stored \union {GeoFile(copy)}
           /\ Go(a, w) /\ UNCHANGED syncLock
  <2>1. copy \in Copies
    BY GeoAssumption DEF GeoAssumption, Copies, GeoInv, GeoTypes, FileTypes
  <2> HIDE DEF copy
  <2>2. /\ w \in WorkType /\ w.pc = "manifest" /\ w.copy = copy /\ w.doomed = {}
        /\ w.kind = work[a].kind
    BY <1>1, <1>2, <2>1 DEF WorkType, Pcs
  <2> HIDE DEF w
  <2>3. work' = [work EXCEPT ![a] = w]
    BY <1>5 DEF Go
  <2>4. work'[a] = w
    BY <2>2, <2>3, OneWorks DEF GeoInv, GeoTypes
  <2>5. stored \subseteq stored' /\ stored' \subseteq Files /\ GeoFile(copy) \in stored'
    BY <1>4, <1>5, <2>1 DEF Files
  <2>6. ActorInv(a)'
    BY <1>2, <1>5, <2>1, <2>2, <2>4, <2>5 DEF ActorInv, HoldsLocks, HasFiles, KeepsLists,
       CleansWhatIsLeft, RemovesTheRest
  <2> QED
    BY <1>2, <1>3, <1>5, <2>2, <2>3, <2>5, <2>6, GrowingSteps
<1>6. CASE Ends(a) /\ syncLock' = Free /\ UNCHANGED stored
  <2>1. work' = [work EXCEPT ![a] = Rest]
    BY <1>6 DEF Ends, Go
  <2>2. ActorInv(a)'
    BY <2>1, NoneAtRest, RestsWell, OneWorks DEF GeoInv, GeoTypes
  <2> QED
    BY <1>2, <1>3, <1>4, <1>6, <2>1, <2>2, NoneAtRest, GrowingSteps
<1> QED
  BY <1>5, <1>6 DEF Download

\* An actor gives up: its lock is free again.
LEMMA GivesUp ==
  ASSUME GeoInv, NEW a \in Actors, listLock = a, Ends(a), listLock' = Free, UNCHANGED stored,
         UNCHANGED <<manifest, lists, geoConfig, draft, published, syncLock, seedMarker, exposed>>
  PROVE  GeoInv'
<1>1. work' = [work EXCEPT ![a] = Rest] /\ UNCHANGED geoEvents
  BY DEF Ends, Go
<1>2. ActorInv(a)'
  BY <1>1, NoneAtRest, RestsWell, OneWorks DEF GeoInv, GeoTypes
<1>3. stored \subseteq stored' /\ stored' \subseteq Files
  BY DEF GeoInv, GeoTypes, FileTypes
<1> QED
  BY <1>1, <1>2, <1>3, NoneAtRest, GrowingSteps

LEMMA FetchesLists == ASSUME GeoInv, NEW a \in Actors, FetchLists(a) PROVE GeoInv'
<1> DEFINE due == {l \in work[a].subs : l \in work[a].named \/ NeedsDownload(l, work[a].state)}
           old == work[a].state
           sources(taken) == [l \in Lists |->
                     IF l \in taken THEN published
                     ELSE IF l \in due /\ old.sources[l] = Untried THEN NoFile
                     ELSE old.sources[l]]
<1>1. work[a] \in WorkType /\ ActorInv(a) /\ work[a].pc = "fetch"
  BY AtWork DEF FetchLists
<1>2. listLock = a /\ work[a].doomed = {}
  BY <1>1 DEF ActorInv, HoldsLocks
<1>3. UNCHANGED <<manifest, lists, geoConfig, draft, published, syncLock, seedMarker, exposed>>
  BY DEF FetchLists
<1>4. /\ old \in ListsType /\ old.built = lists.built /\ old.refreshed = lists.refreshed
      /\ RawsIn(old) \subseteq stored /\ due \subseteq Lists /\ published \in Copies
      /\ stored \subseteq Files
  BY <1>1 DEF WorkType, ActorInv, HasFiles, GeoInv, GeoTypes, FileTypes
<1>5. CASE \E taken \in SUBSET due : \E held \in {{}, due \ taken} :
             /\ stored' = stored \union {RawFile(<<l, published>>) : l \in taken \union held}
             /\ Go(a, [work[a] EXCEPT !.pc = "merge", !.named = {},
                                      !.state.sources = sources(taken)])
             /\ UNCHANGED listLock
  <2>1. PICK taken \in SUBSET due, held \in SUBSET due :
          /\ stored' = stored \union {RawFile(<<l, published>>) : l \in taken \union held}
          /\ Go(a, [work[a] EXCEPT !.pc = "merge", !.named = {},
                                   !.state.sources = sources(taken)])
          /\ UNCHANGED listLock
    BY <1>5
  <2> DEFINE got == sources(taken)
             new == [old EXCEPT !.sources = got]
             w == [work[a] EXCEPT !.pc = "merge", !.named = {}, !.state = new]
  <2>2. got \in [Lists -> Copies \union {NoFile, Untried}]
    BY <1>4 DEF ListsType
  <2>3. \A l \in Lists : \/ l \in taken /\ got[l] = published
                         \/ got[l] = old.sources[l]
                         \/ got[l] = NoFile /\ old.sources[l] \notin Copies
    BY <1>4, GeoAssumption DEF GeoAssumption
  <2> HIDE DEF due
  <2>4. [work[a] EXCEPT !.pc = "merge", !.named = {}, !.state.sources = got] = w
    <3> HIDE DEF got
    <3> QED
      BY <1>1 DEF WorkType, ListsType
  <2> HIDE DEF got
  <2>5. /\ new \in ListsType /\ new.sources = got /\ new.built = lists.built
        /\ new.refreshed = lists.refreshed
    BY <1>4, <2>2 DEF ListsType
  <2> HIDE DEF new
  <2>6. /\ w \in WorkType /\ w.pc = "merge" /\ w.state = new /\ w.doomed = {}
        /\ w.kind = work[a].kind /\ w.old = work[a].old /\ w.on = work[a].on
    BY <1>1, <1>2, <2>5 DEF WorkType, Pcs
  <2>7. work' = [work EXCEPT ![a] = w] /\ UNCHANGED <<geoEvents, listLock>>
    BY <2>1, <2>4 DEF Go, got
  <2> HIDE DEF w, old
  <2>8. work'[a] = w
    BY <2>6, <2>7, OneWorks DEF GeoInv, GeoTypes
  <2>9. stored \subseteq stored' /\ stored' \subseteq Files
    <3>1. \A l \in taken \union held : RawFile(<<l, published>>) \in Files
      BY <1>4 DEF Files
    <3> QED
      BY <1>4, <2>1, <3>1
  <2>10. RawsIn(new) \subseteq stored'
    <3> SUFFICES ASSUME NEW l \in Lists, got[l] \in Copies
                 PROVE  RawFile(<<l, got[l]>>) \in stored'
      BY <2>5 DEF RawsIn
    <3>1. CASE l \in taken /\ got[l] = published
      BY <2>1, <3>1
    <3>2. CASE got[l] = old.sources[l]
      BY <1>4, <2>9, <3>2 DEF RawsIn
    <3> QED
      BY <2>3, <3>1, <3>2, GeoAssumption DEF GeoAssumption
  <2>11. ActorInv(a)'
    <3>1. HoldsLocks(a)'
      BY <1>1, <1>2, <1>3, <2>6, <2>7, <2>8 DEF ActorInv, HoldsLocks
    <3>2. HasFiles(a)'
      <4>1. RawsIn(work[a].state)' \subseteq stored'
        BY <2>6, <2>8, <2>10 DEF RawsIn
      <4> QED
        BY <1>3, <2>5, <2>6, <2>8, <4>1 DEF HasFiles
    <3>3. KeepsLists(a)'
      <4> SUFFICES ASSUME work[a].kind = "refresh" PROVE KeepsLists(a)'
        BY <2>6, <2>8 DEF KeepsLists
      <4>1. Fit("copy")' = Fit("copy")
        BY <1>3, Unwritten
      <4>2. \A l \in Lists : old.sources[l] \in Copies => got[l] \in Copies
        BY <1>4, <2>3
      <4>3. ListsIn(work[a].old) \subseteq Lists
        BY <1>1 DEF WorkType, PathOrNone, ListsIn
      <4>4. /\ work[a].old # NoFile /\ work[a].on = ListsIn(work[a].old)
            /\ InUse(work[a].old) => \A l \in ListsIn(work[a].old) : old.sources[l] \in Copies
        BY <1>1 DEF ActorInv, KeepsLists, old
      <4> QED
        BY <2>5, <2>6, <2>8, <4>1, <4>2, <4>3, <4>4 DEF KeepsLists, InUse
    <3> QED
      BY <2>6, <2>8, <3>1, <3>2, <3>3 DEF ActorInv, CleansWhatIsLeft, RemovesTheRest
  <2> QED
    BY <1>2, <1>3, <2>6, <2>7, <2>9, <2>11, GrowingSteps
<1>6. CASE Ends(a) /\ listLock' = Free /\ UNCHANGED stored
  BY <1>2, <1>3, <1>6, GivesUp
<1> QED
  BY <1>5, <1>6 DEF FetchLists

LEMMA MergesLists == ASSUME GeoInv, NEW a \in Actors, MergeLists(a) PROVE GeoInv'
<1> DEFINE state == work[a].state
           sources == {<<l, state.sources[l]>> :
                         l \in {l \in work[a].on : state.sources[l] \in Copies}}
           new == IF sources = {} THEN NoFile ELSE sources
           w == [work[a] EXCEPT !.pc = "record", !.new = new]
<1>1. work[a] \in WorkType /\ ActorInv(a) /\ work[a].pc = "merge"
  BY AtWork DEF MergeLists
<1>2. listLock = a /\ work[a].doomed = {}
  BY <1>1 DEF ActorInv, HoldsLocks
<1>3. UNCHANGED <<manifest, lists, geoConfig, draft, published, syncLock, seedMarker, exposed>>
  BY DEF MergeLists
<1>4. /\ work[a].on \subseteq Lists /\ state.built = lists.built
      /\ state.refreshed = lists.refreshed /\ RawsIn(state) \subseteq stored
      /\ stored \subseteq Files
  BY <1>1 DEF WorkType, ActorInv, HasFiles, GeoInv, GeoTypes, FileTypes
<1>5. sources \subseteq Lists \X Copies
  BY <1>4
<1>6. /\ new \in PathOrNone
      /\ new # NoFile => new = sources
      /\ FileOf(new, MergedFile(new)) \subseteq Files
  BY <1>5 DEF PathOrNone, FileOf, Files
<1>7. ASSUME \A l \in work[a].on : state.sources[l] \in Copies
      PROVE  ListsIn(sources) = work[a].on \/ sources = NoFile
  <2> SUFFICES ASSUME sources # NoFile PROVE ListsIn(sources) = work[a].on
    OBVIOUS
  <2>1. sources = {<<l, state.sources[l]>> : l \in work[a].on}
    BY <1>7
  <2>2. ListsIn(sources) = {s[1] : s \in sources}
    BY DEF ListsIn
  <2>3. ASSUME NEW l \in work[a].on PROVE l \in {s[1] : s \in sources}
    <3>1. <<l, state.sources[l]>> \in sources /\ <<l, state.sources[l]>>[1] = l
      BY <2>1, <2>3
    <3> HIDE DEF sources
    <3> QED
      BY <3>1
  <2>4. ASSUME NEW s \in sources PROVE s[1] \in work[a].on
    BY <2>1, <2>4
  <2> HIDE DEF sources
  <2> QED
    BY <2>2, <2>3, <2>4
<1>8. CASE /\ stored' = stored \union FileOf(new, MergedFile(new))
           /\ Go(a, w) /\ UNCHANGED listLock
  <2> HIDE DEF new
  <2>1. /\ w \in WorkType /\ w.pc = "record" /\ w.new = new /\ w.doomed = {}
        /\ w.state = state /\ w.kind = work[a].kind /\ w.old = work[a].old
    BY <1>1, <1>2, <1>6 DEF WorkType, Pcs
  <2> HIDE DEF w
  <2>2. work' = [work EXCEPT ![a] = w] /\ UNCHANGED geoEvents
    BY <1>8 DEF Go
  <2>3. work'[a] = w
    BY <2>1, <2>2, OneWorks DEF GeoInv, GeoTypes
  <2>4. stored \subseteq stored' /\ stored' \subseteq Files
    BY <1>4, <1>6, <1>8
  <2>5. ActorInv(a)'
    <3>1. HoldsLocks(a)'
      BY <1>1, <1>2, <1>8, <2>1, <2>3 DEF ActorInv, HoldsLocks
    <3>2. HasFiles(a)'
      <4>1. RawsIn(work[a].state)' \subseteq stored'
        BY <1>4, <2>1, <2>3, <2>4 DEF RawsIn
      <4>2. FileOf(work[a].new, MergedFile(work[a].new))' \subseteq stored'
        BY <1>8, <2>1, <2>3 DEF FileOf
      <4> QED
        BY <1>3, <1>4, <2>1, <2>3, <4>1, <4>2 DEF HasFiles
    <3>3. KeepsLists(a)'
      <4> SUFFICES ASSUME work[a].kind = "refresh" PROVE KeepsLists(a)'
        BY <2>1, <2>3 DEF KeepsLists
      <4>1. Fit("copy")' = Fit("copy")
        BY <1>3, Unwritten
      <4>2. /\ work[a].old # NoFile /\ work[a].on = ListsIn(work[a].old)
            /\ InUse(work[a].old) => \A l \in ListsIn(work[a].old) : state.sources[l] \in Copies
        BY <1>1 DEF ActorInv, KeepsLists
      <4>3. InUse(work[a].old) /\ new # NoFile => ListsIn(new) = ListsIn(work[a].old)
        BY <1>6, <1>7, <4>2
      <4> QED
        BY <2>1, <2>3, <4>1, <4>2, <4>3 DEF KeepsLists, InUse
    <3> QED
      BY <2>1, <2>3, <3>1, <3>2, <3>3 DEF ActorInv, CleansWhatIsLeft, RemovesTheRest
  <2> QED
    BY <1>2, <1>3, <1>8, <2>1, <2>2, <2>4, <2>5, GrowingSteps
<1>9. CASE Ends(a) /\ listLock' = Free /\ UNCHANGED stored
  BY <1>2, <1>3, <1>9, GivesUp
<1> QED
  BY <1>8, <1>9 DEF MergeLists

---------------------------------------------------------------------------
(* The steps that put something else on record.                            *)

\* What is still sound is known to every clean-up under way.
LEMMA LostRecords ==
  ASSUME ConfigTypes, LosesRecord, UNCHANGED geoConfig
  PROVE  /\ draft' \in ContentType => ConfigTypes'
         /\ exposed["file"] \subseteq exposed["copy"] => exposed'["file"] \subseteq exposed'["copy"]
         /\ \A flaw \in Flaws :
              /\ Fit(flaw)' \subseteq Fit(flaw)
              /\ \A b \in Actors : work[b].pc \in {"clean", "cleanLists"} =>
                   Fit(flaw)' \subseteq work[b].retained
<1>1. Retained' = Retained
  BY DEF geoConfig, Retained
<1>2. exposed' = [flaw \in Flaws |-> exposed[flaw] \union {c \in Retained : Overtakes(c)}]
  BY DEF LosesRecord
<1>3. draft' \in ContentType => ConfigTypes'
  BY <1>1, <1>2 DEF ConfigTypes, geoConfig
<1>4. \A c : c \in Retained /\ ~Overtakes(c) =>
        \A b \in Actors : work[b].pc \in {"clean", "cleanLists"} => c \in work[b].retained
  BY DEF Overtakes, Cleaning
<1>5. ASSUME NEW flaw \in Flaws PROVE Fit(flaw)' = Fit(flaw) \ {c \in Retained : Overtakes(c)}
  BY <1>1, <1>2 DEF Fit
<1>6. exposed["file"] \subseteq exposed["copy"] => exposed'["file"] \subseteq exposed'["copy"]
  BY <1>2
<1> QED
  BY <1>3, <1>4, <1>5, <1>6 DEF Fit

\* A new record takes the place of the old one.
LEMMA RecordingSteps ==
  ASSUME GeoInv, NEW a \in Actors, NEW w \in WorkType, work' = [work EXCEPT ![a] = w],
         UNCHANGED <<stored, geoConfig, published, seedMarker, geoEvents>>,
         LosesRecord, draft' \in ContentType,
         \/ syncLock = a /\ syncLock' = Free /\ UNCHANGED <<listLock, lists>>
         \/ /\ listLock = a /\ listLock' = Free /\ UNCHANGED <<syncLock, manifest>>
            /\ a = Task \/ lists'.refreshed = lists.refreshed,
         manifest' \in Copies \union {NoFile}, lists' \in ListsType, RecordIsThere', ActorInv(a)'
  PROVE  GeoInv'
<1> USE GeoAssumption DEF GeoAssumption
<1>1. FileTypes'
  BY DEF GeoInv, GeoTypes, FileTypes
<1>2. /\ ConfigTypes' /\ exposed'["file"] \subseteq exposed'["copy"]
      /\ \A flaw \in Flaws :
           /\ Fit(flaw)' \subseteq Fit(flaw)
           /\ \A b \in Actors : work[b].pc \in {"clean", "cleanLists"} =>
                Fit(flaw)' \subseteq work[b].retained
  BY LostRecords DEF GeoInv, GeoTypes, VersionsAreThere
<1>3. VersionsAreThere'
  <2>1. \A flaw \in Flaws : \A c : Needed(flaw, c)' = Needed(flaw, c)
    BY DEF Needed
  <2> QED
    BY <1>2, <2>1 DEF GeoInv, VersionsAreThere
<1>4. ASSUME NEW b \in Actors \ {a} PROVE Undisturbed(b)
  <2>1. work'[b] = work[b]
    BY DEF GeoInv, GeoTypes
  <2> QED
    BY <1>2, <2>1 DEF Undisturbed, Actors
<1> QED
  BY <1>1, <1>2, <1>3, <1>4, ActorSteps

LEMMA StoresManifest == ASSUME GeoInv, NEW a \in Actors, StoreManifest(a) PROVE GeoInv'
<1>1. work[a] \in WorkType /\ ActorInv(a) /\ work[a].pc = "manifest"
  BY AtWork DEF StoreManifest
<1>2. /\ syncLock = a /\ work[a].doomed = {} /\ work[a].kind # "refresh"
      /\ work[a].copy \in Copies /\ GeoFile(work[a].copy) \in stored
  BY <1>1 DEF ActorInv, HoldsLocks, HasFiles
<1>3. /\ manifest' = work[a].copy /\ syncLock' = Free /\ LosesRecord
      /\ UNCHANGED <<stored, lists, geoConfig, published, listLock, seedMarker>>
  BY DEF StoreManifest
<1>4. manifest' \in Copies \union {NoFile} /\ lists' \in ListsType
  BY <1>2, <1>3 DEF GeoInv, GeoTypes, FileTypes
<1>5. RecordIsThere'
  <2>1. FilesOnRecord' \subseteq FilesOnRecord \union {GeoFile(work[a].copy)}
    BY <1>3 DEF FilesOnRecord, FileOf
  <2>2. RawsIn(lists)' = RawsIn(lists)
    BY <1>3 DEF RawsIn
  <2> QED
    BY <1>2, <1>3, <2>1, <2>2 DEF GeoInv, RecordIsThere
<1>6. CASE a = Task
  <2> DEFINE w == [work[a] EXCEPT !.pc = "apply"]
  <2>1. /\ w \in WorkType /\ w.pc = "apply" /\ w.kind = work[a].kind /\ w.copy = work[a].copy
        /\ w.doomed = {}
    BY <1>1, <1>2 DEF WorkType, Pcs
  <2> HIDE DEF w
  <2>2. work' = [work EXCEPT ![a] = w] /\ UNCHANGED <<geoEvents, draft>>
    BY <1>6 DEF StoreManifest, Go, w
  <2>3. ActorInv(a)'
    BY <1>2, <1>6, <2>1, <2>2, SimpleWork, OneWorks DEF GeoInv, GeoTypes
  <2>4. draft' \in ContentType
    BY <2>2 DEF GeoInv, GeoTypes, ConfigTypes
  <2> QED
    BY <1>2, <1>3, <1>4, <1>5, <2>1, <2>2, <2>3, <2>4, RecordingSteps
<1>7. CASE a # Task
  <2>1. /\ work' = [work EXCEPT ![a] = Rest] /\ UNCHANGED geoEvents
        /\ draft' \in {draft, WithGeo(draft, manifest')}
    BY <1>7 DEF StoreManifest, Go, Ends
  <2>2. ActorInv(a)'
    BY <2>1, NoneAtRest, RestsWell, OneWorks DEF GeoInv, GeoTypes
  <2>3. draft' \in ContentType
    <3>1. draft \in ContentType
      BY DEF GeoInv, GeoTypes, ConfigTypes
    <3>2. WithGeo(draft, manifest') \in ContentType
      BY <1>4, <3>1 DEF WithGeo, ContentType
    <3> QED
      BY <2>1, <3>1, <3>2
  <2> QED
    BY <1>2, <1>3, <1>4, <1>5, <2>1, <2>2, <2>3, NoneAtRest, RecordingSteps
<1> QED
  BY <1>6, <1>7

LEMMA RecordsLists == ASSUME GeoInv, NEW a \in Actors, RecordLists(a) PROVE GeoInv'
<1> DEFINE state == work[a].state
           new == work[a].new
<1>1. work[a] \in WorkType /\ ActorInv(a) /\ work[a].pc = "record"
  BY AtWork DEF RecordLists
<1>2. /\ listLock = a
      /\ work[a].kind = "refresh" <=> a = Task
      /\ state.built = lists.built /\ state.refreshed = lists.refreshed
      /\ RawsIn(state) \subseteq stored /\ FileOf(new, MergedFile(new)) \subseteq stored
      /\ state \in ListsType /\ new \in PathOrNone
  BY <1>1 DEF ActorInv, HoldsLocks, HasFiles, WorkType
<1>3. /\ listLock' = Free /\ LosesRecord
      /\ UNCHANGED <<stored, manifest, geoConfig, published, syncLock, seedMarker>>
      /\ lists' = IF a = Task THEN [state EXCEPT !.refreshed = new]
                  ELSE [state EXCEPT !.built = new, !.requested = work[a].subs]
  BY DEF RecordLists
<1>4. /\ lists' \in ListsType /\ lists'.sources = state.sources
      /\ lists'.built \in {state.built, new} /\ lists'.refreshed \in {state.refreshed, new}
      /\ a = Task => lists'.refreshed = new
      /\ a # Task => lists'.refreshed = state.refreshed
  <2> HIDE DEF state, new
  <2>1. work[a].subs \in SUBSET Lists
    BY <1>1 DEF WorkType
  <2> QED
    BY <1>2, <1>3, <2>1 DEF ListsType
<1> HIDE DEF state, new
<1>5. RecordIsThere'
  <2>1. FilesOnRecord' \subseteq FilesOnRecord \union FileOf(new, MergedFile(new))
    BY <1>2, <1>3, <1>4 DEF FilesOnRecord
  <2>2. RawsIn(lists)' = RawsIn(state)
    BY <1>4 DEF RawsIn
  <2> QED
    BY <1>2, <1>3, <2>1, <2>2 DEF GeoInv, RecordIsThere
<1>6. manifest' \in Copies \union {NoFile}
  BY <1>3 DEF GeoInv, GeoTypes, FileTypes
<1>7. CASE a = Task
  <2> DEFINE w == [Rest EXCEPT !.pc = "apply", !.kind = "refresh", !.old = work[a].old,
                               !.new = new]
  <2>1. /\ w \in WorkType /\ w.pc = "apply" /\ w.kind = "refresh" /\ w.old = work[a].old
        /\ w.new = new /\ w.doomed = {}
    <3>1. work[a].old \in PathOrNone
      BY <1>1 DEF WorkType
    <3> QED
      BY <1>2, <3>1, NoneAtRest DEF WorkType, Pcs, Kinds
  <2> HIDE DEF w
  <2>2. work' = [work EXCEPT ![a] = w] /\ UNCHANGED <<geoEvents, draft>>
    BY <1>7 DEF RecordLists, Go, w, new
  <2>3. work'[a] = w
    BY <2>1, <2>2, OneWorks DEF GeoInv, GeoTypes
  <2>4. ActorInv(a)'
    <3>1. KeepsLists(a)'
      <4>1. \A path : InUse(path)' => InUse(path)
        BY <1>3, LostRecords DEF InUse, GeoInv, GeoTypes
      <4>2. /\ work[a].old # NoFile
            /\ InUse(work[a].old) /\ new # NoFile => ListsIn(new) = ListsIn(work[a].old)
        BY <1>1, <1>2, <1>7 DEF ActorInv, KeepsLists, new
      <4>3. work'[a].new = lists'.refreshed
        BY <1>4, <1>7, <2>1, <2>3
      <4> QED
        BY <2>1, <2>3, <4>1, <4>2, <4>3 DEF KeepsLists
    <3>2. HoldsLocks(a)'
      BY <1>7, <2>1, <2>3 DEF HoldsLocks
    <3> QED
      BY <2>1, <2>3, <3>1, <3>2 DEF ActorInv, HasFiles, CleansWhatIsLeft, RemovesTheRest
  <2>5. draft' \in ContentType
    BY <2>2 DEF GeoInv, GeoTypes, ConfigTypes
  <2> QED
    BY <1>2, <1>3, <1>4, <1>5, <1>6, <1>7, <2>1, <2>2, <2>4, <2>5, RecordingSteps
<1>8. CASE a # Task
  <2>1. /\ work' = [work EXCEPT ![a] = Rest] /\ UNCHANGED geoEvents
        /\ draft' \in {draft, [draft EXCEPT !.block = new]}
    BY <1>8 DEF RecordLists, Go, Ends, new
  <2>2. ActorInv(a)'
    BY <2>1, NoneAtRest, RestsWell, OneWorks DEF GeoInv, GeoTypes
  <2>3. draft' \in ContentType
    <3>1. draft \in ContentType
      BY DEF GeoInv, GeoTypes, ConfigTypes
    <3> QED
      BY <1>2, <2>1, <3>1 DEF ContentType
  <2>4. lists'.refreshed = lists.refreshed
    BY <1>2, <1>4, <1>8
  <2>5. /\ listLock = a /\ listLock' = Free /\ UNCHANGED <<syncLock, manifest>>
        /\ UNCHANGED <<stored, geoConfig, published, seedMarker, geoEvents>>
    BY <1>2, <1>3, <2>1
  <2> QED
    BY <1>3, <1>4, <1>5, <1>6, <2>1, <2>2, <2>3, <2>4, <2>5, NoneAtRest, RecordingSteps
<1> QED
  BY <1>7, <1>8

\* Forgetting a list loses no file on record but its own copy.
LEMMA ForgetsLists == ASSUME GeoInv, NEW a \in Actors, ForgetLists(a) PROVE GeoInv'
<1> DEFINE w == [work[a] EXCEPT !.pc = "cleanLists"]
           kept == lists.requested \union ListsIn(RetainedSources(work[a].retained))
           sources == [l \in Lists |-> IF l \in kept THEN lists.sources[l] ELSE Untried]
<1> USE GeoAssumption DEF GeoAssumption
<1>1. work[a] \in WorkType /\ ActorInv(a) /\ work[a].pc = "clean"
  BY AtWork DEF ForgetLists
<1>2. work[a].doomed = {} /\ work[a].kind # "refresh" /\ CleansWhatIsLeft(a)
  BY <1>1 DEF ActorInv, HoldsLocks
<1>3. /\ w \in WorkType /\ w.pc = "cleanLists" /\ w.doomed = {} /\ w.kind # "refresh"
      /\ w.retained = work[a].retained
  BY <1>1, <1>2 DEF WorkType, Pcs
<1> HIDE DEF w
<1>4. /\ work' = [work EXCEPT ![a] = w] /\ listLock = Free /\ listLock' = a
      /\ UNCHANGED <<stored, manifest, geoConfig, draft, published, syncLock, seedMarker, exposed,
                     geoEvents>>
  BY DEF ForgetLists, Go, TakeListLock, w
<1>5. work'[a] = w
  BY <1>3, <1>4, OneWorks DEF GeoInv, GeoTypes
<1>6. /\ lists' \in ListsType /\ lists'.built = lists.built /\ lists'.refreshed = lists.refreshed
      /\ \A l \in Lists : lists'.sources[l] \in Copies => lists'.sources[l] = lists.sources[l]
  <2>1. lists' = [lists EXCEPT !.sources = sources]
    BY DEF ForgetLists
  <2>2. lists \in ListsType
    BY DEF GeoInv, GeoTypes, FileTypes
  <2> HIDE DEF kept
  <2>3. sources \in [Lists -> Copies \union {NoFile, Untried}]
    BY <2>2 DEF ListsType
  <2>4. \A l \in Lists : sources[l] \in Copies => sources[l] = lists.sources[l]
    OBVIOUS
  <2> HIDE DEF sources
  <2> QED
    BY <2>1, <2>2, <2>3, <2>4 DEF ListsType
<1>7. FilesOnRecord' = FilesOnRecord /\ RawsIn(lists)' \subseteq RawsIn(lists)
  BY <1>4, <1>6 DEF FilesOnRecord, RawsIn
<1>8. RecordIsThere'
  BY <1>4, <1>7 DEF GeoInv, RecordIsThere
<1>9. /\ ConfigTypes' /\ \A flaw \in Flaws : Fit(flaw)' = Fit(flaw)
  BY <1>4, Unwritten DEF GeoInv, GeoTypes, ConfigTypes
<1>10. VersionsAreThere'
  <2>1. \A flaw \in Flaws : \A c : Needed(flaw, c)' = Needed(flaw, c)
    BY DEF Needed
  <2> QED
    BY <1>4, <1>9, <2>1 DEF GeoInv, VersionsAreThere
<1>11. FileTypes'
  BY <1>4, <1>6 DEF GeoInv, GeoTypes, FileTypes
<1>12. ASSUME NEW b \in Actors \ {a} PROVE Undisturbed(b)
  <2>1. work'[b] = work[b]
    BY <1>4 DEF GeoInv, GeoTypes
  <2> QED
    BY <1>4, <1>6, <1>7, <1>9, <2>1 DEF Undisturbed, Actors
<1>13. ActorInv(a)'
  <2>1. CleansWhatIsLeft(a)'
    BY <1>1, <1>2, <1>3, <1>5, <1>7, <1>9 DEF CleansWhatIsLeft, Seen, ListsSeen, Named
  <2>2. HoldsLocks(a)'
    BY <1>3, <1>4, <1>5 DEF HoldsLocks
  <2> QED
    BY <1>3, <1>5, <2>1, <2>2 DEF ActorInv, HasFiles, KeepsLists, RemovesTheRest
<1> QED
  BY <1>3, <1>4, <1>8, <1>9, <1>10, <1>11, <1>12, <1>13, ActorSteps

---------------------------------------------------------------------------
(* The step that removes a file.                                           *)

LEMMA RemovesFile == ASSUME GeoInv, NEW a \in Actors, RemoveFile(a) PROVE GeoInv'
<1> DEFINE file == CHOOSE f \in work[a].doomed : TRUE
           w == [work[a] EXCEPT !.doomed = work[a].doomed \ {file}]
<1> USE GeoAssumption DEF GeoAssumption
<1>1. work[a] \in WorkType /\ ActorInv(a) /\ work[a].pc = "remove" /\ work[a].doomed # {}
  BY AtWork DEF RemoveFile
<1>2. syncLock = a /\ listLock = a /\ work[a].kind # "refresh"
  BY <1>1 DEF ActorInv, HoldsLocks
<1>3. /\ work[a].doomed \subseteq stored
      /\ Spares(a, FilesOnRecord) /\ Spares(a, RawsIn(lists))
      /\ \A flaw \in Flaws : \A content \in Fit(flaw) : Spares(a, Needed(flaw, content))
      /\ \A content \in work[a].retained :
           /\ Spares(a, FilesOf(content))
           /\ content.block # NoFile /\ MergedFile(content.block) \in stored =>
                Spares(a, CopiesOf(content))
  BY <1>1 DEF ActorInv, RemovesTheRest
<1>4. file \in work[a].doomed
  BY <1>1
<1> HIDE DEF file
<1>5. /\ w \in WorkType /\ w.pc = "remove" /\ w.doomed = work[a].doomed \ {file}
      /\ w.retained = work[a].retained /\ w.kind = work[a].kind
  BY <1>1 DEF WorkType
<1> HIDE DEF w
<1>6. /\ work' = [work EXCEPT ![a] = w] /\ stored' = stored \ {file}
      /\ UNCHANGED <<manifest, lists, geoConfig, draft, published, syncLock, listLock, seedMarker,
                     exposed, geoEvents>>
  BY DEF RemoveFile, Go, w, file
<1>7. work'[a] = w
  BY <1>5, <1>6, OneWorks DEF GeoInv, GeoTypes
<1>8. \A files : Spares(a, files) => file \notin files /\ Spares(a, files)'
  BY <1>4, <1>5, <1>7 DEF Spares
<1>9. /\ FilesOnRecord' = FilesOnRecord /\ RawsIn(lists)' = RawsIn(lists)
      /\ \A flaw \in Flaws : \A c : Needed(flaw, c)' = Needed(flaw, c)
  BY <1>6 DEF FilesOnRecord, RawsIn, Needed
<1>10. /\ ConfigTypes' /\ \A flaw \in Flaws : Fit(flaw)' = Fit(flaw)
  BY <1>6, Unwritten DEF GeoInv, GeoTypes, ConfigTypes
<1>11. FileTypes'
  BY <1>6 DEF GeoInv, GeoTypes, FileTypes
<1>12. RecordIsThere'
  BY <1>3, <1>6, <1>8, <1>9 DEF GeoInv, RecordIsThere
<1>13. VersionsAreThere'
  <2>1. \A flaw \in Flaws : \A c \in Fit(flaw) : file \notin Needed(flaw, c)
    BY <1>3, <1>8
  <2> QED
    BY <1>6, <1>9, <1>10, <2>1 DEF GeoInv, VersionsAreThere
<1>14. ASSUME NEW b \in Actors \ {a} PROVE Undisturbed(b)
  <2>1. work'[b] = work[b]
    BY <1>6 DEF GeoInv, GeoTypes
  <2> QED
    BY <1>2, <1>6, <1>9, <1>10, <2>1 DEF Undisturbed, Actors
<1>15. ActorInv(a)'
  <2>1. RemovesTheRest(a)'
    <3>1. work'[a].doomed \subseteq stored'
      BY <1>3, <1>5, <1>6, <1>7
    <3>2. Spares(a, FilesOnRecord)' /\ Spares(a, RawsIn(lists))'
      BY <1>3, <1>4, <1>5, <1>7, <1>9 DEF Spares
    <3>3. \A flaw \in Flaws : \A c \in Fit(flaw)' : Spares(a, Needed(flaw, c))'
      BY <1>3, <1>5, <1>7, <1>9, <1>10 DEF Spares
    <3>4. \A c \in work'[a].retained :
            /\ Spares(a, FilesOf(c))'
            /\ c.block # NoFile /\ MergedFile(c.block) \in stored' => Spares(a, CopiesOf(c))'
      BY <1>3, <1>5, <1>6, <1>7 DEF Spares
    <3> QED
      BY <3>1, <3>2, <3>3, <3>4 DEF RemovesTheRest
  <2>2. HoldsLocks(a)'
    BY <1>2, <1>5, <1>6, <1>7 DEF HoldsLocks
  <2> QED
    BY <1>2, <1>5, <1>7, <2>1, <2>2 DEF ActorInv, HasFiles, KeepsLists, CleansWhatIsLeft
<1> QED
  BY <1>5, <1>6, <1>10, <1>11, <1>12, <1>13, <1>14, <1>15, ActorSteps

---------------------------------------------------------------------------
(* The steps that write the configuration.                                 *)

\* What an actor that is under way must find in a content that is stored meanwhile.
Admitted(b, flaw, content) ==
  /\ work[b].pc \in {"clean", "cleanLists"} =>
       IF flaw = "file" THEN Seen(b, content) ELSE ListsSeen(b, content)
  /\ work[b].pc = "remove" => Spares(b, Needed(flaw, content))
  /\ work[b].kind = "refresh" /\ flaw = "copy" /\ content.block = work[b].old =>
       InUse(content.block)

LEMMA OthersAdmit ==
  ASSUME NEW b \in Actors, ActorInv(b), work'[b] = work[b],
         UNCHANGED <<stored, manifest, lists, syncLock, listLock>>,
         \A flaw \in Flaws : \A c \in Fit(flaw)' : c \in Fit(flaw) \/ Admitted(b, flaw, c)
  PROVE  ActorInv(b)'
<1>1. /\ FilesOnRecord' = FilesOnRecord /\ RawsIn(lists)' = RawsIn(lists)
      /\ \A flaw \in Flaws : \A c : Needed(flaw, c)' = Needed(flaw, c)
      /\ \A contents : Named(contents)' = Named(contents)
      /\ \A files : Spares(b, files)' <=> Spares(b, files)
  BY DEF FilesOnRecord, RawsIn, Needed, Named, Spares
<1>2. HoldsLocks(b)' /\ HasFiles(b)'
  <2>1. HoldsLocks(b) /\ HasFiles(b)
    BY DEF ActorInv
  <2>2. HoldsLocks(b)'
    BY <2>1 DEF HoldsLocks
  <2>3. RawsIn(work[b].state)' = RawsIn(work[b].state)
    BY DEF RawsIn
  <2> QED
    BY <2>1, <2>2, <2>3 DEF HasFiles
<1>3. KeepsLists(b)'
  <2> SUFFICES ASSUME work[b].kind = "refresh" PROVE KeepsLists(b)'
    BY DEF KeepsLists
  <2>1. ASSUME InUse(work[b].old)' PROVE InUse(work[b].old)
    <3>1. PICK c \in Fit("copy")' : c.block = work[b].old
      BY <2>1 DEF InUse
    <3>2. CASE c \in Fit("copy")
      BY <3>1, <3>2 DEF InUse
    <3>3. CASE Admitted(b, "copy", c)
      BY <3>1, <3>3 DEF Admitted
    <3> QED
      BY <3>2, <3>3
  <2>2. KeepsLists(b)
    BY DEF ActorInv
  <2> QED
    BY <2>1, <2>2 DEF KeepsLists
<1>4. CleansWhatIsLeft(b)'
  <2> SUFFICES ASSUME work[b].pc \in {"clean", "cleanLists"} PROVE CleansWhatIsLeft(b)'
    BY DEF CleansWhatIsLeft
  <2>1. ASSUME NEW c \in Fit("file")' PROVE Seen(b, c)
    BY <2>1 DEF ActorInv, CleansWhatIsLeft, Admitted
  <2>2. ASSUME NEW c \in Fit("copy")' PROVE ListsSeen(b, c)
    BY <2>2 DEF ActorInv, CleansWhatIsLeft, Admitted
  <2>3. \A c : (Seen(b, c)' <=> Seen(b, c)) /\ (ListsSeen(b, c)' <=> ListsSeen(b, c))
    BY <1>1 DEF Seen, ListsSeen, Named
  <2> QED
    BY <2>1, <2>2, <2>3 DEF CleansWhatIsLeft
<1>5. RemovesTheRest(b)'
  <2> SUFFICES ASSUME work[b].pc = "remove" PROVE RemovesTheRest(b)'
    BY DEF RemovesTheRest
  <2>1. RemovesTheRest(b)
    BY DEF ActorInv
  <2>2. ASSUME NEW flaw \in Flaws, NEW c \in Fit(flaw)' PROVE Spares(b, Needed(flaw, c))
    BY <2>1, <2>2 DEF RemovesTheRest, Admitted
  <2>3. \A flaw \in Flaws : \A c \in Fit(flaw)' : Spares(b, Needed(flaw, c))'
    BY <1>1, <2>2 DEF Spares
  <2>4. /\ work[b].doomed \subseteq stored'
        /\ Spares(b, FilesOnRecord)' /\ Spares(b, RawsIn(lists))'
    BY <1>1, <2>1 DEF RemovesTheRest, Spares
  <2>5. \A c \in work[b].retained :
          /\ Spares(b, FilesOf(c))'
          /\ c.block # NoFile /\ MergedFile(c.block) \in stored' => Spares(b, CopiesOf(c))'
    BY <2>1 DEF RemovesTheRest, Spares
  <2> QED
    BY <2>3, <2>4, <2>5 DEF RemovesTheRest
<1> QED
  BY <1>2, <1>3, <1>4, <1>5 DEF ActorInv

\* Nothing but the configuration changes, and every actor but a admits what is new.
LEMMA WritingSteps ==
  ASSUME GeoInv, NEW S \in SUBSET Actors, work' \in [Actors -> WorkType],
         \A b \in Actors \ S : work'[b] = work[b],
         UNCHANGED <<stored, manifest, lists, published, syncLock, listLock>>,
         seedMarker' \in BOOLEAN, geoEvents' \in 0 .. MaxGeoEvents,
         ConfigTypes', exposed'["file"] \subseteq exposed'["copy"],
         \A flaw \in Flaws : \A c \in Fit(flaw)' : c \in Fit(flaw)
           \/ (Needed(flaw, c) \subseteq stored /\ \A b \in Actors \ S : Admitted(b, flaw, c)),
         \A a \in S : ActorInv(a)'
  PROVE  GeoInv'
<1>1. FileTypes'
  BY DEF GeoInv, GeoTypes, FileTypes
<1>2. VersionsAreThere'
  <2>1. \A flaw \in Flaws : \A c : Needed(flaw, c)' = Needed(flaw, c)
    BY DEF Needed
  <2> QED
    BY <2>1 DEF GeoInv, VersionsAreThere
<1>3. RecordIsThere'
  BY DEF GeoInv, RecordIsThere, FilesOnRecord, RawsIn
<1>4. ASSUME NEW b \in Actors \ S PROVE ActorInv(b)'
  <2>1. ActorInv(b) /\ work'[b] = work[b]
    BY DEF GeoInv
  <2>2. \A flaw \in Flaws : \A c \in Fit(flaw)' : c \in Fit(flaw) \/ Admitted(b, flaw, c)
    OBVIOUS
  <2> QED
    BY <2>1, <2>2, OthersAdmit
<1> QED
  BY <1>1, <1>2, <1>3, <1>4 DEF GeoInv, GeoTypes

\* A clean-up under way that has read a version of these lists spares their copies.
LEMMA WriteIsAdmitted ==
  ASSUME GeoInv, NEW base \in Retained, NEW edited, NEW stale,
         NEW flaw \in Flaws, flaw \notin WriteFlaws(stale, base, edited),
         ~stale => FilesOf(edited) \subseteq FilesOf(base) \union FilesOnRecord
  PROVE  /\ Needed(flaw, edited) \subseteq stored
         /\ \A b \in Actors \ {Task} : Admitted(b, flaw, edited)
<1>1. /\ ~stale /\ base \in Fit(flaw)
      /\ flaw = "copy" => ~OvertakesLists(edited) /\ CopiesOf(edited) \subseteq stored
  BY DEF WriteFlaws, Flawed, Fit
<1>2. base \in Fit("file") /\ FilesOf(base) \subseteq stored
  BY <1>1 DEF GeoInv, VersionsAreThere, Fit, Needed
<1>3. FilesOf(edited) \subseteq FilesOf(base) \union FilesOnRecord /\ FilesOf(edited) \subseteq stored
  BY <1>1, <1>2 DEF GeoInv, RecordIsThere
<1>4. ASSUME NEW b \in Actors \ {Task} PROVE Admitted(b, flaw, edited)
  <2>1. ActorInv(b) /\ work[b].kind # "refresh"
    BY DEF GeoInv, ActorInv, HoldsLocks
  <2>2. CASE work[b].pc \in {"clean", "cleanLists"}
    <3>1. Seen(b, base)
      BY <1>2, <2>1, <2>2 DEF ActorInv, CleansWhatIsLeft
    <3>2. Seen(b, edited)
      BY <1>3, <3>1 DEF Seen
    <3>3. flaw = "copy" => ListsSeen(b, edited)
      BY <1>1, <2>2 DEF OvertakesLists, Cleaning, ListsSeen
    <3> QED
      BY <2>1, <2>2, <3>2, <3>3 DEF Admitted
  <2>3. CASE work[b].pc = "remove"
    <3>1. RemovesTheRest(b)
      BY <2>1 DEF ActorInv
    <3>2. Spares(b, FilesOf(edited))
      <4>1. Spares(b, FilesOf(base)) /\ Spares(b, FilesOnRecord)
        BY <1>2, <2>3, <3>1 DEF RemovesTheRest, Needed
      <4> QED
        BY <1>3, <4>1 DEF Spares
    <3>3. flaw = "copy" => Spares(b, CopiesOf(edited))
      <4> SUFFICES ASSUME flaw = "copy", edited.block # NoFile
                   PROVE  Spares(b, CopiesOf(edited))
        BY DEF CopiesOf, Spares
      <4>1. PICK c \in work[b].retained : c.block = edited.block
        BY <1>1, <2>3 DEF OvertakesLists, Cleaning
      <4>2. MergedFile(edited.block) \in stored
        BY <1>3 DEF FilesOf, FileOf
      <4>3. Spares(b, CopiesOf(c)) /\ CopiesOf(c) = CopiesOf(edited)
        BY <2>3, <3>1, <4>1, <4>2 DEF RemovesTheRest, CopiesOf
      <4> QED
        BY <4>3
    <3> QED
      BY <2>1, <2>3, <3>2, <3>3 DEF Admitted, Needed, Spares
  <2>4. CASE work[b].pc \notin {"clean", "cleanLists", "remove"}
    BY <2>1, <2>4 DEF Admitted
  <2> QED
    BY <2>2, <2>3, <2>4
<1> QED
  BY <1>1, <1>3, <1>4 DEF Needed

\* What a write of the panel's own leaves: what was fit, or what it wrote without a flaw.
WritesFrom(base, stale, edited) ==
  /\ exposed'["file"] \subseteq exposed'["copy"]
  /\ \A flaw \in Flaws : \A c \in Fit(flaw)' :
       c \in Fit(flaw) \/ (c = edited /\ flaw \notin WriteFlaws(stale, base, edited))

LEMMA StoredWrite ==
  ASSUME ConfigTypes, VersionsAreThere, NEW base \in Retained, NEW edited \in ContentType,
         NEW stale, NEW contents \in {<<edited>>, <<edited, formal>>},
         Store(contents, WriteFlaws(stale, base, edited)), formal' \in {edited, formal},
         UNCHANGED draft, waiting' \in BOOLEAN
  PROVE  ConfigTypes' /\ WritesFrom(base, stale, edited)
<1> DEFINE flaws == WriteFlaws(stale, base, edited)
<1>1. flaws \subseteq Flaws /\ ("file" \in flaws => "copy" \in flaws)
  BY DEF WriteFlaws, Flawed, VersionsAreThere
<1>2. formal \in ContentType /\ draft' \in ContentType /\ formal \in Retained
  BY DEF ConfigTypes, Retained
<1>3. contents \in Seq(ContentType) /\ ToSet(contents) \in {{edited}, {edited, formal}}
  <2>1. CASE contents = <<edited>>
    <3>1. <<edited>> \in Seq(ContentType) /\ ToSet(<<edited>>) = {edited}
      BY SingletonSeq
    <3> QED
      BY <2>1, <3>1
  <2>2. CASE contents = <<edited, formal>>
    <3>1. <<edited, formal>> \in Seq(ContentType)
      BY <1>2
    <3>2. ToSet(<<edited, formal>>) = {edited, formal}
      BY PairSeq
    <3> QED
      BY <2>2, <3>1, <3>2
  <2> QED
    BY <2>1, <2>2
<1> HIDE DEF flaws
<1>4. Store(contents, flaws)
  BY DEF flaws
<1>5. /\ ConfigTypes' /\ exposed'["file"] \subseteq exposed'["copy"]
      /\ \A flaw \in Flaws : Fit(flaw)' \subseteq
           Fit(flaw) \union (IF flaw \in flaws THEN {} ELSE ToSet(contents) \ Retained)
  BY <1>1, <1>2, <1>3, <1>4, Stored DEF VersionsAreThere
<1> QED
  BY <1>2, <1>3, <1>5 DEF WritesFrom, flaws

\* The task writes what it edited, and goes on to w.
LEMMA TaskWrites ==
  ASSUME GeoInv, NEW base \in Retained, NEW edited, NEW stale, NEW w \in WorkType,
         work' = [work EXCEPT ![Task] = w], ActorInv(Task)',
         UNCHANGED <<stored, manifest, lists, published, syncLock, listLock>>,
         seedMarker' \in BOOLEAN, geoEvents' \in 0 .. MaxGeoEvents,
         ~stale => FilesOf(edited) \subseteq FilesOf(base) \union FilesOnRecord,
         ConfigTypes', WritesFrom(base, stale, edited)
  PROVE  GeoInv'
<1>1. Task \in Actors
  BY DEF Actors
<1>2. work' \in [Actors -> WorkType] /\ \A b \in Actors \ {Task} : work'[b] = work[b]
  BY <1>1, OneWorks DEF GeoInv, GeoTypes
<1>3. \A flaw \in Flaws : \A c \in Fit(flaw)' : c \in Fit(flaw)
        \/ (Needed(flaw, c) \subseteq stored /\ \A b \in Actors \ {Task} : Admitted(b, flaw, c))
  BY WriteIsAdmitted DEF WritesFrom
<1>4. exposed'["file"] \subseteq exposed'["copy"]
  BY DEF WritesFrom
<1>5. {Task} \in SUBSET Actors /\ \A a \in {Task} : ActorInv(a)'
  BY <1>1
<1> QED
  BY <1>2, <1>3, <1>4, <1>5, WritingSteps

\* A write of the panel's own, done or not.
LEMMA SystemWrites ==
  ASSUME ConfigTypes, VersionsAreThere, UNCHANGED draft, NEW base \in Retained,
         NEW edited \in ContentType, NEW stale,
         \/ UNCHANGED <<geoConfig, exposed>>
         \/ /\ formal' \in {edited, formal} /\ waiting' \in BOOLEAN
            /\ \/ Store(<<edited>>, WriteFlaws(stale, base, edited))
               \/ Store(<<edited, formal>>, WriteFlaws(stale, base, edited))
  PROVE  ConfigTypes' /\ WritesFrom(base, stale, edited)
<1>1. CASE UNCHANGED <<geoConfig, exposed>>
  BY <1>1, Unwritten DEF WritesFrom, VersionsAreThere, ConfigTypes
<1>2. CASE /\ formal' \in {edited, formal} /\ waiting' \in BOOLEAN
           /\ \/ Store(<<edited>>, WriteFlaws(stale, base, edited))
              \/ Store(<<edited, formal>>, WriteFlaws(stale, base, edited))
  BY <1>2, StoredWrite
<1> QED
  BY <1>1, <1>2

\* The state of the task after a write: at a clean-up of what is retained now, or at rest.
LEMMA AfterWrite ==
  ASSUME ConfigTypes',
         \/ Go(Task, Rest)
         \/ Go(Task, [Rest EXCEPT !.pc = "clean", !.retained = Retained']),
         work \in [Actors -> WorkType]
  PROVE  /\ \E w \in WorkType : work' = [work EXCEPT ![Task] = w]
         /\ ActorInv(Task)' /\ UNCHANGED geoEvents
<1> DEFINE w == [Rest EXCEPT !.pc = "clean", !.retained = Retained']
<1>1. Task \in Actors
  BY DEF Actors
<1>2. CASE Go(Task, Rest)
  BY <1>1, <1>2, NoneAtRest, RestsWell DEF Go
<1>3. CASE Go(Task, w)
  <2> DEFINE retained == Retained'
             v == [Rest EXCEPT !.pc = "clean", !.retained = retained]
  <2>1. retained \subseteq ContentType
    <3>1. ToSet(versions') \subseteq ContentType
      BY ElementOfSeq, LenProperties DEF ToSet, ConfigTypes
    <3> QED
      BY <3>1 DEF Retained, ConfigTypes
  <2> HIDE DEF retained
  <2>2. /\ v \in WorkType /\ v.pc = "clean" /\ v.retained = retained /\ v.doomed = {}
        /\ v.kind = "none"
    BY <2>1, NoneAtRest DEF WorkType, Pcs, Rest
  <2>3. work' = [work EXCEPT ![Task] = v] /\ UNCHANGED geoEvents
    BY <1>3 DEF Go, retained
  <2> HIDE DEF v
  <2>4. work'[Task] = v
    BY <1>1, <2>2, <2>3
  <2>5. work'[Task].retained = Retained'
    BY <2>2, <2>4 DEF retained
  <2>6. ActorInv(Task)'
    BY <1>1, <2>2, <2>4, <2>5, CleanUpBegins
  <2> QED
    BY <2>2, <2>3, <2>6
<1> QED
  BY <1>2, <1>3

LEMMA AppliesGeoData == ASSUME GeoInv, ApplyGeoData PROVE GeoInv'
<1> DEFINE copy == work[Task].copy
           stale == manifest # copy
<1>1. /\ Task \in Actors /\ work[Task] \in WorkType /\ work[Task].pc = "apply"
      /\ work[Task].kind # "refresh" /\ copy \in Copies
  <2>1. Task \in Actors /\ work[Task].pc = "apply" /\ work[Task].kind \in {"geo", "seed"}
    BY DEF Actors, ApplyGeoData
  <2> QED
    BY <2>1, AtWork DEF ActorInv, HasFiles
<1>2. ConfigTypes /\ VersionsAreThere /\ work \in [Actors -> WorkType]
  BY DEF GeoInv, GeoTypes
<1>3. UNCHANGED <<stored, manifest, lists, draft, published, syncLock, listLock>>
  BY DEF ApplyGeoData
<1> HIDE DEF copy, stale
<1>4. ASSUME NEW base \in Retained, base \in ContentType
      PROVE  /\ WithGeo(base, copy) \in ContentType
             /\ ~stale => FilesOf(WithGeo(base, copy)) \subseteq FilesOf(base) \union FilesOnRecord
  <2>1. /\ WithGeo(base, copy) \in ContentType /\ WithGeo(base, copy).geo = copy
        /\ WithGeo(base, copy).block = base.block
    BY <1>1, <1>4 DEF WithGeo, ContentType
  <2> QED
    BY <2>1 DEF FilesOf, FilesOnRecord, FileOf, stale
<1>5. CASE /\ \E up \in BOOLEAN :
                WriteSystemConfig(up, stale, WithGeo(SystemBase(up), copy))
           /\ \/ Ends(Task) /\ seedMarker' = FALSE
              \/ /\ Go(Task, [Rest EXCEPT !.pc = "clean",
                                          !.retained = {formal'} \union ToSet(versions')])
                 /\ UNCHANGED seedMarker
  <2>1. PICK up \in BOOLEAN : WriteSystemConfig(up, stale, WithGeo(SystemBase(up), copy))
    BY <1>5
  <2> DEFINE base == SystemBase(up)
             edited == WithGeo(base, copy)
  <2>2. base \in Retained /\ base \in ContentType
    BY <1>2, BaseIsRetained
  <2> HIDE DEF base
  <2>3. /\ edited \in ContentType
        /\ ~stale => FilesOf(edited) \subseteq FilesOf(base) \union FilesOnRecord
    BY <1>4, <2>2
  <2> HIDE DEF edited
  <2>4. \/ UNCHANGED <<geoConfig, exposed>>
        \/ /\ formal' \in {edited, formal} /\ waiting' \in BOOLEAN
           /\ Store(<<edited>>, WriteFlaws(stale, base, edited))
    BY <2>1 DEF WriteSystemConfig, base, edited
  <2>5. ConfigTypes' /\ WritesFrom(base, stale, edited)
    BY <1>2, <1>3, <2>2, <2>3, <2>4, SystemWrites
  <2>6. /\ \E w \in WorkType : work' = [work EXCEPT ![Task] = w]
        /\ ActorInv(Task)' /\ UNCHANGED geoEvents
    BY <1>2, <1>5, <2>5, AfterWrite DEF Ends, Retained
  <2>7. seedMarker' \in BOOLEAN /\ geoEvents' \in 0 .. MaxGeoEvents
    BY <1>5, <2>6 DEF GeoInv, GeoTypes, FileTypes
  <2> QED
    BY <1>3, <2>2, <2>3, <2>5, <2>6, <2>7, TaskWrites
<1>6. CASE SystemWriteFails(stale, WithGeo(formal, copy)) /\ Ends(Task) /\ UNCHANGED seedMarker
  <2> DEFINE edited == WithGeo(formal, copy)
  <2>1. formal \in Retained /\ formal \in ContentType
    BY <1>2 DEF Retained, ConfigTypes
  <2>2. /\ edited \in ContentType
        /\ ~stale => FilesOf(edited) \subseteq FilesOf(formal) \union FilesOnRecord
    BY <1>4, <2>1
  <2> HIDE DEF edited
  <2>3. \/ UNCHANGED <<geoConfig, exposed>>
        \/ /\ formal' \in {edited, formal} /\ waiting' \in BOOLEAN
           /\ Store(<<edited, formal>>, WriteFlaws(stale, formal, edited))
    BY <1>6 DEF SystemWriteFails, edited
  <2>4. ConfigTypes' /\ WritesFrom(formal, stale, edited)
    BY <1>2, <1>3, <2>1, <2>2, <2>3, SystemWrites
  <2>5. /\ \E w \in WorkType : work' = [work EXCEPT ![Task] = w]
        /\ ActorInv(Task)' /\ UNCHANGED geoEvents
    BY <1>2, <1>6, <2>4, AfterWrite DEF Ends
  <2>6. seedMarker' \in BOOLEAN /\ geoEvents' \in 0 .. MaxGeoEvents
    BY <1>6, <2>5 DEF GeoInv, GeoTypes, FileTypes
  <2> QED
    BY <1>3, <2>1, <2>2, <2>4, <2>5, <2>6, TaskWrites
<1> QED
  BY <1>5, <1>6 DEF ApplyGeoData, stale, copy

LEMMA AppliesLists == ASSUME GeoInv, ApplyLists PROVE GeoInv'
<1> DEFINE old == work[Task].old
           new == work[Task].new
<1>1. /\ Task \in Actors /\ old \in PathOrNone /\ new \in PathOrNone
      /\ new = lists.refreshed
  <2>1. Task \in Actors /\ work[Task].pc = "apply" /\ work[Task].kind = "refresh"
    BY DEF Actors, ApplyLists
  <2> QED
    BY <2>1, AtWork DEF ActorInv, KeepsLists, WorkType
<1>2. ConfigTypes /\ VersionsAreThere /\ work \in [Actors -> WorkType]
  BY DEF GeoInv, GeoTypes
<1>3. UNCHANGED <<stored, manifest, lists, draft, published, syncLock, listLock, seedMarker>>
  BY DEF ApplyLists
<1> HIDE DEF old, new
<1>4. ASSUME NEW base \in Retained, base \in ContentType
      PROVE  /\ WithLists(base, old, new) \in ContentType
             /\ FilesOf(WithLists(base, old, new)) \subseteq FilesOf(base) \union FilesOnRecord
  BY <1>1, <1>4, ReplacedLists DEF FilesOf, FilesOnRecord, FileOf
<1>5. CASE /\ \E up \in BOOLEAN :
                WriteSystemConfig(up, FALSE, WithLists(SystemBase(up), old, new))
           /\ Go(Task, [Rest EXCEPT !.pc = "clean",
                                    !.retained = {formal'} \union ToSet(versions')])
  <2>1. PICK up \in BOOLEAN : WriteSystemConfig(up, FALSE, WithLists(SystemBase(up), old, new))
    BY <1>5
  <2> DEFINE base == SystemBase(up)
             edited == WithLists(base, old, new)
  <2>2. base \in Retained /\ base \in ContentType
    BY <1>2, BaseIsRetained
  <2> HIDE DEF base
  <2>3. /\ edited \in ContentType
        /\ FilesOf(edited) \subseteq FilesOf(base) \union FilesOnRecord
    BY <1>4, <2>2
  <2> HIDE DEF edited
  <2>4. \/ UNCHANGED <<geoConfig, exposed>>
        \/ /\ formal' \in {edited, formal} /\ waiting' \in BOOLEAN
           /\ Store(<<edited>>, WriteFlaws(FALSE, base, edited))
    BY <2>1 DEF WriteSystemConfig, base, edited
  <2>5. ConfigTypes' /\ WritesFrom(base, FALSE, edited)
    BY <1>2, <1>3, <2>2, <2>3, <2>4, SystemWrites
  <2>6. /\ \E w \in WorkType : work' = [work EXCEPT ![Task] = w]
        /\ ActorInv(Task)' /\ UNCHANGED geoEvents
    BY <1>2, <1>5, <2>5, AfterWrite DEF Retained
  <2>7. seedMarker' \in BOOLEAN /\ geoEvents' \in 0 .. MaxGeoEvents
    BY <1>3, <2>6 DEF GeoInv, GeoTypes, FileTypes
  <2> QED
    BY <1>3, <2>2, <2>3, <2>5, <2>6, <2>7, TaskWrites
<1>6. CASE SystemWriteFails(FALSE, WithLists(formal, old, new)) /\ Ends(Task)
  <2> DEFINE edited == WithLists(formal, old, new)
  <2>1. formal \in Retained /\ formal \in ContentType
    BY <1>2 DEF Retained, ConfigTypes
  <2>2. /\ edited \in ContentType
        /\ FilesOf(edited) \subseteq FilesOf(formal) \union FilesOnRecord
    BY <1>4, <2>1
  <2> HIDE DEF edited
  <2>3. \/ UNCHANGED <<geoConfig, exposed>>
        \/ /\ formal' \in {edited, formal} /\ waiting' \in BOOLEAN
           /\ Store(<<edited, formal>>, WriteFlaws(FALSE, formal, edited))
    BY <1>6 DEF SystemWriteFails, edited
  <2>4. ConfigTypes' /\ WritesFrom(formal, FALSE, edited)
    BY <1>2, <1>3, <2>1, <2>2, <2>3, SystemWrites
  <2>5. /\ \E w \in WorkType : work' = [work EXCEPT ![Task] = w]
        /\ ActorInv(Task)' /\ UNCHANGED geoEvents
    BY <1>2, <1>6, <2>4, AfterWrite DEF Ends
  <2>6. seedMarker' \in BOOLEAN /\ geoEvents' \in 0 .. MaxGeoEvents
    BY <1>3, <2>5 DEF GeoInv, GeoTypes, FileTypes
  <2> QED
    BY <1>3, <2>1, <2>2, <2>4, <2>5, <2>6, TaskWrites
<1> QED
  BY <1>5, <1>6 DEF ApplyLists, old, new

\* A saved draft is sound where nothing it needs is gone or overtaken.
LEMMA SavesDraft == ASSUME GeoInv, SaveDraft PROVE GeoInv'
<1>1. ConfigTypes /\ VersionsAreThere /\ work \in [Actors -> WorkType] /\ draft \in ContentType
  BY DEF GeoInv, GeoTypes, ConfigTypes
<1>2. /\ UNCHANGED <<stored, manifest, lists, draft, published, syncLock, listLock, work,
                     seedMarker>>
      /\ Event /\ Store(<<draft>>, Exposing(draft))
      /\ formal' \in {formal, draft} /\ waiting' \in BOOLEAN
  BY DEF SaveDraft
<1>3. /\ Exposing(draft) \subseteq Flaws
      /\ "file" \in Exposing(draft) => "copy" \in Exposing(draft)
  BY DEF Exposing, Needed
<1>4. <<draft>> \in Seq(ContentType) /\ ToSet(<<draft>>) = {draft}
  BY <1>1, SingletonSeq
<1>5. formal' \in Retained \union {draft} /\ draft' \in ContentType
  BY <1>1, <1>2 DEF Retained
<1>6. /\ ConfigTypes' /\ exposed'["file"] \subseteq exposed'["copy"]
      /\ \A flaw \in Flaws : Fit(flaw)' \subseteq
           Fit(flaw) \union (IF flaw \in Exposing(draft) THEN {} ELSE {draft} \ Retained)
  <2> DEFINE flaws == Exposing(draft)
  <2>1. Store(<<draft>>, flaws) /\ flaws \in SUBSET Flaws
        /\ ("file" \in flaws => "copy" \in flaws)
    BY <1>2, <1>3
  <2> HIDE DEF flaws
  <2>2. /\ ConfigTypes' /\ exposed'["file"] \subseteq exposed'["copy"]
        /\ \A flaw \in Flaws : Fit(flaw)' \subseteq
             Fit(flaw) \union (IF flaw \in flaws THEN {} ELSE {draft} \ Retained)
    BY <1>1, <1>2, <1>4, <1>5, <2>1, Stored DEF VersionsAreThere
  <2> QED
    BY <2>2 DEF flaws
<1>7. ASSUME NEW flaw \in Flaws, flaw \notin Exposing(draft)
      PROVE  Needed(flaw, draft) \subseteq stored /\ \A b \in Actors : Admitted(b, flaw, draft)
  <2>1. /\ Needed(flaw, draft) \subseteq stored /\ ~Overtakes(draft)
        /\ flaw = "copy" => ~Revives(draft)
    BY <1>7 DEF Exposing
  <2>2. ASSUME NEW b \in Actors PROVE Admitted(b, flaw, draft)
    <3>1. ActorInv(b)
      BY DEF GeoInv
    <3>2. work[b].pc \in {"clean", "cleanLists", "remove"} => draft \in work[b].retained
      BY <2>1 DEF Overtakes, Cleaning
    <3>3. work[b].pc \in {"clean", "cleanLists"} => Seen(b, draft) /\ ListsSeen(b, draft)
      BY <3>2 DEF Seen, ListsSeen, Named
    <3>4. work[b].pc = "remove" => Spares(b, Needed(flaw, draft))
      <4> SUFFICES ASSUME work[b].pc = "remove" PROVE Spares(b, Needed(flaw, draft))
        OBVIOUS
      <4>1. /\ Spares(b, FilesOf(draft))
            /\ draft.block # NoFile /\ MergedFile(draft.block) \in stored =>
                 Spares(b, CopiesOf(draft))
        BY <3>1, <3>2 DEF ActorInv, RemovesTheRest
      <4>2. draft.block # NoFile => MergedFile(draft.block) \in stored
        BY <2>1 DEF Needed, FilesOf, FileOf
      <4>3. Spares(b, CopiesOf(draft))
        <5>1. CASE draft.block = NoFile
          BY <5>1 DEF CopiesOf, Spares
        <5>2. CASE draft.block # NoFile
          BY <4>1, <4>2, <5>2
        <5> QED
          BY <5>1, <5>2
      <4> QED
        BY <4>1, <4>3 DEF Needed, Spares
    <3>5. work[b].kind = "refresh" /\ flaw = "copy" /\ draft.block = work[b].old =>
            InUse(draft.block)
      <4> SUFFICES ASSUME work[b].kind = "refresh", flaw = "copy", draft.block = work[b].old
                   PROVE  InUse(draft.block)
        OBVIOUS
      <4>1. b = Task
        BY <3>1 DEF ActorInv, HoldsLocks
      <4> QED
        BY <2>1, <4>1 DEF Revives, InUse, Fit
    <3> QED
      BY <3>3, <3>4, <3>5 DEF Admitted
  <2> QED
    BY <2>1, <2>2
<1>8. \A flaw \in Flaws : \A c \in Fit(flaw)' : c \in Fit(flaw)
        \/ (Needed(flaw, c) \subseteq stored /\ \A b \in Actors \ {} : Admitted(b, flaw, c))
  BY <1>6, <1>7
<1>9. /\ work' \in [Actors -> WorkType] /\ \A b \in Actors \ {} : work'[b] = work[b]
      /\ {} \in SUBSET Actors /\ \A a \in {} : ActorInv(a)'
  BY <1>1, <1>2
<1>10. seedMarker' \in BOOLEAN /\ geoEvents' \in 0 .. MaxGeoEvents
  BY <1>2, Begun DEF GeoInv, GeoTypes, FileTypes, Event
<1> QED
  BY <1>2, <1>6, <1>8, <1>9, <1>10, WritingSteps

LEMMA RestoresVersion == ASSUME GeoInv, RestoreVersion PROVE GeoInv'
<1>1. ConfigTypes /\ VersionsAreThere /\ work \in [Actors -> WorkType] /\ draft \in ContentType
  BY DEF GeoInv, GeoTypes, ConfigTypes
<1>2. PICK i \in DOMAIN versions :
        /\ formal' = versions[i] /\ waiting' = FALSE /\ Store(<<versions[i]>>, {})
  BY DEF RestoreVersion
<1> DEFINE content == versions[i]
<1>3. content \in ContentType /\ content \in Retained
  <2>1. content \in ToSet(versions)
    BY DEF ToSet
  <2> QED
    BY <1>1, <2>1, RetainedAreContents DEF Retained
<1> HIDE DEF content
<1>4. UNCHANGED <<stored, manifest, lists, draft, published, syncLock, listLock, work, seedMarker>>
      /\ Event
  BY DEF RestoreVersion
<1>5. <<content>> \in Seq(ContentType) /\ ToSet(<<content>>) = {content}
  BY <1>3, SingletonSeq
<1>6. /\ ConfigTypes' /\ exposed'["file"] \subseteq exposed'["copy"]
      /\ \A flaw \in Flaws : Fit(flaw)' \subseteq Fit(flaw)
  <2> DEFINE flaws == {}
  <2>1. /\ Store(<<content>>, flaws) /\ formal' \in Retained \union {content}
        /\ waiting' \in BOOLEAN /\ draft' \in ContentType
        /\ flaws \in SUBSET Flaws /\ ("file" \in flaws => "copy" \in flaws)
    BY <1>1, <1>2, <1>4 DEF content
  <2> HIDE DEF flaws
  <2>2. /\ ConfigTypes' /\ exposed'["file"] \subseteq exposed'["copy"]
        /\ \A flaw \in Flaws : Fit(flaw)' \subseteq
             Fit(flaw) \union (IF flaw \in flaws THEN {} ELSE {content} \ Retained)
    BY <1>1, <1>5, <2>1, Stored DEF VersionsAreThere
  <2> QED
    BY <1>3, <2>2
<1>7. /\ work' \in [Actors -> WorkType] /\ \A b \in Actors \ {} : work'[b] = work[b]
      /\ {} \in SUBSET Actors /\ \A a \in {} : ActorInv(a)'
  BY <1>1, <1>4
<1>8. seedMarker' \in BOOLEAN /\ geoEvents' \in 0 .. MaxGeoEvents
  BY <1>4, Begun DEF GeoInv, GeoTypes, FileTypes, Event
<1>9. \A flaw \in Flaws : \A c \in Fit(flaw)' : c \in Fit(flaw)
        \/ (Needed(flaw, c) \subseteq stored /\ \A b \in Actors \ {} : Admitted(b, flaw, c))
  BY <1>6
<1> QED
  BY <1>4, <1>6, <1>7, <1>8, <1>9, WritingSteps

---------------------------------------------------------------------------
(* The rest of the steps, and the theorems.                                *)

\* An end of the panel drops what is under way; a new database records nothing yet.
LEMMA Restarts == ASSUME GeoInv, GeoRestart PROVE GeoInv'
<1> USE GeoAssumption DEF GeoAssumption
<1>1. /\ Event /\ work' = [a \in Actors |-> Rest] /\ syncLock' = Free /\ listLock' = Free
      /\ UNCHANGED <<stored, formal, draft, published, seedMarker>>
  BY DEF GeoRestart
<1>2. ConfigTypes /\ VersionsAreThere /\ RecordIsThere /\ FileTypes
  BY DEF GeoInv, GeoTypes
<1>3. work' \in [Actors -> WorkType] /\ \A a \in Actors : ActorInv(a)'
  <2>1. work' \in [Actors -> WorkType] /\ \A a \in Actors : work'[a] = Rest
    BY <1>1, NoneAtRest
  <2> QED
    BY <2>1, RestsWell
<1>4. /\ ConfigTypes' /\ exposed'["file"] \subseteq exposed'["copy"]
      /\ \A flaw \in Flaws : Fit(flaw)' \subseteq Fit(flaw)
  <2>1. CASE UNCHANGED <<manifest, lists, versions, waiting, exposed>>
    <3>1. UNCHANGED <<geoConfig, exposed>>
      BY <1>1, <2>1 DEF geoConfig
    <3> QED
      BY <1>1, <1>2, <2>1, <3>1, Unwritten DEF ConfigTypes, VersionsAreThere
  <2>2. CASE /\ versions' = <<formal>> /\ waiting' = FALSE
             /\ exposed' = [flaw \in Flaws |-> exposed[flaw] \intersect {formal}]
    <3>1. formal \in ContentType
      BY <1>2 DEF ConfigTypes
    <3>2. /\ <<formal>> \in Seq(ContentType) /\ ToSet(<<formal>>) = {formal}
          /\ Len(<<formal>>) = 1
      BY <3>1, SingletonSeq
    <3>3. Retained' = {formal} /\ formal \in Retained
      BY <1>1, <2>2, <3>2 DEF Retained
    <3>4. ConfigTypes'
      <4>1. exposed' \in [Flaws -> SUBSET {formal}]
        BY <2>2
      <4>2. exposed' \in [Flaws -> SUBSET Retained']
        BY <3>3, <4>1
      <4>3. versions' \in Seq(ContentType) /\ Len(versions') \in 1 .. KeptVersions
        <5>1. 1 \in 1 .. KeptVersions
          OBVIOUS
        <5> QED
          BY <2>2, <3>2, <5>1
      <4> QED
        BY <1>1, <1>2, <2>2, <4>2, <4>3 DEF ConfigTypes
    <3>5. exposed'["file"] \subseteq exposed'["copy"]
      BY <1>2, <2>2 DEF VersionsAreThere
    <3>6. \A flaw \in Flaws : Fit(flaw)' \subseteq Fit(flaw)
      BY <2>2, <3>3 DEF Fit
    <3> QED
      BY <3>4, <3>5, <3>6
  <2> QED
    BY <2>1, <2>2 DEF GeoRestart
<1>5. VersionsAreThere'
  <2>1. \A flaw \in Flaws : \A c : Needed(flaw, c)' = Needed(flaw, c)
    BY DEF Needed
  <2> QED
    BY <1>1, <1>2, <1>4, <2>1 DEF VersionsAreThere
<1>6. manifest' \in Copies \union {NoFile} /\ lists' \in ListsType /\ RecordIsThere'
  <2>1. CASE UNCHANGED <<manifest, lists>>
    BY <1>1, <1>2, <2>1 DEF RecordIsThere, FilesOnRecord, RawsIn, FileTypes
  <2>2. CASE manifest' = NoFile /\ lists' = NoLists
    <3>1. /\ NoLists.built = NoFile /\ NoLists.refreshed = NoFile
          /\ \A l \in Lists : NoLists.sources[l] \notin Copies
      BY DEF NoLists
    <3> QED
      BY <2>2, <3>1, NoneAtRest DEF RecordIsThere, FilesOnRecord, FileOf, RawsIn
  <2> QED
    BY <2>1, <2>2 DEF GeoRestart
<1>7. FileTypes'
  <2>1. geoEvents' \in 0 .. MaxGeoEvents
    BY <1>1, <1>2, Begun DEF Event
  <2> QED
    BY <1>1, <1>2, <1>6, <2>1 DEF FileTypes
<1> QED
  BY <1>3, <1>4, <1>5, <1>6, <1>7 DEF GeoInv, GeoTypes

\* A draft read, or a new copy given out, is nothing to anybody's files.
LEMMA LooksAround == ASSUME GeoInv, LoadDraft \/ NewCopy \/ UNCHANGED geoVars PROVE GeoInv'
<1>1. /\ UNCHANGED <<stored, manifest, lists, geoConfig, syncLock, listLock, work, seedMarker,
                     geoEvents, exposed>>
      /\ draft' \in ContentType /\ published' \in Copies
  <2>1. CASE LoadDraft
    <3>1. FALSE \in BOOLEAN /\ ConfigTypes
      BY DEF GeoInv, GeoTypes
    <3> QED
      BY <2>1, <3>1, BaseIsRetained DEF LoadDraft, GeoInv, GeoTypes, FileTypes
  <2>2. CASE NewCopy
    BY <2>2, GeoAssumption
       DEF GeoAssumption, NewCopy, Copies, GeoInv, GeoTypes, FileTypes, ConfigTypes
  <2>3. CASE UNCHANGED geoVars
    BY <2>3 DEF geoVars, geoConfig, GeoInv, GeoTypes, FileTypes, ConfigTypes
  <2> QED
    BY <2>1, <2>2, <2>3
<1>2. /\ ConfigTypes' /\ \A flaw \in Flaws : Fit(flaw)' = Fit(flaw)
  BY <1>1, Unwritten DEF GeoInv, GeoTypes
<1>3. FileTypes' /\ work' \in [Actors -> WorkType]
  BY <1>1 DEF GeoInv, GeoTypes, FileTypes
<1>4. VersionsAreThere' /\ RecordIsThere'
  <2>1. \A flaw \in Flaws : \A c : Needed(flaw, c)' = Needed(flaw, c)
    BY DEF Needed
  <2> QED
    BY <1>1, <1>2, <2>1 DEF GeoInv, VersionsAreThere, RecordIsThere, FilesOnRecord, RawsIn
<1>5. ASSUME NEW b \in Actors PROVE ActorInv(b)'
  <2>1. ActorInv(b) /\ work'[b] = work[b]
    BY <1>1 DEF GeoInv
  <2> QED
    BY <1>1, <1>2, <2>1, OthersAdmit
<1> QED
  BY <1>2, <1>3, <1>4, <1>5 DEF GeoInv, GeoTypes

LEMMA GeoInitially == GeoInit => GeoInv
<1> SUFFICES ASSUME GeoInit PROVE GeoInv
  OBVIOUS
<1> USE GeoAssumption DEF GeoAssumption
<1> DEFINE all == {<<l, 0>> : l \in Lists}
<1>1. /\ versions = <<formal>> /\ waiting = FALSE /\ draft = formal /\ published = 0
      /\ syncLock = Free /\ listLock = Free /\ work = [a \in Actors |-> Rest]
      /\ geoEvents = 0 /\ exposed = [flaw \in Flaws |-> {}]
  BY DEF GeoInit
<1>2. 0 \in Copies
  BY DEF Copies
<1>3. all \in PathOrNone /\ all \subseteq Lists \X Copies
  <2>1. PICK l \in Lists : TRUE
    OBVIOUS
  <2>2. <<l, 0>> \in all /\ all \subseteq Lists \X Copies
    BY <1>2
  <2> HIDE DEF all
  <2> QED
    BY <2>2 DEF PathOrNone
<1>4. /\ stored \subseteq Files /\ manifest \in Copies \union {NoFile} /\ lists \in ListsType
      /\ seedMarker \in BOOLEAN /\ formal \in ContentType
      /\ FilesOnRecord \subseteq stored /\ RawsIn(lists) \subseteq stored
      /\ FilesOf(formal) \subseteq stored /\ CopiesOf(formal) \subseteq stored
  <2>1. CASE /\ stored = {GeoFile(0), MergedFile(all)} \union {RawFile(s) : s \in all}
             /\ manifest = 0 /\ formal = [geo |-> 0, block |-> all]
             /\ lists = [sources |-> [l \in Lists |-> 0], built |-> all,
                         refreshed |-> NoFile, requested |-> Lists]
             /\ seedMarker = FALSE
    <3> HIDE DEF all
    <3>1. stored \subseteq Files
      BY <1>2, <1>3, <2>1 DEF Files
    <3>2. formal \in ContentType /\ formal.geo = 0 /\ formal.block = all
      BY <1>2, <1>3, <2>1 DEF ContentType
    <3>3. lists \in ListsType
      BY <1>2, <1>3, <2>1 DEF ListsType, PathOrNone
    <3>4. FilesOnRecord \subseteq stored
      BY <2>1 DEF FilesOnRecord, FileOf
    <3>5. RawsIn(lists) \subseteq stored
      BY <2>1 DEF RawsIn, all
    <3>6. FilesOf(formal) \subseteq stored /\ CopiesOf(formal) \subseteq stored
      BY <2>1, <3>2 DEF FilesOf, FileOf, CopiesOf
    <3> QED
      BY <1>2, <2>1, <3>1, <3>2, <3>3, <3>4, <3>5, <3>6
  <2>2. CASE /\ stored = {} /\ manifest = NoFile /\ lists = NoLists
             /\ formal = [geo |-> NoFile, block |-> NoFile] /\ seedMarker = TRUE
    <3>1. formal \in ContentType /\ formal.geo = NoFile /\ formal.block = NoFile
      BY <2>2 DEF ContentType, PathOrNone
    <3>2. /\ lists.built = NoFile /\ lists.refreshed = NoFile
          /\ \A l \in Lists : lists.sources[l] \notin Copies
      BY <2>2 DEF NoLists
    <3>3. FilesOnRecord = {} /\ RawsIn(lists) = {}
      BY <2>2, <3>2 DEF FilesOnRecord, FileOf, RawsIn
    <3>4. FilesOf(formal) = {} /\ CopiesOf(formal) = {}
      BY <3>1 DEF FilesOf, FileOf, CopiesOf
    <3> QED
      BY <2>2, <3>1, <3>3, <3>4, NoneAtRest
  <2> QED
    BY <2>1, <2>2 DEF GeoInit
<1>5. /\ <<formal>> \in Seq(ContentType) /\ ToSet(<<formal>>) = {formal} /\ Len(<<formal>>) = 1
  BY <1>4, SingletonSeq
<1>6. Retained = {formal}
  BY <1>1, <1>5 DEF Retained
<1>7. ConfigTypes
  <2>1. exposed \in [Flaws -> SUBSET Retained]
    BY <1>1
  <2>2. versions \in Seq(ContentType) /\ Len(versions) \in 1 .. KeptVersions
    <3>1. 1 \in 1 .. KeptVersions
      OBVIOUS
    <3> QED
      BY <1>1, <1>5, <3>1
  <2> QED
    BY <1>1, <1>4, <2>1, <2>2 DEF ConfigTypes
<1>8. FileTypes
  BY <1>1, <1>2, <1>4 DEF FileTypes
<1>9. VersionsAreThere
  BY <1>1, <1>4, <1>6 DEF VersionsAreThere, Fit, Needed
<1>10. work \in [Actors -> WorkType] /\ \A a \in Actors : ActorInv(a)
  <2>1. work \in [Actors -> WorkType] /\ \A a \in Actors : work[a] = Rest
    BY <1>1, NoneAtRest
  <2> QED
    BY <2>1 DEF Rest, ActorInv, HoldsLocks, HasFiles, KeepsLists, CleansWhatIsLeft,
       RemovesTheRest
<1> QED
  BY <1>4, <1>7, <1>8, <1>9, <1>10 DEF GeoInv, GeoTypes, RecordIsThere

\* Every step keeps the invariant.
LEMMA GeoSteps == GeoInv /\ [GeoNext]_geoVars => GeoInv'
<1> SUFFICES ASSUME GeoInv, [GeoNext]_geoVars PROVE GeoInv'
  OBVIOUS
<1>1. ASSUME NEW a \in Actors, GeoStep(a) PROVE GeoInv'
  BY <1>1, Downloads, StoresManifest, FetchesLists, MergesLists, RecordsLists, ForgetsLists,
     FindsUnreferenced, RemovesFile, EndsCleanup DEF GeoStep
<1>2. ASSUME NEW p \in Pages, SyncGeoData(p) \/ ImportBuiltin(p) \/ BuildBlocklists(p) \/ CleanUp(p)
      PROVE  GeoInv'
  BY <1>2, SyncsGeoData, ImportsBuiltin, BuildsBlocklists, CleansUp
<1>3. ASSUME ScheduledGeoUpdate \/ SeedBuiltin \/ ApplyGeoData PROVE GeoInv'
  BY <1>3, UpdatesGeoData, SeedsBuiltin, AppliesGeoData
<1>4. ASSUME ScheduledRefresh \/ RecallSources \/ ApplyLists PROVE GeoInv'
  BY <1>4, RefreshBegins, RecallsSources, AppliesLists
<1>5. ASSUME SaveDraft \/ RestoreVersion \/ GeoRestart PROVE GeoInv'
  BY <1>5, SavesDraft, RestoresVersion, Restarts
<1>6. ASSUME LoadDraft \/ NewCopy \/ UNCHANGED geoVars PROVE GeoInv'
  BY <1>6, LooksAround
<1> QED
  BY <1>1, <1>2, <1>3, <1>4, <1>5, <1>6 DEF GeoNext

\* The invariant holds throughout.
THEOREM GeoInvariant == GeoSpec => []GeoInv
BY GeoInitially, GeoSteps, PTL DEF GeoSpec

\* The type invariant and the files: what a retained version names is there, and what the
\* panel has on record, but for the flawed versions.
LEMMA FilesFollow == GeoInv => NamedFilesExist
<1> SUFFICES ASSUME GeoInv PROVE NamedFilesExist
  OBVIOUS
<1>1. FileTypes /\ ConfigTypes /\ work \in [Actors -> WorkType]
  BY DEF GeoInv, GeoTypes
<1>2. GeoTypeOK
  <2>1. \A f \in stored : f.kind \in {"geo", "raw", "merged"}
    BY <1>1, FilesHaveKinds DEF FileTypes
  <2>2. {formal, draft} \union ToSet(versions) \subseteq ContentType
    BY <1>1, RetainedAreContents DEF ConfigTypes, Retained
  <2>3. ASSUME NEW a \in Actors
        PROVE  work[a].state \in ListsType /\ work[a].doomed \subseteq stored
    BY <1>1 DEF WorkType, GeoInv, ActorInv, HoldsLocks, RemovesTheRest
  <2> QED
    BY <1>1, <2>1, <2>2, <2>3 DEF GeoTypeOK, FileTypes, ConfigTypes
<1>3. \A l \in Lists : lists.sources[l] \in Copies => RawFile(<<l, lists.sources[l]>>) \in stored
  BY DEF GeoInv, RecordIsThere, RawsIn
<1>4. FilesOnRecord \subseteq stored
  BY DEF GeoInv, RecordIsThere
<1>5. \A flaw \in Flaws : \A content \in Retained \ exposed[flaw] :
        Needed(flaw, content) \subseteq stored
  BY DEF GeoInv, VersionsAreThere, Fit
<1> QED
  BY <1>2, <1>3, <1>4, <1>5 DEF NamedFilesExist, FilesOnRecord

\* Whatever downloads, builds, writes, clean-ups and ends of the panel come between, the
\* files are there.
THEOREM FilesExist == GeoSpec => []NamedFilesExist
BY GeoInvariant, FilesFollow, PTL

\* A scheduled update never drops a list of a file that a sound version names.
THEOREM ListsAreKept == GeoSpec => []ListsStay
<1>1. GeoInv => ListsStay
  <2> SUFFICES ASSUME GeoInv, work[Task].pc = "apply", work[Task].kind = "refresh",
                      work[Task].new # NoFile,
                      NEW content \in Fit("copy"), content.block = work[Task].old
               PROVE  ListsIn(work[Task].new) = ListsIn(work[Task].old)
    BY DEF ListsStay, Fit
  <2>1. KeepsLists(Task) /\ InUse(work[Task].old)
    BY DEF GeoInv, ActorInv, Actors, InUse
  <2> QED
    BY <2>1 DEF KeepsLists
<1> QED
  BY <1>1, GeoInvariant, PTL

---------------------------------------------------------------------------
(* The schedule of the updates, for any intervals, any number of changes   *)
(* of the setting and any number of ends of the panel.                     *)

\* The setting holds the time of the latest run, unless a page stored one since.
AttemptIsNoted(s) == lastRun # Off /\ ~setSince => s.attempt = lastRun

\* A run that is about to be noted was due, unless a page stored a setting since.
RunIsDue ==
  runner.pc \in {"attempt", "attempted"} /\ lastRun # Off /\ ~setSince => IsDue(setting)

\* What the task is about to store is the setting as it is, but for what it noted.
CopyIsCurrent ==
  /\ runner.pc = "attempted" =>
       /\ runner.copy.attempt = clock
       /\ lastRun # Off /\ ~setSince => runner.copy.interval = setting.interval
  /\ runner.pc = "result" => AttemptIsNoted(runner.copy)

ScheduleInv == ScheduleTypeOK /\ AttemptIsNoted(setting) /\ RunIsDue /\ CopyIsCurrent

USE ScheduleAssumption DEF ScheduleAssumption

\* Noting a time or a result in a setting leaves a setting, with its interval.
LEMMA AttemptNoted ==
  ASSUME NEW s \in SettingType, NEW t \in Times
  PROVE  /\ [s EXCEPT !.attempt = t] \in SettingType
         /\ [s EXCEPT !.attempt = t].attempt = t
         /\ [s EXCEPT !.attempt = t].interval = s.interval
BY DEF SettingType

LEMMA ResultNoted ==
  ASSUME NEW s \in SettingType, NEW t \in Times, NEW f \in BOOLEAN
  PROVE  /\ [s EXCEPT !.failed = f, !.success = IF f THEN s.success ELSE t] \in SettingType
         /\ [s EXCEPT !.failed = f, !.success = IF f THEN s.success ELSE t].attempt = s.attempt
BY DEF SettingType

LEMMA IntervalSet ==
  ASSUME NEW s \in SettingType, NEW i \in Intervals \union {Off}, NEW f \in BOOLEAN
  PROVE  [s EXCEPT !.interval = i, !.attempt = Off, !.failed = f] \in SettingType
BY DEF SettingType

LEMMA ScheduleInitially == ScheduleInit => ScheduleInv
<1> SUFFICES ASSUME ScheduleInit PROVE ScheduleInv
  OBVIOUS
<1>1. Unset \in SettingType
  BY DEF Unset, SettingType
<1>2. Quiet \in [pc : {"idle"}, copy : SettingType]
  BY <1>1 DEF Quiet
<1>3. clock \in Times /\ sets \in 0 .. MaxSets /\ taskEnds \in 0 .. MaxTaskEnds
  BY DEF ScheduleInit, Times
<1>4. ScheduleTypeOK
  BY <1>1, <1>2, <1>3 DEF ScheduleInit, ScheduleTypeOK
<1> QED
  BY <1>2, <1>4 DEF ScheduleInit, ScheduleInv, AttemptIsNoted, RunIsDue, CopyIsCurrent

\* Every step keeps the invariant.
LEMMA ScheduleSteps == ScheduleInv /\ [ScheduleNext]_scheduleVars => ScheduleInv'
<1> SUFFICES ASSUME ScheduleInv, [ScheduleNext]_scheduleVars PROVE ScheduleInv'
  OBVIOUS
<1> USE DEF ScheduleInv
<1>1. CASE SetIntervalReads
  <2>1. PICK interval \in Intervals \union {Off} :
          setter' = [pc |-> "store", copy |-> [setting EXCEPT !.interval = interval,
                                                  !.attempt = Off, !.failed = FALSE]]
    BY <1>1 DEF SetIntervalReads
  <2>2. [setting EXCEPT !.interval = interval, !.attempt = Off, !.failed = FALSE] \in SettingType
    BY IntervalSet, FALSE \in BOOLEAN DEF ScheduleTypeOK
  <2>3. ScheduleTypeOK'
    BY <1>1, <2>1, <2>2 DEF SetIntervalReads, ScheduleTypeOK, Times
  <2> QED
    BY <1>1, <2>3 DEF SetIntervalReads, AttemptIsNoted, RunIsDue, CopyIsCurrent, IsDue, NextRun
<1>2. CASE SetIntervalStores
  BY <1>2 DEF SetIntervalStores, ScheduleTypeOK, Times, Quiet, Unset, SettingType,
              AttemptIsNoted, RunIsDue, CopyIsCurrent
<1>3. CASE LookWhetherDue
  <2>1. ScheduleTypeOK'
    BY <1>3 DEF LookWhetherDue, ScheduleTypeOK, Times
  <2> QED
    BY <1>3, <2>1 DEF LookWhetherDue, ScheduleTypeOK, AttemptIsNoted, RunIsDue, CopyIsCurrent,
                      IsDue, NextRun
<1>4. CASE MarkAttemptReads
  <2>1. /\ [setting EXCEPT !.attempt = clock] \in SettingType
        /\ [setting EXCEPT !.attempt = clock].attempt = clock
        /\ [setting EXCEPT !.attempt = clock].interval = setting.interval
    BY AttemptNoted DEF ScheduleTypeOK
  <2> QED
    BY <1>4, <2>1 DEF MarkAttemptReads, ScheduleTypeOK, Times, AttemptIsNoted, RunIsDue,
                      CopyIsCurrent, IsDue, NextRun
<1>5. CASE MarkAttemptStores
  BY <1>5 DEF MarkAttemptStores, ScheduleTypeOK, Times, Quiet, Unset, SettingType,
              AttemptIsNoted, RunIsDue, CopyIsCurrent
<1>6. CASE MarkResultReads
  <2>1. PICK failed \in BOOLEAN :
          runner' = [pc |-> "result",
                     copy |-> [setting EXCEPT !.failed = failed,
                                 !.success = IF failed THEN setting.success ELSE clock]]
    BY <1>6 DEF MarkResultReads, ScheduleTypeOK, SettingType
  <2> DEFINE noted == [setting EXCEPT !.failed = failed,
                         !.success = IF failed THEN setting.success ELSE clock]
  <2>2. noted \in SettingType /\ noted.attempt = setting.attempt
    BY ResultNoted DEF ScheduleTypeOK
  <2> HIDE DEF noted
  <2> QED
    BY <1>6, <2>1, <2>2 DEF MarkResultReads, noted, ScheduleTypeOK, Times, AttemptIsNoted,
                            RunIsDue, CopyIsCurrent
<1>7. CASE MarkResultStores
  BY <1>7 DEF MarkResultStores, ScheduleTypeOK, Times, Quiet, Unset, SettingType,
              AttemptIsNoted, RunIsDue, CopyIsCurrent
<1>8. CASE Tick
  BY <1>8 DEF Tick, ScheduleTypeOK, Times, SettingType, AttemptIsNoted, RunIsDue, CopyIsCurrent
<1>9. CASE TaskEnds
  BY <1>9 DEF TaskEnds, ScheduleTypeOK, Times, Quiet, Unset, SettingType, AttemptIsNoted,
              RunIsDue, CopyIsCurrent
<1>10. CASE UNCHANGED scheduleVars
  BY <1>10 DEF scheduleVars, ScheduleTypeOK, Times, AttemptIsNoted, RunIsDue, CopyIsCurrent,
               IsDue, NextRun
<1> QED
  BY <1>1, <1>2, <1>3, <1>4, <1>5, <1>6, <1>7, <1>8, <1>9, <1>10 DEF ScheduleNext

\* The invariant holds throughout.
THEOREM ScheduleInvariant == ScheduleSpec => []ScheduleInv
BY ScheduleInitially, ScheduleSteps, PTL DEF ScheduleSpec

\* An update never comes again before its interval is over, unless a page stored a setting.
THEOREM UpdatesArePaced == ScheduleSpec => ScheduleIsPaced
<1>1. ASSUME ScheduleInv, ScheduleInv', [ScheduleNext]_scheduleVars
      PROVE  [/\ ScheduleTypeOK'
              /\ lastRun' # lastRun /\ lastRun # Off /\ ~setSince
                   => lastRun' >= lastRun + setting'.interval]_scheduleVars
  <2> SUFFICES ASSUME lastRun' # lastRun, lastRun # Off, ~setSince
               PROVE  lastRun' >= lastRun + setting'.interval
    BY <1>1 DEF ScheduleInv
  <2>1. MarkAttemptStores
    BY <1>1 DEF ScheduleNext, SetIntervalReads, SetIntervalStores, LookWhetherDue,
                MarkAttemptReads, MarkResultReads, MarkResultStores, Tick, TaskEnds,
                scheduleVars
  <2>2. /\ lastRun' = clock /\ setting'.interval = setting.interval
        /\ setting.attempt = lastRun /\ IsDue(setting)
    BY <1>1, <2>1 DEF ScheduleInv, MarkAttemptStores, CopyIsCurrent, RunIsDue, AttemptIsNoted
  <2> QED
    BY <1>1, <2>2 DEF IsDue, NextRun, ScheduleInv, ScheduleTypeOK, SettingType, Times
<1> QED
  BY <1>1, ScheduleInvariant, ScheduleSteps, PTL DEF ScheduleIsPaced, ScheduleSpec

---------------------------------------------------------------------------
(* The query log's files.  The invariant.                                  *)

\* What the table, the files and a tidying pass hold.
SegmentType ==
  [start : 0 .. MaxTick, first : Nat, format : Formats, open : BOOLEAN, bytes : Nat \ {0}]
SegmentFile ==
  [start : 0 .. MaxTick, first : Nat, format : Formats, rows : Seq(RowType), size : Nat,
   synced : Nat]
TidyPcs ==
  {"idle", "compress", "rename", "note", "unlink", "enforce", "remove", "sync", "state"}
TidyType ==
  [pc : TidyPcs, plains : Seq(SegmentType), rows : Seq(RowType), doomed : Seq(SegmentType)]

LogTyped ==
  /\ segs \in Seq(SegmentType) /\ logFiles \in SUBSET SegmentFile
  /\ tidy \in TidyType /\ clearing \in Seq(SegmentType)
  /\ nextId \in Nat \ {0} /\ savedId \in Nat /\ stateDue \in BOOLEAN
  /\ logClock \in 0 .. MaxTick /\ logEvents \in 0 .. MaxLogEvents
  /\ DOMAIN walk = DOMAIN NoWalk /\ walk.pc \in {"idle", "page", "next"} /\ walk.wrong \in BOOLEAN
  /\ \A f \in logFiles : f.synced <= Len(f.rows)

\* The table is in order and only its last segment may be open.
Ascending(log) == \A i, j \in DOMAIN log : i < j => log[i].first < log[j].first
TableInv ==
  /\ Ascending(segs)
  /\ \A i \in DOMAIN segs : segs[i].open => i = Len(segs) /\ segs[i].format = "zstd"

\* Everything any step speaks of: no two with one first id are of different hours, and none is
\* behind the open segment.
Spoken == ToSet(segs) \union logFiles \union ToSet(tidy.plains) \union ToSet(tidy.doomed)
            \union ToSet(clearing)
KeysInv ==
  /\ \A s \in Spoken : s.first < nextId
  /\ IsOpen => \A s \in Spoken : s.first <= Last(segs).first
  /\ \A s, t \in Spoken : s.first = t.first => s.start = t.start

\* What a file of a segment may hold, beside the others and the next id.
Fits(rows, s, others, next) ==
  /\ \A m \in DOMAIN rows : s.first <= rows[m].id /\ rows[m].id < next
                            /\ rows[m].time < SegmentEnd(s)
  /\ \A m, n \in DOMAIN rows : m < n => rows[m].id < rows[n].id
  /\ \A g \in others : s.first < g.first => \A m \in DOMAIN rows : rows[m].id < g.first

\* Every file fits; one of a kind for a segment; a plain one is synced and never empty.
FilesInv ==
  /\ \A f \in logFiles : Fits(f.rows, f, Spoken, nextId)
  /\ \A f, g \in logFiles : f.first = g.first /\ f.format = g.format => f = g
  /\ \A f \in logFiles : f.format = "plain" =>
       f.rows # <<>> /\ f.size > 0 /\ f.synced = Len(f.rows)

\* Every segment has its file and every file its segment, or somebody is about to remove it.
HasFile == \A i \in DOMAIN segs : FileAt(segs[i], segs[i].format) # {}
Spare(f) ==
  \/ tidy.pc = "note" /\ f.format = "zstd" /\ Same(f, Head(tidy.plains))
  \/ tidy.pc = "unlink" /\ f.format = "plain" /\ Same(f, Head(tidy.plains))
HasSegment ==
  \A f \in logFiles :
    \/ \E i \in DOMAIN segs : Same(f, segs[i]) /\ f.format = segs[i].format
    \/ \E i \in DOMAIN tidy.doomed : Same(f, tidy.doomed[i])
    \/ \E i \in DOMAIN clearing : Same(f, clearing[i])
    \/ Spare(f)
\* What is to be removed is no longer in the table.
RemovesOthers ==
  /\ \A i \in DOMAIN segs : \A j \in DOMAIN tidy.doomed : segs[i].first # tidy.doomed[j].first
  /\ \A i \in DOMAIN segs : \A j \in DOMAIN clearing : segs[i].first # clearing[j].first

\* A pass that compresses: what it has read fits, and the table names the file that is there.
Working == {"compress", "rename", "note", "unlink"}
CompressInv ==
  /\ Ascending(tidy.plains)
  /\ tidy.pc \in Working <=> tidy.plains # <<>>
  /\ tidy.pc = "remove" <=> tidy.doomed # <<>>
  /\ tidy.pc \in {"rename", "note"} =>
       tidy.rows # <<>> /\ Fits(tidy.rows, Head(tidy.plains), Spoken, nextId)
  /\ \A i \in DOMAIN segs : \A j \in DOMAIN tidy.plains :
       segs[i].first = tidy.plains[j].first =>
         segs[i].format = IF tidy.pc = "unlink" /\ j = 1 THEN "zstd" ELSE "plain"
  /\ tidy.pc = "note" => \A i \in DOMAIN segs :
       segs[i].first = Head(tidy.plains).first => FileAt(Head(tidy.plains), "zstd") # {}

LogInv ==
  LogTyped /\ TableInv /\ KeysInv /\ FilesInv /\ HasFile /\ HasSegment /\ RemovesOthers /\ CompressInv

---------------------------------------------------------------------------
(* Numbers, and the members of a set in a log.                             *)

\* A set of naturals that is not empty has a least member.
LEMMA LeastNumber ==
  ASSUME NEW S \in SUBSET Nat, S # {}
  PROVE  \E n \in S : \A m \in S : n <= m
<1>1. IsWellFoundedOn(OpToRel(<, Nat), Nat)
  BY NatLessThanWellFounded
<1>2. PICK n \in S : \A m \in S : ~(<<m, n>> \in OpToRel(<, Nat))
  BY <1>1, WFMin
<1>3. \A m \in S : ~(m < n)
  BY <1>2 DEF OpToRel
<1>4. QED
  BY <1>3

\* And one that is bounded has a greatest.
LEMMA GreatestNumber ==
  ASSUME NEW S \in SUBSET Nat, S # {}, NEW bound \in Nat, \A n \in S : n <= bound
  PROVE  \E n \in S : \A m \in S : n >= m
<1> DEFINE Below == {bound - n : n \in S}
<1>1. Below \in SUBSET Nat /\ Below # {}
  OBVIOUS
<1>2. PICK k \in Below : \A m \in Below : k <= m
  BY <1>1, LeastNumber
<1>3. PICK n \in S : k = bound - n
  OBVIOUS
<1>4. \A m \in S : n >= m
  <2> TAKE m \in S
  <2>1. k <= bound - m
    BY <1>2
  <2>2. QED
    BY <1>3, <2>1
<1>5. QED
  BY <1>4

\* Counting up: induction over a bounded set of naturals.
LEMMA UpTo ==
  ASSUME NEW N \in Nat, NEW S \in SUBSET (0 .. N), 0 \in S, \A n \in S : n < N => n + 1 \in S
  PROVE  S = 0 .. N
<1> SUFFICES ASSUME (0 .. N) \ S # {} PROVE FALSE
  OBVIOUS
<1> DEFINE Left == (0 .. N) \ S
<1>0. Left \in SUBSET Nat /\ Left # {}
  OBVIOUS
<1>1. PICK n \in Left : \A m \in Left : n <= m
  BY <1>0, LeastNumber
<1>2. n # 0 /\ n - 1 \in 0 .. N
  OBVIOUS
<1>3. n - 1 \in S
  BY <1>1, <1>2
<1>4. QED
  BY <1>2, <1>3

\* The function that Among is written with.
Picks(log, S, upTo, N) ==
  upTo = [n \in 0 .. N |->
            IF n = 0 THEN <<>>
            ELSE IF log[n] \in S THEN Append(upTo[n - 1], log[n]) ELSE upTo[n - 1]]

\* That function exists, so Among's choice is it.
LEMMA PicksExist ==
  ASSUME NEW log, NEW S, NEW N \in Nat
  PROVE  \E upTo : Picks(log, S, upTo, N)
<1> DEFINE Good == {n \in 0 .. N : \E upTo : Picks(log, S, upTo, n)}
<1>1. 0 \in Good
  <2>1. Picks(log, S, [n \in 0 .. 0 |-> <<>>], 0)
    BY DEF Picks
  <2>2. QED
    BY <2>1
<1>2. ASSUME NEW n \in Good, n < N PROVE n + 1 \in Good
  <2>1. PICK upTo : Picks(log, S, upTo, n)
    OBVIOUS
  <2> DEFINE next == IF log[n + 1] \in S THEN Append(upTo[n], log[n + 1]) ELSE upTo[n]
             more == [k \in 0 .. n + 1 |-> IF k = n + 1 THEN next ELSE upTo[k]]
  <2>2. \A k \in 0 .. n : upTo[k] = IF k = 0 THEN <<>>
                                    ELSE IF log[k] \in S THEN Append(upTo[k - 1], log[k])
                                    ELSE upTo[k - 1]
    BY <2>1 DEF Picks
  <2>3. \A k \in 0 .. n : more[k] = upTo[k]
    OBVIOUS
  <2>4. more[n + 1] = next
    OBVIOUS
  <2>5. \A k \in 0 .. n + 1 :
          more[k] = IF k = 0 THEN <<>>
                    ELSE IF log[k] \in S THEN Append(more[k - 1], log[k]) ELSE more[k - 1]
    <3> TAKE k \in 0 .. n + 1
    <3> HIDE DEF more
    <3>1. CASE k = n + 1
      <4>1. k # 0 /\ k - 1 = n /\ more[k - 1] = upTo[n]
        BY <2>3, <3>1
      <4>2. QED
        BY <2>4, <3>1, <4>1
    <3>2. CASE k \in 0 .. n
      <4>1. k # 0 => k - 1 \in 0 .. n
        BY <3>2
      <4>2. QED
        BY <2>2, <2>3, <3>2, <4>1
    <3>3. QED
      BY <3>1, <3>2
  <2>6. more = [k \in 0 .. n + 1 |-> more[k]]
    BY Zenon
  <2>7. Picks(log, S, more, n + 1)
    <3> HIDE DEF more
    <3>1. QED
      BY <2>5, <2>6 DEF Picks
  <2>8. n + 1 \in 0 .. N
    BY <1>2
  <2>9. QED
    BY <2>7, <2>8
<1>3. Good = 0 .. N
  <2> HIDE DEF Good
  <2>1. Good \in SUBSET (0 .. N)
    BY DEF Good
  <2>2. QED
    BY <1>1, <1>2, <2>1, UpTo
<1>4. QED
  BY <1>3

\* What Among gives: these members, in the log's order.
LEMMA AmongIs ==
  ASSUME NEW T, NEW log \in Seq(T), NEW S
  PROVE  /\ Among(log, S) \in Seq(T)
         /\ ToSet(Among(log, S)) = ToSet(log) \intersect S
         /\ Ascending(log) /\ (\A x \in T : x.first \in Int) => Ascending(Among(log, S))
<1> DEFINE N == Len(log)
           upTo == CHOOSE f : Picks(log, S, f, N)
<1>1. N \in Nat /\ DOMAIN log = 1 .. N /\ \A i \in 1 .. N : log[i] \in T
  BY LenProperties, ElementOfSeq
<1>2. Picks(log, S, upTo, N)
  BY <1>1, PicksExist
<1>3. Among(log, S) = upTo[N]
  BY DEF Among, Picks
<1> HIDE DEF upTo, N
<1>4. \A n \in 0 .. N : upTo[n] = IF n = 0 THEN <<>>
                                  ELSE IF log[n] \in S THEN Append(upTo[n - 1], log[n])
                                  ELSE upTo[n - 1]
  BY <1>2 DEF Picks
<1> DEFINE Right(n) ==
      /\ upTo[n] \in Seq(T)
      /\ ToSet(upTo[n]) = {log[i] : i \in 1 .. n} \intersect S
      /\ Ascending(log) /\ (\A x \in T : x.first \in Int) => Ascending(upTo[n])
    Good == {n \in 0 .. N : Right(n)}
<1>5. Right(0)
  <2>1. upTo[0] = <<>>
    BY <1>1, <1>4
  <2>2. QED
    BY <2>1 DEF ToSet, Ascending
<1>6. ASSUME NEW n \in 0 .. N, n < N, Right(n) PROVE Right(n + 1)
  <2> DEFINE x == log[n + 1]
  <2>1. upTo[n + 1] = IF x \in S THEN Append(upTo[n], x) ELSE upTo[n]
    <3>1. n + 1 \in 0 .. N /\ n + 1 # 0 /\ (n + 1) - 1 = n
      BY <1>1, <1>6
    <3>2. QED
      BY <1>4, <3>1
  <2>2. {log[i] : i \in 1 .. n + 1} = {log[i] : i \in 1 .. n} \union {x}
    BY <1>6
  <2>3. CASE x \notin S
    BY <1>6, <2>1, <2>2, <2>3
  <2>4. CASE x \in S
    <3> DEFINE old == upTo[n]
               new == Append(old, x)
    <3>1. upTo[n + 1] = new /\ old \in Seq(T) /\ x \in T
      BY <1>1, <1>6, <2>1, <2>4
    <3> HIDE DEF x, old, new
    <3>2. /\ new \in Seq(T) /\ Len(new) = Len(old) + 1 /\ Len(old) \in Nat
          /\ \A i \in 1 .. Len(old) : new[i] = old[i]
          /\ new[Len(old) + 1] = x
          /\ DOMAIN new = 1 .. Len(old) + 1 /\ DOMAIN old = 1 .. Len(old)
      BY <3>1, AppendProperties, LenProperties DEF new
    <3>3. ToSet(new) = ToSet(old) \union {x}
      BY <3>2 DEF ToSet
    <3>4. ToSet(old) = {log[i] : i \in 1 .. n} \intersect S
      BY <1>6 DEF old
    <3>5. ToSet(new) = {log[i] : i \in 1 .. n + 1} \intersect S
      BY <2>2, <2>4, <3>3, <3>4
    <3>6. ASSUME Ascending(log), \A y \in T : y.first \in Int PROVE Ascending(new)
      <4>1. Ascending(old)
        BY <1>6, <3>6 DEF old
      <4>2. \A i \in 1 .. n : log[i].first < x.first
        BY <1>1, <1>6, <3>6 DEF Ascending, x
      <4>3. \A i \in DOMAIN old : old[i].first < x.first
        BY <3>4, <4>2 DEF ToSet
      <4>4. QED
        BY <3>2, <4>1, <4>3 DEF Ascending
    <3>7. QED
      BY <3>1, <3>2, <3>5, <3>6
  <2>5. QED
    BY <2>3, <2>4
<1>7. Good = 0 .. N
  <2>1. Good \in SUBSET (0 .. N) /\ 0 \in Good
    BY <1>1, <1>5
  <2> HIDE DEF Right
  <2>2. \A n \in Good : n < N => n + 1 \in Good
    BY <1>1, <1>6
  <2> HIDE DEF Good
  <2>3. QED
    BY <1>1, <2>1, <2>2, UpTo
<1>8. Right(N)
  <2> HIDE DEF Right
  <2>1. QED
    BY <1>1, <1>7
<1>9. {log[i] : i \in 1 .. N} = ToSet(log)
  BY <1>1 DEF ToSet
<1>10. QED
  BY <1>3, <1>8, <1>9

\* An empty log satisfies the invariant.
LEMMA LogStarts == LogInit => LogInv
<1> SUFFICES ASSUME LogInit PROVE LogInv
  OBVIOUS
<1>0. MaxTick \in Nat /\ MaxLogEvents \in Nat /\ MaxRecords \in Nat \ {0} /\ TicksPerHour \in Nat \ {0}
  BY LogAssumption
<1>1. /\ tidy = AtRest /\ clearing = <<>> /\ walk = NoWalk
      /\ logClock = 0 /\ logEvents = 0 /\ stateDue = FALSE /\ savedId = 1
  BY DEF LogInit
<1>2. AtRest \in TidyType /\ AtRest.plains = <<>> /\ AtRest.doomed = <<>> /\ AtRest.pc = "idle"
  BY DEF AtRest, TidyType, TidyPcs
<1>3. /\ tidy \in TidyType /\ clearing \in Seq(SegmentType)
      /\ DOMAIN walk = DOMAIN NoWalk /\ walk.pc \in {"idle", "page", "next"} /\ walk.wrong \in BOOLEAN
      /\ logClock \in 0 .. MaxTick /\ logEvents \in 0 .. MaxLogEvents
      /\ savedId \in Nat /\ stateDue \in BOOLEAN
  <2>1. NoWalk.pc = "idle" /\ NoWalk.wrong = FALSE
    BY DEF NoWalk
  <2>2. clearing \in Seq(SegmentType)
    BY <1>1, EmptySeq
  <2>3. tidy \in TidyType /\ DOMAIN walk = DOMAIN NoWalk
    BY <1>1, <1>2
  <2>4. walk.pc = "idle" /\ walk.wrong = FALSE /\ stateDue = FALSE
    BY <1>1, <2>1
  <2>5. walk.pc \in {"idle", "page", "next"} /\ walk.wrong \in BOOLEAN /\ stateDue \in BOOLEAN
    BY <2>4
  <2>6. logClock \in 0 .. MaxTick /\ logEvents \in 0 .. MaxLogEvents /\ savedId \in Nat
    BY <1>0, <1>1
  <2>7. QED
    BY <2>2, <2>3, <2>5, <2>6
<1>4. CASE OldPlain
  <2> DEFINE row == [id |-> 1, time |-> 0]
             seg == [start |-> 0, first |-> 1, format |-> "plain", open |-> FALSE, bytes |-> 1]
             file == [start |-> 0, first |-> 1, format |-> "plain", rows |-> <<row>>, size |-> 1,
                      synced |-> 1]
  <2>1. segs = <<seg>> /\ logFiles = {file} /\ nextId = 2
    BY <1>4 DEF LogInit
  <2>2. row \in RowType
    BY <1>0 DEF RowType
  <2>3. seg \in SegmentType
    BY <1>0 DEF SegmentType, Formats
  <2>4. <<row>> \in Seq(RowType) /\ Len(<<row>>) = 1
    BY <2>2
  <2>5. file \in SegmentFile
    BY <1>0, <2>4 DEF SegmentFile, Formats
  <2>6. LogTyped
    BY <1>3, <2>1, <2>3, <2>4, <2>5 DEF LogTyped
  <2>a. Same(file, seg) /\ file.format = seg.format /\ seg.first = 1 /\ file.first = 1
        /\ ~seg.open /\ seg.start = 0 /\ file.start = 0
    BY DEF Same
  <2>b. file.rows = <<row>> /\ file.size = 1 /\ file.synced = 1 /\ row.id = 1 /\ row.time = 0
    OBVIOUS
  <2> HIDE DEF seg, file, row
  <2>7. DOMAIN segs = {1} /\ segs[1] = seg /\ Len(segs) = 1 /\ ToSet(segs) = {seg}
    <3>1. DOMAIN segs = {1} /\ segs[1] = seg /\ Len(segs) = 1
      BY <2>1
    <3>2. QED
      BY <3>1 DEF ToSet
  <2>8. ToSet(tidy.plains) = {} /\ ToSet(tidy.doomed) = {} /\ ToSet(clearing) = {}
    BY <1>1, <1>2 DEF ToSet
  <2>9. Spoken = {seg, file}
    BY <2>1, <2>7, <2>8 DEF Spoken
  <2>10. TableInv
    BY <2>a, <2>7 DEF TableInv, Ascending
  <2>11. KeysInv
    BY <2>a, <2>1, <2>7, <2>9 DEF KeysInv, IsOpen, Last
  <2>12. SegmentEnd(file) > 0
    <3>1. HourOf(0) = 0
      BY <1>0 DEF HourOf
    <3>2. QED
      BY <1>0, <2>a, <3>1 DEF SegmentEnd
  <2>13. FilesInv
    <3>1. \A m \in DOMAIN file.rows : m = 1 /\ file.rows[m] = row
      BY <2>4, <2>b
    <3>2. Fits(file.rows, file, Spoken, nextId)
      BY <2>a, <2>b, <2>1, <2>9, <2>12, <3>1 DEF Fits
    <3>3. QED
      <4>1. file.rows # <<>> /\ file.size > 0 /\ file.synced = Len(file.rows)
        BY <2>b, <2>4
      <4>2. QED
        BY <2>1, <3>2, <4>1 DEF FilesInv
  <2>14. HasFile
    BY <2>a, <2>1, <2>7 DEF HasFile, FileAt
  <2>15. HasSegment
    BY <2>a, <2>1, <2>7 DEF HasSegment
  <2>16. RemovesOthers
    BY <1>1, <1>2 DEF RemovesOthers
  <2>17. CompressInv
    BY <1>1, <1>2 DEF CompressInv, Ascending, Working
  <2>18. QED
    BY <2>6, <2>10, <2>11, <2>13, <2>14, <2>15, <2>16, <2>17 DEF LogInv
<1>5. CASE ~OldPlain
  <2>1. segs = <<>> /\ logFiles = {} /\ nextId = 1
    BY <1>5 DEF LogInit
  <2>2. Spoken = {}
    BY <1>1, <1>2, <2>1 DEF Spoken, ToSet
  <2>3. LogTyped
    BY <1>3, <2>1 DEF LogTyped
  <2>4. TableInv /\ KeysInv /\ FilesInv /\ HasFile /\ HasSegment /\ RemovesOthers
    BY <1>1, <1>2, <2>1, <2>2 DEF TableInv, Ascending, KeysInv, IsOpen, FilesInv, HasFile, HasSegment,
                                   RemovesOthers
  <2>5. CompressInv
    BY <1>1, <1>2 DEF CompressInv, Ascending, Working
  <2>6. QED
    BY <2>3, <2>4, <2>5 DEF LogInv
<1>6. QED
  BY <1>4, <1>5

\* Rows carry positive ids and times.
LEMMA RowIds ==
  ASSUME NEW rows \in Seq(RowType), NEW m \in DOMAIN rows
  PROVE  rows[m] \in RowType /\ rows[m].id \in Nat /\ rows[m].id > 0 /\ rows[m].time \in Nat
<1>1. rows[m] \in RowType
  BY ElementOfSeq, LenProperties
<1>2. MaxRecords \in Nat /\ MaxTick \in Nat
  BY LogAssumption
<1>3. QED
  BY <1>1, <1>2 DEF RowType

\* The properties from the invariant.
LEMMA RowsAreAFiles ==
  ASSUME LogInv, NEW i \in DOMAIN segs
  PROVE  \E f \in logFiles : Same(f, segs[i]) /\ LogRows(segs[i]) = f.rows
<1>1. FileAt(segs[i], segs[i].format) # {} /\ segs[i].format \in Formats
  <2>1. segs[i] \in SegmentType
    BY ElementOfSeq, LenProperties DEF LogInv, LogTyped
  <2>2. QED
    BY <2>1 DEF LogInv, HasFile, SegmentType
<1>2. \E files : files # {} /\ files \subseteq {f \in logFiles : Same(f, segs[i])}
                   /\ LogRows(segs[i]) = RowsIn(files)
  <2>1. CASE segs[i].format = "plain" 
    BY <1>1, <2>1 DEF LogRows, FileAt
  <2>2. CASE segs[i].format = "zstd"
    BY <1>1, <2>2 DEF LogRows, FileAt
  <2>3. QED
    BY <1>1, <2>1, <2>2 DEF Formats
<1>3. PICK files : files # {} /\ files \subseteq {f \in logFiles : Same(f, segs[i])}
                   /\ LogRows(segs[i]) = RowsIn(files)
  BY <1>2
<1>4. (CHOOSE f \in files : TRUE) \in files
  BY <1>3
<1>5. QED
  BY <1>3, <1>4 DEF RowsIn

\* The invariant gives the property.
LEMMA LogInvIsSound == LogInv => LogIsSound
<1> SUFFICES ASSUME LogInv PROVE LogIsSound
  OBVIOUS
<1>1. LogTypeOK
  <2>1. /\ segs \in Seq(SegmentType) /\ logFiles \in SUBSET SegmentFile
        /\ nextId \in Nat \ {0} /\ savedId \in Nat /\ stateDue \in BOOLEAN
        /\ walk.pc \in {"idle", "page", "next"} /\ walk.wrong \in BOOLEAN
        /\ logClock \in 0 .. MaxTick /\ logEvents \in 0 .. MaxLogEvents
        /\ tidy.pc \in TidyPcs
        /\ \A f \in logFiles : f.synced <= Len(f.rows)
    BY DEF LogInv, LogTyped, TidyType
  <2>2. \A i \in DOMAIN segs : segs[i] \in SegmentType
    BY <2>1, ElementOfSeq, LenProperties
  <2>3. \A f \in logFiles : ToSet(f.rows) \subseteq RowType /\ f.synced \in 0 .. Len(f.rows)
    <3> TAKE f \in logFiles
    <3>1. f.rows \in Seq(RowType) /\ f.synced \in Nat
      BY <2>1 DEF SegmentFile
    <3>2. QED
      BY <2>1, <3>1, ElementOfSeq, LenProperties DEF ToSet
  <2>4. QED
    BY <2>1, <2>2, <2>3 DEF LogTypeOK, SegmentType, TidyPcs
<1>2. ASSUME NEW i \in DOMAIN segs, NEW j \in DOMAIN segs
      PROVE  LET rows == LogRows(segs[i])
                 others == LogRows(segs[j])
             IN  \A m \in DOMAIN rows :
                   /\ rows[m].id < nextId /\ rows[m].time < SegmentEnd(segs[i])
                   /\ \A n \in DOMAIN others :
                        i < j \/ (i = j /\ m < n) => rows[m].id < others[n].id
  <2>1. PICK f \in logFiles : Same(f, segs[i]) /\ LogRows(segs[i]) = f.rows
    BY RowsAreAFiles
  <2>2. PICK g \in logFiles : Same(g, segs[j]) /\ LogRows(segs[j]) = g.rows
    BY RowsAreAFiles
  <2>3. Fits(f.rows, f, Spoken, nextId) /\ Fits(g.rows, g, Spoken, nextId)
    BY DEF LogInv, FilesInv
  <2>4. SegmentEnd(f) = SegmentEnd(segs[i])
    BY <2>1 DEF Same, SegmentEnd
  <2>5. i < j => f.first < g.first
    BY <2>1, <2>2 DEF LogInv, TableInv, Ascending, Same
  <2>6. f.rows \in Seq(RowType) /\ g.rows \in Seq(RowType) /\ f.first \in Nat /\ g.first \in Nat
    BY DEF LogInv, LogTyped, SegmentFile
  <2>7. \A rows \in Seq(RowType) : \A m \in DOMAIN rows : rows[m].id \in Nat
    BY RowIds
  <2>8. /\ \A m \in DOMAIN f.rows : f.rows[m].id \in Nat
        /\ \A n \in DOMAIN g.rows : g.rows[n].id \in Nat
    BY <2>6, <2>7
  <2>9. \A m \in DOMAIN f.rows : f.rows[m].id < nextId /\ f.rows[m].time < SegmentEnd(segs[i])
    BY <2>3, <2>4 DEF Fits
  <2>10. ASSUME NEW m \in DOMAIN f.rows, NEW n \in DOMAIN g.rows, i < j
         PROVE  f.rows[m].id < g.rows[n].id
    <3>1. f.rows[m].id < g.first /\ g.first <= g.rows[n].id
      BY <2>3, <2>5, <2>10 DEF Fits, Spoken
    <3>2. QED
      BY <2>6, <2>7, <2>8, <3>1
  <2>11. ASSUME NEW m \in DOMAIN f.rows, NEW n \in DOMAIN g.rows, i = j, m < n
         PROVE  f.rows[m].id < g.rows[n].id
    BY <2>1, <2>2, <2>3, <2>11 DEF Fits
  <2>12. QED
    BY <2>1, <2>2, <2>9, <2>10, <2>11
<1>3. tidy.pc = "idle" /\ clearing = <<>> =>
       {<<f.start, f.first, f.format>> : f \in logFiles}
         = {<<segs[i].start, segs[i].first, segs[i].format>> : i \in DOMAIN segs}
  <2> SUFFICES ASSUME tidy.pc = "idle", clearing = <<>>
               PROVE  {<<f.start, f.first, f.format>> : f \in logFiles}
                        = {<<segs[i].start, segs[i].first, segs[i].format>> : i \in DOMAIN segs}
    OBVIOUS
  <2>1. tidy.doomed = <<>>
    BY DEF LogInv, CompressInv
  <2>2. \A f \in logFiles : \E i \in DOMAIN segs : Same(f, segs[i]) /\ f.format = segs[i].format
    BY <2>1 DEF LogInv, HasSegment, Spare
  <2>3. \A i \in DOMAIN segs : \E f \in logFiles : Same(f, segs[i]) /\ f.format = segs[i].format
    BY DEF LogInv, HasFile, FileAt
  <2>4. QED
    BY <2>2, <2>3 DEF Same
<1>4. QED
  BY <1>1, <1>2, <1>3 DEF LogIsSound

---------------------------------------------------------------------------
(* What the steps share.                                                   *)

\* The types, as the steps use them.
LEMMA LogTypes ==
  ASSUME LogTyped
  PROVE  /\ segs \in Seq(SegmentType) /\ Len(segs) \in Nat /\ DOMAIN segs = 1 .. Len(segs)
         /\ \A i \in DOMAIN segs : segs[i] \in SegmentType
         /\ tidy.plains \in Seq(SegmentType) /\ tidy.doomed \in Seq(SegmentType)
         /\ tidy.rows \in Seq(RowType) /\ tidy.pc \in TidyPcs
         /\ clearing \in Seq(SegmentType)
         /\ \A s \in Spoken : s.first \in Nat /\ s.start \in 0 .. MaxTick
         /\ \A f \in logFiles : f \in SegmentFile
         /\ MaxTick \in Nat
<1>1. /\ segs \in Seq(SegmentType) /\ tidy \in TidyType /\ clearing \in Seq(SegmentType)
      /\ logFiles \subseteq SegmentFile
  BY DEF LogTyped
<1>2. tidy.plains \in Seq(SegmentType) /\ tidy.doomed \in Seq(SegmentType)
      /\ tidy.rows \in Seq(RowType) /\ tidy.pc \in TidyPcs
  BY <1>1 DEF TidyType
<1>3. \A log \in Seq(SegmentType) : /\ Len(log) \in Nat /\ DOMAIN log = 1 .. Len(log)
                                    /\ \A i \in DOMAIN log : log[i] \in SegmentType
  BY ElementOfSeq, LenProperties
<1>4. \A log \in Seq(SegmentType) : ToSet(log) \subseteq SegmentType
  BY <1>3 DEF ToSet
<1>5. \A s \in Spoken : s \in SegmentType \/ s \in SegmentFile
  BY <1>1, <1>2, <1>4 DEF Spoken
<1>6. \A s \in Spoken : s.first \in Nat /\ s.start \in 0 .. MaxTick
  BY <1>5 DEF SegmentType, SegmentFile
<1>7. QED
  BY <1>1, <1>2, <1>3, <1>6, LogAssumption

\* Rows that fit go on to: ids only grow, and new segments begin behind them.
LEMMA FitsStill ==
  ASSUME NEW rows \in Seq(RowType), NEW s, NEW others, NEW more, NEW next \in Nat, NEW later \in Nat,
         Fits(rows, s, others, next), next <= later,
         \A g \in more : g.first \in Nat /\ ((\E h \in others : h.first = g.first) \/ g.first >= next)
  PROVE  Fits(rows, s, more, later)
<1>1. \A m \in DOMAIN rows : rows[m].id \in Nat
  BY RowIds
<1>2. \A m \in DOMAIN rows : rows[m].id < later
  BY <1>1 DEF Fits
<1>3. ASSUME NEW g \in more, s.first < g.first, NEW m \in DOMAIN rows PROVE rows[m].id < g.first
  <2>1. CASE g.first >= next
    BY <1>1, <2>1 DEF Fits
  <2>2. CASE \E h \in others : h.first = g.first
    BY <1>3, <2>2 DEF Fits
  <2>3. QED
    BY <2>1, <2>2
<1>4. QED
  BY <1>2, <1>3 DEF Fits

\* No new segment is spoken of.
SameSpoken == \A s \in Spoken' : \E t \in Spoken : s.first = t.first /\ s.start = t.start

\* Where nothing new is spoken of, the keys agree as before.
LEMMA KeysStay ==
  ASSUME LogInv, nextId' = nextId, SameSpoken,
         IsOpen' => IsOpen /\ Last(segs)'.first = Last(segs).first
  PROVE  KeysInv'
<1>1. \A s \in Spoken' : s.first < nextId'
  BY DEF LogInv, KeysInv, SameSpoken
<1>2. IsOpen' => \A s \in Spoken' : s.first <= Last(segs)'.first
  BY DEF LogInv, KeysInv, SameSpoken
<1>3. \A s, t \in Spoken' : s.first = t.first => s.start = t.start
  <2> TAKE s, t \in Spoken'
  <2>1. PICK s0 \in Spoken : s.first = s0.first /\ s.start = s0.start
    BY DEF SameSpoken
  <2>2. PICK t0 \in Spoken : t.first = t0.first /\ t.start = t0.start
    BY DEF SameSpoken
  <2>3. QED
    BY <2>1, <2>2 DEF LogInv, KeysInv
<1>4. QED
  BY <1>1, <1>2, <1>3 DEF KeysInv

\* Then rows that fit still do, too.
LEMMA FitsAfter ==
  ASSUME LogInv, nextId' = nextId, SameSpoken, NEW rows \in Seq(RowType), NEW s,
         Fits(rows, s, Spoken, nextId)
  PROVE  Fits(rows, s, Spoken', nextId')
<1>1. \A g \in Spoken' : g.first \in Nat /\ \E h \in Spoken : h.first = g.first
  BY LogTypes DEF SameSpoken, LogInv
<1>2. nextId \in Nat
  BY DEF LogInv, LogTyped
<1>3. QED
  BY <1>1, <1>2, FitsStill

\* And removing files disturbs none that stays.
LEMMA FewerFiles ==
  ASSUME LogInv, nextId' = nextId, SameSpoken, logFiles' \subseteq logFiles
  PROVE  FilesInv'
<1>1. \A f \in logFiles' : Fits(f.rows, f, Spoken', nextId')
  <2> TAKE f \in logFiles'
  <2>1. f \in logFiles /\ f.rows \in Seq(RowType)
    BY DEF LogInv, LogTyped, SegmentFile
  <2>2. Fits(f.rows, f, Spoken, nextId)
    BY <2>1 DEF LogInv, FilesInv
  <2>3. QED
    BY <2>1, <2>2, FitsAfter
<1>2. QED
  BY <1>1 DEF LogInv, FilesInv

\* Steps of readers, and of the clock.
LEMMA Untouched ==
  ASSUME LogInv, UNCHANGED <<segs, logFiles, nextId, tidy, clearing>>, LogTyped'
  PROVE  LogInv'
<1>1. Spoken' = Spoken /\ IsOpen' = IsOpen /\ Last(segs)' = Last(segs)
  BY DEF Spoken, IsOpen, Last
<1>2. KeysInv' /\ FilesInv'
  BY <1>1 DEF LogInv, KeysInv, FilesInv
<1>3. TableInv' /\ HasFile' /\ HasSegment' /\ RemovesOthers'
  BY DEF LogInv, TableInv, HasFile, FileAt, HasSegment, Spare, RemovesOthers
<1>4. CompressInv'
  BY <1>1 DEF LogInv, CompressInv, FileAt
<1>5. QED
  BY <1>2, <1>3, <1>4 DEF LogInv

\* A reader's steps leave the log alone.
LEMMA WalkKeeps ==
  ASSUME LogInv, BeginWalk \/ NextPage \/ ReadSegment \/ EndPage PROVE LogInv'
<1>1. UNCHANGED <<segs, logFiles, nextId, savedId, stateDue, tidy, clearing, logClock, logEvents>>
  BY DEF BeginWalk, NextPage, ReadSegment, EndPage
<1>2. DOMAIN walk = DOMAIN NoWalk /\ walk.wrong \in BOOLEAN /\ walk.pc \in {"idle", "page", "next"}
  BY DEF LogInv, LogTyped
<1>3. DOMAIN NoWalk = {"pc", "hits", "after", "before", "newest", "first", "since", "todo", "scan",
                       "seen", "wrong"}
  BY DEF NoWalk
<1>4. ASSUME NEW w, BeginPage(w), DOMAIN w = DOMAIN NoWalk, w.wrong \in BOOLEAN
      PROVE  DOMAIN walk' = DOMAIN NoWalk /\ walk'.pc = "page" /\ walk'.wrong \in BOOLEAN
  BY <1>3, <1>4 DEF BeginPage
<1>5. DOMAIN walk' = DOMAIN NoWalk /\ walk'.wrong \in BOOLEAN /\ walk'.pc \in {"idle", "page", "next"}
  <2>1. CASE BeginWalk
    <3> DEFINE odd == [walk EXCEPT !.hits = {id \in 1 .. MaxRecords : id % 2 = 1}]
               newer == [walk EXCEPT !.hits = 1 .. MaxRecords, !.after = nextId - 2]
    <3>1. DOMAIN odd = DOMAIN walk /\ odd.wrong = walk.wrong
      BY <1>2, <1>3
    <3>2. DOMAIN newer = DOMAIN walk /\ newer.wrong = walk.wrong
      BY <1>2, <1>3
    <3>3. BeginPage(odd) \/ BeginPage(newer)
      BY <2>1 DEF BeginWalk
    <3> HIDE DEF odd, newer
    <3>4. QED
      BY <1>2, <1>4, <3>1, <3>2, <3>3
  <2>2. CASE NextPage
    BY <1>2, <1>4, <2>2 DEF NextPage
  <2>3. CASE ReadSegment
    <3>1. \E scan, todo : walk' = [walk EXCEPT !.scan = scan, !.todo = todo]
      BY <2>3 DEF ReadSegment
    <3>2. QED
      BY <1>2, <1>3, <3>1
  <2>4. CASE EndPage
    <3>1. \E wrong \in BOOLEAN :
            \/ walk' = [NoWalk EXCEPT !.wrong = wrong]
            \/ \E before, seen : walk' = [walk EXCEPT !.pc = "next", !.before = before,
                                            !.seen = seen, !.wrong = wrong, !.scan = <<>>]
      BY <2>4 DEF EndPage
    <3>2. NoWalk.pc = "idle"
      BY DEF NoWalk
    <3>3. QED
      BY <1>2, <1>3, <3>1, <3>2
  <2>5. QED
    BY <2>1, <2>2, <2>3, <2>4
<1>6. LogTyped'
  BY <1>1, <1>5 DEF LogInv, LogTyped
<1>7. QED
  BY <1>1, <1>6, Untouched

\* The clock moves on.
LEMMA ClockKeeps == ASSUME LogInv, ClockMoves PROVE LogInv'
<1>1. logClock \in 0 .. MaxTick /\ logEvents \in 0 .. MaxLogEvents /\ MaxTick \in Nat
      /\ MaxLogEvents \in Nat
  BY LogAssumption DEF LogInv, LogTyped
<1>2. logClock' \in 0 .. MaxTick /\ logEvents' \in 0 .. MaxLogEvents
  BY <1>1 DEF ClockMoves, LogEvent
<1>3. UNCHANGED <<segs, logFiles, nextId, savedId, stateDue, tidy, clearing, walk>>
  BY DEF ClockMoves
<1>4. LogTyped'
  BY <1>2, <1>3 DEF LogInv, LogTyped
<1>5. QED
  BY <1>3, <1>4, Untouched

---------------------------------------------------------------------------
(* The tidying.                                                            *)

\* The states a pass goes through: compressing what is left to compress,
LEMMA CompressingIs ==
  ASSUME NEW plains \in Seq(SegmentType)
  PROVE  /\ Compressing(plains) \in TidyType
         /\ Compressing(plains).plains = plains /\ Compressing(plains).doomed = <<>>
         /\ Compressing(plains).pc = IF plains = <<>> THEN "enforce" ELSE "compress"
<1>1. AtRest \in TidyType /\ AtRest.doomed = <<>>
  BY DEF AtRest, TidyType, TidyPcs
<1>2. \A pc \in TidyPcs : LET moved == [AtRest EXCEPT !.pc = pc, !.plains = plains]
                         IN  /\ moved \in TidyType /\ moved.plains = plains
                             /\ moved.doomed = <<>> /\ moved.pc = pc
  BY <1>1 DEF TidyType
<1>3. (IF plains = <<>> THEN "enforce" ELSE "compress") \in TidyPcs
  BY DEF TidyPcs
<1>4. QED
  BY <1>2, <1>3 DEF Compressing

\* removing what is left to remove,
LEMMA RemovingIs ==
  ASSUME NEW doomed \in Seq(SegmentType)
  PROVE  /\ Removing(doomed) \in TidyType
         /\ Removing(doomed).doomed = doomed /\ Removing(doomed).plains = <<>>
         /\ Removing(doomed).pc = IF doomed = <<>> THEN "sync" ELSE "remove"
<1>1. AtRest \in TidyType /\ AtRest.plains = <<>>
  BY DEF AtRest, TidyType, TidyPcs
<1>2. \A pc \in TidyPcs : LET moved == [AtRest EXCEPT !.pc = pc, !.doomed = doomed]
                         IN  /\ moved \in TidyType /\ moved.doomed = doomed
                             /\ moved.plains = <<>> /\ moved.pc = pc
  BY <1>1 DEF TidyType
<1>3. (IF doomed = <<>> THEN "sync" ELSE "remove") \in TidyPcs
  BY DEF TidyPcs
<1>4. QED
  BY <1>2, <1>3 DEF Removing

\* and at rest.
LEMMA AtRestIs ==
  /\ AtRest \in TidyType /\ AtRest.plains = <<>> /\ AtRest.doomed = <<>> /\ AtRest.pc = "idle"
  BY DEF AtRest, TidyType, TidyPcs

\* The next segment to compress.
LEMMA CompressingKeeps ==
  ASSUME NEW rest \in Seq(SegmentType), tidy' = Compressing(rest), Ascending(rest),
         \A i \in DOMAIN segs' : \A j \in DOMAIN rest :
           segs'[i].first = rest[j].first => segs'[i].format = "plain"
  PROVE  CompressInv'
<1>1. /\ tidy'.plains = rest /\ tidy'.doomed = <<>>
      /\ tidy'.pc = IF rest = <<>> THEN "enforce" ELSE "compress"
  BY CompressingIs
<1>2. tidy'.pc \in {"enforce", "compress"} /\ (tidy'.pc = "compress" <=> rest # <<>>)
  BY <1>1
<1>3. QED
  BY <1>1, <1>2 DEF CompressInv, Working

\* A pass that removes compresses nothing.
LEMMA RemovingKeeps ==
  ASSUME NEW doomed \in Seq(SegmentType), tidy' = Removing(doomed)
  PROVE  CompressInv'
<1>1. /\ tidy'.plains = <<>> /\ tidy'.doomed = doomed
      /\ tidy'.pc = IF doomed = <<>> THEN "sync" ELSE "remove"
  BY RemovingIs
<1>2. tidy'.pc \in {"sync", "remove"} /\ (tidy'.pc = "remove" <=> doomed # <<>>)
  BY <1>1
<1>3. QED
  BY <1>1, <1>2 DEF CompressInv, Working, Ascending

\* What is noted of the segment being compressed.
LEMMA HeadOfPlains ==
  ASSUME LogInv, tidy.pc \in Working
  PROVE  /\ tidy.plains # <<>> /\ tidy.doomed = <<>> /\ Len(tidy.plains) \in Nat \ {0}
         /\ DOMAIN tidy.plains = 1 .. Len(tidy.plains)
         /\ Head(tidy.plains) = tidy.plains[1] /\ Head(tidy.plains) \in SegmentType
         /\ Head(tidy.plains) \in Spoken
         /\ Tail(tidy.plains) \in Seq(SegmentType) /\ Ascending(Tail(tidy.plains))
         /\ \A j \in DOMAIN Tail(tidy.plains) :
              j + 1 \in DOMAIN tidy.plains /\ j + 1 # 1 /\ Tail(tidy.plains)[j] = tidy.plains[j + 1]
         /\ ToSet(Tail(tidy.plains)) \subseteq ToSet(tidy.plains)
         /\ \A s \in Spoken : s.first = Head(tidy.plains).first => Same(s, Head(tidy.plains))
<1>1. tidy.plains \in Seq(SegmentType) /\ tidy.plains # <<>> /\ tidy.doomed = <<>>
  BY LogTypes DEF LogInv, CompressInv, Working
<1>2. /\ Len(tidy.plains) \in Nat \ {0} /\ DOMAIN tidy.plains = 1 .. Len(tidy.plains)
      /\ Head(tidy.plains) = tidy.plains[1] /\ tidy.plains[1] \in SegmentType
  BY <1>1
<1>3. Head(tidy.plains) \in Spoken
  BY <1>2 DEF Spoken, ToSet
<1>4. /\ Tail(tidy.plains) \in Seq(SegmentType) /\ Len(Tail(tidy.plains)) = Len(tidy.plains) - 1
      /\ DOMAIN Tail(tidy.plains) = 1 .. Len(Tail(tidy.plains))
      /\ \A j \in 1 .. Len(tidy.plains) - 1 : Tail(tidy.plains)[j] = tidy.plains[j + 1]
  BY <1>1, <1>2
<1>5. \A j \in DOMAIN Tail(tidy.plains) :
         j + 1 \in DOMAIN tidy.plains /\ j + 1 # 1 /\ Tail(tidy.plains)[j] = tidy.plains[j + 1]
  BY <1>2, <1>4
<1>6. Ascending(tidy.plains)
  BY DEF LogInv, CompressInv
<1>7. Ascending(Tail(tidy.plains))
  <2> SUFFICES ASSUME NEW i \in DOMAIN Tail(tidy.plains), NEW j \in DOMAIN Tail(tidy.plains), i < j
               PROVE  Tail(tidy.plains)[i].first < Tail(tidy.plains)[j].first
    BY DEF Ascending
  <2>1. i + 1 < j + 1
    BY <1>4
  <2>2. QED
    BY <1>5, <1>6, <2>1 DEF Ascending
<1>8. ToSet(Tail(tidy.plains)) \subseteq ToSet(tidy.plains)
  BY <1>5 DEF ToSet
<1>9. \A s \in Spoken : s.first = Head(tidy.plains).first => Same(s, Head(tidy.plains))
  BY <1>3 DEF LogInv, KeysInv, Same
<1>10. QED
  BY <1>1, <1>2, <1>3, <1>4, <1>5, <1>7, <1>8, <1>9

\* The next one is taken, and the table stays.
LEMMA NextPlain ==
  ASSUME LogInv, tidy.pc \in Working, tidy' = Compressing(Tail(tidy.plains))
  PROVE  /\ tidy' \in TidyType /\ tidy'.doomed = <<>> /\ tidy'.plains = Tail(tidy.plains)
         /\ tidy'.pc \in {"enforce", "compress"}
         /\ (logFiles' \subseteq logFiles /\ ToSet(segs)' \subseteq ToSet(segs) /\ clearing' = clearing
               => SameSpoken)
         /\ ((\A i \in DOMAIN segs' : \E k \in DOMAIN segs : segs'[i] = segs[k]) => CompressInv')
<1>1. /\ Tail(tidy.plains) \in Seq(SegmentType) /\ Ascending(Tail(tidy.plains))
      /\ \A j \in DOMAIN Tail(tidy.plains) :
              j + 1 \in DOMAIN tidy.plains /\ j + 1 # 1 /\ Tail(tidy.plains)[j] = tidy.plains[j + 1]
      /\ ToSet(Tail(tidy.plains)) \subseteq ToSet(tidy.plains)
  BY HeadOfPlains
<1>2. /\ tidy' \in TidyType /\ tidy'.doomed = <<>> /\ tidy'.plains = Tail(tidy.plains)
      /\ tidy'.pc \in {"enforce", "compress"}
  BY <1>1, CompressingIs
<1>3. ASSUME logFiles' \subseteq logFiles, ToSet(segs)' \subseteq ToSet(segs), clearing' = clearing
      PROVE  SameSpoken
  <2>1. Spoken' \subseteq Spoken
    <3>1. ToSet(tidy.plains)' \subseteq ToSet(tidy.plains)
      BY <1>1, <1>2 DEF ToSet
    <3>2. ToSet(tidy.doomed)' = {} /\ ToSet(clearing)' = ToSet(clearing)
      BY <1>2, <1>3 DEF ToSet
    <3>3. QED
      BY <1>3, <3>1, <3>2 DEF Spoken
  <2>2. QED
    BY <2>1 DEF SameSpoken
<1>4. ASSUME \A i \in DOMAIN segs' : \E k \in DOMAIN segs : segs'[i] = segs[k]
      PROVE  CompressInv'
  <2>1. \A i \in DOMAIN segs : \A j \in DOMAIN Tail(tidy.plains) :
          segs[i].first = Tail(tidy.plains)[j].first => segs[i].format = "plain"
    BY <1>1 DEF LogInv, CompressInv
  <2>2. \A i \in DOMAIN segs' : \A j \in DOMAIN Tail(tidy.plains) :
          segs'[i].first = Tail(tidy.plains)[j].first => segs'[i].format = "plain"
    BY <1>4, <2>1
  <2>3. QED
    BY <1>1, <2>2, CompressingKeeps
<1>5. QED
  BY <1>2, <1>3, <1>4

\* The plain file of a compressed segment is removed.
LEMMA UnlinkPlainKeeps == ASSUME LogInv, UnlinkPlain PROVE LogInv'
<1> DEFINE s == Head(tidy.plains)
<1>1. /\ tidy.pc = "unlink" /\ logFiles' = WithoutFiles(s, {"plain"})
      /\ tidy' = Compressing(Tail(tidy.plains))
      /\ UNCHANGED <<segs, nextId, savedId, stateDue, clearing, walk, logClock, logEvents>>
  BY DEF UnlinkPlain
<1>2. tidy.pc \in Working
  BY <1>1 DEF Working
<1>3. logFiles' \subseteq logFiles
  BY <1>1 DEF WithoutFiles
<1>4. /\ tidy' \in TidyType /\ tidy'.doomed = <<>> /\ tidy'.pc \in {"enforce", "compress"}
      /\ SameSpoken /\ CompressInv'
  BY <1>1, <1>2, <1>3, NextPlain DEF ToSet
<1>5. LogTyped'
  BY <1>1, <1>3, <1>4 DEF LogInv, LogTyped
<1>6. TableInv' /\ KeysInv' /\ FilesInv'
  BY <1>1, <1>3, <1>4, KeysStay, FewerFiles DEF LogInv, TableInv, IsOpen, Last
<1>7. HasFile'
  <2> SUFFICES ASSUME NEW i \in DOMAIN segs
               PROVE  \E f \in logFiles' : Same(f, segs[i]) /\ f.format = segs[i].format
    BY <1>1 DEF HasFile, FileAt
  <2>1. PICK f \in logFiles : Same(f, segs[i]) /\ f.format = segs[i].format
    BY DEF LogInv, HasFile, FileAt
  <2>2. Same(f, s) => segs[i].format = "zstd"
    <3>1. 1 \in DOMAIN tidy.plains /\ s = tidy.plains[1]
      BY <1>2, HeadOfPlains
    <3>2. Same(f, s) => segs[i].first = tidy.plains[1].first
      BY <2>1, <3>1 DEF Same
    <3>3. QED
      BY <1>1, <3>1, <3>2 DEF LogInv, CompressInv
  <2>3. f \in logFiles'
    BY <1>1, <2>1, <2>2 DEF WithoutFiles
  <2>4. QED
    BY <2>1, <2>3
<1>8. HasSegment'
  <2> SUFFICES ASSUME NEW f \in logFiles'
               PROVE  \/ \E i \in DOMAIN segs' : Same(f, segs'[i]) /\ f.format = segs'[i].format
                      \/ \E i \in DOMAIN clearing' : Same(f, clearing'[i])
    BY DEF HasSegment
  <2>1. f \in logFiles /\ ~(Same(f, s) /\ f.format = "plain")
    BY <1>1 DEF WithoutFiles
  <2>2. ~Spare(f) /\ tidy.doomed = <<>>
    BY <1>1, <1>2, <2>1, HeadOfPlains DEF Spare
  <2>3. QED
    BY <1>1, <2>1, <2>2 DEF LogInv, HasSegment
<1>9. RemovesOthers'
  BY <1>1, <1>4 DEF LogInv, RemovesOthers
<1>10. QED
  BY <1>4, <1>5, <1>6, <1>7, <1>8, <1>9 DEF LogInv

\* The compressed file appears beside the plain one.
LEMMA RenameCompressedKeeps == ASSUME LogInv, RenameCompressed PROVE LogInv'
<1> DEFINE s == Head(tidy.plains)
           copy == [start |-> s.start, first |-> s.first, format |-> "zstd", rows |-> tidy.rows,
                    size |-> Len(tidy.rows), synced |-> Len(tidy.rows)]
<1>1. /\ tidy.pc = "rename"
      /\ UNCHANGED <<segs, nextId, savedId, stateDue, clearing, walk, logClock>>
  BY DEF RenameCompressed
<1>2. tidy.pc \in Working /\ tidy.plains # <<>> /\ tidy.doomed = <<>> /\ s \in Spoken
      /\ s \in SegmentType
  BY <1>1, HeadOfPlains DEF Working
<1>3. CASE LogEvent /\ UNCHANGED logFiles /\ tidy' = Compressing(Tail(tidy.plains))
  <2>1. logEvents' \in 0 .. MaxLogEvents
    BY <1>3, LogAssumption DEF LogEvent, LogInv, LogTyped
  <2>2. /\ tidy' \in TidyType /\ tidy'.doomed = <<>> /\ tidy'.pc \in {"enforce", "compress"}
        /\ SameSpoken /\ CompressInv'
    BY <1>1, <1>2, <1>3, NextPlain DEF ToSet
  <2>3. LogTyped'
    BY <1>1, <1>3, <2>1, <2>2 DEF LogInv, LogTyped
  <2>4. TableInv' /\ KeysInv' /\ FilesInv'
    BY <1>1, <1>3, <2>2, KeysStay, FewerFiles DEF LogInv, TableInv, IsOpen, Last
  <2>5. HasFile'
    BY <1>1, <1>3 DEF LogInv, HasFile, FileAt
  <2>6. HasSegment'
    <3>1. \A f \in logFiles : ~Spare(f)
      BY <1>1 DEF Spare
    <3>2. QED
      BY <1>1, <1>2, <1>3, <3>1 DEF LogInv, HasSegment
  <2>7. RemovesOthers'
    BY <1>1, <2>2 DEF LogInv, RemovesOthers
  <2>8. QED
    BY <2>2, <2>3, <2>4, <2>5, <2>6, <2>7 DEF LogInv
<1>4. CASE /\ logFiles' = WithoutFiles(s, {"zstd"}) \union {copy}
           /\ tidy' = [tidy EXCEPT !.pc = "note"] /\ UNCHANGED logEvents
  <2>1. /\ tidy' \in TidyType /\ tidy'.pc = "note" /\ tidy'.plains = tidy.plains
        /\ tidy'.doomed = tidy.doomed /\ tidy'.rows = tidy.rows
    BY <1>4 DEF LogInv, LogTyped, TidyType, TidyPcs
  <2>2. tidy.rows \in Seq(RowType) /\ tidy.rows # <<>> /\ Fits(tidy.rows, s, Spoken, nextId)
    BY <1>1, LogTypes DEF LogInv, CompressInv
  <2>3. /\ copy.start = s.start /\ copy.first = s.first /\ copy.format = "zstd"
        /\ copy.rows = tidy.rows /\ copy.synced = Len(copy.rows) /\ copy \in SegmentFile
    BY <1>2, <2>2 DEF SegmentFile, SegmentType, Formats
  <2> HIDE DEF copy
  <2>4. LogTyped'
    <3>1. logFiles' \in SUBSET SegmentFile /\ \A f \in logFiles' : f.synced <= Len(f.rows)
      BY <1>4, <2>2, <2>3 DEF LogInv, LogTyped, WithoutFiles
    <3>2. QED
      BY <1>1, <1>4, <2>1, <3>1 DEF LogInv, LogTyped
  <2>5. SameSpoken
    <3>1. \A t \in Spoken' : t \in Spoken \/ t = copy
      BY <1>1, <1>4, <2>1 DEF Spoken, WithoutFiles, ToSet
    <3>2. QED
      BY <1>2, <2>3, <3>1 DEF SameSpoken
  <2>6. TableInv' /\ KeysInv'
    BY <1>1, <2>5, KeysStay DEF LogInv, TableInv, IsOpen, Last
  <2>7. FilesInv'
    <3>1. \A f \in logFiles' : f = copy \/ (f \in logFiles /\ ~(Same(f, s) /\ f.format = "zstd"))
      BY <1>4 DEF WithoutFiles
    <3>2. \A f \in logFiles' : Fits(f.rows, f, Spoken', nextId')
      <4> TAKE f \in logFiles'
      <4>1. CASE f = copy
        <5>1. Fits(tidy.rows, s, Spoken', nextId')
          BY <1>1, <2>2, <2>5, FitsAfter
        <5>2. QED
          BY <2>3, <4>1, <5>1 DEF Fits, SegmentEnd
      <4>2. CASE f \in logFiles
        BY <1>1, <2>5, <4>2, FitsAfter DEF LogInv, FilesInv, LogTyped, SegmentFile
      <4>3. QED
        BY <3>1, <4>1, <4>2
    <3>3. \A f \in logFiles : f.first = s.first => Same(f, s)
      BY <1>2, HeadOfPlains DEF Spoken
    <3>4. \A f, g \in logFiles' : f.first = g.first /\ f.format = g.format => f = g
      BY <2>3, <3>1, <3>3 DEF LogInv, FilesInv
    <3>5. \A f \in logFiles' : f.format = "plain" =>
            f.rows # <<>> /\ f.size > 0 /\ f.synced = Len(f.rows)
      BY <2>3, <3>1 DEF LogInv, FilesInv
    <3>6. QED
      BY <3>2, <3>4, <3>5 DEF FilesInv
  <2>8. HasFile'
    <3> SUFFICES ASSUME NEW i \in DOMAIN segs
                 PROVE  \E f \in logFiles' : Same(f, segs[i]) /\ f.format = segs[i].format
      BY <1>1 DEF HasFile, FileAt
    <3>1. PICK f \in logFiles : Same(f, segs[i]) /\ f.format = segs[i].format
      BY DEF LogInv, HasFile, FileAt
    <3>2. CASE Same(f, s) /\ f.format = "zstd"
      BY <1>4, <2>3, <3>1, <3>2 DEF Same
    <3>3. CASE ~(Same(f, s) /\ f.format = "zstd")
      BY <1>4, <3>1, <3>3 DEF WithoutFiles
    <3>4. QED
      BY <3>2, <3>3
  <2>9. HasSegment'
    <3> SUFFICES ASSUME NEW f \in logFiles'
                 PROVE  \/ \E i \in DOMAIN segs' : Same(f, segs'[i]) /\ f.format = segs'[i].format
                        \/ \E i \in DOMAIN clearing' : Same(f, clearing'[i])
                        \/ Spare(f)'
      BY DEF HasSegment
    <3>1. CASE f = copy
      BY <2>1, <2>3, <3>1 DEF Spare, Same
    <3>2. CASE f \in logFiles
      <4>1. ~Spare(f)
        BY <1>1 DEF Spare
      <4>2. QED
        BY <1>1, <1>2, <3>2, <4>1 DEF LogInv, HasSegment
    <3>3. QED
      BY <1>4, <3>1, <3>2 DEF WithoutFiles
  <2>10. RemovesOthers'
    BY <1>1, <2>1 DEF LogInv, RemovesOthers
  <2>11. CompressInv'
    <3>1. Ascending(tidy'.plains) /\ tidy'.plains # <<>> /\ tidy'.doomed = <<>>
      BY <1>2, <2>1 DEF LogInv, CompressInv
    <3>2. Fits(tidy.rows, s, Spoken', nextId') /\ tidy.rows # <<>>
      BY <1>1, <2>2, <2>5, FitsAfter
    <3>3. \A i \in DOMAIN segs : \A j \in DOMAIN tidy.plains :
            segs[i].first = tidy.plains[j].first => segs[i].format = "plain"
      BY <1>1 DEF LogInv, CompressInv
    <3>4. copy \in FileAt(s, "zstd")'
      BY <1>4, <2>1, <2>3 DEF FileAt, Same
    <3>5. FileAt(s, "zstd")' # {}
      BY <3>4
    <3>6. QED
      BY <1>1, <2>1, <3>1, <3>2, <3>3, <3>5 DEF CompressInv, Working
  <2>12. QED
    BY <2>4, <2>6, <2>7, <2>8, <2>9, <2>10, <2>11 DEF LogInv
<1>5. QED
  BY <1>3, <1>4 DEF RenameCompressed

\* The table learns of the compressed file, or the segment is gone from it.
LEMMA NoteCompressedKeeps == ASSUME LogInv, NoteCompressed PROVE LogInv'
<1> DEFINE s == Head(tidy.plains)
           kept == \E i \in DOMAIN segs : Same(segs[i], s)
<1>1. /\ tidy.pc = "note"
      /\ segs' = [i \in DOMAIN segs |-> IF Same(segs[i], s)
                       THEN [segs[i] EXCEPT !.format = "zstd", !.bytes = Len(tidy.rows)]
                       ELSE segs[i]]
      /\ logFiles' = IF kept THEN logFiles ELSE WithoutFiles(s, {"zstd"})
      /\ tidy' = [tidy EXCEPT !.pc = "unlink"]
      /\ UNCHANGED <<nextId, savedId, stateDue, clearing, walk, logClock, logEvents>>
  BY DEF NoteCompressed
<1>2. tidy.pc \in Working /\ tidy.plains # <<>> /\ tidy.doomed = <<>> /\ s \in Spoken
      /\ s \in SegmentType
  BY <1>1, HeadOfPlains DEF Working
<1>3. /\ tidy' \in TidyType /\ tidy'.pc = "unlink" /\ tidy'.plains = tidy.plains
      /\ tidy'.doomed = tidy.doomed /\ tidy'.rows = tidy.rows
  BY <1>1 DEF LogInv, LogTyped, TidyType, TidyPcs
<1>4. Len(tidy.rows) \in Nat \ {0}
  <2>1. tidy.rows \in Seq(RowType)
    BY LogTypes DEF LogInv
  <2>2. tidy.rows # <<>>
    BY <1>1 DEF LogInv, CompressInv
  <2>3. QED
    BY <2>1, <2>2
<1>5. DOMAIN segs = 1 .. Len(segs) /\ Len(segs) \in Nat /\ \A i \in DOMAIN segs : segs[i] \in SegmentType
  BY LogTypes DEF LogInv
<1>6. \A i \in DOMAIN segs :
        /\ segs'[i] \in SegmentType
        /\ segs'[i].first = segs[i].first /\ segs'[i].start = segs[i].start
        /\ segs'[i].open = segs[i].open
        /\ segs'[i].format = IF Same(segs[i], s) THEN "zstd" ELSE segs[i].format
  <2> TAKE i \in DOMAIN segs
  <2>1. segs[i] \in SegmentType
    BY <1>5
  <2>2. CASE Same(segs[i], s)
    <3>1. segs'[i] = [segs[i] EXCEPT !.format = "zstd", !.bytes = Len(tidy.rows)]
      BY <1>1, <2>2
    <3>2. QED
      BY <1>4, <2>1, <2>2, <3>1 DEF SegmentType, Formats
  <2>3. CASE ~Same(segs[i], s)
    <3>1. segs'[i] = segs[i]
      BY <1>1, <2>3
    <3>2. QED
      BY <2>1, <2>3, <3>1
  <2>4. QED
    BY <2>2, <2>3
<1>7. segs' \in Seq(SegmentType) /\ DOMAIN segs' = DOMAIN segs /\ Len(segs') = Len(segs)
  <2>1. segs' = [i \in 1 .. Len(segs) |-> segs'[i]]
    BY <1>1, <1>5
  <2>2. QED
    BY <1>5, <1>6, <2>1
<1> HIDE DEF s, kept
<1>8. logFiles' \subseteq logFiles
  BY <1>1 DEF WithoutFiles
<1>9. LogTyped'
  BY <1>1, <1>3, <1>7, <1>8 DEF LogInv, LogTyped
<1>10. TableInv'
  BY <1>6, <1>7 DEF LogInv, TableInv, Ascending
<1>11. SameSpoken
  <2>1. \A t \in ToSet(segs)' : \E u \in ToSet(segs) : t.first = u.first /\ t.start = u.start
    BY <1>6, <1>7 DEF ToSet
  <2>2. ToSet(tidy.plains)' = ToSet(tidy.plains) /\ ToSet(tidy.doomed)' = ToSet(tidy.doomed)
        /\ ToSet(clearing)' = ToSet(clearing)
    BY <1>1, <1>3
  <2>3. QED
    BY <1>8, <2>1, <2>2 DEF SameSpoken, Spoken
<1>12. KeysInv'
  <2>1. IsOpen' => IsOpen /\ Last(segs)'.first = Last(segs).first
    <3>1. CASE segs = <<>>
      BY <1>7, <3>1 DEF IsOpen
    <3>2. CASE segs # <<>>
      <4>1. Len(segs) \in DOMAIN segs
        BY <1>5, <3>2, LogTypes DEF LogInv
      <4>2. QED
        BY <1>6, <1>7, <3>2, <4>1 DEF IsOpen, Last
    <3>3. QED
      BY <3>1, <3>2
  <2>2. QED
    BY <1>1, <1>11, <2>1, KeysStay
<1>13. FilesInv'
  BY <1>1, <1>8, <1>11, FewerFiles
<1>14. HasFile'
  <2> SUFFICES ASSUME NEW i \in DOMAIN segs
               PROVE  \E f \in logFiles' : Same(f, segs'[i]) /\ f.format = segs'[i].format
    BY <1>7 DEF HasFile, FileAt
  <2>1. PICK f \in logFiles : Same(f, segs[i]) /\ f.format = segs[i].format
    BY DEF LogInv, HasFile, FileAt
  <2>2. CASE Same(segs[i], s)
    <3>1. kept /\ segs[i].first = s.first
      BY <2>2 DEF kept, Same
    <3>2. FileAt(s, "zstd") # {}
      BY <1>1, <3>1 DEF LogInv, CompressInv, s
    <3>3. PICK g \in logFiles : Same(g, s) /\ g.format = "zstd"
      BY <3>2 DEF FileAt
    <3>4. Same(g, segs'[i]) /\ g.format = segs'[i].format
      BY <1>6, <2>2, <3>3 DEF Same
    <3>5. g \in logFiles'
      BY <1>1, <3>1
    <3>6. QED
      BY <3>4, <3>5
  <2>3. CASE ~Same(segs[i], s)
    <3>1. ~Same(f, s)
      BY <2>1, <2>3 DEF Same
    <3>2. f \in logFiles'
      BY <1>1, <3>1 DEF WithoutFiles
    <3>3. Same(f, segs'[i]) /\ f.format = segs'[i].format
      BY <1>6, <2>1, <2>3 DEF Same
    <3>4. QED
      BY <3>2, <3>3
  <2>4. QED
    BY <2>2, <2>3
<1>15. 1 \in DOMAIN tidy.plains /\ s = tidy.plains[1]
  BY <1>2, HeadOfPlains DEF s
<1>16. \A i \in DOMAIN segs : segs[i].first = s.first <=> Same(segs[i], s)
  <2>1. \A i \in DOMAIN segs : segs[i] \in Spoken
    BY DEF Spoken, ToSet
  <2>2. QED
    BY <1>2, <2>1, HeadOfPlains DEF s, Same
<1>17. HasSegment'
  <2> SUFFICES ASSUME NEW f \in logFiles'
               PROVE  \/ \E i \in DOMAIN segs' : Same(f, segs'[i]) /\ f.format = segs'[i].format
                      \/ \E i \in DOMAIN tidy'.doomed : Same(f, tidy'.doomed[i])
                      \/ \E i \in DOMAIN clearing' : Same(f, clearing'[i])
                      \/ Spare(f)'
    BY DEF HasSegment
  <2>1. f \in logFiles
    BY <1>8
  <2>2. ASSUME NEW i \in DOMAIN segs, Same(f, segs[i]), f.format = segs[i].format
        PROVE  Spare(f)' \/ \E k \in DOMAIN segs' : Same(f, segs'[k]) /\ f.format = segs'[k].format
    <3>1. CASE Same(segs[i], s)
      <4>1. segs[i].format = "plain"
        BY <1>1, <1>15, <1>16, <3>1 DEF LogInv, CompressInv
      <4>2. Same(f, s)
        BY <2>2, <3>1 DEF Same
      <4>3. QED
        BY <1>3, <2>2, <4>1, <4>2 DEF Spare, s
    <3>2. CASE ~Same(segs[i], s)
      BY <1>6, <1>7, <2>2, <3>2 DEF Same
    <3>3. QED
      BY <3>1, <3>2
  <2>3. ASSUME Spare(f)
        PROVE  \E k \in DOMAIN segs' : Same(f, segs'[k]) /\ f.format = segs'[k].format
    <3>1. f.format = "zstd" /\ Same(f, s)
      BY <1>1, <2>3 DEF Spare, s
    <3>2. kept
      BY <1>1, <3>1 DEF WithoutFiles
    <3>3. PICK i \in DOMAIN segs : Same(segs[i], s)
      BY <3>2 DEF kept
    <3>4. QED
      BY <1>6, <1>7, <3>1, <3>3 DEF Same
  <2>4. \/ \E i \in DOMAIN segs : Same(f, segs[i]) /\ f.format = segs[i].format
        \/ \E i \in DOMAIN tidy.doomed : Same(f, tidy.doomed[i])
        \/ \E i \in DOMAIN clearing : Same(f, clearing[i])
        \/ Spare(f)
    BY <2>1 DEF LogInv, HasSegment
  <2>5. QED
    BY <1>1, <1>3, <2>2, <2>3, <2>4
<1>18. RemovesOthers'
  <2>1. tidy'.doomed = tidy.doomed /\ clearing' = clearing
    BY <1>1, <1>3
  <2>2. \A i \in DOMAIN segs' : i \in DOMAIN segs /\ segs'[i].first = segs[i].first
    BY <1>6, <1>7
  <2>3. RemovesOthers
    BY DEF LogInv
  <2>4. QED
    BY <2>1, <2>2, <2>3 DEF RemovesOthers
<1>19. CompressInv'
  <2>1. Ascending(tidy.plains) /\ tidy.plains # <<>> /\ tidy.doomed = <<>>
    BY <1>2 DEF LogInv, CompressInv
  <2>2. ASSUME NEW i \in DOMAIN segs, NEW j \in DOMAIN tidy.plains, segs[i].first = tidy.plains[j].first
        PROVE  segs'[i].format = IF j = 1 THEN "zstd" ELSE "plain"
    <3>1. CASE j = 1
      BY <1>6, <1>15, <1>16, <2>2, <3>1
    <3>2. CASE j # 1
      <4>1. tidy.plains[1].first < tidy.plains[j].first
        <5>1. 1 < j
          BY <1>2, <3>2, HeadOfPlains
        <5>2. QED
          BY <1>15, <2>1, <5>1 DEF Ascending
      <4>2. s.first \in Nat /\ segs[i].first \in Nat
        BY <1>2, <1>5 DEF SegmentType
      <4>3. ~Same(segs[i], s)
        BY <1>15, <2>2, <4>1, <4>2 DEF Same
      <4>4. segs[i].format = "plain"
        BY <1>1, <2>2 DEF LogInv, CompressInv
      <4>5. QED
        BY <1>6, <3>2, <4>3, <4>4
    <3>3. QED
      BY <3>1, <3>2
  <2>3. \A i \in DOMAIN segs' : \A j \in DOMAIN tidy.plains : segs'[i].first = tidy.plains[j].first =>
          segs'[i].format = IF j = 1 THEN "zstd" ELSE "plain"
    BY <1>6, <1>7, <2>2
  <2>4. QED
    BY <1>3, <2>1, <2>3 DEF CompressInv, Working
<1>20. QED
  BY <1>9, <1>10, <1>12, <1>13, <1>14, <1>17, <1>18, <1>19 DEF LogInv

\* A part of the table, in its order.
LEMMA PartOfTable ==
  ASSUME LogInv, NEW log \in Seq(SegmentType), Ascending(log), ToSet(log) \subseteq ToSet(segs)
  PROVE  /\ \A i \in DOMAIN log : \E k \in DOMAIN segs : log[i] = segs[k]
         /\ \A i \in DOMAIN log : log[i].open => i = Len(log) /\ log[i].format = "zstd"
         /\ \A i \in DOMAIN log : log[i].open => IsOpen /\ log[i] = Last(segs)
<1>1. /\ Len(log) \in Nat /\ DOMAIN log = 1 .. Len(log)
      /\ \A i \in DOMAIN log : log[i] \in SegmentType
  BY ElementOfSeq, LenProperties
<1>2. \A i \in DOMAIN log : \E k \in DOMAIN segs : log[i] = segs[k]
  BY DEF ToSet
<1>3. /\ Len(segs) \in Nat /\ DOMAIN segs = 1 .. Len(segs)
      /\ \A i \in DOMAIN segs : segs[i] \in SegmentType
  BY LogTypes DEF LogInv
<1>4. ASSUME NEW i \in DOMAIN log, log[i].open
      PROVE  i = Len(log) /\ log[i].format = "zstd" /\ IsOpen /\ log[i] = Last(segs)
  <2>1. PICK k \in DOMAIN segs : log[i] = segs[k]
    BY <1>2
  <2>2. k = Len(segs) /\ segs[k].format = "zstd"
    BY <1>4, <2>1 DEF LogInv, TableInv
  <2>3. log[i] = Last(segs) /\ IsOpen
    BY <1>3, <1>4, <2>1, <2>2 DEF Last, IsOpen
  <2>4. ASSUME i # Len(log) PROVE FALSE
    <3>1. Len(log) \in DOMAIN log /\ i < Len(log)
      BY <1>1, <2>4
    <3>2. PICK n \in DOMAIN segs : log[Len(log)] = segs[n]
      BY <1>2, <3>1
    <3>3. segs[k].first < segs[n].first
      BY <2>1, <3>1, <3>2 DEF Ascending
    <3>4. n < k
      <4>1. n # k /\ segs[n].first \in Nat
        BY <1>3, <3>3 DEF SegmentType
      <4>2. QED
        BY <1>3, <2>2, <4>1
    <3>5. segs[n].first < segs[k].first
      BY <3>4 DEF LogInv, TableInv, Ascending
    <3>6. segs[n].first \in Nat /\ segs[k].first \in Nat
      BY <1>3 DEF SegmentType
    <3>7. QED
      BY <3>3, <3>5, <3>6
  <2>5. QED
    BY <2>1, <2>2, <2>3, <2>4
<1>5. QED
  BY <1>2, <1>4

\* The table with its open segment closed.
LEMMA ClosedIs ==
  ASSUME LogInv
  PROVE  /\ ClosedSegs \in Seq(SegmentType) /\ Len(ClosedSegs) = Len(segs)
         /\ DOMAIN ClosedSegs = DOMAIN segs
         /\ \A i \in DOMAIN segs :
              /\ ClosedSegs[i].first = segs[i].first /\ ClosedSegs[i].start = segs[i].start
              /\ ClosedSegs[i].format = segs[i].format /\ ~ClosedSegs[i].open
<1>1. /\ segs \in Seq(SegmentType) /\ Len(segs) \in Nat /\ DOMAIN segs = 1 .. Len(segs)
      /\ \A i \in DOMAIN segs : segs[i] \in SegmentType
  BY LogTypes DEF LogInv
<1>2. CASE IsOpen
  <2> DEFINE last == [Last(segs) EXCEPT !.open = FALSE]
  <2>1. Len(segs) \in 1 .. Len(segs)
    BY <1>1, <1>2 DEF IsOpen
  <2>2. /\ last \in SegmentType /\ last.first = segs[Len(segs)].first
        /\ last.start = segs[Len(segs)].start /\ last.format = segs[Len(segs)].format
        /\ last.open = FALSE
    BY <1>1, <2>1 DEF SegmentType, Last
  <2> HIDE DEF last
  <2>3. ClosedSegs = [segs EXCEPT ![Len(segs)] = last]
    BY <1>2 DEF ClosedSegs, ReplaceAt, last
  <2>4. /\ ClosedSegs \in Seq(SegmentType) /\ Len(ClosedSegs) = Len(segs)
        /\ \A j \in 1 .. Len(segs) : ClosedSegs[j] = IF j = Len(segs) THEN last ELSE segs[j]
    BY <1>1, <2>1, <2>2, <2>3, ExceptSeq
  <2>5. DOMAIN ClosedSegs = DOMAIN segs
    BY <1>1, <2>3
  <2>6. \A i \in DOMAIN segs : i # Len(segs) => ~segs[i].open
    BY DEF LogInv, TableInv
  <2>7. QED
    BY <1>1, <2>2, <2>4, <2>5, <2>6
<1>3. CASE ~IsOpen
  <2>1. ClosedSegs = segs
    BY <1>3 DEF ClosedSegs
  <2>2. \A i \in DOMAIN segs : ~segs[i].open
    BY <1>1, <1>3 DEF LogInv, TableInv, IsOpen, Last
  <2>3. QED
    BY <1>1, <2>1, <2>2
<1>4. QED
  BY <1>2, <1>3

\* The table with its last segment closed, or as it was.
ClosesAtMost ==
  /\ segs' \in Seq(SegmentType) /\ Len(segs') = Len(segs) /\ DOMAIN segs' = DOMAIN segs
  /\ \A i \in DOMAIN segs :
       /\ segs'[i].first = segs[i].first /\ segs'[i].start = segs[i].start
       /\ segs'[i].format = segs[i].format /\ (segs'[i].open => segs[i].open)

\* Closing the open segment disturbs nothing but what is being compressed.
LEMMA Closing ==
  ASSUME LogInv, ClosesAtMost, UNCHANGED <<logFiles, nextId, clearing>>,
         tidy'.doomed = tidy.doomed
  PROVE  /\ TableInv' /\ HasFile' /\ RemovesOthers'
         /\ (\A s \in ToSet(tidy.plains)' : \E t \in Spoken : s.first = t.first /\ s.start = t.start)
              => KeysInv' /\ FilesInv' /\ SameSpoken
         /\ (\A f \in logFiles : Spare(f) => Spare(f)') => HasSegment'
<1>1. Len(segs) \in Nat /\ DOMAIN segs = 1 .. Len(segs)
  BY LogTypes DEF LogInv
<1>2. TableInv'
  BY DEF LogInv, TableInv, Ascending, ClosesAtMost
<1>3. HasFile'
  BY DEF LogInv, HasFile, FileAt, Same, ClosesAtMost
<1>4. RemovesOthers'
  BY DEF LogInv, RemovesOthers, ClosesAtMost
<1>5. ASSUME \A s \in ToSet(tidy.plains)' : \E t \in Spoken : s.first = t.first /\ s.start = t.start
      PROVE  KeysInv' /\ FilesInv' /\ SameSpoken
  <2>1. \A s \in ToSet(segs)' : \E t \in ToSet(segs) : s.first = t.first /\ s.start = t.start
    BY DEF ToSet, ClosesAtMost
  <2>2. ToSet(tidy.doomed)' = ToSet(tidy.doomed) /\ ToSet(clearing)' = ToSet(clearing)
    OBVIOUS
  <2>3. SameSpoken
    BY <1>5, <2>1, <2>2 DEF SameSpoken, Spoken
  <2>4. IsOpen' => IsOpen /\ Last(segs)'.first = Last(segs).first
    <3>1. SUFFICES ASSUME segs' # <<>>, segs'[Len(segs')].open
                   PROVE  segs # <<>> /\ segs[Len(segs)].open
                          /\ segs'[Len(segs')].first = segs[Len(segs)].first
      BY DEF IsOpen, Last
    <3>2. segs \in Seq(SegmentType)
      BY DEF LogInv, LogTyped
    <3>3. Len(segs) \in DOMAIN segs /\ segs # <<>>
      BY <1>1, <3>1, <3>2 DEF ClosesAtMost
    <3>4. QED
      BY <3>1, <3>3 DEF ClosesAtMost
  <2>5. QED
    BY <2>3, <2>4, KeysStay, FewerFiles
<1>6. ASSUME \A f \in logFiles : Spare(f) => Spare(f)' PROVE HasSegment'
  <2> SUFFICES ASSUME NEW f \in logFiles
               PROVE  \/ \E i \in DOMAIN segs' : Same(f, segs'[i]) /\ f.format = segs'[i].format
                      \/ \E i \in DOMAIN tidy.doomed : Same(f, tidy.doomed[i])
                      \/ \E i \in DOMAIN clearing : Same(f, clearing[i])
                      \/ Spare(f)'
    BY DEF HasSegment
  <2>1. \A i \in DOMAIN segs : Same(f, segs[i]) /\ f.format = segs[i].format =>
          i \in DOMAIN segs' /\ Same(f, segs'[i]) /\ f.format = segs'[i].format
    BY DEF Same, ClosesAtMost
  <2>2. QED
    BY <1>6, <2>1 DEF LogInv, HasSegment
<1>7. QED
  BY <1>2, <1>3, <1>4, <1>5, <1>6

\* A failed write gives the open segment up.
LEMMA AppendAbandonsKeeps == ASSUME LogInv, AppendAbandons PROVE LogInv'
<1>1. /\ LogEvent /\ IsOpen /\ segs' = ClosedSegs
      /\ savedId' = nextId /\ stateDue' = FALSE
      /\ UNCHANGED <<logFiles, nextId, tidy, clearing, walk, logClock>>
  BY DEF AppendAbandons, ClosedSegs
<1>2. ClosesAtMost
  BY <1>1, ClosedIs DEF ClosesAtMost
<1>3. logEvents' \in 0 .. MaxLogEvents
  BY <1>1, LogAssumption DEF LogEvent, LogInv, LogTyped
<1>4. LogTyped'
  BY <1>1, <1>2, <1>3 DEF LogInv, LogTyped, ClosesAtMost
<1>5. \A s \in ToSet(tidy.plains)' : \E t \in Spoken : s.first = t.first /\ s.start = t.start
  BY <1>1 DEF Spoken
<1>6. \A f \in logFiles : Spare(f) => Spare(f)'
  BY <1>1 DEF Spare
<1>7. TableInv' /\ HasFile' /\ RemovesOthers' /\ KeysInv' /\ FilesInv' /\ HasSegment' /\ SameSpoken
  BY <1>1, <1>2, <1>5, <1>6, Closing
<1>8. CompressInv'
  <2>1. tidy.pc \in {"rename", "note"} => Fits(tidy.rows, Head(tidy.plains), Spoken', nextId')
    BY <1>1, <1>7, FitsAfter, LogTypes DEF LogInv, CompressInv
  <2>2. FileAt(Head(tidy.plains), "zstd")' = FileAt(Head(tidy.plains), "zstd")
    BY <1>1 DEF FileAt
  <2>3. QED
    BY <1>1, <1>2, <2>1, <2>2 DEF LogInv, CompressInv, ClosesAtMost
<1>9. QED
  BY <1>4, <1>7, <1>8 DEF LogInv

\* A pass begins: an hour that is over is closed and the plain segments are listed.
LEMMA BeginTidyKeeps == ASSUME LogInv, BeginTidy PROVE LogInv'
<1> DEFINE plain == {s \in ToSet(segs') : ~s.open /\ s.format = "plain"}
           plains == Among(segs', plain)
<1>1. /\ tidy.pc = "idle" /\ segs # <<>>
      /\ segs' = ClosedSegs \/ segs' = segs
      /\ stateDue' \in BOOLEAN
      /\ tidy' = Compressing(plains)
      /\ UNCHANGED <<logFiles, nextId, savedId, clearing, walk, logClock, logEvents>>
  BY DEF BeginTidy, LogInv, LogTyped
<1>2. ClosesAtMost
  <2>1. segs \in Seq(SegmentType)
    BY DEF LogInv, LogTyped
  <2>2. QED
    BY <1>1, <2>1, ClosedIs DEF ClosesAtMost
<1>3. tidy.plains = <<>> /\ tidy.doomed = <<>>
  BY <1>1 DEF LogInv, CompressInv, Working
<1>4. Ascending(segs')
  BY <1>2 DEF LogInv, TableInv, Ascending, ClosesAtMost
<1>5. \A s \in SegmentType : s.first \in Int
  BY DEF SegmentType
<1>6. /\ plains \in Seq(SegmentType) /\ Ascending(plains)
      /\ ToSet(plains) = ToSet(segs') \intersect plain
  <2> HIDE DEF plain
  <2>1. QED
    BY <1>2, <1>4, <1>5, AmongIs DEF ClosesAtMost
<1>7. /\ tidy' \in TidyType /\ tidy'.plains = plains /\ tidy'.doomed = <<>>
      /\ tidy'.pc \in {"enforce", "compress"}
  BY <1>1, <1>6, CompressingIs
<1>8. \A j \in DOMAIN plains : \E k \in DOMAIN segs' : plains[j] = segs'[k] /\ segs'[k].format = "plain"
  <2> HIDE DEF plains
  <2>1. \A j \in DOMAIN plains : plains[j] \in plain
    BY <1>6 DEF ToSet
  <2>2. QED
    BY <2>1 DEF ToSet
<1> HIDE DEF plains, plain
<1>9. LogTyped'
  BY <1>1, <1>2, <1>7 DEF LogInv, LogTyped, ClosesAtMost
<1>10. \A s \in ToSet(tidy.plains)' : \E t \in Spoken : s.first = t.first /\ s.start = t.start
  BY <1>2, <1>7, <1>8 DEF ClosesAtMost, Spoken, ToSet
<1>11. \A f \in logFiles : ~Spare(f)
  BY <1>1 DEF Spare
<1>12. TableInv' /\ HasFile' /\ RemovesOthers' /\ KeysInv' /\ FilesInv' /\ HasSegment'
  BY <1>1, <1>2, <1>3, <1>7, <1>10, <1>11, Closing
<1>13. \A i \in DOMAIN segs' : \A j \in DOMAIN plains :
         segs'[i].first = plains[j].first => segs'[i].format = "plain"
  <2> SUFFICES ASSUME NEW i \in DOMAIN segs', NEW j \in DOMAIN plains,
                      segs'[i].first = plains[j].first
               PROVE  segs'[i].format = "plain"
    OBVIOUS
  <2>1. PICK k \in DOMAIN segs' : plains[j] = segs'[k] /\ segs'[k].format = "plain"
    BY <1>8
  <2>a. segs' \in Seq(SegmentType)
    BY <1>2 DEF ClosesAtMost
  <2>b. DOMAIN segs' = 1 .. Len(segs') /\ segs'[i] \in SegmentType /\ Len(segs') \in Nat
    BY <2>a
  <2>2. DOMAIN segs' = 1 .. Len(segs') /\ segs'[i].first \in Nat /\ Len(segs') \in Nat
    BY <2>b DEF SegmentType
  <2>3. i = k
    BY <1>4, <2>1, <2>2 DEF Ascending
  <2>4. QED
    BY <2>1, <2>3
<1>14. CompressInv'
  BY <1>1, <1>6, <1>13, CompressingKeeps
<1>15. QED
  BY <1>9, <1>12, <1>14 DEF LogInv

\* The rows of a plain file are read, or the file is found empty and forgotten.
LEMMA ReadPlainKeeps == ASSUME LogInv, ReadPlain PROVE LogInv'
<1> DEFINE s == Head(tidy.plains)
           others == {t \in ToSet(segs) : ~Same(t, s)}
<1>1. /\ tidy.pc = "compress"
      /\ UNCHANGED <<logFiles, nextId, savedId, stateDue, clearing, walk, logClock, logEvents>>
  BY DEF ReadPlain
<1>2. tidy.pc \in Working /\ tidy.plains # <<>> /\ tidy.doomed = <<>> /\ s \in Spoken
      /\ s \in SegmentType /\ s = tidy.plains[1] /\ 1 \in DOMAIN tidy.plains
  BY <1>1, HeadOfPlains DEF Working
<1>3. \A f \in logFiles : ~Spare(f)
  BY <1>1 DEF Spare
<1>4. CASE FileAt(s, "plain") = {} /\ segs' = Among(segs, others)
             /\ tidy' = Compressing(Tail(tidy.plains))
  <2>1. ToSet(segs) \subseteq others
    <3> SUFFICES ASSUME NEW i \in DOMAIN segs, Same(segs[i], s) PROVE FALSE
      BY DEF ToSet
    <3>1. segs[i].format = "plain"
      BY <1>1, <1>2 DEF LogInv, CompressInv, Same
    <3>2. FileAt(segs[i], "plain") = FileAt(s, "plain")
      BY DEF FileAt, Same
    <3>3. QED
      BY <1>4, <3>1, <3>2 DEF LogInv, HasFile
  <2>2. /\ segs' \in Seq(SegmentType) /\ ToSet(segs') = ToSet(segs) \intersect others
        /\ Ascending(segs')
    <3>1. segs \in Seq(SegmentType) /\ Ascending(segs)
      BY DEF LogInv, LogTyped, TableInv
    <3>2. \A t \in SegmentType : t.first \in Int
      BY DEF SegmentType
    <3> HIDE DEF others
    <3>3. QED
      BY <1>4, <3>1, <3>2, AmongIs
  <2>3. ToSet(segs') = ToSet(segs)
    BY <2>1, <2>2
  <2> HIDE DEF others
  <2>4. /\ \A i \in DOMAIN segs' : \E k \in DOMAIN segs : segs'[i] = segs[k]
        /\ \A i \in DOMAIN segs' : segs'[i].open => i = Len(segs') /\ segs'[i].format = "zstd"
        /\ \A i \in DOMAIN segs' : segs'[i].open => IsOpen /\ segs'[i] = Last(segs)
    BY <2>2, <2>3, PartOfTable
  <2>5. \A i \in DOMAIN segs : \E k \in DOMAIN segs' : segs[i] = segs'[k]
    BY <2>3 DEF ToSet
  <2>6. /\ tidy' \in TidyType /\ tidy'.doomed = <<>> /\ tidy'.pc \in {"enforce", "compress"}
        /\ SameSpoken /\ CompressInv'
    BY <1>1, <1>2, <1>4, <2>3, <2>4, NextPlain DEF ToSet
  <2>7. LogTyped'
    BY <1>1, <2>2, <2>6 DEF LogInv, LogTyped
  <2>8. TableInv'
    BY <2>2, <2>4 DEF TableInv
  <2>9. IsOpen' => IsOpen /\ Last(segs)' = Last(segs)
    <3>1. segs' # <<>> => Len(segs') \in DOMAIN segs'
      BY <2>2
    <3>2. QED
      BY <2>4, <3>1 DEF IsOpen, Last
  <2>10. KeysInv' /\ FilesInv'
    BY <1>1, <2>6, <2>9, KeysStay, FewerFiles
  <2>11. HasFile'
    BY <1>1, <2>4 DEF LogInv, HasFile, FileAt
  <2>12. HasSegment'
    BY <1>1, <1>2, <1>3, <2>5 DEF LogInv, HasSegment
  <2>13. RemovesOthers'
    BY <1>1, <2>4, <2>6 DEF LogInv, RemovesOthers
  <2>14. QED
    BY <2>6, <2>7, <2>8, <2>10, <2>11, <2>12, <2>13 DEF LogInv
<1>5. CASE FileAt(s, "plain") # {} /\ UNCHANGED segs
             /\ tidy' = [tidy EXCEPT !.pc = "rename", !.rows = RowsIn(FileAt(s, "plain"))]
  <2>1. PICK f \in FileAt(s, "plain") : RowsIn(FileAt(s, "plain")) = f.rows
    <3>1. (CHOOSE f \in FileAt(s, "plain") : TRUE) \in FileAt(s, "plain")
      BY <1>5
    <3>2. QED
      BY <1>5, <3>1 DEF RowsIn
  <2>2. f \in logFiles /\ Same(f, s) /\ f.format = "plain" /\ f.rows \in Seq(RowType)
    BY <2>1 DEF FileAt, LogInv, LogTyped, SegmentFile
  <2>3. f.rows # <<>> /\ Fits(f.rows, f, Spoken, nextId)
    BY <2>2 DEF LogInv, FilesInv
  <2>4. Fits(f.rows, s, Spoken, nextId)
    BY <2>2, <2>3 DEF Fits, Same, SegmentEnd
  <2>5. /\ tidy' \in TidyType /\ tidy'.pc = "rename" /\ tidy'.plains = tidy.plains
        /\ tidy'.doomed = tidy.doomed /\ tidy'.rows = f.rows
    BY <1>5, <2>1, <2>2 DEF LogInv, LogTyped, TidyType, TidyPcs
  <2>6. LogTyped'
    BY <1>1, <1>5, <2>5 DEF LogInv, LogTyped
  <2>7. Spoken' = Spoken /\ IsOpen' = IsOpen /\ Last(segs)' = Last(segs)
    BY <1>1, <1>5, <2>5 DEF Spoken, IsOpen, Last
  <2>8. TableInv' /\ KeysInv' /\ FilesInv' /\ HasFile'
    BY <1>1, <1>5, <2>7 DEF LogInv, TableInv, KeysInv, FilesInv, HasFile, FileAt
  <2>9. HasSegment'
    BY <1>1, <1>3, <1>5, <2>5 DEF LogInv, HasSegment
  <2>10. RemovesOthers'
    BY <1>1, <1>5, <2>5 DEF LogInv, RemovesOthers
  <2>11. CompressInv'
    BY <1>1, <1>2, <1>5, <2>3, <2>4, <2>5, <2>7 DEF LogInv, CompressInv, Working
  <2>12. QED
    BY <2>6, <2>8, <2>9, <2>10, <2>11 DEF LogInv
<1>6. QED
  BY <1>1, <1>4, <1>5 DEF ReadPlain

---------------------------------------------------------------------------
(* What removes files.                                                     *)

\* The rest of a list.
LEMMA TailOf ==
  ASSUME NEW log \in Seq(SegmentType), log # <<>>
  PROVE  /\ Tail(log) \in Seq(SegmentType) /\ Head(log) = log[1] /\ 1 \in DOMAIN log
         /\ Head(log) \in SegmentType
         /\ \A j \in DOMAIN Tail(log) : j + 1 \in DOMAIN log /\ Tail(log)[j] = log[j + 1]
         /\ \A j \in DOMAIN log : j = 1 \/ (j - 1 \in DOMAIN Tail(log) /\ Tail(log)[j - 1] = log[j])
<1>1. /\ Len(log) \in Nat \ {0} /\ DOMAIN log = 1 .. Len(log)
      /\ Head(log) = log[1] /\ log[1] \in SegmentType
  OBVIOUS
<1>2. /\ Tail(log) \in Seq(SegmentType) /\ Len(Tail(log)) = Len(log) - 1
      /\ DOMAIN Tail(log) = 1 .. Len(log) - 1
      /\ \A j \in 1 .. Len(log) - 1 : Tail(log)[j] = log[j + 1]
  OBVIOUS
<1>3. QED
  BY <1>1, <1>2

\* The files of a segment that is not in the table go.
LEMMA WithoutKeeps ==
  ASSUME LogInv, NEW s, logFiles' = WithoutFiles(s, Formats), SameSpoken,
         \A i \in DOMAIN segs : segs[i].first # s.first,
         UNCHANGED <<segs, nextId>>
  PROVE  /\ TableInv' /\ KeysInv' /\ FilesInv' /\ HasFile'
         /\ logFiles' \subseteq logFiles
         /\ \A f \in logFiles' : ~Same(f, s)
         /\ \A f \in logFiles : ~Same(f, s) => f \in logFiles'
<1>1. logFiles' \subseteq logFiles /\ (\A f \in logFiles : ~Same(f, s) => f \in logFiles')
  BY DEF WithoutFiles
<1>2. \A f \in logFiles : f.format \in Formats
  BY DEF LogInv, LogTyped, SegmentFile
<1>3. \A f \in logFiles' : ~Same(f, s)
  BY <1>2 DEF WithoutFiles
<1>4. TableInv' /\ KeysInv' /\ FilesInv'
  BY <1>1, KeysStay, FewerFiles DEF LogInv, TableInv, IsOpen, Last
<1>5. HasFile'
  <2> SUFFICES ASSUME NEW i \in DOMAIN segs
               PROVE  \E f \in logFiles' : Same(f, segs[i]) /\ f.format = segs[i].format
    BY DEF HasFile, FileAt
  <2>1. PICK f \in logFiles : Same(f, segs[i]) /\ f.format = segs[i].format
    BY DEF LogInv, HasFile, FileAt
  <2>2. ~Same(f, s)
    BY <2>1 DEF Same
  <2>3. QED
    BY <1>1, <2>1, <2>2
<1>6. QED
  BY <1>1, <1>3, <1>4, <1>5

\* A pass removes the files of a segment it took out of the table.
LEMMA RemoveDroppedKeeps == ASSUME LogInv, RemoveDropped PROVE LogInv'
<1> DEFINE s == Head(tidy.doomed)
<1>1. /\ tidy.pc = "remove" /\ logFiles' = WithoutFiles(s, Formats)
      /\ tidy' = Removing(Tail(tidy.doomed))
      /\ UNCHANGED <<segs, nextId, savedId, stateDue, clearing, walk, logClock, logEvents>>
  BY DEF RemoveDropped
<1>2. tidy.doomed \in Seq(SegmentType) /\ tidy.doomed # <<>>
  BY <1>1, LogTypes DEF LogInv, CompressInv
<1>3. /\ Tail(tidy.doomed) \in Seq(SegmentType) /\ s = tidy.doomed[1] /\ 1 \in DOMAIN tidy.doomed
      /\ \A j \in DOMAIN Tail(tidy.doomed) :
           j + 1 \in DOMAIN tidy.doomed /\ Tail(tidy.doomed)[j] = tidy.doomed[j + 1]
      /\ \A j \in DOMAIN tidy.doomed :
           j = 1 \/ (j - 1 \in DOMAIN Tail(tidy.doomed) /\ Tail(tidy.doomed)[j - 1] = tidy.doomed[j])
  BY <1>2, TailOf
<1>4. tidy' \in TidyType /\ tidy'.doomed = Tail(tidy.doomed) /\ tidy'.plains = <<>>
  BY <1>1, <1>3, RemovingIs
<1>5. SameSpoken
  <2>1. ToSet(tidy.doomed)' \subseteq ToSet(tidy.doomed)
    BY <1>3, <1>4 DEF ToSet
  <2>2. ToSet(tidy.plains)' = {}
    BY <1>4 DEF ToSet
  <2>3. logFiles' \subseteq logFiles
    BY <1>1 DEF WithoutFiles
  <2>4. QED
    BY <1>1, <2>1, <2>2, <2>3 DEF SameSpoken, Spoken
<1>6. \A i \in DOMAIN segs : segs[i].first # s.first
  BY <1>3 DEF LogInv, RemovesOthers
<1>7. /\ TableInv' /\ KeysInv' /\ FilesInv' /\ HasFile' /\ logFiles' \subseteq logFiles
      /\ \A f \in logFiles' : ~Same(f, s)
  BY <1>1, <1>5, <1>6, WithoutKeeps
<1>8. LogTyped'
  BY <1>1, <1>4, <1>7 DEF LogInv, LogTyped
<1>9. HasSegment'
  <2> SUFFICES ASSUME NEW f \in logFiles'
               PROVE  \/ \E i \in DOMAIN segs' : Same(f, segs'[i]) /\ f.format = segs'[i].format
                      \/ \E i \in DOMAIN tidy'.doomed : Same(f, tidy'.doomed[i])
                      \/ \E i \in DOMAIN clearing' : Same(f, clearing'[i])
    BY DEF HasSegment
  <2>1. ~Spare(f) /\ f \in logFiles /\ ~Same(f, s)
    BY <1>1, <1>7 DEF Spare
  <2>2. \A i \in DOMAIN tidy.doomed : Same(f, tidy.doomed[i]) =>
          \E j \in DOMAIN tidy'.doomed : Same(f, tidy'.doomed[j])
    BY <1>3, <1>4, <2>1
  <2>3. QED
    BY <1>1, <2>1, <2>2 DEF LogInv, HasSegment
<1>10. RemovesOthers'
  <2>1. \A j \in DOMAIN tidy'.doomed : \E k \in DOMAIN tidy.doomed : tidy'.doomed[j] = tidy.doomed[k]
    BY <1>3, <1>4
  <2>2. QED
    BY <1>1, <2>1 DEF LogInv, RemovesOthers
<1>11. CompressInv'
  BY <1>1, <1>3, RemovingKeeps
<1>12. QED
  BY <1>7, <1>8, <1>9, <1>10, <1>11 DEF LogInv

\* The page removes the files of a segment it cleared.
LEMMA RemoveClearedKeeps == ASSUME LogInv, RemoveCleared PROVE LogInv'
<1> DEFINE s == Head(clearing)
<1>1. /\ clearing # <<>> /\ logFiles' = WithoutFiles(s, Formats) /\ clearing' = Tail(clearing)
      /\ UNCHANGED <<segs, nextId, savedId, stateDue, tidy, walk, logClock, logEvents>>
  BY DEF RemoveCleared
<1>2. clearing \in Seq(SegmentType)
  BY DEF LogInv, LogTyped
<1>3. /\ Tail(clearing) \in Seq(SegmentType) /\ s = clearing[1] /\ 1 \in DOMAIN clearing
      /\ \A j \in DOMAIN Tail(clearing) :
           j + 1 \in DOMAIN clearing /\ Tail(clearing)[j] = clearing[j + 1]
      /\ \A j \in DOMAIN clearing :
           j = 1 \/ (j - 1 \in DOMAIN Tail(clearing) /\ Tail(clearing)[j - 1] = clearing[j])
  BY <1>1, <1>2, TailOf
<1>4. SameSpoken
  <2>1. ToSet(clearing)' \subseteq ToSet(clearing)
    BY <1>1, <1>3 DEF ToSet
  <2>2. logFiles' \subseteq logFiles
    BY <1>1 DEF WithoutFiles
  <2>3. QED
    BY <1>1, <2>1, <2>2 DEF SameSpoken, Spoken
<1>5. \A i \in DOMAIN segs : segs[i].first # s.first
  BY <1>3 DEF LogInv, RemovesOthers
<1>6. /\ TableInv' /\ KeysInv' /\ FilesInv' /\ HasFile' /\ logFiles' \subseteq logFiles
      /\ \A f \in logFiles' : ~Same(f, s)
      /\ \A f \in logFiles : ~Same(f, s) => f \in logFiles'
  BY <1>1, <1>4, <1>5, WithoutKeeps
<1>7. LogTyped'
  BY <1>1, <1>3, <1>6 DEF LogInv, LogTyped
<1>8. HasSegment'
  <2> SUFFICES ASSUME NEW f \in logFiles'
               PROVE  \/ \E i \in DOMAIN segs' : Same(f, segs'[i]) /\ f.format = segs'[i].format
                      \/ \E i \in DOMAIN tidy'.doomed : Same(f, tidy'.doomed[i])
                      \/ \E i \in DOMAIN clearing' : Same(f, clearing'[i])
                      \/ Spare(f)'
    BY DEF HasSegment
  <2>1. f \in logFiles /\ ~Same(f, s) /\ (Spare(f) => Spare(f)')
    BY <1>1, <1>6 DEF Spare
  <2>2. \A i \in DOMAIN clearing : Same(f, clearing[i]) =>
          \E j \in DOMAIN clearing' : Same(f, clearing'[j])
    BY <1>1, <1>3, <2>1
  <2>3. QED
    BY <1>1, <2>1, <2>2 DEF LogInv, HasSegment
<1>9. RemovesOthers'
  BY <1>1, <1>3 DEF LogInv, RemovesOthers
<1>10. CompressInv'
  <2>1. tidy.pc \in {"rename", "note"} => Fits(tidy.rows, Head(tidy.plains), Spoken', nextId')
    BY <1>1, <1>4, FitsAfter, LogTypes DEF LogInv, CompressInv
  <2>2. ASSUME tidy.pc = "note", NEW i \in DOMAIN segs, segs[i].first = Head(tidy.plains).first
        PROVE  FileAt(Head(tidy.plains), "zstd")' # {}
    <3>1. FileAt(Head(tidy.plains), "zstd") # {}
      BY <2>2 DEF LogInv, CompressInv
    <3>2. PICK f \in logFiles : Same(f, Head(tidy.plains)) /\ f.format = "zstd"
      BY <3>1 DEF FileAt
    <3>3. ~Same(f, s)
      BY <1>5, <2>2, <3>2 DEF Same
    <3>4. f \in FileAt(Head(tidy.plains), "zstd")'
      BY <1>1, <1>6, <3>2, <3>3 DEF FileAt
    <3>5. QED
      BY <3>4
  <2>3. QED
    BY <1>1, <2>1, <2>2 DEF LogInv, CompressInv
<1>11. QED
  BY <1>6, <1>7, <1>8, <1>9, <1>10 DEF LogInv

\* The log is cleared: the table is empty and its files are still to be removed.
LEMMA ClearLogKeeps == ASSUME LogInv, ClearLog PROVE LogInv'
<1>1. /\ LogEvent /\ clearing = <<>> /\ segs # <<>>
      /\ segs' = <<>> /\ clearing' = segs
      /\ savedId' \in {nextId, savedId} /\ stateDue' \in {FALSE, stateDue}
      /\ UNCHANGED <<logFiles, nextId, tidy, walk, logClock>>
  BY DEF ClearLog
<1>2. logEvents' \in 0 .. MaxLogEvents
  BY <1>1, LogAssumption DEF LogEvent, LogInv, LogTyped
<1>3. LogTyped'
  <2>1. segs' \in Seq(SegmentType) /\ clearing' \in Seq(SegmentType)
    BY <1>1 DEF LogInv, LogTyped
  <2>2. savedId' \in Nat /\ stateDue' \in BOOLEAN
    BY <1>1 DEF LogInv, LogTyped
  <2>3. QED
    BY <1>1, <1>2, <2>1, <2>2 DEF LogInv, LogTyped
<1>4. SameSpoken
  <2>1. ToSet(segs)' = {} /\ ToSet(clearing)' = ToSet(segs)
    BY <1>1 DEF ToSet
  <2>2. QED
    BY <1>1, <2>1 DEF SameSpoken, Spoken
<1>5. ~IsOpen' /\ DOMAIN segs' = {}
  BY <1>1 DEF IsOpen
<1>6. KeysInv' /\ FilesInv'
  BY <1>1, <1>4, <1>5, KeysStay, FewerFiles
<1>7. TableInv' /\ HasFile' /\ RemovesOthers'
  BY <1>5 DEF TableInv, Ascending, HasFile, RemovesOthers
<1>8. HasSegment'
  <2>1. \A f \in logFiles : Spare(f) => Spare(f)'
    BY <1>1 DEF Spare
  <2>2. QED
    BY <1>1, <2>1 DEF LogInv, HasSegment
<1>9. CompressInv'
  <2>1. tidy.pc \in {"rename", "note"} => Fits(tidy.rows, Head(tidy.plains), Spoken', nextId')
    BY <1>1, <1>4, FitsAfter, LogTypes DEF LogInv, CompressInv
  <2>2. QED
    BY <1>1, <1>5, <2>1 DEF LogInv, CompressInv
<1>10. QED
  BY <1>3, <1>6, <1>7, <1>8, <1>9 DEF LogInv

---------------------------------------------------------------------------
(* The end of a pass.                                                      *)

\* Closed files are synced.
LEMMA SyncClosedKeeps == ASSUME LogInv, SyncClosed PROVE LogInv'
<1> DEFINE synced(f) == IF <<f.start, f.first>> \in unsynced THEN [f EXCEPT !.synced = Len(f.rows)]
                        ELSE f
<1>1. /\ tidy.pc = "sync" /\ logFiles' = {synced(f) : f \in logFiles}
      /\ tidy' = [tidy EXCEPT !.pc = "state"]
      /\ UNCHANGED <<segs, nextId, savedId, stateDue, clearing, walk, logClock, logEvents>>
  BY DEF SyncClosed
<1>2. \A f \in logFiles :
        /\ synced(f) \in SegmentFile /\ synced(f).synced <= Len(synced(f).rows)
        /\ synced(f).first = f.first /\ synced(f).start = f.start
        /\ synced(f).format = f.format /\ synced(f).rows = f.rows /\ synced(f).size = f.size
        /\ synced(f).synced \in {f.synced, Len(f.rows)}
  <2> TAKE f \in logFiles
  <2>1. f \in SegmentFile /\ f.synced <= Len(f.rows) /\ f.rows \in Seq(RowType) /\ Len(f.rows) \in Nat
    BY DEF LogInv, LogTyped, SegmentFile
  <2>2. CASE <<f.start, f.first>> \in unsynced
    <3>1. synced(f) = [f EXCEPT !.synced = Len(f.rows)]
      BY <2>2
    <3>2. QED
      BY <2>1, <3>1 DEF SegmentFile
  <2>3. CASE <<f.start, f.first>> \notin unsynced
    <3>1. synced(f) = f
      BY <2>3
    <3>2. QED
      BY <2>1, <3>1
  <2>4. QED
    BY <2>2, <2>3
<1> HIDE DEF synced
<1>3. /\ tidy' \in TidyType /\ tidy'.pc = "state" /\ tidy'.plains = <<>> /\ tidy'.doomed = <<>>
      /\ tidy.plains = <<>> /\ tidy.doomed = <<>>
  BY <1>1 DEF LogInv, LogTyped, CompressInv, Working, TidyType, TidyPcs
<1>4. LogTyped'
  BY <1>1, <1>2, <1>3 DEF LogInv, LogTyped
<1>5. SameSpoken
  BY <1>1, <1>2, <1>3 DEF SameSpoken, Spoken
<1>6. TableInv' /\ KeysInv'
  BY <1>1, <1>5, KeysStay DEF LogInv, TableInv, IsOpen, Last
<1>7. FilesInv'
  <2>1. \A g \in logFiles' : Fits(g.rows, g, Spoken', nextId')
    <3> TAKE g \in logFiles'
    <3>1. PICK f \in logFiles : g = synced(f)
      BY <1>1
    <3>2. Fits(f.rows, f, Spoken', nextId')
      BY <1>1, <1>5, FitsAfter DEF LogInv, LogTyped, SegmentFile, FilesInv
    <3>3. QED
      BY <1>2, <3>1, <3>2 DEF Fits, SegmentEnd
  <2>2. \A g, h \in logFiles' : g.first = h.first /\ g.format = h.format => g = h
    BY <1>1, <1>2 DEF LogInv, FilesInv
  <2>3. \A g \in logFiles' : g.format = "plain" =>
          g.rows # <<>> /\ g.size > 0 /\ g.synced = Len(g.rows)
    BY <1>1, <1>2 DEF LogInv, FilesInv
  <2>4. QED
    BY <2>1, <2>2, <2>3 DEF FilesInv
<1>8. HasFile'
  <2> SUFFICES ASSUME NEW i \in DOMAIN segs
               PROVE  \E f \in logFiles' : Same(f, segs[i]) /\ f.format = segs[i].format
    BY <1>1 DEF HasFile, FileAt
  <2>1. PICK f \in logFiles : Same(f, segs[i]) /\ f.format = segs[i].format
    BY DEF LogInv, HasFile, FileAt
  <2>2. QED
    BY <1>1, <1>2, <2>1 DEF Same
<1>9. HasSegment'
  <2> SUFFICES ASSUME NEW g \in logFiles'
               PROVE  \/ \E i \in DOMAIN segs : Same(g, segs[i]) /\ g.format = segs[i].format
                      \/ \E i \in DOMAIN clearing : Same(g, clearing[i])
    BY <1>1 DEF HasSegment
  <2>1. PICK f \in logFiles : g = synced(f)
    BY <1>1
  <2>2. ~Spare(f)
    BY <1>1 DEF Spare
  <2>3. \/ \E i \in DOMAIN segs : Same(f, segs[i]) /\ f.format = segs[i].format
        \/ \E i \in DOMAIN clearing : Same(f, clearing[i])
    BY <1>3, <2>2 DEF LogInv, HasSegment
  <2>4. QED
    BY <1>2, <2>1, <2>3 DEF Same
<1>10. RemovesOthers'
  BY <1>1, <1>3 DEF LogInv, RemovesOthers
<1>11. CompressInv'
  BY <1>3 DEF CompressInv, Working, Ascending
<1>12. QED
  BY <1>4, <1>6, <1>7, <1>8, <1>9, <1>10, <1>11 DEF LogInv

\* The state file is written.
LEMMA EndTidyKeeps == ASSUME LogInv, EndTidy PROVE LogInv'
<1>1. /\ tidy.pc = "state" /\ tidy' = AtRest
      /\ savedId' \in {nextId, savedId} /\ stateDue' \in {FALSE, stateDue}
      /\ UNCHANGED <<segs, logFiles, nextId, clearing, walk, logClock, logEvents>>
  BY DEF EndTidy
<1>2. /\ tidy' \in TidyType /\ tidy'.pc = "idle" /\ tidy'.plains = <<>> /\ tidy'.doomed = <<>>
      /\ tidy.plains = <<>> /\ tidy.doomed = <<>>
  BY <1>1, AtRestIs DEF LogInv, CompressInv, Working
<1>3. savedId' \in Nat /\ stateDue' \in BOOLEAN
  BY <1>1 DEF LogInv, LogTyped
<1>4. LogTyped'
  BY <1>1, <1>2, <1>3 DEF LogInv, LogTyped
<1>5. Spoken' = Spoken /\ IsOpen' = IsOpen /\ Last(segs)' = Last(segs)
  BY <1>1, <1>2 DEF Spoken, IsOpen, Last
<1>6. TableInv' /\ KeysInv' /\ FilesInv' /\ HasFile'
  BY <1>1, <1>5 DEF LogInv, TableInv, KeysInv, FilesInv, HasFile, FileAt
<1>7. HasSegment'
  <2>1. \A f \in logFiles : ~Spare(f)
    BY <1>1 DEF Spare
  <2>2. QED
    BY <1>1, <1>2, <2>1 DEF LogInv, HasSegment
<1>8. RemovesOthers' /\ CompressInv'
  BY <1>1, <1>2 DEF LogInv, RemovesOthers, CompressInv, Working, Ascending
<1>9. QED
  BY <1>4, <1>6, <1>7, <1>8 DEF LogInv

---------------------------------------------------------------------------
(* What is written.                                                        *)

\* A time is before the end of its hour.
LEMMA HourEnds ==
  ASSUME NEW t \in Nat
  PROVE  t < (HourOf(t) + 1) * TicksPerHour /\ HourOf(t) \in Nat
<1>1. TicksPerHour \in Nat \ {0}
  BY LogAssumption
<1>2. QED
  BY <1>1 DEF HourOf

\* The times of a batch.
LEMMA BatchIs ==
  ASSUME LogTyped, NEW times \in Batches
  PROVE  /\ times \in Seq(0 .. MaxTick) /\ Len(times) \in {1, 2}
         /\ Newest(times) \in 0 .. MaxTick
         /\ \A i \in DOMAIN times : times[i] <= Newest(times)
<1>1. logClock \in 0 .. MaxTick /\ MaxTick \in Nat
  BY LogTypes DEF LogTyped
<1>2. times \in Seq(0 .. MaxTick) /\ Len(times) \in {1, 2}
  <2>1. \A t \in 0 .. MaxTick : <<t>> \in Seq(0 .. MaxTick) /\ Len(<<t>>) = 1
    OBVIOUS
  <2>2. \A t, u \in 0 .. MaxTick : <<t, u>> \in Seq(0 .. MaxTick) /\ Len(<<t, u>>) = 2
    OBVIOUS
  <2>3. CASE logClock = MaxTick
    <3>1. times = <<logClock>> \/ times = <<logClock, logClock>>
      BY <2>3 DEF Batches
    <3>2. QED
      BY <1>1, <2>1, <2>2, <3>1
  <2>4. CASE logClock # MaxTick
    <3>1. logClock + 1 \in 0 .. MaxTick
      BY <1>1, <2>4
    <3>2. times = <<logClock>> \/ times = <<logClock + 1>> \/ times = <<logClock + 1, logClock>>
      BY <2>4 DEF Batches
    <3>3. QED
      BY <1>1, <2>1, <2>2, <3>1, <3>2
  <2>5. QED
    BY <2>3, <2>4
<1> DEFINE S == ToSet(times) \union {logClock}
<1>3. S \in SUBSET Nat /\ S # {} /\ (\A n \in S : n <= MaxTick) /\ ToSet(times) \subseteq S
  <2>0. DOMAIN times = 1 .. Len(times)
    BY <1>2
  <2>1. \A i \in DOMAIN times : times[i] \in 0 .. MaxTick
    BY <1>2, <2>0, ElementOfSeq
  <2>2. QED
    BY <1>1, <2>1 DEF ToSet
<1> HIDE DEF S
<1>4. \E n \in S : \A m \in S : n >= m
  BY <1>1, <1>3, GreatestNumber
<1>5. Newest(times) = CHOOSE n \in S : \A m \in S : n >= m
  BY DEF Newest, S
<1>6. Newest(times) \in S /\ \A m \in S : Newest(times) >= m
  BY <1>4, <1>5
<1>7. \A i \in DOMAIN times : times[i] \in S
  BY <1>3 DEF ToSet
<1>8. Newest(times) \in 0 .. MaxTick
  <2>1. Newest(times) \in Nat
    BY <1>3, <1>6
  <2>2. Newest(times) <= MaxTick
    BY <1>3, <1>6
  <2>3. QED
    BY <1>1, <2>1, <2>2
<1>9. \A i \in DOMAIN times : times[i] <= Newest(times)
  BY <1>3, <1>6, <1>7
<1>10. QED
  BY <1>2, <1>8, <1>9

\* The rows of a batch.
Batch(times) == [i \in DOMAIN times |-> [id |-> nextId + i - 1, time |-> times[i]]]

\* They are numbered from the next id on.
LEMMA BatchRows ==
  ASSUME LogTyped, NEW times \in Batches, nextId + Len(times) - 1 <= MaxRecords
  PROVE  /\ Batch(times) \in Seq(RowType) /\ Len(Batch(times)) = Len(times)
         /\ Len(times) \in {1, 2} /\ DOMAIN Batch(times) = 1 .. Len(times)
         /\ \A i \in 1 .. Len(times) :
              /\ Batch(times)[i].id = nextId + i - 1
              /\ Batch(times)[i].time = times[i] /\ times[i] \in 0 .. MaxTick
<1>1. times \in Seq(0 .. MaxTick) /\ Len(times) \in {1, 2}
  BY BatchIs
<1>2. DOMAIN times = 1 .. Len(times) /\ \A i \in 1 .. Len(times) : times[i] \in 0 .. MaxTick
  BY <1>1, ElementOfSeq, LenProperties
<1>3. nextId \in Nat \ {0} /\ MaxRecords \in Nat
  BY LogAssumption DEF LogTyped
<1>4. \A i \in 1 .. Len(times) : [id |-> nextId + i - 1, time |-> times[i]] \in RowType
  BY <1>1, <1>2, <1>3 DEF RowType
<1>5. Batch(times) = [i \in 1 .. Len(times) |-> [id |-> nextId + i - 1, time |-> times[i]]]
  BY <1>2 DEF Batch
<1>6. \A i \in 1 .. Len(times) : Batch(times)[i] = [id |-> nextId + i - 1, time |-> times[i]]
  BY <1>5
<1>7. Batch(times) \in Seq(RowType) /\ Len(Batch(times)) = Len(times)
      /\ DOMAIN Batch(times) = 1 .. Len(times)
  BY <1>1, <1>4, <1>5
<1>8. QED
  BY <1>1, <1>2, <1>6, <1>7

\* What a batch leaves: the table with the segment s at its end, and that segment's file.
Written(s, file) ==
  /\ segs' \in Seq(SegmentType) /\ segs' # <<>> /\ segs'[Len(segs')] = s
  /\ s \in SegmentType /\ s.open /\ s.format = "zstd"
  /\ \A i \in DOMAIN segs' : i # Len(segs') =>
       /\ i \in DOMAIN segs /\ segs'[i].first = segs[i].first /\ segs'[i].start = segs[i].start
       /\ segs'[i].format = segs[i].format /\ ~segs'[i].open /\ segs[i].first < s.first
  /\ \A i \in DOMAIN segs :
       \/ i \in DOMAIN segs' /\ i # Len(segs')
       \/ Same(s, segs[i]) /\ segs[i].format = "zstd"
  /\ s.first >= nextId \/ \E i \in DOMAIN segs : Same(s, segs[i]) /\ segs[i].format = "zstd"
  /\ \A t \in Spoken : t.first <= s.first /\ (t.first = s.first => t.start = s.start)
  /\ nextId' \in Nat \ {0} /\ nextId <= nextId' /\ s.first < nextId'
  /\ file \in SegmentFile /\ Same(file, s) /\ file.format = "zstd" /\ file.synced <= Len(file.rows)
  /\ logFiles' = WithoutFiles(s, {"zstd"}) \union {file}
  /\ \A m \in DOMAIN file.rows : /\ s.first <= file.rows[m].id /\ file.rows[m].id < nextId'
                                 /\ file.rows[m].time < SegmentEnd(s)
  /\ \A m, n \in DOMAIN file.rows : m < n => file.rows[m].id < file.rows[n].id
  /\ UNCHANGED <<tidy, clearing>>

\* The table stays in order and nothing is spoken of behind its end.
LEMMA WrittenTable ==
  ASSUME LogInv, NEW s, NEW file, Written(s, file)
  PROVE  /\ Len(segs') \in Nat \ {0} /\ DOMAIN segs' = 1 .. Len(segs')
         /\ TableInv' /\ RemovesOthers'
         /\ \A t \in Spoken' : /\ t = s \/ t = file
                                  \/ \E u \in Spoken : t.first = u.first /\ t.start = u.start
                               /\ t.first \in Nat /\ t.first <= s.first
                               /\ t.first = s.first => t.start = s.start
<1>1. /\ segs' \in Seq(SegmentType) /\ segs' # <<>> /\ segs'[Len(segs')] = s
      /\ s \in SegmentType /\ s.open /\ s.format = "zstd"
      /\ \A i \in DOMAIN segs' : i # Len(segs') =>
           /\ i \in DOMAIN segs /\ segs'[i].first = segs[i].first /\ segs'[i].start = segs[i].start
           /\ segs'[i].format = segs[i].format /\ ~segs'[i].open /\ segs[i].first < s.first
  BY DEF Written
<1>2. Len(segs') \in Nat \ {0} /\ DOMAIN segs' = 1 .. Len(segs')
  BY <1>1
<1>3. TableInv'
  <2>1. ASSUME NEW i \in DOMAIN segs', NEW j \in DOMAIN segs', i < j
        PROVE  segs'[i].first < segs'[j].first
    <3>1. i # Len(segs')
      BY <1>2, <2>1
    <3>2. CASE j = Len(segs')
      BY <1>1, <3>1, <3>2
    <3>3. CASE j # Len(segs')
      BY <1>1, <2>1, <3>1, <3>3 DEF LogInv, TableInv, Ascending
    <3>4. QED
      BY <3>2, <3>3
  <2>2. \A i \in DOMAIN segs' : segs'[i].open => i = Len(segs') /\ segs'[i].format = "zstd"
    BY <1>1
  <2>3. QED
    BY <2>1, <2>2 DEF TableInv, Ascending
<1>4. ASSUME NEW log \in Seq(SegmentType), ToSet(log) \subseteq Spoken,
             \A i \in DOMAIN segs : \A j \in DOMAIN log : segs[i].first # log[j].first
      PROVE  \A i \in DOMAIN segs' : \A j \in DOMAIN log : segs'[i].first # log[j].first
  <2> SUFFICES ASSUME NEW i \in DOMAIN segs', NEW j \in DOMAIN log, segs'[i].first = log[j].first
               PROVE  FALSE
    OBVIOUS
  <2>1. CASE i # Len(segs')
    BY <1>1, <1>4, <2>1
  <2>2. CASE i = Len(segs')
    <3>1. s.first = log[j].first /\ log[j] \in Spoken
      BY <1>1, <1>4, <2>2 DEF ToSet
    <3>2. log[j].first < nextId /\ nextId \in Nat /\ s.first \in Nat
      BY <1>1, <3>1 DEF LogInv, KeysInv, LogTyped, SegmentType
    <3>3. PICK k \in DOMAIN segs : Same(s, segs[k])
      BY <3>1, <3>2 DEF Written
    <3>4. QED
      BY <1>4, <3>1, <3>3 DEF Same
  <2>3. QED
    BY <2>1, <2>2
<1>5. RemovesOthers'
  <2>1. ToSet(tidy.doomed) \subseteq Spoken /\ ToSet(clearing) \subseteq Spoken
    BY DEF Spoken
  <2>2. tidy' = tidy /\ clearing' = clearing
    BY DEF Written
  <2>3. tidy.doomed \in Seq(SegmentType) /\ clearing \in Seq(SegmentType)
    BY LogTypes DEF LogInv
  <2>4. /\ \A i \in DOMAIN segs : \A j \in DOMAIN tidy.doomed : segs[i].first # tidy.doomed[j].first
        /\ \A i \in DOMAIN segs : \A j \in DOMAIN clearing : segs[i].first # clearing[j].first
    BY DEF LogInv, RemovesOthers
  <2>5. \A i \in DOMAIN segs' : \A j \in DOMAIN tidy.doomed : segs'[i].first # tidy.doomed[j].first
    BY <1>4, <2>1, <2>3, <2>4
  <2>6. \A i \in DOMAIN segs' : \A j \in DOMAIN clearing : segs'[i].first # clearing[j].first
    BY <1>4, <2>1, <2>3, <2>4
  <2>7. QED
    BY <2>2, <2>5, <2>6 DEF RemovesOthers
<1>6. \A t \in Spoken' : t = s \/ t = file \/ \E u \in Spoken : t.first = u.first /\ t.start = u.start
  <2>1. \A t \in ToSet(segs') : t = s \/ \E u \in ToSet(segs) : t.first = u.first /\ t.start = u.start
    BY <1>1 DEF ToSet
  <2>2. \A f \in logFiles' : f = file \/ f \in logFiles
    BY DEF Written, WithoutFiles
  <2>3. tidy' = tidy /\ clearing' = clearing
    BY DEF Written
  <2>4. QED
    BY <2>1, <2>2, <2>3 DEF Spoken
<1>7. \A t \in Spoken' : t.first \in Nat /\ t.first <= s.first /\ (t.first = s.first => t.start = s.start)
  <2>1. s.first \in Nat /\ file.first = s.first /\ file.start = s.start
    BY <1>1 DEF Written, Same, SegmentType
  <2>2. \A t \in Spoken : t.first \in Nat /\ t.first <= s.first /\ (t.first = s.first => t.start = s.start)
    BY LogTypes DEF Written, LogInv
  <2>3. QED
    BY <1>6, <2>1, <2>2
<1>8. QED
  BY <1>2, <1>3, <1>5, <1>6, <1>7

\* Every file fits beside the new one, and the new one beside them.
LEMMA WrittenFiles ==
  ASSUME LogInv, NEW s, NEW file, Written(s, file)
  PROVE  /\ KeysInv' /\ FilesInv' /\ HasFile' /\ HasSegment'
         /\ tidy.pc \in {"rename", "note"} => Fits(tidy.rows, Head(tidy.plains), Spoken', nextId')
<1>1. /\ Len(segs') \in Nat \ {0} /\ DOMAIN segs' = 1 .. Len(segs')
      /\ \A t \in Spoken' : /\ t = s \/ t = file
                               \/ \E u \in Spoken : t.first = u.first /\ t.start = u.start
                            /\ t.first \in Nat /\ t.first <= s.first
                            /\ t.first = s.first => t.start = s.start
  BY WrittenTable
<1>2. /\ s.first \in Nat /\ file.first = s.first /\ file.start = s.start /\ file.format = "zstd"
      /\ file \in SegmentFile
  BY DEF Written, Same, SegmentType
<1>3. nextId \in Nat /\ nextId' \in Nat /\ nextId <= nextId' /\ s.first < nextId'
  BY DEF LogInv, LogTyped, Written
<1>4. \A f \in logFiles' : f = file \/ (f \in logFiles /\ ~(Same(f, s) /\ f.format = "zstd"))
  BY DEF Written, WithoutFiles
<1>5. file \in logFiles' /\ \A f \in logFiles : (Same(f, s) /\ f.format = "zstd") \/ f \in logFiles'
  BY DEF Written, WithoutFiles
<1>6. \A t \in Spoken' : (\E u \in Spoken : t.first = u.first) \/ t.first >= nextId
  <2>1. CASE s.first >= nextId
    BY <1>1, <1>2, <2>1
  <2>2. CASE \E i \in DOMAIN segs : Same(s, segs[i])
    <3>1. \E u \in Spoken : u.first = s.first
      BY <2>2 DEF Spoken, ToSet, Same
    <3>2. QED
      BY <1>1, <1>2, <3>1
  <2>3. QED
    BY <2>1, <2>2 DEF Written
<1>7. KeysInv'
  <2>1. \A t \in Spoken' : t.first < nextId'
    BY <1>1, <1>2, <1>3
  <2>2. Last(segs)' = s
    BY DEF Written, Last
  <2>3. ASSUME NEW g \in Spoken', NEW h \in Spoken', g.first = h.first PROVE g.start = h.start
    <3>1. CASE g.first = s.first
      BY <1>1, <2>3, <3>1
    <3>2. CASE g.first # s.first
      <4>1. PICK u \in Spoken : g.first = u.first /\ g.start = u.start
        BY <1>1, <1>2, <3>2
      <4>2. PICK v \in Spoken : h.first = v.first /\ h.start = v.start
        BY <1>1, <1>2, <2>3, <3>2
      <4>3. QED
        BY <2>3, <4>1, <4>2 DEF LogInv, KeysInv
    <3>3. QED
      BY <3>1, <3>2
  <2>4. QED
    BY <1>1, <2>1, <2>2, <2>3 DEF KeysInv
<1>8. ASSUME NEW rows \in Seq(RowType), NEW t, Fits(rows, t, Spoken, nextId)
      PROVE  Fits(rows, t, Spoken', nextId')
  <2>1. \A g \in Spoken' : g.first \in Nat /\ ((\E h \in Spoken : h.first = g.first) \/ g.first >= nextId)
    BY <1>1, <1>6
  <2>2. QED
    BY <1>3, <1>8, <2>1, FitsStill
<1>9. FilesInv'
  <2>1. Fits(file.rows, file, Spoken', nextId')
    <3>1. SegmentEnd(file) = SegmentEnd(s)
      BY <1>2 DEF SegmentEnd
    <3>2. \A m \in DOMAIN file.rows : /\ file.first <= file.rows[m].id /\ file.rows[m].id < nextId'
                                      /\ file.rows[m].time < SegmentEnd(file)
      BY <1>2, <3>1 DEF Written
    <3>3. \A m, n \in DOMAIN file.rows : m < n => file.rows[m].id < file.rows[n].id
      BY DEF Written
    <3>4. \A g \in Spoken' : ~(file.first < g.first)
      BY <1>1, <1>2
    <3>5. QED
      BY <3>2, <3>3, <3>4 DEF Fits
  <2>2. \A f \in logFiles : f.rows \in Seq(RowType) /\ Fits(f.rows, f, Spoken, nextId)
    BY DEF LogInv, LogTyped, SegmentFile, FilesInv
  <2>3. \A f \in logFiles' : Fits(f.rows, f, Spoken', nextId')
    BY <1>4, <1>8, <2>1, <2>2
  <2>4. \A f \in logFiles : f.first = s.first => Same(f, s)
    BY DEF Written, Spoken, Same
  <2>5. ASSUME NEW f \in logFiles', NEW g \in logFiles', f.first = g.first, f.format = g.format
        PROVE  f = g
    <3>1. f \in logFiles /\ f # file => ~(f.first = s.first /\ f.format = "zstd")
      BY <1>4, <2>4
    <3>2. g \in logFiles /\ g # file => ~(g.first = s.first /\ g.format = "zstd")
      BY <1>4, <2>4
    <3>3. QED
      BY <1>2, <1>4, <2>5, <3>1, <3>2 DEF LogInv, FilesInv
  <2>6. \A f \in logFiles' : f.format = "plain" =>
          f.rows # <<>> /\ f.size > 0 /\ f.synced = Len(f.rows)
    BY <1>2, <1>4 DEF LogInv, FilesInv
  <2>7. QED
    BY <2>3, <2>5, <2>6 DEF FilesInv
<1>10. HasFile'
  <2> SUFFICES ASSUME NEW i \in DOMAIN segs'
               PROVE  \E f \in logFiles' : Same(f, segs'[i]) /\ f.format = segs'[i].format
    BY DEF HasFile, FileAt
  <2>1. CASE i = Len(segs')
    BY <1>2, <1>5, <2>1 DEF Written, Same
  <2>2. CASE i # Len(segs')
    <3>1. /\ i \in DOMAIN segs /\ segs'[i].first = segs[i].first /\ segs'[i].start = segs[i].start
          /\ segs'[i].format = segs[i].format /\ segs[i].first < s.first
      BY <2>2 DEF Written
    <3>2. PICK f \in logFiles : Same(f, segs[i]) /\ f.format = segs[i].format
      BY <3>1 DEF LogInv, HasFile, FileAt
    <3>3. f.first # s.first
      BY <1>2, <3>1, <3>2 DEF Same, LogInv, LogTyped, SegmentFile
    <3>4. f \in logFiles'
      BY <1>5, <3>3 DEF Same
    <3>5. QED
      BY <3>1, <3>2, <3>4 DEF Same
  <2>3. QED
    BY <2>1, <2>2
<1>11. HasSegment'
  <2> SUFFICES ASSUME NEW f \in logFiles'
               PROVE  \/ \E i \in DOMAIN segs' : Same(f, segs'[i]) /\ f.format = segs'[i].format
                      \/ \E i \in DOMAIN tidy'.doomed : Same(f, tidy'.doomed[i])
                      \/ \E i \in DOMAIN clearing' : Same(f, clearing'[i])
                      \/ Spare(f)'
    BY DEF HasSegment
  <2>1. CASE f = file
    <3>1. Len(segs') \in DOMAIN segs' /\ segs'[Len(segs')] = s /\ s.format = "zstd" /\ Same(file, s)
      BY <1>1 DEF Written
    <3>2. QED
      BY <1>2, <2>1, <3>1
  <2>2. CASE f \in logFiles /\ ~(Same(f, s) /\ f.format = "zstd")
    <3>1. (Spare(f) => Spare(f)') /\ tidy' = tidy /\ clearing' = clearing
      BY DEF Spare, Written
    <3>2. ASSUME NEW i \in DOMAIN segs, Same(f, segs[i]), f.format = segs[i].format
          PROVE  i \in DOMAIN segs' /\ Same(f, segs'[i]) /\ f.format = segs'[i].format
      <4>1. ~(Same(s, segs[i]) /\ segs[i].format = "zstd")
        BY <2>2, <3>2 DEF Same
      <4>2. i \in DOMAIN segs' /\ i # Len(segs')
        BY <4>1 DEF Written
      <4>3. segs'[i].first = segs[i].first /\ segs'[i].start = segs[i].start
            /\ segs'[i].format = segs[i].format
        BY <4>2 DEF Written
      <4>4. QED
        BY <3>2, <4>2, <4>3 DEF Same
    <3>3. QED
      BY <2>2, <3>1, <3>2 DEF LogInv, HasSegment
  <2>3. QED
    BY <1>4, <2>1, <2>2
<1>12. tidy.pc \in {"rename", "note"} => Fits(tidy.rows, Head(tidy.plains), Spoken', nextId')
  BY <1>8, LogTypes DEF LogInv, CompressInv
<1>13. QED
  BY <1>7, <1>9, <1>10, <1>11, <1>12

\* So writing a batch keeps the invariant, in whichever segment it lands.
LEMMA WrittenKeeps ==
  ASSUME LogInv, LogTyped', NEW s, NEW file, Written(s, file)
  PROVE  LogInv'
<1>1. TableInv' /\ RemovesOthers' /\ Len(segs') \in Nat
  BY WrittenTable
<1>2. /\ KeysInv' /\ FilesInv' /\ HasFile' /\ HasSegment'
      /\ tidy.pc \in {"rename", "note"} => Fits(tidy.rows, Head(tidy.plains), Spoken', nextId')
  BY WrittenFiles
<1>3. tidy' = tidy
  BY DEF Written
<1>4. ASSUME NEW i \in DOMAIN segs', NEW j \in DOMAIN tidy.plains,
             segs'[i].first = tidy.plains[j].first
      PROVE  \E k \in DOMAIN segs : segs[k].first = segs'[i].first /\ segs[k].format = segs'[i].format
  <2>1. CASE i # Len(segs')
    BY <2>1 DEF Written
  <2>2. CASE i = Len(segs')
    <3>1. s.first = tidy.plains[j].first /\ segs'[i] = s /\ tidy.plains[j] \in Spoken
      BY <1>4, <2>2 DEF Written, Spoken, ToSet
    <3>2. s.first < nextId /\ s.first \in Nat /\ nextId \in Nat
      BY <3>1, LogTypes DEF LogInv, KeysInv, LogTyped
    <3>3. QED
      BY <3>1, <3>2 DEF Written, Same
  <2>3. QED
    BY <2>1, <2>2
<1>5. \A i \in DOMAIN segs' : \A j \in DOMAIN tidy.plains :
        segs'[i].first = tidy.plains[j].first =>
          segs'[i].format = IF tidy.pc = "unlink" /\ j = 1 THEN "zstd" ELSE "plain"
  BY <1>4 DEF LogInv, CompressInv
<1>6. ASSUME tidy.pc = "note", NEW i \in DOMAIN segs', segs'[i].first = Head(tidy.plains).first
      PROVE  FileAt(Head(tidy.plains), "zstd")' # {}
  <2>1. 1 \in DOMAIN tidy.plains /\ Head(tidy.plains) = tidy.plains[1] /\ Head(tidy.plains) \in Spoken
    BY <1>6, HeadOfPlains DEF Working
  <2>2. PICK k \in DOMAIN segs : segs[k].first = Head(tidy.plains).first
    BY <1>4, <1>6, <2>1
  <2>3. FileAt(Head(tidy.plains), "zstd") # {}
    BY <1>6, <2>2 DEF LogInv, CompressInv
  <2>4. PICK f \in logFiles : Same(f, Head(tidy.plains)) /\ f.format = "zstd"
    BY <2>3 DEF FileAt
  <2>5. CASE Same(f, s)
    <3>1. Same(file, Head(tidy.plains)) /\ file.format = "zstd" /\ file \in logFiles'
      BY <2>4, <2>5 DEF Written, Same
    <3>2. QED
      BY <1>3, <3>1 DEF FileAt
  <2>6. CASE ~Same(f, s)
    <3>1. f \in logFiles'
      BY <2>4, <2>6 DEF Written, WithoutFiles
    <3>2. QED
      BY <1>3, <2>4, <3>1 DEF FileAt
  <2>7. QED
    BY <2>5, <2>6
<1>7. CompressInv'
  BY <1>2, <1>3, <1>5, <1>6 DEF LogInv, CompressInv
<1>8. QED
  BY <1>1, <1>2, <1>7 DEF LogInv

\* A batch behind the rows of a file.
LEMMA BatchAfter ==
  ASSUME LogTyped, NEW times \in Batches, nextId + Len(times) - 1 <= MaxRecords,
         NEW old \in Seq(RowType), NEW first \in Nat, first <= nextId,
         \A m \in DOMAIN old : first <= old[m].id /\ old[m].id < nextId,
         \A m, n \in DOMAIN old : m < n => old[m].id < old[n].id
  PROVE  LET rows == old \o Batch(times) IN
         /\ rows \in Seq(RowType) /\ Len(rows) \in Nat /\ Len(old) <= Len(rows)
         /\ \A m \in DOMAIN rows :
              /\ first <= rows[m].id /\ rows[m].id < nextId + Len(Batch(times))
              /\ (\E n \in DOMAIN old : rows[m] = old[n]) \/ rows[m].time <= Newest(times)
         /\ \A m, n \in DOMAIN rows : m < n => rows[m].id < rows[n].id
<1> DEFINE new == Batch(times)
           rows == old \o new
           L == Len(old)
           K == Len(new)
<1>1. nextId \in Nat \ {0}
  BY DEF LogTyped
<1>2. /\ new \in Seq(RowType) /\ K \in Nat
      /\ \A i \in 1 .. K : new[i].id = nextId + i - 1 /\ new[i].time <= Newest(times)
  <2>1. DOMAIN times = 1 .. Len(times) /\ \A i \in DOMAIN times : times[i] <= Newest(times)
    BY BatchIs
  <2>2. QED
    BY <2>1, BatchRows
<1>3. L \in Nat /\ DOMAIN old = 1 .. L
  OBVIOUS
<1> HIDE DEF new, L, K
<1>4. /\ rows \in Seq(RowType) /\ Len(rows) = L + K /\ DOMAIN rows = 1 .. L + K
      /\ \A i \in 1 .. L + K : rows[i] = IF i <= L THEN old[i] ELSE new[i - L]
  BY <1>2, <1>3, ConcatProperties, LenProperties DEF L, K
<1> HIDE DEF rows
<1>5. \A i \in 1 .. L : old[i].id \in Nat /\ first <= old[i].id /\ old[i].id < nextId
  BY <1>3, RowIds
<1>6. \A i \in 1 .. L + K :
        \/ i \in 1 .. L /\ rows[i] = old[i]
        \/ i > L /\ i - L \in 1 .. K /\ rows[i] = new[i - L] /\ rows[i].id = nextId + (i - L) - 1
  <2> TAKE i \in 1 .. L + K
  <2>1. CASE i <= L
    BY <1>2, <1>3, <1>4, <2>1
  <2>2. CASE i > L
    <3>1. i - L \in 1 .. K /\ rows[i] = new[i - L]
      BY <1>2, <1>3, <1>4, <2>2
    <3>2. QED
      BY <1>2, <2>2, <3>1
  <2>3. QED
    BY <1>3, <2>1, <2>2
<1>7. ASSUME NEW m \in 1 .. L + K
      PROVE  /\ first <= rows[m].id /\ rows[m].id < nextId + K /\ rows[m].id \in Nat
             /\ (\E n \in DOMAIN old : rows[m] = old[n]) \/ rows[m].time <= Newest(times)
  <2>1. CASE m \in 1 .. L /\ rows[m] = old[m]
    BY <1>1, <1>2, <1>3, <1>5, <2>1
  <2>2. CASE m > L /\ m - L \in 1 .. K /\ rows[m] = new[m - L] /\ rows[m].id = nextId + (m - L) - 1
    <3>1. m - L >= 1 /\ m - L <= K /\ m - L \in Nat
      BY <1>2, <2>2
    <3>2. first <= rows[m].id /\ rows[m].id < nextId + K /\ rows[m].id \in Nat
      BY <1>1, <1>2, <2>2, <3>1
    <3>3. rows[m].time <= Newest(times)
      BY <1>2, <2>2
    <3>4. QED
      BY <3>2, <3>3
  <2>3. QED
    BY <1>6, <2>1, <2>2
<1>8. ASSUME NEW m \in 1 .. L + K, NEW n \in 1 .. L + K, m < n
      PROVE  rows[m].id < rows[n].id
  <2>1. CASE n \in 1 .. L /\ rows[n] = old[n]
    <3>1. m \in 1 .. L /\ rows[m] = old[m]
      BY <1>3, <1>6, <1>8, <2>1
    <3>2. QED
      BY <1>3, <1>8, <2>1, <3>1
  <2>2. CASE n > L /\ rows[n].id = nextId + (n - L) - 1
    <3>1. CASE m \in 1 .. L /\ rows[m] = old[m]
      <4>1. rows[m].id < nextId /\ rows[m].id \in Nat
        BY <1>5, <3>1
      <4>2. rows[n].id >= nextId
        BY <1>1, <1>2, <1>3, <2>2
      <4>3. QED
        BY <1>1, <1>7, <4>1, <4>2
    <3>2. CASE m > L /\ rows[m].id = nextId + (m - L) - 1
      BY <1>1, <1>2, <1>3, <1>8, <2>2, <3>2
    <3>3. QED
      BY <1>6, <3>1, <3>2
  <2>3. QED
    BY <1>6, <2>1, <2>2
<1>9. L <= L + K /\ L + K \in Nat
  BY <1>2, <1>3
<1>10. /\ rows \in Seq(RowType) /\ Len(rows) \in Nat /\ Len(old) <= Len(rows)
       /\ \A m \in DOMAIN rows :
            /\ first <= rows[m].id /\ rows[m].id < nextId + Len(Batch(times))
            /\ (\E n \in DOMAIN old : rows[m] = old[n]) \/ rows[m].time <= Newest(times)
       /\ \A m, n \in DOMAIN rows : m < n => rows[m].id < rows[n].id
  BY <1>4, <1>7, <1>8, <1>9 DEF L, K, new
<1>11. QED
  BY <1>10 DEF rows, new

\* The file of a batch.
WrittenFile(start, first, rows, size, synced) ==
  [start |-> start, first |-> first, format |-> "zstd", rows |-> rows, size |-> size,
   synced |-> synced]
LEMMA FileTyped ==
  ASSUME NEW start \in 0 .. MaxTick, NEW first \in Nat, NEW rows \in Seq(RowType),
         NEW size \in Nat, NEW synced \in Nat
  PROVE  WrittenFile(start, first, rows, size, synced) \in SegmentFile
  BY DEF WrittenFile, SegmentFile, Formats

\* The rows the file had before, and the batch.
BatchFile(s, before, times) ==
  [start |-> s.start, first |-> s.first, format |-> "zstd",
   rows |-> RowsIn(before) \o Batch(times), size |-> s.bytes,
   synced |-> IF before = {} THEN 0 ELSE (CHOOSE f \in before : TRUE).synced]

\* The batch goes on in the open segment.
LEMMA GoesOnWrites ==
  ASSUME LogInv, NEW times \in Batches, nextId + Len(times) - 1 <= MaxRecords,
         IsOpen, HourOf(Last(segs).start) = HourOf(Newest(times)),
         NEW s, s = [Last(segs) EXCEPT !.bytes = @ + Len(Batch(times))],
         NEW before, before = FileAt(s, "zstd"),
         NEW file,
         file = BatchFile(s, before, times),
         segs' = Append(Front(segs), s),
         logFiles' = WithoutFiles(s, {"zstd"}) \union {file},
         nextId' = nextId + Len(Batch(times)),
         UNCHANGED <<tidy, clearing>>
  PROVE  Written(s, file)
<1> DEFINE N == Len(segs)
           K == Len(Batch(times))
<1>1. /\ segs \in Seq(SegmentType) /\ N \in Nat \ {0} /\ DOMAIN segs = 1 .. N /\ N \in DOMAIN segs
      /\ \A i \in DOMAIN segs : segs[i] \in SegmentType
      /\ Last(segs) = segs[N] /\ segs[N].open /\ segs[N].format = "zstd"
      /\ \A i \in DOMAIN segs : i # N => ~segs[i].open /\ segs[i].first < segs[N].first
  <2>1. segs \in Seq(SegmentType) /\ segs # <<>> /\ segs[N].open
    BY DEF LogInv, LogTyped, IsOpen, Last
  <2>2. /\ N \in Nat \ {0} /\ DOMAIN segs = 1 .. N /\ N \in DOMAIN segs
        /\ \A i \in DOMAIN segs : segs[i] \in SegmentType
    BY <2>1, LogTypes DEF LogInv
  <2>3. \A i \in DOMAIN segs : i # N => ~segs[i].open /\ segs[i].first < segs[N].first
    <3> TAKE i \in DOMAIN segs
    <3>1. i # N => i < N
      BY <2>2
    <3>2. i < N => segs[i].first < segs[N].first
      BY <2>2 DEF LogInv, TableInv, Ascending
    <3>3. segs[i].open => i = N
      BY DEF LogInv, TableInv
    <3>4. QED
      BY <3>1, <3>2, <3>3
  <2>4. QED
    BY <2>1, <2>2, <2>3 DEF LogInv, TableInv, Last
<1>2. K \in {1, 2} /\ Newest(times) \in Nat /\ MaxTick \in Nat
  <2>1. LogTyped
    BY DEF LogInv
  <2>2. QED
    BY <2>1, BatchRows, BatchIs, LogTypes
<1>3. nextId \in Nat \ {0} /\ nextId' \in Nat \ {0} /\ nextId < nextId' /\ nextId' = nextId + K
  <2>1. nextId \in Nat \ {0} /\ nextId' = nextId + K
    BY DEF LogInv, LogTyped
  <2> HIDE DEF K
  <2>2. K \in Nat \ {0}
    BY <1>2
  <2>3. nextId + K \in Nat \ {0} /\ nextId < nextId + K
    BY <2>1, <2>2
  <2>4. QED
    BY <2>1, <2>3
<1> HIDE DEF N, K
<1>4. /\ s \in SegmentType /\ s.first = segs[N].first /\ s.start = segs[N].start
      /\ s.format = "zstd" /\ s.open = TRUE
  <2>1. s = [segs[N] EXCEPT !.bytes = segs[N].bytes + K]
    BY <1>1 DEF K
  <2>2. segs[N] \in SegmentType
    BY <1>1
  <2>3. segs[N].bytes \in Nat
    BY <2>2 DEF SegmentType
  <2> DEFINE B == segs[N].bytes
  <2>4. B + K \in Nat \ {0}
    <3>1. B \in Nat /\ K \in {1, 2}
      BY <1>2, <2>3
    <3> HIDE DEF B
    <3>2. QED
      BY <3>1
  <2>5. QED
    BY <1>1, <2>1, <2>2, <2>4 DEF SegmentType
<1>5. /\ segs' \in Seq(SegmentType) /\ Len(segs') = N /\ DOMAIN segs' = 1 .. N
      /\ \A i \in 1 .. N : segs'[i] = IF i = N THEN s ELSE segs[i]
  <2>1. Front(segs) = SubSeq(segs, 1, N - 1)
    BY DEF Front, N
  <2>2. /\ SubSeq(segs, 1, N - 1) \in Seq(SegmentType) /\ Len(SubSeq(segs, 1, N - 1)) = N - 1
        /\ \A i \in 1 .. N - 1 : SubSeq(segs, 1, N - 1)[i] = segs[i]
    BY <1>1, SubSeqProperties DEF N
  <2>3. QED
    BY <1>1, <1>4, <2>1, <2>2, AppendProperties, LenProperties
<1>6. PICK b \in logFiles : /\ Same(b, s) /\ b.format = "zstd" /\ RowsIn(before) = b.rows
                            /\ file = [start |-> s.start, first |-> s.first, format |-> "zstd",
                                       rows |-> b.rows \o Batch(times), size |-> s.bytes,
                                       synced |-> b.synced]
  <2>1. FileAt(segs[N], "zstd") # {}
    BY <1>1 DEF LogInv, HasFile
  <2>2. before # {}
    BY <1>4, <2>1 DEF FileAt, Same
  <2>3. PICK b : b = (CHOOSE f \in before : TRUE)
    OBVIOUS
  <2>4. b \in before /\ RowsIn(before) = b.rows
    BY <2>2, <2>3 DEF RowsIn
  <2>5. file = [start |-> s.start, first |-> s.first, format |-> "zstd",
                rows |-> b.rows \o Batch(times), size |-> s.bytes, synced |-> b.synced]
    BY <2>2, <2>3, <2>4 DEF BatchFile
  <2>6. b \in logFiles /\ Same(b, s) /\ b.format = "zstd"
    BY <2>4 DEF FileAt
  <2>7. QED
    BY <2>4, <2>5, <2>6
<1>7. /\ b.rows \in Seq(RowType) /\ b.synced \in Nat /\ b.synced <= Len(b.rows) /\ Len(b.rows) \in Nat
      /\ b.first = s.first /\ b.start = s.start /\ s.first \in Nat
      /\ Fits(b.rows, b, Spoken, nextId)
  <2>1. b \in SegmentFile /\ b.synced <= Len(b.rows)
    BY <1>6 DEF LogInv, LogTyped
  <2>2. b.rows \in Seq(RowType) /\ b.synced \in Nat
    BY <2>1 DEF SegmentFile
  <2>3. Len(b.rows) \in Nat
    BY <2>2, LenProperties
  <2>4. b.first = s.first /\ b.start = s.start
    BY <1>6 DEF Same
  <2>5. s.first \in Nat
    BY <1>4 DEF SegmentType
  <2>6. Fits(b.rows, b, Spoken, nextId)
    BY <1>6 DEF LogInv, FilesInv
  <2>7. QED
    BY <2>1, <2>2, <2>3, <2>4, <2>5, <2>6
<1>8. s.first < nextId
  BY <1>6, <1>7 DEF LogInv, KeysInv, Spoken
<1>9. /\ b.rows \o Batch(times) \in Seq(RowType) /\ Len(b.rows \o Batch(times)) \in Nat
      /\ Len(b.rows) <= Len(b.rows \o Batch(times))
      /\ \A m \in DOMAIN (b.rows \o Batch(times)) :
           /\ s.first <= (b.rows \o Batch(times))[m].id
           /\ (b.rows \o Batch(times))[m].id < nextId + K
           /\ \/ \E n \in DOMAIN b.rows : (b.rows \o Batch(times))[m] = b.rows[n]
              \/ (b.rows \o Batch(times))[m].time <= Newest(times)
      /\ \A m, n \in DOMAIN (b.rows \o Batch(times)) : m < n =>
           (b.rows \o Batch(times))[m].id < (b.rows \o Batch(times))[n].id
  <2>1. LogTyped /\ s.first <= nextId
    BY <1>3, <1>7, <1>8 DEF LogInv
  <2>2. \A m \in DOMAIN b.rows : s.first <= b.rows[m].id /\ b.rows[m].id < nextId
    BY <1>7 DEF Fits
  <2>3. \A m, n \in DOMAIN b.rows : m < n => b.rows[m].id < b.rows[n].id
    BY <1>7 DEF Fits
  <2>4. QED
    BY <1>7, <2>1, <2>2, <2>3, BatchAfter DEF K
<1> DEFINE rows == b.rows \o Batch(times)
<1> HIDE DEF rows
<1>10. /\ rows \in Seq(RowType) /\ b.synced <= Len(rows)
       /\ \A m \in DOMAIN rows :
            /\ s.first <= rows[m].id /\ rows[m].id < nextId + K /\ rows[m].time \in Nat
            /\ (\E n \in DOMAIN b.rows : rows[m] = b.rows[n]) \/ rows[m].time <= Newest(times)
       /\ \A m, n \in DOMAIN rows : m < n => rows[m].id < rows[n].id
  <2>1. rows \in Seq(RowType) /\ Len(rows) \in Nat /\ Len(b.rows) <= Len(rows)
    BY <1>9 DEF rows
  <2>2. \A m \in DOMAIN rows : rows[m].time \in Nat
    BY <2>1, RowIds
  <2>3. b.synced <= Len(rows)
    BY <1>7, <2>1
  <2>4. QED
    BY <1>9, <2>1, <2>2, <2>3 DEF rows
<1>11. /\ file \in SegmentFile /\ Same(file, s) /\ file.first = s.first /\ file.start = s.start
       /\ file.format = "zstd" /\ file.rows = rows /\ file.synced <= Len(file.rows)
  <2>1. file = [start |-> s.start, first |-> s.first, format |-> "zstd",
                rows |-> rows, size |-> s.bytes, synced |-> b.synced]
    BY <1>6 DEF rows
  <2>2. /\ file.first = s.first /\ file.start = s.start /\ file.format = "zstd"
        /\ file.rows = rows /\ file.synced = b.synced /\ file.size = s.bytes
    BY <2>1
  <2>3. /\ rows \in Seq(RowType) /\ b.synced \in Nat /\ b.synced <= Len(rows)
        /\ s.first \in Nat /\ s.start \in 0 .. MaxTick /\ s.bytes \in Nat
    BY <1>4, <1>7, <1>10 DEF SegmentType
  <2>4. file = WrittenFile(s.start, s.first, rows, s.bytes, b.synced)
    BY <2>1 DEF WrittenFile
  <2>5. WrittenFile(s.start, s.first, rows, s.bytes, b.synced) \in SegmentFile
    BY <2>3, FileTyped
  <2>6. file \in SegmentFile
    BY <2>5, <2>4
  <2>7. Same(file, s)
    BY <2>2 DEF Same
  <2>8. QED
    BY <2>2, <2>3, <2>6, <2>7
<1>13. \A m \in DOMAIN rows : rows[m].time < SegmentEnd(s)
  <2>1. SegmentEnd(s) = (HourOf(Newest(times)) + 1) * TicksPerHour
    BY <1>1, <1>4 DEF SegmentEnd
  <2>2. Newest(times) < SegmentEnd(s) /\ SegmentEnd(s) \in Nat
    <3>1. TicksPerHour \in Nat
      BY LogAssumption
    <3>2. QED
      BY <1>2, <2>1, <3>1, HourEnds
  <2>3. \A n \in DOMAIN b.rows : b.rows[n].time < SegmentEnd(s)
    BY <1>7 DEF Fits, SegmentEnd
  <2> SUFFICES ASSUME NEW m \in DOMAIN rows PROVE rows[m].time < SegmentEnd(s)
    OBVIOUS
  <2>4. CASE \E n \in DOMAIN b.rows : rows[m] = b.rows[n]
    BY <2>3, <2>4
  <2>5. CASE rows[m].time <= Newest(times)
    <3>1. rows[m].time \in Nat
      BY <1>10
    <3>2. QED
      BY <1>2, <2>2, <2>5, <3>1
  <2>6. QED
    BY <1>10, <2>4, <2>5
<1>14. \A t \in Spoken : t.first <= s.first /\ (t.first = s.first => t.start = s.start)
  <2>1. \A t \in Spoken : t.first <= s.first
    BY <1>1, <1>4 DEF LogInv, KeysInv
  <2>2. b \in Spoken
    BY <1>6 DEF Spoken
  <2>3. QED
    BY <1>7, <2>1, <2>2 DEF LogInv, KeysInv
<1>15. segs' \in Seq(SegmentType) /\ segs' # <<>> /\ segs'[Len(segs')] = s
  BY <1>1, <1>5
<1>16. \A i \in DOMAIN segs' : i # Len(segs') =>
         /\ i \in DOMAIN segs /\ segs'[i] = segs[i] /\ ~segs'[i].open /\ segs[i].first < s.first
  BY <1>1, <1>4, <1>5
<1>17. \A i \in DOMAIN segs :
         \/ i \in DOMAIN segs' /\ i # Len(segs')
         \/ Same(s, segs[i]) /\ segs[i].format = "zstd"
  BY <1>1, <1>4, <1>5 DEF Same
<1>18. \E i \in DOMAIN segs : Same(s, segs[i]) /\ segs[i].format = "zstd"
  BY <1>1, <1>4 DEF Same
<1>19. nextId' \in Nat \ {0} /\ nextId <= nextId' /\ s.first < nextId'
  BY <1>3, <1>7, <1>8
<1>20. /\ \A m \in DOMAIN file.rows : /\ s.first <= file.rows[m].id /\ file.rows[m].id < nextId'
                                      /\ file.rows[m].time < SegmentEnd(s)
       /\ \A m, n \in DOMAIN file.rows : m < n => file.rows[m].id < file.rows[n].id
  <2>1. \A m \in DOMAIN rows : /\ s.first <= rows[m].id /\ rows[m].id < nextId'
                                /\ rows[m].time < SegmentEnd(s)
    BY <1>3, <1>10, <1>13
  <2>2. \A m, n \in DOMAIN rows : m < n => rows[m].id < rows[n].id
    BY <1>10
  <2>3. file.rows = rows
    BY <1>11
  <2>4. \A m \in DOMAIN file.rows : /\ s.first <= file.rows[m].id /\ file.rows[m].id < nextId'
                                     /\ file.rows[m].time < SegmentEnd(s)
    BY <2>1, <2>3
  <2>5. \A m, n \in DOMAIN file.rows : m < n => file.rows[m].id < file.rows[n].id
    BY <2>2, <2>3
  <2>6. QED
    BY <2>4, <2>5
<1>21. QED
  BY <1>4, <1>11, <1>14, <1>15, <1>16, <1>17, <1>18, <1>19, <1>20 DEF Written

\* The batch opens a segment of its own.
LEMMA OpensWrites ==
  ASSUME LogInv, NEW times \in Batches, nextId + Len(times) - 1 <= MaxRecords,
         NEW s, s = [start |-> Newest(times), first |-> nextId, format |-> "zstd", open |-> TRUE,
                     bytes |-> Len(Batch(times))],
         NEW before, before = {},
         NEW file,
         file = BatchFile(s, before, times),
         segs' = Append(ClosedSegs, s),
         logFiles' = WithoutFiles(s, {"zstd"}) \union {file},
         nextId' = nextId + Len(Batch(times)),
         UNCHANGED <<tidy, clearing>>
  PROVE  Written(s, file)
<1> DEFINE N == Len(segs)
           K == Len(Batch(times))
           rows == Batch(times)
<1>1. /\ segs \in Seq(SegmentType) /\ N \in Nat /\ DOMAIN segs = 1 .. N
      /\ \A i \in DOMAIN segs : segs[i] \in SegmentType
  BY LogTypes DEF LogInv
<1>2. /\ rows \in Seq(RowType) /\ K \in Nat \ {0} /\ Len(rows) = K
      /\ Newest(times) \in 0 .. MaxTick /\ Newest(times) \in Nat
      /\ DOMAIN times = DOMAIN rows /\ \A m \in DOMAIN rows : rows[m].time <= Newest(times)
  <2>1. LogTyped
    BY DEF LogInv
  <2>2. times \in Seq(0 .. MaxTick) /\ Newest(times) \in 0 .. MaxTick
        /\ \A i \in DOMAIN times : times[i] <= Newest(times)
    BY <2>1, BatchIs
  <2>3. /\ rows \in Seq(RowType) /\ K = Len(times) /\ Len(times) \in {1, 2}
        /\ DOMAIN rows = 1 .. Len(times)
        /\ \A i \in 1 .. Len(times) : rows[i].time = times[i]
    BY <2>1, BatchRows
  <2>4. DOMAIN times = 1 .. Len(times)
    BY <2>2, LenProperties
  <2>5. MaxTick \in Nat
    BY LogAssumption
  <2>6. QED
    BY <2>2, <2>3, <2>4, <2>5
<1>3. nextId \in Nat \ {0} /\ nextId' \in Nat \ {0} /\ nextId < nextId' /\ nextId' = nextId + K
  <2>1. nextId \in Nat \ {0} /\ nextId' = nextId + K
    BY DEF LogInv, LogTyped
  <2> HIDE DEF K
  <2>2. nextId + K \in Nat \ {0} /\ nextId < nextId + K
    BY <1>2, <2>1
  <2>3. QED
    BY <2>1, <2>2
<1>4. /\ \A m \in DOMAIN rows : nextId <= rows[m].id /\ rows[m].id < nextId + K
      /\ \A m, n \in DOMAIN rows : m < n => rows[m].id < rows[n].id
  <2>1. LogTyped
    BY DEF LogInv
  <2>2. /\ Len(times) \in {1, 2} /\ DOMAIN rows = 1 .. Len(times) /\ K = Len(times)
        /\ \A i \in 1 .. Len(times) : rows[i].id = nextId + i - 1
    BY <2>1, BatchRows
  <2> HIDE DEF rows, K
  <2>3. \A m \in DOMAIN rows : m \in 1 .. K /\ rows[m].id = nextId + m - 1
    BY <2>2
  <2>4. \A m \in 1 .. K : nextId <= nextId + m - 1 /\ nextId + m - 1 < nextId + K
    BY <1>3, <1>2
  <2>5. \A m, n \in 1 .. K : m < n => nextId + m - 1 < nextId + n - 1
    BY <1>3, <1>2
  <2>6. \A m \in DOMAIN rows : nextId <= rows[m].id /\ rows[m].id < nextId + K
    BY <2>3, <2>4
  <2>7. \A m, n \in DOMAIN rows : m < n => rows[m].id < rows[n].id
    BY <2>3, <2>5
  <2>8. QED
    BY <2>6, <2>7
<1> HIDE DEF N, K, rows
<1>5. /\ s \in SegmentType /\ s.first = nextId /\ s.start = Newest(times) /\ s.format = "zstd"
      /\ s.open = TRUE
  <2>1. s = [start |-> Newest(times), first |-> nextId, format |-> "zstd", open |-> TRUE, bytes |-> K]
    BY DEF K
  <2>2. QED
    BY <1>2, <1>3, <2>1 DEF SegmentType, Formats
<1>6. /\ ClosedSegs \in Seq(SegmentType) /\ Len(ClosedSegs) = N /\ DOMAIN ClosedSegs = 1 .. N
      /\ \A i \in 1 .. N :
           /\ ClosedSegs[i].first = segs[i].first /\ ClosedSegs[i].start = segs[i].start
           /\ ClosedSegs[i].format = segs[i].format /\ ~ClosedSegs[i].open
  BY <1>1, ClosedIs DEF N
<1>7. /\ segs' \in Seq(SegmentType) /\ Len(segs') = N + 1 /\ DOMAIN segs' = 1 .. N + 1
      /\ \A i \in 1 .. N + 1 : segs'[i] = IF i <= N THEN ClosedSegs[i] ELSE s
  <2>1. segs' = Append(ClosedSegs, s) /\ ClosedSegs \in Seq(SegmentType) /\ s \in SegmentType
        /\ Len(ClosedSegs) = N /\ N \in Nat
    BY <1>1, <1>5, <1>6
  <2> HIDE DEF N
  <2>2. /\ segs' \in Seq(SegmentType) /\ Len(segs') = N + 1 /\ segs'[N + 1] = s
        /\ \A i \in 1 .. N : segs'[i] = ClosedSegs[i]
    BY <2>1, AppendProperties
  <2>3. DOMAIN segs' = 1 .. N + 1
    BY <2>2, LenProperties
  <2>4. \A i \in 1 .. N + 1 : i \in 1 .. N \/ i = N + 1
    BY <2>1
  <2>5. \A i \in 1 .. N : i <= N
    BY <2>1
  <2>6. ~(N + 1 <= N)
    BY <2>1
  <2>7. QED
    BY <2>2, <2>3, <2>4, <2>5, <2>6
<1>8. \A t \in Spoken : t.first \in Nat /\ t.first < s.first
  BY <1>5, LogTypes DEF LogInv, KeysInv
<1>9. segs' # <<>> /\ segs'[Len(segs')] = s
  BY <1>1, <1>7
<1>10. \A i \in DOMAIN segs' : i # Len(segs') =>
         /\ i \in DOMAIN segs /\ segs'[i].first = segs[i].first /\ segs'[i].start = segs[i].start
         /\ segs'[i].format = segs[i].format /\ ~segs'[i].open /\ segs[i].first < s.first
  <2> SUFFICES ASSUME NEW i \in DOMAIN segs', i # Len(segs')
               PROVE  /\ i \in DOMAIN segs /\ segs'[i].first = segs[i].first
                      /\ segs'[i].start = segs[i].start
                      /\ segs'[i].format = segs[i].format /\ ~segs'[i].open /\ segs[i].first < s.first
    OBVIOUS
  <2>1. i \in 1 .. N /\ segs'[i] = ClosedSegs[i]
    BY <1>1, <1>7
  <2>2. segs[i] \in Spoken
    BY <1>1, <2>1 DEF Spoken, ToSet
  <2>3. QED
    BY <1>1, <1>6, <1>8, <2>1, <2>2
<1>11. \A i \in DOMAIN segs : i \in DOMAIN segs' /\ i # Len(segs')
  BY <1>1, <1>7
<1>12. /\ file \in SegmentFile /\ Same(file, s) /\ file.first = s.first /\ file.start = s.start
       /\ file.format = "zstd" /\ file.rows = rows /\ file.synced <= Len(file.rows)
  <2>1. RowsIn(before) \o Batch(times) = rows
    <3>1. RowsIn(before) = <<>>
      BY DEF RowsIn
    <3>2. QED
      BY <1>2, <3>1, ConcatEmptySeq DEF rows
  <2>2. file = [start |-> s.start, first |-> s.first, format |-> "zstd",
                rows |-> rows, size |-> s.bytes, synced |-> 0]
    BY <2>1 DEF BatchFile
  <2>3. /\ file.first = s.first /\ file.start = s.start /\ file.format = "zstd"
        /\ file.rows = rows /\ file.synced = 0 /\ file.size = s.bytes
    BY <2>2
  <2>4. /\ rows \in Seq(RowType) /\ 0 <= Len(rows)
        /\ s.first \in Nat /\ s.start \in 0 .. MaxTick /\ s.bytes \in Nat
    BY <1>2, <1>5 DEF SegmentType
  <2>5. file = WrittenFile(s.start, s.first, rows, s.bytes, 0)
    BY <2>2 DEF WrittenFile
  <2>6. WrittenFile(s.start, s.first, rows, s.bytes, 0) \in SegmentFile
    BY <2>4, FileTyped
  <2>7. file \in SegmentFile
    BY <2>5, <2>6
  <2>8. QED
    BY <2>3, <2>4, <2>7 DEF Same
<1>13. \A m \in DOMAIN rows : rows[m].time < SegmentEnd(s)
  <2>1. Newest(times) < SegmentEnd(s) /\ SegmentEnd(s) \in Nat
    <3>1. TicksPerHour \in Nat
      BY LogAssumption
    <3>2. SegmentEnd(s) = (HourOf(Newest(times)) + 1) * TicksPerHour
      BY <1>5 DEF SegmentEnd
    <3>3. /\ Newest(times) < (HourOf(Newest(times)) + 1) * TicksPerHour
          /\ HourOf(Newest(times)) \in Nat
      BY <1>2, HourEnds
    <3>4. (HourOf(Newest(times)) + 1) * TicksPerHour \in Nat
      BY <3>1, <3>3
    <3>5. QED
      BY <3>2, <3>3, <3>4
  <2>2. \A m \in DOMAIN rows : rows[m].time \in Nat
    BY <1>2, RowIds
  <2>3. QED
    BY <1>2, <2>1, <2>2
<1>14. /\ \A m \in DOMAIN file.rows : /\ s.first <= file.rows[m].id /\ file.rows[m].id < nextId'
                                      /\ file.rows[m].time < SegmentEnd(s)
       /\ \A m, n \in DOMAIN file.rows : m < n => file.rows[m].id < file.rows[n].id
  <2>1. \A m \in DOMAIN rows : /\ s.first <= rows[m].id /\ rows[m].id < nextId'
                                /\ rows[m].time < SegmentEnd(s)
    BY <1>3, <1>4, <1>5, <1>13
  <2>2. file.rows = rows
    BY <1>12
  <2>3. \A m, n \in DOMAIN rows : m < n => rows[m].id < rows[n].id
    BY <1>4
  <2>4. \A m \in DOMAIN file.rows : /\ s.first <= file.rows[m].id /\ file.rows[m].id < nextId'
                                     /\ file.rows[m].time < SegmentEnd(s)
    BY <2>1, <2>2
  <2>5. \A m, n \in DOMAIN file.rows : m < n => file.rows[m].id < file.rows[n].id
    BY <2>2, <2>3
  <2>6. QED
    BY <2>4, <2>5
<1>15. \A t \in Spoken : t.first <= s.first /\ (t.first = s.first => t.start = s.start)
  BY <1>3, <1>5, <1>8
<1>16. s.first >= nextId /\ s.first < nextId' /\ nextId <= nextId' /\ nextId' \in Nat \ {0}
  BY <1>3, <1>5
<1>17. QED
  BY <1>5, <1>7, <1>9, <1>10, <1>11, <1>12, <1>14, <1>15, <1>16 DEF Written

\* A batch is appended.
LEMMA AppendRecordsKeeps == ASSUME LogInv, AppendRecords PROVE LogInv'
<1>1. PICK times \in Batches : nextId + Len(times) - 1 <= MaxRecords /\ Put(times, Newest(times))
  BY DEF AppendRecords
<1>2. UNCHANGED <<tidy, clearing, walk, logClock, logEvents>>
  BY DEF AppendRecords
<1> DEFINE stamp == Newest(times)
           goesOn == IsOpen /\ HourOf(Last(segs).start) = HourOf(stamp)
                       /\ Last(segs).bytes < SegmentText
           kept == IF goesOn THEN Front(segs) ELSE ClosedSegs
           s == IF goesOn THEN [Last(segs) EXCEPT !.bytes = @ + Len(Batch(times))]
                ELSE [start |-> stamp, first |-> nextId, format |-> "zstd", open |-> TRUE,
                      bytes |-> Len(Batch(times))]
           before == FileAt(s, "zstd")
           file == BatchFile(s, before, times)
<1>3. /\ goesOn \/ before = {}
      /\ segs' = Append(kept, s)
      /\ logFiles' = WithoutFiles(s, {"zstd"}) \union {file}
      /\ nextId' = nextId + Len(Batch(times))
      /\ stateDue' = (IF goesOn THEN stateDue ELSE ClosedDue) /\ savedId' = savedId
  BY <1>1, Zenon DEF Put, Batch, BatchFile
<1>4. Written(s, file)
  <2>1. CASE goesOn
    <3>1. s = [Last(segs) EXCEPT !.bytes = @ + Len(Batch(times))] /\ kept = Front(segs)
      BY <2>1
    <3> HIDE DEF s, file, before, kept
    <3>2. before = FileAt(s, "zstd")
      BY DEF before
    <3>3. file = BatchFile(s, before, times)
      BY DEF file
    <3>4. segs' = Append(Front(segs), s)
      BY <1>3, <3>1
    <3>5. QED
      BY <1>1, <1>2, <1>3, <2>1, <3>1, <3>2, <3>3, <3>4, GoesOnWrites, Zenon
  <2>2. CASE ~goesOn
    <3>1. s = [start |-> stamp, first |-> nextId, format |-> "zstd", open |-> TRUE,
               bytes |-> Len(Batch(times))] /\ kept = ClosedSegs /\ before = {}
      BY <1>3, <2>2
    <3> HIDE DEF s, file, before, kept
    <3>2. file = BatchFile(s, before, times)
      BY DEF file
    <3>3. segs' = Append(ClosedSegs, s)
      BY <1>3, <3>1
    <3>4. QED
      BY <1>1, <1>2, <1>3, <3>1, <3>2, <3>3, OpensWrites, Zenon
  <2>3. QED
    BY <2>1, <2>2
<1> HIDE DEF s, file, goesOn, kept
<1>5. LogTyped'
  <2>1. file \in SegmentFile /\ file.synced <= Len(file.rows) /\ segs' \in Seq(SegmentType)
        /\ nextId' \in Nat \ {0} /\ logFiles' = WithoutFiles(s, {"zstd"}) \union {file}
    BY <1>4 DEF Written
  <2>2. stateDue' \in BOOLEAN
    BY <1>3 DEF ClosedDue, LogInv, LogTyped, IsOpen
  <2>3. \A f \in logFiles' : f = file \/ f \in logFiles
    BY <2>1 DEF WithoutFiles
  <2>4. QED
    BY <1>2, <1>3, <2>1, <2>2, <2>3 DEF LogInv, LogTyped
<1>6. QED
  BY <1>4, <1>5, WrittenKeeps

\* Positions and members.
LEMMA InSet == ASSUME NEW log, NEW i \in DOMAIN log PROVE log[i] \in ToSet(log)
  BY DEF ToSet

\* And back.
LEMMA FromSet == ASSUME NEW log, NEW x \in ToSet(log) PROVE \E i \in DOMAIN log : log[i] = x
  BY DEF ToSet

\* The members of two lists.
LEMMA ConcatSet ==
  ASSUME NEW T, NEW a \in Seq(T), NEW b \in Seq(T)
  PROVE  a \o b \in Seq(T) /\ ToSet(a \o b) = ToSet(a) \union ToSet(b)
<1> DEFINE L == Len(a)
           K == Len(b)
<1>1. L \in Nat /\ K \in Nat /\ DOMAIN a = 1 .. L /\ DOMAIN b = 1 .. K
  OBVIOUS
<1>2. /\ a \o b \in Seq(T) /\ DOMAIN (a \o b) = 1 .. L + K
      /\ \A i \in 1 .. L + K : (a \o b)[i] = IF i <= L THEN a[i] ELSE b[i - L]
  BY ConcatProperties, LenProperties
<1> HIDE DEF L, K
<1>3. \A i \in 1 .. L + K : (a \o b)[i] \in ToSet(a) \union ToSet(b)
  <2> TAKE i \in 1 .. L + K
  <2>1. CASE i <= L
    BY <1>1, <1>2, <2>1 DEF ToSet
  <2>2. CASE i > L
    <3>1. i - L \in 1 .. K /\ (a \o b)[i] = b[i - L]
      BY <1>1, <1>2, <2>2
    <3>2. QED
      BY <1>1, <3>1 DEF ToSet
  <2>3. QED
    BY <1>1, <2>1, <2>2
<1>4. \A i \in 1 .. L : i \in 1 .. L + K /\ (a \o b)[i] = a[i]
  BY <1>1, <1>2
<1>5. \A i \in 1 .. K : L + i \in 1 .. L + K /\ (a \o b)[L + i] = b[i]
  <2> TAKE i \in 1 .. K
  <2>1. L + i \in 1 .. L + K /\ ~(L + i <= L) /\ (L + i) - L = i
    BY <1>1
  <2>2. QED
    BY <1>2, <2>1
<1>6. ToSet(a \o b) \subseteq ToSet(a) \union ToSet(b)
  BY <1>2, <1>3 DEF ToSet
<1>7. ToSet(a) \subseteq ToSet(a \o b)
  BY <1>1, <1>2, <1>4 DEF ToSet
<1>8. ToSet(b) \subseteq ToSet(a \o b)
  <2> SUFFICES ASSUME NEW x \in ToSet(b) PROVE x \in ToSet(a \o b)
    OBVIOUS
  <2>1. PICK i \in DOMAIN b : b[i] = x
    BY FromSet
  <2>2. L + i \in DOMAIN (a \o b) /\ (a \o b)[L + i] = x
    BY <1>1, <1>2, <1>5, <2>1
  <2>3. (a \o b)[L + i] \in ToSet(a \o b)
    BY <2>2, InSet
  <2>4. QED
    BY <2>2, <2>3
<1>9. QED
  BY <1>2, <1>6, <1>7, <1>8

\* And of three.
LEMMA ConcatThree ==
  ASSUME NEW T, NEW a \in Seq(T), NEW b \in Seq(T), NEW c \in Seq(T)
  PROVE  /\ a \o b \o c \in Seq(T)
         /\ ToSet(a \o b \o c) = ToSet(a) \union ToSet(b) \union ToSet(c)
<1> DEFINE ab == a \o b
<1>1. ab \in Seq(T) /\ ToSet(ab) = ToSet(a) \union ToSet(b)
  BY ConcatSet
<1> HIDE DEF ab
<1>2. ab \o c \in Seq(T) /\ ToSet(ab \o c) = ToSet(ab) \union ToSet(c)
  BY <1>1, ConcatSet
<1>3. QED
  BY <1>1, <1>2 DEF ab

\* What enforce parts the table into: what is past retention, what is over the size and
\* What enforcing takes out of the table and what stays.
LEMMA EnforceParts ==
  ASSUME LogInv, NEW expired, NEW cut \in 0 .. Len(Among(segs, ToSet(segs) \ expired))
  PROVE  LET live == Among(segs, ToSet(segs) \ expired)
             gone == Among(segs, expired)
             over == SubSeq(live, 1, cut)
             rest == SubSeq(live, cut + 1, Len(live))
         IN  /\ gone \in Seq(SegmentType) /\ over \in Seq(SegmentType) /\ rest \in Seq(SegmentType)
             /\ Ascending(rest)
             /\ ToSet(segs) = ToSet(gone) \union ToSet(over) \union ToSet(rest)
             /\ \A x \in ToSet(gone) \union ToSet(over) : \A y \in ToSet(rest) : x.first # y.first
<1> DEFINE live == Among(segs, ToSet(segs) \ expired)
           gone == Among(segs, expired)
           over == SubSeq(live, 1, cut)
           rest == SubSeq(live, cut + 1, Len(live))
           L == Len(live)
<1>1. segs \in Seq(SegmentType) /\ Ascending(segs) /\ \A x \in SegmentType : x.first \in Int
  BY LogTypes DEF LogInv, TableInv, SegmentType
<1>2. gone \in Seq(SegmentType) /\ ToSet(gone) = ToSet(segs) \intersect expired
  BY <1>1, AmongIs
<1>3. /\ live \in Seq(SegmentType) /\ ToSet(live) = ToSet(segs) \ expired /\ Ascending(live)
  BY <1>1, AmongIs
<1>4. L \in Nat /\ cut \in Nat /\ cut <= L /\ DOMAIN live = 1 .. L
  BY <1>3, LenProperties
<1>5. /\ over \in Seq(SegmentType) /\ DOMAIN over = 1 .. cut
      /\ \A i \in 1 .. cut : over[i] = live[i]
  <2>1. \A i \in 1 .. cut : live[i] \in SegmentType
    BY <1>3, <1>4, ElementOfSeq
  <2>2. QED
    BY <1>3, <1>4, <2>1, SubSeqProperties, LenProperties
<1>6. /\ rest \in Seq(SegmentType) /\ DOMAIN rest = 1 .. L - cut
      /\ \A i \in 1 .. L - cut : rest[i] = live[cut + i]
  <2> HIDE DEF L, live
  <2>1. cut + 1 \in Int /\ L \in Int /\ \A i \in cut + 1 .. L : live[i] \in SegmentType
    BY <1>3, <1>4, ElementOfSeq
  <2>2. /\ SubSeq(live, cut + 1, L) \in Seq(SegmentType)
        /\ Len(SubSeq(live, cut + 1, L)) = IF cut + 1 <= L THEN L - (cut + 1) + 1 ELSE 0
        /\ \A i \in 1 .. L - (cut + 1) + 1 :
             SubSeq(live, cut + 1, L)[i] = live[cut + 1 + i - 1]
    BY <2>1, SubSeqProperties
  <2>3. rest = SubSeq(live, cut + 1, L)
    BY DEF L
  <2>4. Len(rest) = L - cut
    BY <1>4, <2>2, <2>3
  <2>5. \A i \in 1 .. L - cut : i \in 1 .. L - (cut + 1) + 1 /\ cut + 1 + i - 1 = cut + i
    BY <1>4
  <2>6. QED
    BY <2>2, <2>3, <2>4, <2>5, LenProperties
<1> HIDE DEF L, live, gone, over, rest
<1>7. Ascending(rest)
  <2> SUFFICES ASSUME NEW i \in 1 .. L - cut, NEW j \in 1 .. L - cut, i < j
               PROVE  rest[i].first < rest[j].first
    BY <1>6 DEF Ascending
  <2>1. cut + i \in DOMAIN live /\ cut + j \in DOMAIN live /\ cut + i < cut + j
    BY <1>4
  <2>2. live[cut + i].first < live[cut + j].first
    BY <1>3, <2>1 DEF Ascending
  <2>3. QED
    BY <1>6, <2>2
<1>8. ToSet(live) = ToSet(over) \union ToSet(rest)
  <2>1. ASSUME NEW x \in ToSet(over) PROVE x \in ToSet(live)
    <3>0. PICK i \in DOMAIN over : over[i] = x
      BY <2>1, FromSet
    <3>1. i \in 1 .. cut /\ over[i] = x
      BY <1>5, <3>0
    <3>2. i \in DOMAIN live /\ live[i] = x
      BY <1>4, <1>5, <3>1
    <3>3. QED
      BY <3>2, InSet
  <2>2. ASSUME NEW x \in ToSet(rest) PROVE x \in ToSet(live)
    <3>0. PICK i \in DOMAIN rest : rest[i] = x
      BY <2>2, FromSet
    <3>1. i \in 1 .. L - cut /\ live[cut + i] = x
      BY <1>6, <3>0
    <3>2. cut + i \in DOMAIN live /\ live[cut + i] = x
      BY <1>4, <3>1
    <3>3. QED
      BY <3>2, InSet
  <2>3. ASSUME NEW i \in 1 .. L PROVE live[i] \in ToSet(over) \union ToSet(rest)
    <3>1. CASE i <= cut
      <4>1. i \in DOMAIN over /\ over[i] = live[i]
        BY <1>4, <1>5, <3>1
      <4>2. QED
        BY <4>1, InSet
    <3>2. CASE i > cut
      <4>1. i - cut \in 1 .. L - cut /\ cut + (i - cut) = i
        BY <1>4, <3>2
      <4>2. i - cut \in DOMAIN rest /\ rest[i - cut] = live[i]
        BY <1>6, <4>1
      <4>3. QED
        BY <4>2, InSet
    <3>3. QED
      BY <1>4, <3>1, <3>2
  <2>4. ToSet(live) \subseteq ToSet(over) \union ToSet(rest)
    <3> SUFFICES ASSUME NEW x \in ToSet(live) PROVE x \in ToSet(over) \union ToSet(rest)
      OBVIOUS
    <3>1. PICK i \in DOMAIN live : live[i] = x
      BY FromSet
    <3>2. QED
      BY <1>4, <2>3, <3>1
  <2>5. QED
    BY <2>1, <2>2, <2>4
<1>9. ASSUME NEW x \in ToSet(gone), NEW y \in ToSet(rest) PROVE x.first # y.first
  <2>1. x \in ToSet(segs) /\ y \in ToSet(segs) /\ x # y
    BY <1>2, <1>3, <1>8
  <2>2. PICK i \in DOMAIN segs, j \in DOMAIN segs : x = segs[i] /\ y = segs[j]
    BY <2>1 DEF ToSet
  <2>3. i # j /\ i \in Int /\ j \in Int /\ x.first \in Int /\ y.first \in Int
    <3>1. DOMAIN segs = 1 .. Len(segs) /\ Len(segs) \in Nat
      BY <1>1, LenProperties
    <3>2. segs[i] \in SegmentType /\ segs[j] \in SegmentType
      BY LogTypes DEF LogInv
    <3>3. QED
      BY <1>1, <2>1, <2>2, <3>1, <3>2
  <2>4. i < j \/ j < i
    BY <2>3
  <2>5. QED
    BY <1>1, <2>2, <2>3, <2>4 DEF Ascending
<1>10. ASSUME NEW x \in ToSet(over), NEW y \in ToSet(rest) PROVE x.first # y.first
  <2>1. PICK i \in 1 .. cut : x = live[i]
    BY <1>5 DEF ToSet
  <2>2. PICK j \in 1 .. L - cut : y = live[cut + j]
    BY <1>6 DEF ToSet
  <2>3. i \in 1 .. L /\ cut + j \in 1 .. L /\ i < cut + j
    BY <1>4
  <2>4. live[i].first < live[cut + j].first
    BY <1>3, <1>4, <2>3 DEF Ascending
  <2>5. live[i] \in SegmentType /\ live[cut + j] \in SegmentType
    BY <1>3, <2>3, ElementOfSeq DEF L
  <2>6. QED
    BY <1>1, <2>1, <2>2, <2>4, <2>5
<1>11. QED
  BY <1>2, <1>3, <1>5, <1>6, <1>7, <1>8, <1>9, <1>10 DEF live, gone, over, rest

\* The table without the segments to be removed, which the pass then removes.
Takes(doomed) ==
  /\ doomed \in Seq(SegmentType) /\ ToSet(doomed) \subseteq ToSet(segs)
  /\ segs' \in Seq(SegmentType) /\ Ascending(segs')
  /\ \A i \in DOMAIN segs' : \E k \in DOMAIN segs :
       /\ segs'[i].first = segs[k].first /\ segs'[i].start = segs[k].start
       /\ segs'[i].format = segs[k].format
       /\ segs'[i].open => i = Len(segs') /\ k = Len(segs) /\ segs[k].open
  /\ \A k \in DOMAIN segs :
       \/ segs[k] \in ToSet(doomed)
       \/ \E i \in DOMAIN segs' : Same(segs[k], segs'[i]) /\ segs'[i].format = segs[k].format
  /\ \A i \in DOMAIN segs' : \A x \in ToSet(doomed) : segs'[i].first # x.first
  /\ tidy' = Removing(doomed) /\ UNCHANGED <<logFiles, nextId, clearing>>

\* So taking segments out keeps the invariant: their files are listed for removal.
LEMMA TakesKeeps ==
  ASSUME LogInv, tidy.pc = "enforce", LogTyped', NEW doomed, Takes(doomed)
  PROVE  LogInv'
<1>1. /\ doomed \in Seq(SegmentType) /\ ToSet(doomed) \subseteq ToSet(segs)
      /\ segs' \in Seq(SegmentType)
      /\ tidy' = Removing(doomed) /\ UNCHANGED <<logFiles, nextId, clearing>>
  BY DEF Takes
<1>2. tidy.plains = <<>> /\ tidy.doomed = <<>>
  BY DEF LogInv, CompressInv, Working
<1>3. tidy'.doomed = doomed /\ tidy'.plains = <<>> /\ tidy' \in TidyType
  BY <1>1, RemovingIs
<1>4. \A i \in DOMAIN segs' : \E k \in DOMAIN segs :
        /\ segs'[i].first = segs[k].first /\ segs'[i].start = segs[k].start
        /\ segs'[i].format = segs[k].format
        /\ segs'[i].open => i = Len(segs') /\ k = Len(segs) /\ segs[k].open
  BY DEF Takes
<1>5. SameSpoken
  <2>1. \A t \in ToSet(segs)' : \E u \in ToSet(segs) : t.first = u.first /\ t.start = u.start
    BY <1>4 DEF ToSet
  <2>2. ToSet(tidy.doomed)' \subseteq ToSet(segs) /\ ToSet(tidy.plains)' = {}
    <3>1. ToSet(tidy.plains)' = {}
      BY <1>3 DEF ToSet
    <3>2. ToSet(tidy.doomed)' = ToSet(doomed)
      BY <1>3 DEF ToSet
    <3>3. QED
      BY <1>1, <3>1, <3>2
  <2>3. logFiles' = logFiles /\ ToSet(clearing)' = ToSet(clearing)
    BY <1>1
  <2>4. QED
    BY <2>1, <2>2, <2>3 DEF SameSpoken, Spoken
<1>6. TableInv'
  <2>1. \A i \in DOMAIN segs' : segs'[i].open => i = Len(segs') /\ segs'[i].format = "zstd"
    BY <1>4 DEF LogInv, TableInv
  <2>2. QED
    BY <2>1 DEF TableInv, Takes
<1>7. KeysInv'
  <2>1. ASSUME IsOpen' PROVE IsOpen /\ Last(segs)'.first = Last(segs).first
    <3>1. segs' # <<>> /\ segs'[Len(segs')].open
      BY <2>1 DEF IsOpen, Last
    <3>2. Len(segs') \in DOMAIN segs'
      BY <1>1, <3>1
    <3>3. PICK k \in DOMAIN segs : segs'[Len(segs')].first = segs[k].first /\ k = Len(segs) /\ segs[k].open
      BY <1>4, <3>1, <3>2
    <3>4. segs # <<>>
      BY <3>3
    <3>5. QED
      BY <3>3, <3>4 DEF IsOpen, Last
  <2>2. QED
    BY <1>1, <1>5, <2>1, KeysStay
<1>8. FilesInv'
  BY <1>1, <1>5, FewerFiles
<1>9. HasFile'
  <2> SUFFICES ASSUME NEW i \in DOMAIN segs'
               PROVE  \E f \in logFiles' : Same(f, segs'[i]) /\ f.format = segs'[i].format
    BY DEF HasFile, FileAt
  <2>1. PICK k \in DOMAIN segs : /\ segs'[i].first = segs[k].first /\ segs'[i].start = segs[k].start
                                 /\ segs'[i].format = segs[k].format
    BY <1>4
  <2>2. PICK f \in logFiles : Same(f, segs[k]) /\ f.format = segs[k].format
    BY DEF LogInv, HasFile, FileAt
  <2>3. QED
    BY <1>1, <2>1, <2>2 DEF Same
<1>10. HasSegment'
  <2> SUFFICES ASSUME NEW f \in logFiles'
               PROVE  \/ \E i \in DOMAIN segs' : Same(f, segs'[i]) /\ f.format = segs'[i].format
                      \/ \E i \in DOMAIN tidy'.doomed : Same(f, tidy'.doomed[i])
                      \/ \E i \in DOMAIN clearing' : Same(f, clearing'[i])
    BY DEF HasSegment
  <2>1. f \in logFiles /\ ~Spare(f)
    BY <1>1 DEF Spare
  <2>2. CASE \E i \in DOMAIN clearing : Same(f, clearing[i])
    BY <1>1, <2>2
  <2>3. CASE \E k \in DOMAIN segs : Same(f, segs[k]) /\ f.format = segs[k].format
    <3>1. PICK k \in DOMAIN segs : Same(f, segs[k]) /\ f.format = segs[k].format
      BY <2>3
    <3>2. CASE segs[k] \in ToSet(doomed)
      BY <1>3, <3>1, <3>2 DEF ToSet
    <3>3. CASE \E i \in DOMAIN segs' : Same(segs[k], segs'[i]) /\ segs'[i].format = segs[k].format
      BY <3>1, <3>3 DEF Same
    <3>4. QED
      BY <3>2, <3>3 DEF Takes
  <2>4. QED
    BY <1>2, <2>1, <2>2, <2>3 DEF LogInv, HasSegment
<1>11. RemovesOthers'
  <2>1. \A i \in DOMAIN segs' : \A j \in DOMAIN tidy'.doomed : segs'[i].first # tidy'.doomed[j].first
    BY <1>3 DEF Takes, ToSet
  <2>2. \A i \in DOMAIN segs' : \A j \in DOMAIN clearing' : segs'[i].first # clearing'[j].first
    BY <1>1, <1>4 DEF LogInv, RemovesOthers
  <2>3. QED
    BY <2>1, <2>2 DEF RemovesOthers
<1>12. CompressInv'
  BY <1>1, RemovingKeeps
<1>13. QED
  BY <1>6, <1>7, <1>8, <1>9, <1>10, <1>11, <1>12 DEF LogInv

\* What stays of the table, as it was.
LEMMA StaysAsItWas ==
  ASSUME LogInv, NEW gone \in Seq(SegmentType), NEW over \in Seq(SegmentType),
         NEW rest \in Seq(SegmentType), Ascending(rest),
         ToSet(segs) = ToSet(gone) \union ToSet(over) \union ToSet(rest),
         \A x \in ToSet(gone) \union ToSet(over) : \A y \in ToSet(rest) : x.first # y.first,
         NEW doomed \in Seq(SegmentType), ToSet(doomed) = ToSet(gone) \union ToSet(over),
         segs' = rest, tidy' = Removing(doomed), UNCHANGED <<logFiles, nextId, clearing>>
  PROVE  Takes(doomed)
<1>1. /\ \A i \in DOMAIN rest : \E k \in DOMAIN segs : rest[i] = segs[k]
      /\ \A i \in DOMAIN rest : rest[i].open =>
           i = Len(rest) /\ rest[i].format = "zstd" /\ IsOpen /\ rest[i] = Last(segs)
  BY PartOfTable
<1>2. segs \in Seq(SegmentType) /\ Len(segs) \in Nat /\ DOMAIN segs = 1 .. Len(segs)
  BY LogTypes DEF LogInv
<1>3. ASSUME NEW i \in DOMAIN segs'
      PROVE  \E k \in DOMAIN segs :
               /\ segs'[i].first = segs[k].first /\ segs'[i].start = segs[k].start
               /\ segs'[i].format = segs[k].format
               /\ segs'[i].open => i = Len(segs') /\ k = Len(segs) /\ segs[k].open
  <2>1. CASE ~rest[i].open
    BY <1>1, <2>1
  <2>2. CASE rest[i].open
    <3>1. i = Len(rest) /\ rest[i] = Last(segs) /\ segs # <<>>
      BY <1>1, <2>2 DEF IsOpen
    <3>2. Len(segs) \in DOMAIN segs /\ rest[i] = segs[Len(segs)]
      BY <1>2, <3>1 DEF Last
    <3>3. QED
      BY <2>2, <3>1, <3>2
  <2>3. QED
    BY <2>1, <2>2
<1>4. ASSUME NEW k \in DOMAIN segs
      PROVE  \/ segs[k] \in ToSet(doomed)
             \/ \E i \in DOMAIN segs' : Same(segs[k], segs'[i]) /\ segs'[i].format = segs[k].format
  <2>1. segs[k] \in ToSet(segs)
    BY InSet
  <2>2. CASE segs[k] \in ToSet(rest)
    <3>1. PICK i \in DOMAIN rest : rest[i] = segs[k]
      BY <2>2, FromSet
    <3>2. QED
      BY <3>1 DEF Same
  <2>3. QED
    BY <2>1, <2>2
<1>5. \A i \in DOMAIN segs' : \A x \in ToSet(doomed) : segs'[i].first # x.first
  <2>1. \A i \in DOMAIN rest : rest[i] \in ToSet(rest)
    BY InSet
  <2>2. QED
    BY <2>1
<1>6. QED
  BY <1>3, <1>4, <1>5 DEF Takes

\* Everything goes.
LEMMA AllGoes ==
  ASSUME LogInv, NEW doomed \in Seq(SegmentType), ToSet(doomed) = ToSet(segs),
         segs' = <<>>, tidy' = Removing(doomed), UNCHANGED <<logFiles, nextId, clearing>>
  PROVE  Takes(doomed)
<1>1. segs' \in Seq(SegmentType) /\ DOMAIN segs' = {}
  OBVIOUS
<1>2. \A k \in DOMAIN segs : segs[k] \in ToSet(doomed)
  BY InSet
<1>3. Ascending(segs')
  BY <1>1 DEF Ascending
<1>4. QED
  BY <1>1, <1>2, <1>3 DEF Takes

\* The last segment stays, closed.
LEMMA LastStaysClosed ==
  ASSUME LogInv, NEW gone \in Seq(SegmentType), NEW over \in Seq(SegmentType),
         NEW rest \in Seq(SegmentType), Ascending(rest),
         ToSet(segs) = ToSet(gone) \union ToSet(over) \union ToSet(rest),
         \A x \in ToSet(gone) \union ToSet(over) : \A y \in ToSet(rest) : x.first # y.first,
         NEW doomed \in Seq(SegmentType), ToSet(doomed) = ToSet(gone) \union ToSet(over),
         Len(rest) = 1, Last(rest).open,
         segs' = <<Last(ClosedSegs)>>, tidy' = Removing(doomed),
         UNCHANGED <<logFiles, nextId, clearing>>
  PROVE  Takes(doomed)
<1>1. \A i \in DOMAIN rest : rest[i].open => IsOpen /\ rest[i] = Last(segs)
  BY PartOfTable
<1>2. /\ segs \in Seq(SegmentType) /\ Len(segs) \in Nat /\ DOMAIN segs = 1 .. Len(segs)
      /\ \A k \in DOMAIN segs : segs[k] \in SegmentType
  BY LogTypes DEF LogInv
<1> DEFINE N == Len(segs)
           last == Last(ClosedSegs)
<1>3. 1 \in DOMAIN rest /\ Last(rest) = rest[1] /\ DOMAIN rest = {1}
  BY DEF Last
<1>4. N \in DOMAIN segs /\ rest[1] = segs[N] /\ segs[N] = Last(segs)
  <2>1. IsOpen /\ rest[1] = Last(segs)
    BY <1>1, <1>3
  <2>2. QED
    BY <1>2, <2>1 DEF IsOpen, Last
<1>5. /\ last \in SegmentType /\ last.first = segs[N].first /\ last.start = segs[N].start
      /\ last.format = segs[N].format /\ ~last.open
  <2>1. /\ ClosedSegs \in Seq(SegmentType) /\ Len(ClosedSegs) = N
        /\ DOMAIN ClosedSegs = DOMAIN segs
        /\ ClosedSegs[N].first = segs[N].first /\ ClosedSegs[N].start = segs[N].start
        /\ ClosedSegs[N].format = segs[N].format /\ ~ClosedSegs[N].open
    BY <1>4, ClosedIs
  <2>2. last = ClosedSegs[N]
    BY <2>1 DEF Last
  <2>3. ClosedSegs[N] \in SegmentType
    BY <1>2, <1>4, <2>1, ElementOfSeq
  <2>4. QED
    BY <2>1, <2>2, <2>3
<1> HIDE DEF last, N
<1>6. segs' = <<last>>
  BY DEF last
<1>7. segs' \in Seq(SegmentType) /\ DOMAIN segs' = {1} /\ segs'[1] = last /\ Len(segs') = 1
  BY <1>5, <1>6
<1>8. Ascending(segs')
  BY <1>7 DEF Ascending
<1>9. ToSet(doomed) \subseteq ToSet(segs)
  OBVIOUS
<1>10. ASSUME NEW i \in DOMAIN segs'
       PROVE  \E k \in DOMAIN segs :
               /\ segs'[i].first = segs[k].first /\ segs'[i].start = segs[k].start
               /\ segs'[i].format = segs[k].format
               /\ segs'[i].open => i = Len(segs') /\ k = Len(segs) /\ segs[k].open
  BY <1>4, <1>5, <1>7
<1>11. ASSUME NEW k \in DOMAIN segs
       PROVE  \/ segs[k] \in ToSet(doomed)
              \/ \E i \in DOMAIN segs' : Same(segs[k], segs'[i]) /\ segs'[i].format = segs[k].format
  <2>1. segs[k] \in ToSet(segs)
    BY InSet
  <2>2. CASE segs[k] \in ToSet(rest)
    <3>1. PICK i \in DOMAIN rest : rest[i] = segs[k]
      BY <2>2, FromSet
    <3>2. segs[k] = segs[N]
      BY <1>3, <1>4, <3>1
    <3>3. QED
      BY <1>5, <1>7, <3>2 DEF Same
  <2>3. QED
    BY <2>1, <2>2
<1>12. \A i \in DOMAIN segs' : \A x \in ToSet(doomed) : segs'[i].first # x.first
  <2>1. segs[N] \in ToSet(rest)
    BY <1>3, <1>4, InSet
  <2>2. QED
    BY <1>5, <1>7, <2>1
<1>13. QED
  BY <1>7, <1>8, <1>9, <1>10, <1>11, <1>12 DEF Takes

\* Age and size limits are enforced.
LEMMA EnforceKeeps == ASSUME LogInv, Enforce PROVE LogInv'
<1> DEFINE cutoff == logClock - Retention
           expired == {s \in ToSet(segs) : ~s.open /\ SegmentEnd(s) <= cutoff}
           live == Among(segs, ToSet(segs) \ expired)
           fits == {n \in 0 .. Len(live) : n = Len(live) - 1 \/
                      (n < Len(live) - 1 /\ BytesIn(SubSeq(live, n + 1, Len(live))) <= MaxLogBytes)}
           cut == IF fits = {} THEN 0 ELSE CHOOSE n \in fits : \A m \in fits : n <= m
           rest == SubSeq(live, cut + 1, Len(live))
           over == Len(rest) = 1 /\ BytesIn(rest) > MaxLogBytes
           closes == over /\ Last(rest).open
           drops == over /\ ~Last(rest).open /\ Last(rest).format # "plain"
           gone == Among(segs, expired)
           cutOff == SubSeq(live, 1, cut)
           doomed == gone \o cutOff \o (IF drops THEN rest ELSE <<>>)
<1>1. /\ tidy.pc = "enforce"
      /\ segs' = IF drops THEN <<>> ELSE IF closes THEN <<Last(ClosedSegs)>> ELSE rest
      /\ tidy' = Removing(doomed)
      /\ nextId' = nextId
      /\ \/ stateDue' = (stateDue \/ closes) /\ savedId' = savedId /\ logEvents' = logEvents
         \/ savedId' = nextId /\ stateDue' = FALSE /\ logEvents' = logEvents
         \/ LogEvent /\ savedId' = savedId /\ stateDue' = (stateDue \/ closes)
      /\ UNCHANGED <<logFiles, clearing, walk, logClock>>
  BY Zenon DEF Enforce
<1>2. live \in Seq(SegmentType) /\ Len(live) \in Nat
  <2>1. segs \in Seq(SegmentType)
    BY DEF LogInv, LogTyped
  <2> HIDE DEF expired
  <2>2. QED
    BY <2>1, AmongIs, LenProperties
<1> HIDE DEF live, expired
<1>3. cut \in 0 .. Len(live)
  <2>1. fits \in SUBSET Nat /\ fits \subseteq 0 .. Len(live)
    BY <1>2
  <2> HIDE DEF fits
  <2>2. CASE fits # {}
    <3>1. \E n \in fits : \A m \in fits : n <= m
      BY <2>1, <2>2, LeastNumber
    <3>2. cut \in fits
      BY <2>2, <3>1
    <3>3. QED
      BY <2>1, <3>2
  <2>3. CASE fits = {}
    BY <1>2, <2>3
  <2>4. QED
    BY <2>2, <2>3
<1> HIDE DEF cut, fits
<1>4. /\ gone \in Seq(SegmentType) /\ cutOff \in Seq(SegmentType) /\ rest \in Seq(SegmentType)
      /\ Ascending(rest)
      /\ ToSet(segs) = ToSet(gone) \union ToSet(cutOff) \union ToSet(rest)
      /\ \A x \in ToSet(gone) \union ToSet(cutOff) : \A y \in ToSet(rest) : x.first # y.first
  <2>1. cut \in 0 .. Len(Among(segs, ToSet(segs) \ expired))
    BY <1>3 DEF live
  <2> HIDE DEF doomed, over, drops, closes, cutoff
  <2>2. QED
    BY <2>1, EnforceParts DEF live
<1> HIDE DEF gone, cutOff, rest, over
<1>5. /\ gone \o cutOff \in Seq(SegmentType)
      /\ ToSet(gone \o cutOff) = ToSet(gone) \union ToSet(cutOff)
  BY <1>4, ConcatSet
<1>6. ASSUME drops PROVE Takes(doomed)
  <2>1. doomed = gone \o cutOff \o rest /\ segs' = <<>>
    BY <1>1, <1>6
  <2> HIDE DEF doomed
  <2>2. doomed \in Seq(SegmentType) /\ ToSet(doomed) = ToSet(segs)
    <3>1. /\ gone \o cutOff \o rest \in Seq(SegmentType)
          /\ ToSet(gone \o cutOff \o rest) = ToSet(gone) \union ToSet(cutOff) \union ToSet(rest)
      <4> HIDE DEF over, drops, closes, cutoff, gone, cutOff, rest
      <4>1. QED
        BY <1>4, ConcatThree
    <3>2. QED
      BY <1>4, <2>1, <3>1
  <2>3. QED
    BY <1>1, <2>1, <2>2, AllGoes
<1>7. ASSUME ~drops PROVE Takes(doomed)
  <2>1. doomed = gone \o cutOff
    <3>1. doomed = gone \o cutOff \o <<>>
      BY <1>7
    <3>2. QED
      BY <1>5, <3>1, ConcatEmptySeq
  <2> HIDE DEF doomed
  <2>2. doomed \in Seq(SegmentType) /\ ToSet(doomed) = ToSet(gone) \union ToSet(cutOff)
    BY <1>5, <2>1
  <2>3. CASE closes
    <3>1. segs' = <<Last(ClosedSegs)>> /\ Len(rest) = 1 /\ Last(rest).open
      BY <1>1, <1>7, <2>3 DEF over
    <3>2. QED
      BY <1>1, <1>4, <2>2, <3>1, LastStaysClosed
  <2>4. CASE ~closes
    <3>1. segs' = rest
      BY <1>1, <1>7, <2>4
    <3>2. QED
      BY <1>1, <1>4, <2>2, <3>1, StaysAsItWas
  <2>5. QED
    BY <2>3, <2>4
<1>8. Takes(doomed)
  BY <1>6, <1>7
<1> HIDE DEF doomed
<1>9. LogTyped'
  <2>1. doomed \in Seq(SegmentType) /\ segs' \in Seq(SegmentType)
    BY <1>8 DEF Takes
  <2>2. tidy' \in TidyType
    BY <1>1, <2>1, RemovingIs
  <2>3. savedId' \in Nat /\ stateDue' \in BOOLEAN
    <3> HIDE DEF closes
    <3>1. (stateDue \/ closes) \in BOOLEAN
      BY DEF LogInv, LogTyped
    <3>2. QED
      BY <1>1, <3>1 DEF LogInv, LogTyped
  <2>4. logEvents' \in 0 .. MaxLogEvents
    BY <1>1, LogAssumption DEF LogEvent, LogInv, LogTyped
  <2>5. QED
    BY <1>1, <2>1, <2>2, <2>3, <2>4 DEF LogInv, LogTyped
<1>10. QED
  BY <1>1, <1>8, <1>9, TakesKeeps

---------------------------------------------------------------------------
(* What a start finds.                                                     *)

\* A file as it was, or cut short behind what was synced.
IsOf(c, f) ==
  /\ c \in SegmentFile /\ c.synced <= Len(c.rows)
  /\ c.start = f.start /\ c.first = f.first /\ c.format = f.format
  /\ \A m \in DOMAIN c.rows : m \in DOMAIN f.rows /\ c.rows[m] = f.rows[m]
  /\ c.format = "plain" => c.rows # <<>> /\ c.size > 0 /\ c.synced = Len(c.rows)

\* What is found of the files.
FoundOf(found) ==
  /\ \A c \in found : \E f \in logFiles : IsOf(c, f)
  /\ \A c, d \in found : c.first = d.first /\ c.format = d.format => c = d

\* A panel that only restarts finds what it left.
LEMMA FoundAsLeft == ASSUME LogInv PROVE FoundOf(logFiles)
<1>1. \A f \in logFiles : IsOf(f, f)
  BY DEF IsOf, LogInv, LogTyped, FilesInv
<1>2. QED
  BY <1>1 DEF FoundOf, LogInv, FilesInv

\* A file cut to these rows.
CutTo(f, rows, synced, size) == [f EXCEPT !.rows = rows, !.synced = synced, !.size = size]

\* It is the same segment's.
LEMMA CutTyped ==
  ASSUME NEW f \in SegmentFile, NEW rows \in Seq(RowType), NEW synced \in Nat, NEW size \in Nat
  PROVE  /\ CutTo(f, rows, synced, size) \in SegmentFile
         /\ CutTo(f, rows, synced, size).rows = rows
         /\ CutTo(f, rows, synced, size).synced = synced
         /\ CutTo(f, rows, synced, size).size = size
         /\ CutTo(f, rows, synced, size).start = f.start
         /\ CutTo(f, rows, synced, size).first = f.first
         /\ CutTo(f, rows, synced, size).format = f.format
  BY DEF SegmentFile, CutTo

\* What a power loss leaves of a file.
LEMMA CutIs ==
  ASSUME LogInv, NEW f \in logFiles, NEW n \in 0 .. 1, NEW junk \in BOOLEAN
  PROVE  IsOf(Cut(f, n, junk), f)
<1> DEFINE kept == IF n < f.synced THEN f.synced ELSE IF n > Len(f.rows) THEN Len(f.rows) ELSE n
           rows == SubSeq(f.rows, 1, kept)
           size == IF kept = 0 /\ junk THEN 1 ELSE kept
           c == Cut(f, n, junk)
<1>1. /\ f \in SegmentFile /\ f.rows \in Seq(RowType) /\ f.synced \in Nat /\ Len(f.rows) \in Nat
      /\ f.synced <= Len(f.rows) /\ DOMAIN f.rows = 1 .. Len(f.rows)
  <2>1. f \in SegmentFile /\ f.synced <= Len(f.rows)
    BY DEF LogInv, LogTyped
  <2>2. f.rows \in Seq(RowType) /\ f.synced \in Nat
    BY <2>1 DEF SegmentFile
  <2>3. QED
    BY <2>1, <2>2, LenProperties
<1>2. kept \in 0 .. Len(f.rows) /\ size \in Nat /\ (kept > 0 => size > 0)
  BY <1>1
<1>3. c = CutTo(f, rows, kept, size)
  BY DEF Cut, CutTo
<1>4. f.format = "plain" => f.rows # <<>> /\ kept = Len(f.rows)
  <2>1. f.format = "plain" => f.rows # <<>> /\ f.synced = Len(f.rows)
    BY DEF LogInv, FilesInv
  <2>2. QED
    BY <1>1, <2>1
<1> HIDE DEF kept, size
<1>5. /\ rows \in Seq(RowType) /\ Len(rows) = kept /\ DOMAIN rows = 1 .. kept
      /\ \A m \in 1 .. kept : rows[m] = f.rows[m]
  <2>1. \A m \in 1 .. kept : f.rows[m] \in RowType
    BY <1>1, <1>2, ElementOfSeq
  <2>2. kept \in Int /\ 1 \in Int
    BY <1>2
  <2>3. /\ SubSeq(f.rows, 1, kept) \in Seq(RowType)
        /\ Len(SubSeq(f.rows, 1, kept)) = IF 1 <= kept THEN kept - 1 + 1 ELSE 0
        /\ \A i \in 1 .. kept - 1 + 1 : SubSeq(f.rows, 1, kept)[i] = f.rows[1 + i - 1]
    BY <2>1, <2>2, SubSeqProperties
  <2>4. Len(rows) = kept
    BY <1>2, <2>3
  <2>5. DOMAIN rows = 1 .. kept
    BY <2>3, <2>4, LenProperties
  <2>6. \A m \in 1 .. kept : m \in 1 .. kept - 1 + 1 /\ 1 + m - 1 = m
    BY <1>2
  <2>7. QED
    BY <2>3, <2>4, <2>5, <2>6
<1> HIDE DEF rows, c
<1>6. /\ c \in SegmentFile /\ c.rows = rows /\ c.synced = kept /\ c.size = size
      /\ c.start = f.start /\ c.first = f.first /\ c.format = f.format
  <2>1. f \in SegmentFile /\ rows \in Seq(RowType) /\ kept \in Nat /\ size \in Nat
    BY <1>1, <1>2, <1>5
  <2>2. LET d == CutTo(f, rows, kept, size)
        IN  /\ d \in SegmentFile /\ d.rows = rows /\ d.synced = kept /\ d.size = size
            /\ d.start = f.start /\ d.first = f.first /\ d.format = f.format
    BY <2>1, CutTyped
  <2>3. QED
    BY <1>3, <2>2
<1>8. \A m \in DOMAIN rows : m \in DOMAIN f.rows /\ rows[m] = f.rows[m]
  BY <1>1, <1>2, <1>5
<1>9. f.format = "plain" => rows # <<>> /\ size > 0
  <2>1. f.format = "plain" => kept > 0
    BY <1>1, <1>4
  <2>2. kept > 0 => rows # <<>>
    BY <1>5
  <2>3. QED
    BY <1>2, <2>1, <2>2
<1>10. kept <= Len(rows)
  BY <1>2, <1>5
<1>11. IsOf(c, f)
  BY <1>4, <1>5, <1>6, <1>8, <1>9, <1>10 DEF IsOf
<1>12. QED
  BY <1>11 DEF c

\* And of all files.
LEMMA FoundCut ==
  ASSUME LogInv, NEW n \in 0 .. 1, NEW junk \in BOOLEAN
  PROVE  FoundOf({Cut(f, n, junk) : f \in logFiles})
<1> DEFINE found == {Cut(f, n, junk) : f \in logFiles}
<1>1. \A f \in logFiles : IsOf(Cut(f, n, junk), f)
  BY CutIs
<1>2. \A f \in logFiles : Cut(f, n, junk).first = f.first /\ Cut(f, n, junk).format = f.format
  BY <1>1 DEF IsOf
<1>3. \A c \in found : \E f \in logFiles : IsOf(c, f)
  BY <1>1
<1>4. ASSUME NEW c \in found, NEW d \in found, c.first = d.first, c.format = d.format PROVE c = d
  <2>1. PICK f \in logFiles : c = Cut(f, n, junk)
    OBVIOUS
  <2>2. PICK g \in logFiles : d = Cut(g, n, junk)
    OBVIOUS
  <2>3. f = g
    BY <1>2, <1>4, <2>1, <2>2 DEF LogInv, FilesInv
  <2>4. QED
    BY <2>1, <2>2, <2>3
<1>5. QED
  BY <1>3, <1>4 DEF FoundOf

\* The files a start keeps, and the table it makes of them.
StartFiles(found) ==
  LET sized == {f \in found : f.size > 0}
  IN  {f \in sized : f.format = "zstd" \/ ~\E g \in sized : g.format = "zstd" /\ Same(f, g)}

\* One file of a segment is kept, and there are finitely many.
LEMMA StartFilesAre ==
  ASSUME LogInv, NEW found, FoundOf(found)
  PROVE  /\ \A c \in StartFiles(found) :
              /\ c \in SegmentFile /\ c.size > 0 /\ c.synced <= Len(c.rows) /\ c.first < nextId
              /\ c.first \in Nat /\ c.size \in Nat \ {0}
              /\ c.format = "plain" => c.rows # <<>> /\ c.synced = Len(c.rows)
              /\ \E f \in logFiles : IsOf(c, f)
         /\ \A c, d \in StartFiles(found) : c.first = d.first => c = d
         /\ IsFiniteSet(StartFiles(found))
         /\ Cardinality(StartFiles(found)) \in Nat
<1> DEFINE files == StartFiles(found)
<1>1. \A c \in files : c \in found /\ c.size > 0
  BY DEF StartFiles
<1>2. \A c \in found : \E f \in logFiles : IsOf(c, f)
  BY DEF FoundOf
<1>3. \A f \in logFiles : f.first < nextId
  BY DEF LogInv, KeysInv, Spoken
<1>4. \A c \in files :
        /\ c \in SegmentFile /\ c.size > 0 /\ c.synced <= Len(c.rows) /\ c.first < nextId
        /\ c.format = "plain" => c.rows # <<>> /\ c.synced = Len(c.rows)
        /\ \E f \in logFiles : IsOf(c, f)
  BY <1>1, <1>2, <1>3 DEF IsOf
<1>5. \A c \in files : c.first \in Nat /\ c.size \in Nat \ {0}
  BY <1>4 DEF SegmentFile
<1>6. ASSUME NEW c \in files, NEW d \in files, c.first = d.first PROVE c = d
  <2>1. c \in found /\ d \in found
    BY <1>1
  <2>2. c.start = d.start
    <3>1. PICK f \in logFiles : IsOf(c, f)
      BY <1>4
    <3>2. PICK g \in logFiles : IsOf(d, g)
      BY <1>4
    <3>3. f.first = g.first /\ f.start = c.start /\ g.start = d.start
      BY <1>6, <3>1, <3>2 DEF IsOf
    <3>4. QED
      BY <3>3 DEF LogInv, KeysInv, Spoken
  <2>3. c.format = d.format
    <3>1. c.format \in Formats /\ d.format \in Formats
      BY <1>4 DEF SegmentFile
    <3>2. c.format = "zstd" \/ ~(d.format = "zstd")
      BY <1>1, <1>6, <2>1, <2>2 DEF StartFiles, Same
    <3>3. d.format = "zstd" \/ ~(c.format = "zstd")
      BY <1>1, <1>6, <2>1, <2>2 DEF StartFiles, Same
    <3>4. QED
      BY <3>1, <3>2, <3>3 DEF Formats
  <2>4. QED
    BY <1>6, <2>1, <2>3 DEF FoundOf
<1>7. IsFiniteSet(files)
  <2> HIDE DEF files
  <2> DEFINE key == [c \in files |-> c.first]
  <2>1. nextId \in Nat
    BY DEF LogInv, LogTyped
  <2>2. \A c \in files : c.first \in 0 .. nextId
    BY <1>4, <1>5, <2>1
  <2>3. key \in [files -> 0 .. nextId]
    BY <2>2
  <2>4. IsInjective(key)
    BY <1>6 DEF IsInjective
  <2>5. key \in Injection(files, 0 .. nextId)
    BY <2>3, <2>4 DEF Injection
  <2>6. IsFiniteSet(0 .. nextId)
    BY <2>1, FS_Interval
  <2>7. QED
    BY <2>5, <2>6, FS_Injection
<1>8. Cardinality(files) \in Nat
  BY <1>7, FS_CardinalityType
<1>9. QED
  BY <1>4, <1>5, <1>6, <1>7, <1>8

\* The segment of a file, as a start opens it.
SegmentOf(f) == [start |-> f.start, first |-> f.first, format |-> f.format, open |-> FALSE,
                 bytes |-> f.size]

\* In their order they make a table.
LEMMA StartTable ==
  ASSUME LogInv, NEW found, FoundOf(found), NEW order \in FilesInOrder(StartFiles(found)),
         segs' = [i \in DOMAIN order |-> SegmentOf(order[i])]
  PROVE  /\ segs' \in Seq(SegmentType) /\ Ascending(segs')
         /\ \A i \in DOMAIN segs' : ~segs'[i].open
         /\ \A i \in DOMAIN segs' : \E c \in StartFiles(found) :
              Same(c, segs'[i]) /\ c.format = segs'[i].format
         /\ \A c \in StartFiles(found) : \E i \in DOMAIN segs' :
              Same(c, segs'[i]) /\ c.format = segs'[i].format
<1> DEFINE files == StartFiles(found)
           n == Cardinality(files)
<1>1. /\ \A c \in files : /\ c \in SegmentFile /\ c.first \in Nat /\ c.size \in Nat \ {0}
                          /\ \E f \in logFiles : IsOf(c, f)
      /\ \A c, d \in files : c.first = d.first => c = d
      /\ n \in Nat
  BY StartFilesAre
<1>2. /\ order \in [1 .. n -> files] /\ ToSet(order) = files
      /\ \A i, j \in DOMAIN order : i < j => Earlier(order[i], order[j])
  BY DEF FilesInOrder
<1> HIDE DEF files, n
<1>3. DOMAIN order = 1 .. n /\ \A i \in 1 .. n : order[i] \in files
  BY <1>2
<1>4. DOMAIN segs' = 1 .. n /\ \A i \in 1 .. n : segs'[i] = SegmentOf(order[i])
  BY <1>3
<1>5. \A c \in files : /\ SegmentOf(c) \in SegmentType /\ ~SegmentOf(c).open
                       /\ SegmentOf(c).first = c.first /\ SegmentOf(c).start = c.start
                       /\ SegmentOf(c).format = c.format
  BY <1>1 DEF SegmentOf, SegmentType, SegmentFile
<1>6. segs' \in Seq(SegmentType)
  <2>1. \A i \in 1 .. n : SegmentOf(order[i]) \in SegmentType
    BY <1>3, <1>5
  <2>2. segs' = [i \in 1 .. n |-> SegmentOf(order[i])]
    BY <1>3
  <2>3. QED
    BY <1>1, <2>1, <2>2
<1>7. ASSUME NEW i \in DOMAIN segs', NEW j \in DOMAIN segs', i < j
      PROVE  segs'[i].first < segs'[j].first
  <2>1. i \in 1 .. n /\ j \in 1 .. n /\ order[i] \in files /\ order[j] \in files
    BY <1>3, <1>4
  <2>2. Earlier(order[i], order[j])
    BY <1>2, <1>3, <1>7, <2>1
  <2>3. order[i].start \in Nat
    BY <1>1, <2>1, LogAssumption DEF SegmentFile
  <2>4. CASE order[i].first < order[j].first
    BY <1>4, <1>5, <2>1, <2>4
  <2>5. CASE order[i].first = order[j].first /\ order[i].start < order[j].start
    <3>1. order[i] = order[j]
      BY <1>1, <2>1, <2>5
    <3>2. QED
      BY <2>3, <2>5, <3>1
  <2>6. QED
    BY <2>2, <2>4, <2>5 DEF Earlier
<1>8. \A i \in DOMAIN segs' : ~segs'[i].open
  BY <1>3, <1>4, <1>5
<1>9. ASSUME NEW i \in DOMAIN segs'
      PROVE  \E c \in files : Same(c, segs'[i]) /\ c.format = segs'[i].format
  BY <1>3, <1>4, <1>5 DEF Same
<1>10. ASSUME NEW c \in files
       PROVE  \E i \in DOMAIN segs' : Same(c, segs'[i]) /\ c.format = segs'[i].format
  <2>1. PICK i \in DOMAIN order : order[i] = c
    BY <1>2, FromSet
  <2>2. QED
    BY <1>3, <1>4, <1>5, <2>1 DEF Same
<1>11. QED
  BY <1>6, <1>7, <1>8, <1>9, <1>10 DEF Ascending, files

\* The rows of a file that is found, beside those of the others.
LEMMA FoundRows ==
  ASSUME LogInv, NEW found, FoundOf(found), NEW c \in StartFiles(found)
  PROVE  /\ c.rows \in Seq(RowType) /\ DOMAIN c.rows = 1 .. Len(c.rows) /\ Len(c.rows) \in Nat
         /\ \A m \in DOMAIN c.rows : /\ c.first <= c.rows[m].id /\ c.rows[m].id < nextId
                                     /\ c.rows[m].time < SegmentEnd(c)
                                     /\ c.rows[m].id \in Nat /\ c.rows[m].id > 0
         /\ \A m, n \in DOMAIN c.rows : m < n => c.rows[m].id < c.rows[n].id
         /\ \A d \in StartFiles(found) : c.first < d.first =>
              \A m \in DOMAIN c.rows : c.rows[m].id < d.first
<1>1. c \in SegmentFile
  BY StartFilesAre
<1>2. PICK f \in logFiles : IsOf(c, f)
  BY StartFilesAre
<1>3. c.rows \in Seq(RowType) /\ DOMAIN c.rows = 1 .. Len(c.rows) /\ Len(c.rows) \in Nat
  <2>1. c.rows \in Seq(RowType)
    BY <1>1 DEF SegmentFile
  <2>2. QED
    BY <2>1, LenProperties
<1>4. /\ c.first = f.first /\ c.start = f.start
      /\ \A m \in DOMAIN c.rows : m \in DOMAIN f.rows /\ c.rows[m] = f.rows[m]
  BY <1>2 DEF IsOf
<1>5. Fits(f.rows, f, Spoken, nextId)
  BY DEF LogInv, FilesInv
<1>6. SegmentEnd(c) = SegmentEnd(f)
  BY <1>4 DEF SegmentEnd
<1>7. \A m \in DOMAIN c.rows : /\ c.first <= c.rows[m].id /\ c.rows[m].id < nextId
                               /\ c.rows[m].time < SegmentEnd(c)
  BY <1>4, <1>5, <1>6 DEF Fits
<1>8. \A m, n \in DOMAIN c.rows : m < n => c.rows[m].id < c.rows[n].id
  BY <1>4, <1>5 DEF Fits
<1>9. \A m \in DOMAIN c.rows : c.rows[m].id \in Nat /\ c.rows[m].id > 0
  BY <1>3, RowIds
<1>10. ASSUME NEW d \in StartFiles(found), c.first < d.first, NEW m \in DOMAIN c.rows
       PROVE  c.rows[m].id < d.first
  <2>1. PICK g \in logFiles : IsOf(d, g)
    BY StartFilesAre
  <2>2. g \in Spoken /\ f.first < g.first
    BY <1>4, <1>10, <2>1 DEF IsOf, Spoken
  <2>3. f.rows[m].id < g.first
    BY <1>4, <1>5, <2>2 DEF Fits
  <2>4. QED
    BY <1>4, <2>1, <2>3 DEF IsOf
<1>11. QED
  BY <1>3, <1>7, <1>8, <1>9, <1>10

\* The newest file that reads.
NewestFile(readable) == CHOOSE f \in readable : \A g \in readable : g = f \/ Earlier(g, f)

\* There is a newest among files with rows.
LEMMA NewestIs ==
  ASSUME LogInv, NEW found, FoundOf(found), NEW readable \in SUBSET StartFiles(found), readable # {}
  PROVE  /\ NewestFile(readable) \in readable
         /\ \A g \in readable : g = NewestFile(readable) \/ g.first < NewestFile(readable).first
<1>1. /\ \A c \in StartFiles(found) : c.first \in Nat /\ c.first < nextId
      /\ \A c, d \in StartFiles(found) : c.first = d.first => c = d
  BY StartFilesAre
<1>2. nextId \in Nat
  BY DEF LogInv, LogTyped
<1> DEFINE firsts == {f.first : f \in readable}
<1>3. firsts \in SUBSET Nat /\ firsts # {} /\ \A n \in firsts : n <= nextId
  BY <1>1, <1>2
<1>4. PICK n \in firsts : \A m \in firsts : n >= m
  <2> HIDE DEF firsts
  <2>1. QED
    BY <1>2, <1>3, GreatestNumber
<1>5. PICK f \in readable : f.first = n
  BY <1>4
<1>6. \A g \in readable : g = f \/ g.first < f.first
  <2> TAKE g \in readable
  <2>1. g.first <= f.first /\ g.first \in Nat /\ f.first \in Nat
    BY <1>1, <1>4, <1>5
  <2>2. g.first = f.first => g = f
    BY <1>1
  <2>3. QED
    BY <2>1, <2>2
<1>7. \A g \in readable : g = f \/ Earlier(g, f)
  BY <1>6 DEF Earlier
<1> DEFINE newest == NewestFile(readable)
<1>8. newest \in readable /\ \A g \in readable : g = newest \/ Earlier(g, newest)
  BY <1>7 DEF NewestFile
<1> HIDE DEF newest
<1>9. \A g \in readable : g = newest \/ g.first < newest.first
  <2> TAKE g \in readable
  <2>1. g.first = newest.first => g = newest
    BY <1>1, <1>8
  <2>2. QED
    BY <1>8, <2>1 DEF Earlier
<1>10. QED
  BY <1>8, <1>9 DEF newest

\* The ids a start goes on from.
StartIds(files) ==
  LET readable == {f \in files : f.rows # <<>>}
  IN  {savedId} \union {f.first + 1 : f \in files}
        \union (IF readable = {} THEN {1} ELSE {Last(NewestFile(readable).rows).id + 1})

\* The next id is the greatest of these.
GreatestOf(S) == CHOOSE n \in S : \A m \in S : n >= m

\* It is beyond every file and every row that was found.
LEMMA NextIdIsNew ==
  ASSUME LogInv, NEW found, FoundOf(found),
         nextId' = GreatestOf(StartIds(StartFiles(found)))
  PROVE  /\ nextId' \in Nat \ {0}
         /\ \A c \in StartFiles(found) :
              c.first < nextId' /\ \A m \in DOMAIN c.rows : c.rows[m].id < nextId'
<1> DEFINE files == StartFiles(found)
           readable == {f \in files : f.rows # <<>>}
           newest == NewestFile(readable)
           top == Last(newest.rows).id
           ids == StartIds(files)
<1>1. \A c \in files : c.first \in Nat /\ c.first < nextId
  BY StartFilesAre
<1>2. nextId \in Nat \ {0} /\ savedId \in Nat
  BY DEF LogInv, LogTyped
<1>3. ids = {savedId} \union {f.first + 1 : f \in files}
              \union (IF readable = {} THEN {1} ELSE {top + 1})
  BY Zenon DEF StartIds
<1>4. ASSUME readable # {}
      PROVE  /\ top \in Nat /\ top > 0 /\ top < nextId /\ newest \in files
             /\ \A m \in DOMAIN newest.rows : newest.rows[m].id <= top
             /\ \A g \in readable : g = newest \/ g.first < newest.first
  <2>1. /\ newest \in readable
        /\ \A g \in readable : g = newest \/ g.first < newest.first
    <3> HIDE DEF files
    <3>1. readable \in SUBSET files
      OBVIOUS
    <3> HIDE DEF readable
    <3>2. QED
      BY <1>4, <3>1, NewestIs DEF files
  <2>2. newest \in files /\ newest.rows # <<>>
    BY <2>1
  <2> HIDE DEF newest, readable
  <2>3. /\ newest.rows \in Seq(RowType) /\ DOMAIN newest.rows = 1 .. Len(newest.rows)
        /\ Len(newest.rows) \in Nat
        /\ \A m \in DOMAIN newest.rows : /\ newest.rows[m].id < nextId /\ newest.rows[m].id \in Nat
                                         /\ newest.rows[m].id > 0
        /\ \A m, n \in DOMAIN newest.rows : m < n => newest.rows[m].id < newest.rows[n].id
    BY <2>2, FoundRows
  <2> DEFINE rows == newest.rows
  <2>4. Len(rows) \in DOMAIN rows /\ top = rows[Len(rows)].id
    BY <2>2, <2>3 DEF Last
  <2> HIDE DEF top
  <2>5. \A m \in DOMAIN rows : rows[m].id <= top
    <3> TAKE m \in DOMAIN rows
    <3>1. m = Len(rows) \/ m < Len(rows)
      BY <2>3
    <3>2. rows[m].id \in Nat /\ top \in Nat
      BY <2>3, <2>4
    <3>3. m < Len(rows) => rows[m].id < top
      BY <2>3, <2>4
    <3>4. QED
      BY <2>4, <3>1, <3>2, <3>3
  <2>6. QED
    BY <2>1, <2>2, <2>3, <2>4, <2>5
<1> HIDE DEF ids, top, files
<1>5. ids \in SUBSET Nat /\ ids # {} /\ \A n \in ids : n <= nextId + savedId
  <2>1. \A n \in ids : n = savedId \/ (\E f \in files : n = f.first + 1) \/ (readable = {} /\ n = 1)
                         \/ (readable # {} /\ n = top + 1)
    BY <1>3
  <2>2. ASSUME NEW n \in ids PROVE n \in Nat /\ n <= nextId + savedId
    <3>1. CASE n = savedId
      BY <1>2, <3>1
    <3>2. CASE \E f \in files : n = f.first + 1
      BY <1>1, <1>2, <3>2
    <3>3. CASE readable = {} /\ n = 1
      BY <1>2, <3>3
    <3>4. CASE readable # {} /\ n = top + 1
      BY <1>2, <1>4, <3>4
    <3>5. QED
      BY <2>1, <3>1, <3>2, <3>3, <3>4
  <2>3. savedId \in ids
    BY <1>3
  <2>4. QED
    BY <2>2, <2>3
<1>6. nextId + savedId \in Nat
  BY <1>2
<1>7. \E n \in ids : \A m \in ids : n >= m
  BY <1>5, <1>6, GreatestNumber
<1>8. nextId' = CHOOSE n \in ids : \A m \in ids : n >= m
  BY DEF ids, files, GreatestOf
<1>9. nextId' \in Nat /\ \A m \in ids : m \in Nat /\ m <= nextId'
  <2>1. nextId' \in ids /\ \A m \in ids : nextId' >= m
    BY <1>7, <1>8
  <2>2. nextId' \in Nat
    BY <1>5, <2>1
  <2>3. \A m \in ids : m \in Nat
    BY <1>5
  <2>4. QED
    BY <2>1, <2>2, <2>3
<1>10. nextId' \in Nat \ {0}
  <2>1. CASE readable = {}
    <3>1. 1 \in ids
      BY <1>3, <2>1
    <3>2. 1 <= nextId'
      BY <1>9, <3>1
    <3>3. QED
      BY <1>9, <3>2
  <2>2. CASE readable # {}
    <3>1. top + 1 \in ids /\ top \in Nat
      BY <1>3, <1>4, <2>2
    <3>2. top + 1 <= nextId'
      BY <1>9, <3>1
    <3>3. QED
      BY <1>9, <3>1, <3>2
  <2>3. QED
    BY <2>1, <2>2
<1>11. ASSUME NEW c \in files PROVE c.first < nextId'
  <2>1. c.first + 1 \in ids
    BY <1>3
  <2>2. c.first \in Nat /\ c.first + 1 <= nextId'
    BY <1>1, <1>9, <1>11, <2>1
  <2>3. QED
    BY <1>9, <2>2
<1>12. ASSUME NEW c \in files, NEW m \in DOMAIN c.rows PROVE c.rows[m].id < nextId'
  <2>1. /\ c.rows \in Seq(RowType) /\ c.rows[m].id \in Nat
        /\ \A d \in files : c.first < d.first => c.rows[m].id < d.first
    BY <1>12, FoundRows DEF files
  <2>2. c \in readable
    BY <1>12, <2>1
  <2>3. /\ top \in Nat /\ newest \in files
        /\ \A k \in DOMAIN newest.rows : newest.rows[k].id <= top
        /\ c = newest \/ c.first < newest.first
    BY <1>4, <2>2
  <2>4. top + 1 \in ids
    BY <1>3, <2>2
  <2>5. CASE c = newest
    <3>1. c.rows[m].id <= top
      BY <1>12, <2>3, <2>5
    <3>2. top + 1 <= nextId'
      BY <1>9, <2>4
    <3>3. QED
      BY <1>9, <2>1, <2>3, <3>1, <3>2
  <2>6. CASE c.first < newest.first
    <3>1. c.rows[m].id < newest.first /\ newest.first < nextId' /\ newest.first \in Nat
      BY <1>1, <1>11, <2>1, <2>3, <2>6
    <3>2. QED
      BY <1>10, <2>1, <3>1
  <2>7. QED
    BY <2>3, <2>5, <2>6
<1>13. QED
  BY <1>10, <1>11, <1>12 DEF files

\* The log as a start leaves it.
LEMMA StartedIs ==
  ASSUME LogInv, NEW found, FoundOf(found),
         NEW order \in FilesInOrder(StartFiles(found)),
         segs' = [i \in DOMAIN order |-> SegmentOf(order[i])],
         logFiles' = StartFiles(found),
         nextId' = GreatestOf(StartIds(StartFiles(found))),
         tidy' = AtRest, clearing' = <<>>, LogTyped'
  PROVE  LogInv'
<1> DEFINE files == StartFiles(found)
<1>1. /\ segs' \in Seq(SegmentType) /\ Ascending(segs')
      /\ \A i \in DOMAIN segs' : ~segs'[i].open
      /\ \A i \in DOMAIN segs' : \E c \in files : Same(c, segs'[i]) /\ c.format = segs'[i].format
      /\ \A c \in files : \E i \in DOMAIN segs' : Same(c, segs'[i]) /\ c.format = segs'[i].format
  BY StartTable
<1>2. /\ nextId' \in Nat \ {0}
      /\ \A c \in files : c.first < nextId' /\ \A m \in DOMAIN c.rows : c.rows[m].id < nextId'
  BY NextIdIsNew
<1>3. /\ \A c \in files : /\ c.first \in Nat /\ c.size > 0
                          /\ c.format = "plain" => c.rows # <<>> /\ c.synced = Len(c.rows)
      /\ \A c, d \in files : c.first = d.first => c = d
  BY StartFilesAre
<1>4. \A c \in files :
        /\ \A m \in DOMAIN c.rows : c.first <= c.rows[m].id /\ c.rows[m].time < SegmentEnd(c)
        /\ \A m, n \in DOMAIN c.rows : m < n => c.rows[m].id < c.rows[n].id
        /\ \A d \in files : c.first < d.first => \A m \in DOMAIN c.rows : c.rows[m].id < d.first
  BY FoundRows
<1>5. logFiles' = files
  OBVIOUS
<1> HIDE DEF files
<1>6. \A t \in Spoken' : \E c \in files : t.first = c.first /\ t.start = c.start
  <2>1. \A t \in ToSet(segs') : \E c \in files : t.first = c.first /\ t.start = c.start
    BY <1>1, FromSet DEF Same
  <2>2. /\ ToSet(tidy'.plains) = {} /\ ToSet(tidy'.doomed) = {} /\ ToSet(clearing') = {}
    BY AtRestIs DEF ToSet
  <2>3. QED
    BY <1>5, <2>1, <2>2 DEF Spoken
<1>7. ~IsOpen'
  <2>1. segs' # <<>> => Len(segs') \in DOMAIN segs'
    BY <1>1
  <2>2. QED
    BY <1>1, <2>1 DEF IsOpen, Last
<1>8. TableInv'
  BY <1>1 DEF TableInv
<1>9. KeysInv'
  <2>1. \A t \in Spoken' : t.first < nextId'
    BY <1>2, <1>6
  <2>2. ASSUME NEW s \in Spoken', NEW t \in Spoken', s.first = t.first PROVE s.start = t.start
    <3>1. PICK c \in files : s.first = c.first /\ s.start = c.start
      BY <1>6
    <3>2. PICK d \in files : t.first = d.first /\ t.start = d.start
      BY <1>6
    <3>3. QED
      BY <1>3, <2>2, <3>1, <3>2
  <2>3. QED
    BY <1>7, <2>1, <2>2 DEF KeysInv
<1>10. FilesInv'
  <2>1. ASSUME NEW c \in files PROVE Fits(c.rows, c, Spoken', nextId')
    <3>1. \A m \in DOMAIN c.rows : /\ c.first <= c.rows[m].id /\ c.rows[m].id < nextId'
                                   /\ c.rows[m].time < SegmentEnd(c)
      BY <1>2, <1>4
    <3>2. \A m, n \in DOMAIN c.rows : m < n => c.rows[m].id < c.rows[n].id
      BY <1>4
    <3>3. \A g \in Spoken' : c.first < g.first => \A m \in DOMAIN c.rows : c.rows[m].id < g.first
      BY <1>4, <1>6
    <3>4. QED
      BY <3>1, <3>2, <3>3 DEF Fits
  <2>2. QED
    BY <1>3, <1>5, <2>1 DEF FilesInv
<1>11. HasFile'
  BY <1>1, <1>5 DEF HasFile, FileAt
<1>12. HasSegment'
  BY <1>1, <1>5 DEF HasSegment
<1>13. DOMAIN tidy'.doomed = {} /\ DOMAIN clearing' = {} /\ tidy'.plains = <<>> /\ tidy'.pc = "idle"
       /\ tidy'.doomed = <<>>
  BY AtRestIs
<1>14. RemovesOthers'
  BY <1>13 DEF RemovesOthers
<1>15. CompressInv'
  BY <1>13 DEF CompressInv, Working, Ascending
<1>16. QED
  BY <1>8, <1>9, <1>10, <1>11, <1>12, <1>14, <1>15 DEF LogInv

\* The panel starts again, on the files it left or on what a power loss left of them.
LEMMA LogRestartKeeps == ASSUME LogInv, LogRestart PROVE LogInv'
<1>1. /\ LogEvent
      /\ stateDue' = FALSE /\ tidy' = AtRest /\ clearing' = <<>> /\ walk' = NoWalk
      /\ UNCHANGED <<savedId, logClock>>
  BY DEF LogRestart
<1>2. \E found : FoundOf(found) /\ PanelStartsOn(found)
  <2>1. CASE PanelStartsOn(logFiles)
    BY <2>1, FoundAsLeft
  <2>2. CASE \E n \in 0 .. 1, junk \in BOOLEAN : PanelStartsOn({Cut(f, n, junk) : f \in logFiles})
    <3>1. PICK n \in 0 .. 1, junk \in BOOLEAN : PanelStartsOn({Cut(f, n, junk) : f \in logFiles})
      BY <2>2
    <3>2. FoundOf({Cut(f, n, junk) : f \in logFiles})
      BY FoundCut
    <3>3. QED
      BY <3>1, <3>2
  <2>3. QED
    BY <2>1, <2>2 DEF LogRestart
<1>3. PICK found : FoundOf(found) /\ PanelStartsOn(found)
  BY <1>2
<1>4. /\ logFiles' = StartFiles(found)
      /\ \E order \in FilesInOrder(StartFiles(found)) :
           segs' = [i \in DOMAIN order |-> SegmentOf(order[i])]
      /\ nextId' = GreatestOf(StartIds(StartFiles(found)))
  BY <1>3, Zenon DEF PanelStartsOn, StartFiles, SegmentOf, StartIds, NewestFile, GreatestOf
<1>5. PICK order \in FilesInOrder(StartFiles(found)) : segs' = [i \in DOMAIN order |-> SegmentOf(order[i])]
  BY <1>4
<1>6. LogTyped'
  <2>1. segs' \in Seq(SegmentType)
    BY <1>3, <1>5, StartTable
  <2>2. nextId' \in Nat \ {0}
    BY <1>3, <1>4, NextIdIsNew
  <2>3. /\ logFiles' \in SUBSET SegmentFile /\ \A f \in logFiles' : f.synced <= Len(f.rows)
    BY <1>3, <1>4, StartFilesAre
  <2>4. logEvents' \in 0 .. MaxLogEvents
    BY <1>1, LogAssumption DEF LogEvent, LogInv, LogTyped
  <2>5. walk'.pc = "idle" /\ walk'.wrong = FALSE /\ DOMAIN walk' = DOMAIN NoWalk
    BY <1>1 DEF NoWalk
  <2>6. tidy' \in TidyType /\ clearing' \in Seq(SegmentType)
    BY <1>1, AtRestIs
  <2>7. QED
    BY <1>1, <2>1, <2>2, <2>3, <2>4, <2>5, <2>6 DEF LogInv, LogTyped
<1>7. QED
  BY <1>1, <1>3, <1>4, <1>5, <1>6, StartedIs

---------------------------------------------------------------------------
\* Every step keeps the invariant.
LEMMA LogSteps == ASSUME LogInv, [LogNext]_logVars PROVE LogInv'
<1>1. CASE UNCHANGED logVars
  <2>1. UNCHANGED <<segs, logFiles, nextId, savedId, stateDue, tidy, clearing, walk, logClock,
                    logEvents>>
    BY <1>1 DEF logVars
  <2>2. LogTyped'
    BY <2>1 DEF LogInv, LogTyped
  <2>3. QED
    BY <2>1, <2>2, Untouched
<1>2. CASE LogNext
  BY <1>2, AppendRecordsKeeps, AppendAbandonsKeeps, BeginTidyKeeps, ReadPlainKeeps,
     RenameCompressedKeeps, NoteCompressedKeeps, UnlinkPlainKeeps, EnforceKeeps,
     RemoveDroppedKeeps, SyncClosedKeeps, EndTidyKeeps, ClearLogKeeps, RemoveClearedKeeps,
     WalkKeeps, ClockKeeps, LogRestartKeeps DEF LogNext
<1>3. QED
  BY <1>1, <1>2

\* LogInv is an invariant for any number of records, ticks and events, any hour, limits and pages.
THEOREM LogInvariant == LogSpec => []LogInv
<1>1. LogInit => LogInv
  BY LogStarts
<1>2. LogInv /\ [LogNext]_logVars => LogInv'
  BY LogSteps
<1>3. QED
  BY <1>1, <1>2, PTL DEF LogSpec

\* Every segment of the table has a file that reads; rows are numbered upwards over all
\* segments and behind the next id, and belong to their hour; no file is left that nobody will remove.
THEOREM LogAlwaysSound == LogSpec => []LogIsSound
<1>1. LogInv => LogIsSound
  BY LogInvIsSound
<1>2. QED
  BY <1>1, LogInvariant, PTL

=============================================================================
