------------------------------ MODULE GeoFiles ------------------------------
(***************************************************************************)
(* The files of the Geo directory: what downloads, the built-in GeoSite    *)
(* and the merged blocklists put there, what the configuration and its     *)
(* history name, and the clean-up that removes the rest (geo_data.rs,      *)
(* blocklist_data.rs, app/geo.rs, app/blocklist.rs).                       *)
(*                                                                         *)
(* Files are named by content, so a file is a value: one copy of the Geo   *)
(* data, one copy of a list, or the merge of copies of lists.  A page's    *)
(* request and the background task each work step by step, holding         *)
(* sync_lock or the blocklists' lock as the code does; a write of the      *)
(* configuration is one step here (ConfigApply takes it apart).            *)
(***************************************************************************)
EXTENDS Integers, FiniteSets, Sequences, SequencesExt

CONSTANTS
  Lists,        \* links of blocklists
  Pages,        \* requests of pages under way at a time
  MaxCopy,      \* newest content the links give out
  NoFile,       \* no file, no path, no copy
  Untried,      \* no status of a list
  KeptVersions, \* configuration versions retained
  MaxGeoEvents  \* bound on requests, runs of the task, writes of users and restarts

Copies == 0 .. MaxCopy
Task == "task"
Actors == Pages \union {Task}
Free == "free"

ASSUME GeoAssumption ==
  /\ MaxCopy \in Nat /\ KeptVersions \in Nat \ {0} /\ MaxGeoEvents \in Nat
  /\ Task \notin Pages /\ Free \notin Actors /\ Lists # {}
  /\ NoFile \notin Copies /\ Untried \notin Copies /\ NoFile # Untried

VARIABLES
  stored,    \* the managed files
  manifest,  \* MANIFEST_KEY: the copy of the Geo data
  lists,     \* STATE_KEY of the blocklists
  formal,    \* content of the formal configuration file
  versions,      \* the retained versions, the newest last
  waiting,   \* whether the newest is pending
  draft,     \* what a page would save
  published, \* the copy every link gives out
  syncLock, listLock,
  work,        \* what each actor is at
  seedMarker, \* BUILTIN_SEED_MARKER
  geoEvents, \* how many of these there were
  exposed    \* history: retained contents that named a file already gone when saved
             \* ("file"), or one whose copies were gone ("copy"), or that were saved behind
             \* the back of a clean-up or refresh, and what the panel made of them

geoConfig == <<formal, versions, waiting>>
geoVars == <<stored, manifest, lists, formal, versions, waiting, draft, published, syncLock,
             listLock, work, seedMarker, geoEvents, exposed>>

GeoFile(n) == [kind |-> "geo", copy |-> n]
RawFile(source) == [kind |-> "raw", of |-> source]
MergedFile(sources) == [kind |-> "merged", of |-> sources]
FileOf(path, file) == IF path = NoFile THEN {} ELSE {file}

\* A content: the Geo data and the merged file it names.  A merged file records its
\* sources, pairs of a list and a copy; the model names it by them.
FilesOf(content) ==
  FileOf(content.geo, GeoFile(content.geo)) \union FileOf(content.block, MergedFile(content.block))
CopiesOf(content) == IF content.block = NoFile THEN {} ELSE {RawFile(s) : s \in content.block}
ListsIn(path) == IF path = NoFile THEN {} ELSE {source[1] : source \in path}

\* What a content must find there: the files it names, and the copies they are made of.
Flaws == {"file", "copy"}
Needed(flaw, content) ==
  FilesOf(content) \union (IF flaw = "copy" THEN CopiesOf(content) ELSE {})

\* retained_contents.
Retained == {formal} \union ToSet(versions)

NoLists == [sources |-> [l \in Lists |-> Untried], built |-> NoFile, refreshed |-> NoFile,
            requested |-> {}]
Rest == [pc |-> "idle", kind |-> "none", copy |-> NoFile, subs |-> {}, on |-> {},
         named |-> {}, state |-> NoLists, old |-> NoFile, new |-> NoFile, retained |-> {},
         doomed |-> {}]

Event == geoEvents < MaxGeoEvents /\ geoEvents' = geoEvents + 1
Begin(a, next) == work[a].pc = "idle" /\ Event /\ work' = [work EXCEPT ![a] = next]
Go(a, next) == work' = [work EXCEPT ![a] = next] /\ UNCHANGED geoEvents
Ends(a) == Go(a, Rest)

\* A fresh install, and a host whose configuration uses the Geo data and every list.
GeoInit ==
  /\ \E inUse \in BOOLEAN :
       LET all == {<<l, 0>> : l \in Lists}
       IN  IF inUse
           THEN /\ stored = {GeoFile(0), MergedFile(all)} \union {RawFile(s) : s \in all}
                /\ manifest = 0 /\ formal = [geo |-> 0, block |-> all]
                /\ lists = [sources |-> [l \in Lists |-> 0], built |-> all,
                            refreshed |-> NoFile, requested |-> Lists]
                /\ seedMarker = FALSE
           ELSE /\ stored = {} /\ manifest = NoFile /\ lists = NoLists
                /\ formal = [geo |-> NoFile, block |-> NoFile] /\ seedMarker = TRUE
  /\ versions = <<formal>> /\ waiting = FALSE
  /\ draft = formal /\ published = 0
  /\ syncLock = Free /\ listLock = Free
  /\ work = [a \in Actors |-> Rest]
  /\ geoEvents = 0 /\ exposed = [flaw \in Flaws |-> {}]

---------------------------------------------------------------------------
(* The configuration and its history, as the rest of the panel writes it.  *)

Flawed(content) == {flaw \in Flaws : content \in exposed[flaw]}

\* A clean-up is under way that read the retained versions without this content, or
\* without one of its merged file.
Cleaning == {a \in Actors : work[a].pc \in {"clean", "cleanLists", "remove"}}
Overtakes(content) == \E a \in Cleaning : content \notin work[a].retained
OvertakesLists(content) ==
  \E a \in Cleaning : \A c \in work[a].retained : c.block # content.block

\* A refresh is under way of a file that no sound version named any more.
Revives(content) ==
  /\ work[Task].kind = "refresh" /\ content.block = work[Task].old
  /\ \A c \in Retained \ exposed["copy"] : c.block # content.block
Exposing(content) ==
  {flaw \in Flaws : ~(Needed(flaw, content) \subseteq stored) \/ Overtakes(content)}
    \union (IF Revives(content) THEN {"copy"} ELSE {})

\* What alone kept such a content's files is replaced.
LosesRecord ==
  exposed' = [flaw \in Flaws |-> exposed[flaw] \union {c \in Retained : Overtakes(c)}]

\* These contents become versions, in this order; a flaw of what they come from stays.
Store(contents, flaws) ==
  LET all == versions \o contents
  IN  /\ versions' = SubSeq(all, IF Len(all) > KeptVersions THEN Len(all) - KeptVersions + 1
                                                        ELSE 1, Len(all))
      /\ exposed' = [flaw \in Flaws |->
           (exposed[flaw] \union (IF flaw \in flaws THEN ToSet(contents) ELSE {}))
             \intersect ({formal'} \union ToSet(versions'))]

\* write_system_config: with KixDNS up the formal file is the base, the change is refused,
\* taken, or written and rolled back; otherwise it becomes a pending version.  What it
\* writes may be stale: another request has moved the manifest on since.
SystemBase(up) == IF ~up /\ waiting THEN Last(versions) ELSE formal
WriteFlaws(stale, base, edited) ==
  (IF stale THEN Flaws ELSE Flawed(base))
    \union (IF OvertakesLists(edited) \/ ~(CopiesOf(edited) \subseteq stored) THEN {"copy"} ELSE {})
WriteSystemConfig(up, stale, edited) ==
  LET base == SystemBase(up)
      flaws == WriteFlaws(stale, base, edited)
  IN  IF edited = base THEN UNCHANGED <<geoConfig, exposed>>
      ELSE IF up THEN formal' = edited /\ waiting' = FALSE /\ Store(<<edited>>, flaws)
      ELSE UNCHANGED formal /\ waiting' = TRUE /\ Store(<<edited>>, flaws)
SystemWriteFails(stale, edited) ==
  \/ UNCHANGED <<geoConfig, exposed>>
  \/ /\ edited # formal /\ UNCHANGED formal /\ waiting' = FALSE
     /\ Store(<<edited, formal>>, WriteFlaws(stale, formal, edited))

\* A page reads the configuration into its draft.
LoadDraft ==
  /\ draft' = SystemBase(FALSE) /\ draft' # draft
  /\ UNCHANGED <<stored, manifest, lists, geoConfig, published, syncLock, listLock, work,
                 seedMarker, geoEvents, exposed>>

\* It saves it, and the version takes effect, waits or is refused.
SaveDraft ==
  /\ draft # Last(versions) /\ Event
  /\ formal' \in {formal, draft} /\ waiting' \in IF formal' = draft THEN {FALSE} ELSE BOOLEAN
  /\ Store(<<draft>>, Exposing(draft))
  /\ UNCHANGED <<stored, manifest, lists, draft, published, syncLock, listLock, work, seedMarker>>

\* A retained version is restored.
RestoreVersion ==
  /\ Event
  /\ \E i \in DOMAIN versions :
       /\ versions[i] # formal
       /\ formal' = versions[i] /\ waiting' = FALSE /\ Store(<<versions[i]>>, {})
  /\ UNCHANGED <<stored, manifest, lists, draft, published, syncLock, listLock, work, seedMarker>>

---------------------------------------------------------------------------
(* Geo data.                                                               *)

\* apply_manifest_paths, and replace_blocklist_path where the content still names the file.
WithGeo(content, copy) == [content EXCEPT !.geo = copy]
WithLists(content, old, new) ==
  IF new # NoFile /\ content.block = old THEN [content EXCEPT !.block = new] ELSE content

\* sync, import_builtin_geosite and the task wait for sync_lock.
TakeSyncLock(a) == syncLock = Free /\ syncLock' = a

SyncGeoData(p) ==
  /\ Begin(p, [Rest EXCEPT !.pc = "download", !.kind = "geo"]) /\ TakeSyncLock(p)
  /\ UNCHANGED <<stored, manifest, lists, geoConfig, draft, published, listLock, seedMarker,
                 exposed>>

\* run_due_geo_schedule with a link in the manifest.
ScheduledGeoUpdate ==
  /\ manifest # NoFile
  /\ Begin(Task, [Rest EXCEPT !.pc = "download", !.kind = "geo"]) /\ TakeSyncLock(Task)
  /\ UNCHANGED <<stored, manifest, lists, geoConfig, draft, published, listLock, seedMarker,
                 exposed>>

\* download_file and write_file: the file is there before anything names it.
Download(a) ==
  /\ work[a].pc = "download"
  /\ LET copy == IF work[a].kind = "geo" THEN published ELSE 0
     IN  \/ /\ stored' = stored \union {GeoFile(copy)}
            /\ Go(a, [work[a] EXCEPT !.pc = "manifest", !.copy = copy]) /\ UNCHANGED syncLock
         \/ Ends(a) /\ syncLock' = Free /\ UNCHANGED stored
  /\ UNCHANGED <<manifest, lists, geoConfig, draft, published, listLock, seedMarker, exposed>>

\* The manifest is stored and the lock given back; the page puts the path into its draft,
\* the task goes on to write it.
StoreManifest(a) ==
  /\ work[a].pc = "manifest"
  /\ manifest' = work[a].copy /\ syncLock' = Free /\ LosesRecord
  /\ IF a = Task THEN Go(a, [work[a] EXCEPT !.pc = "apply"]) /\ UNCHANGED draft
     ELSE Ends(a) /\ draft' \in {draft, WithGeo(draft, manifest')}
  /\ UNCHANGED <<stored, lists, geoConfig, published, listLock, seedMarker>>

\* import_builtin_geosite refuses when there is Geo data.
ImportBuiltin(p) ==
  /\ manifest = NoFile
  /\ Begin(p, [Rest EXCEPT !.pc = "download", !.kind = "import"]) /\ TakeSyncLock(p)
  /\ UNCHANGED <<stored, manifest, lists, geoConfig, draft, published, listLock, seedMarker,
                 exposed>>

\* seed_builtin_geosite at a start: import unless that is done, write, clear the marker.
SeedBuiltin ==
  /\ seedMarker /\ syncLock = Free
  /\ IF SystemBase(FALSE).geo = NoFile /\ manifest \in {NoFile, 0}
     THEN /\ \/ manifest = NoFile /\ TakeSyncLock(Task)
               /\ Begin(Task, [Rest EXCEPT !.pc = "download", !.kind = "seed"])
             \/ manifest = 0 /\ UNCHANGED syncLock
               /\ Begin(Task, [Rest EXCEPT !.pc = "apply", !.kind = "seed", !.copy = 0])
          /\ UNCHANGED seedMarker
     ELSE Begin(Task, Rest) /\ seedMarker' = FALSE /\ UNCHANGED syncLock
  /\ UNCHANGED <<stored, manifest, lists, geoConfig, draft, published, listLock, exposed>>

\* apply_synced_geo_data: the write and the retained versions under config_apply_lock, then
\* the clean-up; the seed clears its marker instead.
ApplyGeoData ==
  /\ work[Task].pc = "apply" /\ work[Task].kind \in {"geo", "seed"}
  /\ LET Edit(content) == WithGeo(content, work[Task].copy)
         stale == manifest # work[Task].copy
     IN  \/ /\ \E up \in BOOLEAN : WriteSystemConfig(up, stale, Edit(SystemBase(up)))
            /\ IF work[Task].kind = "seed" THEN Ends(Task) /\ seedMarker' = FALSE
               ELSE /\ Go(Task, [Rest EXCEPT !.pc = "clean",
                                             !.retained = {formal'} \union ToSet(versions')])
                    /\ UNCHANGED seedMarker
         \/ SystemWriteFails(stale, Edit(formal)) /\ Ends(Task) /\ UNCHANGED seedMarker
  /\ UNCHANGED <<stored, manifest, lists, draft, published, syncLock, listLock>>

---------------------------------------------------------------------------
(* Blocklists.                                                             *)

TakeListLock(a) == listLock = Free /\ listLock' = a

\* BlocklistManager::build: what the page subscribes to, what of it is on, what downloads.
BuildBlocklists(p) ==
  /\ TakeListLock(p)
  /\ \E subs \in (SUBSET Lists) \ {{}} : \E on \in {subs} \union {{l} : l \in subs} :
     \E named \in {{}, subs} :
       Begin(p, [Rest EXCEPT !.pc = "fetch", !.kind = "build", !.subs = subs, !.on = on,
                             !.named = named, !.state = lists])
  /\ UNCHANGED <<stored, manifest, lists, geoConfig, draft, published, syncLock, seedMarker,
                 exposed>>

\* run_due_blocklist_schedule, refresh_running: the file the configuration uses, and whether
\* it records its sources, before the lock.
ScheduledRefresh ==
  /\ \E up \in BOOLEAN :
       LET old == SystemBase(up).block
       IN  /\ old # NoFile /\ MergedFile(old) \in stored
           /\ Begin(Task, [Rest EXCEPT !.pc = "recall", !.kind = "refresh", !.old = old])
  /\ UNCHANGED <<stored, manifest, lists, geoConfig, draft, published, syncLock, listLock,
                 seedMarker, exposed>>

\* Mutant: a list without a record is left without one.
RecalledNone(state, old) == state

\* recall_sources: the copy the file names stands in for a record that is not there.
Recalled(state, old) ==
  [state EXCEPT !.sources = [l \in Lists |->
     IF @[l] \in Copies THEN @[l]
     ELSE LET held == {n \in Copies : <<l, n>> \in old /\ RawFile(<<l, n>>) \in stored}
          IN  IF held = {} THEN @[l] ELSE CHOOSE n \in held : TRUE]]

RecallSources ==
  /\ work[Task].pc = "recall" /\ TakeListLock(Task)
  /\ LET used == ListsIn(work[Task].old)
     IN  Go(Task, [work[Task] EXCEPT !.pc = "fetch", !.subs = used, !.on = used, !.named = used,
                                   !.state = Recalled(lists, work[Task].old)])
  /\ UNCHANGED <<stored, manifest, lists, geoConfig, draft, published, syncLock, seedMarker,
                 exposed>>

\* needs_download: never tried, or the copy is gone.
NeedsDownload(l, state) ==
  \/ state.sources[l] = Untried
  \/ state.sources[l] \in Copies /\ RawFile(<<l, state.sources[l]>>) \notin stored

\* update: the lists download together; each is taken, held back for having shrunk, or fails.
FetchLists(a) ==
  /\ work[a].pc = "fetch"
  /\ LET due == {l \in work[a].subs : l \in work[a].named \/ NeedsDownload(l, work[a].state)}
     IN  \/ \E taken \in SUBSET due : \E held \in {{}, due \ taken} :
              /\ stored' = stored \union {RawFile(<<l, published>>) : l \in taken \union held}
              /\ Go(a, [work[a] EXCEPT !.pc = "merge", !.named = {},
                   !.state.sources = [l \in Lists |->
                     IF l \in taken THEN published
                     ELSE IF l \in due /\ @[l] = Untried THEN NoFile ELSE @[l]]])
              /\ UNCHANGED listLock
         \* A write of the disk fails: nothing is recorded.
         \/ Ends(a) /\ listLock' = Free /\ UNCHANGED stored
  /\ UNCHANGED <<manifest, lists, geoConfig, draft, published, syncLock, seedMarker, exposed>>

\* merge: the lists that are on and have a copy, whatever their order.
MergeLists(a) ==
  /\ work[a].pc = "merge"
  /\ LET sources == {<<l, work[a].state.sources[l]>> :
                       l \in {l \in work[a].on : work[a].state.sources[l] \in Copies}}
         new == IF sources = {} THEN NoFile ELSE sources
     IN  IF \A source \in sources : RawFile(source) \in stored
         THEN /\ stored' = stored \union FileOf(new, MergedFile(new))
              /\ Go(a, [work[a] EXCEPT !.pc = "record", !.new = new]) /\ UNCHANGED listLock
         ELSE Ends(a) /\ listLock' = Free /\ UNCHANGED stored
  /\ UNCHANGED <<manifest, lists, geoConfig, draft, published, syncLock, seedMarker, exposed>>

\* The state is stored with what was built, and the lock given back.
RecordLists(a) ==
  /\ work[a].pc = "record" /\ listLock' = Free /\ LosesRecord
  /\ lists' = IF a = Task THEN [work[a].state EXCEPT !.refreshed = work[a].new]
              ELSE [work[a].state EXCEPT !.built = work[a].new, !.requested = work[a].subs]
  /\ IF a = Task
     THEN /\ Go(a, [Rest EXCEPT !.pc = "apply", !.kind = "refresh", !.old = work[a].old,
                                !.new = work[a].new])
          /\ UNCHANGED draft
     ELSE Ends(a) /\ draft' \in {draft, [draft EXCEPT !.block = work[a].new]}
  /\ UNCHANGED <<stored, manifest, geoConfig, published, syncLock, seedMarker>>

\* apply_scheduled_blocklist_update: the old file gives way to the new one where the
\* configuration still names it.
ApplyLists ==
  /\ work[Task].pc = "apply" /\ work[Task].kind = "refresh"
  /\ LET old == work[Task].old
         new == work[Task].new
         Edit(content) == WithLists(content, old, new)
     IN  \/ /\ \E up \in BOOLEAN : WriteSystemConfig(up, FALSE, Edit(SystemBase(up)))
            /\ Go(Task, [Rest EXCEPT !.pc = "clean",
                                     !.retained = {formal'} \union ToSet(versions')])
         \/ SystemWriteFails(FALSE, Edit(formal)) /\ Ends(Task)
  /\ UNCHANGED <<stored, manifest, lists, draft, published, syncLock, listLock, seedMarker>>

---------------------------------------------------------------------------
(* The clean-up.                                                           *)

\* cleanup_geo_data: the retained versions are read, without config_apply_lock.
CleanUp(p) ==
  /\ Begin(p, [Rest EXCEPT !.pc = "clean", !.retained = Retained])
  /\ UNCHANGED <<stored, manifest, lists, geoConfig, draft, published, syncLock, listLock,
                 seedMarker, exposed>>

\* What the merged files of the retained versions record.
RetainedSources(retained) ==
  UNION {c.block : c \in {c \in retained : c.block # NoFile /\ MergedFile(c.block) \in stored}}

\* BlocklistManager::cleanup: lists nobody asks for lose their record.
ForgetLists(a) ==
  /\ work[a].pc = "clean" /\ TakeListLock(a)
  /\ lists' = [lists EXCEPT !.sources = [l \in Lists |->
                 IF l \in lists.requested \union ListsIn(RetainedSources(work[a].retained))
                 THEN @[l] ELSE Untried]]
  /\ Go(a, [work[a] EXCEPT !.pc = "cleanLists"])
  /\ UNCHANGED <<stored, manifest, geoConfig, draft, published, syncLock, seedMarker, exposed>>

\* Mutant: the raw copies and builds that only the blocklists know are not kept.
ProtectedGeo(retained) ==
  (UNION {FilesOf(c) : c \in retained}) \union FileOf(manifest, GeoFile(manifest))

\* protected_paths and protected_geo_paths.
Protected(retained) ==
  (UNION {FilesOf(c) : c \in retained}) \union FileOf(manifest, GeoFile(manifest))
    \union FileOf(lists.built, MergedFile(lists.built))
    \union FileOf(lists.refreshed, MergedFile(lists.refreshed))
    \union {RawFile(<<l, lists.sources[l]>>) : l \in {l \in Lists : lists.sources[l] \in Copies}}
    \union {RawFile(source) : source \in RetainedSources(retained)}

\* GeoDataManager::cleanup reads the manifest and the directory under sync_lock.
FindUnreferenced(a) ==
  /\ work[a].pc = "cleanLists" /\ TakeSyncLock(a)
  /\ Go(a, [work[a] EXCEPT !.pc = "remove", !.doomed = stored \ Protected(work[a].retained)])
  /\ UNCHANGED <<stored, manifest, lists, geoConfig, draft, published, listLock, seedMarker,
                 exposed>>

\* One file after the other; an error ends it.  Both locks are held: removals that go on after
\* their request was dropped (geo_data.rs:345) are left out.
RemoveFile(a) ==
  /\ work[a].pc = "remove" /\ work[a].doomed # {}
  /\ LET file == CHOOSE f \in work[a].doomed : TRUE
     IN  /\ stored' = stored \ {file}
         /\ Go(a, [work[a] EXCEPT !.doomed = @ \ {file}])
  /\ UNCHANGED <<manifest, lists, geoConfig, draft, published, syncLock, listLock, seedMarker,
                 exposed>>

EndCleanup(a) ==
  /\ work[a].pc = "remove" /\ Ends(a) /\ syncLock' = Free /\ listLock' = Free
  /\ UNCHANGED <<stored, manifest, lists, geoConfig, draft, published, seedMarker, exposed>>

---------------------------------------------------------------------------
(* Around it.                                                              *)

NewCopy ==
  /\ published < MaxCopy /\ published' = published + 1
  /\ UNCHANGED <<stored, manifest, lists, geoConfig, draft, syncLock, listLock, work,
                 seedMarker, geoEvents, exposed>>

\* The panel ends and starts again, with its database or with a new one, whose history
\* begins with the formal file.
GeoRestart ==
  /\ Event
  /\ work' = [a \in Actors |-> Rest] /\ syncLock' = Free /\ listLock' = Free
  /\ \/ UNCHANGED <<manifest, lists, versions, waiting, exposed>>
     \/ /\ manifest' = NoFile /\ lists' = NoLists
        /\ versions' = <<formal>> /\ waiting' = FALSE
        /\ exposed' = [flaw \in Flaws |-> exposed[flaw] \intersect {formal}]
  /\ UNCHANGED <<stored, formal, draft, published, seedMarker>>

GeoStep(a) ==
  \/ Download(a) \/ StoreManifest(a) \/ FetchLists(a) \/ MergeLists(a) \/ RecordLists(a)
  \/ ForgetLists(a) \/ FindUnreferenced(a) \/ RemoveFile(a) \/ EndCleanup(a)

GeoNext ==
  \/ \E a \in Actors : GeoStep(a)
  \/ \E p \in Pages : SyncGeoData(p) \/ ImportBuiltin(p) \/ BuildBlocklists(p) \/ CleanUp(p)
  \/ ScheduledGeoUpdate \/ SeedBuiltin \/ ApplyGeoData
  \/ ScheduledRefresh \/ RecallSources \/ ApplyLists
  \/ LoadDraft \/ SaveDraft \/ RestoreVersion \/ NewCopy \/ GeoRestart

GeoSpec == GeoInit /\ [][GeoNext]_geoVars

---------------------------------------------------------------------------
PathOrNone == ((SUBSET (Lists \X Copies)) \ {{}}) \union {NoFile}
ContentType == [geo : Copies \union {NoFile}, block : PathOrNone]
ListsType == [sources : [Lists -> Copies \union {NoFile, Untried}], built : PathOrNone,
              refreshed : PathOrNone, requested : SUBSET Lists]

GeoTypeOK ==
  /\ \A f \in stored : f.kind \in {"geo", "raw", "merged"}
  /\ manifest \in Copies \union {NoFile}
  /\ lists \in ListsType
  /\ {formal, draft} \union ToSet(versions) \subseteq ContentType
  /\ exposed \in [Flaws -> SUBSET Retained]
  /\ Len(versions) \in 1 .. KeptVersions
  /\ {waiting, seedMarker} \subseteq BOOLEAN
  /\ published \in Copies
  /\ {syncLock, listLock} \subseteq Actors \union {Free}
  /\ \A a \in Actors : work[a].state \in ListsType /\ work[a].doomed \subseteq stored
  /\ geoEvents \in 0 .. MaxGeoEvents

\* Every file a retained version names is there, so that a roll back to it works
\* (app/geo.rs:478), and every copy its merged file is made of, so that an update can fall
\* back on it, whatever downloads, builds and clean-ups were under way; left out are
\* drafts saved behind the back of a clean-up, or naming a file that was gone already, and
\* what the task wrote or had written when another request moved the manifest on.
\* And whatever the panel has on record - the manifest, the file built last for a draft, the
\* file a scheduled update is about to write, the copy of each list - is there.
NamedFilesExist ==
  /\ GeoTypeOK
  /\ \A flaw \in Flaws : \A content \in Retained \ exposed[flaw] :
       Needed(flaw, content) \subseteq stored
  /\ FileOf(manifest, GeoFile(manifest)) \subseteq stored
  /\ FileOf(lists.built, MergedFile(lists.built)) \subseteq stored
  /\ FileOf(lists.refreshed, MergedFile(lists.refreshed)) \subseteq stored
  /\ \A l \in Lists : lists.sources[l] \in Copies => RawFile(<<l, lists.sources[l]>>) \in stored

\* A scheduled update never drops a list from the configuration, whether its download fails
\* or the database was replaced (blocklist_data.rs:281): the file it is about to write in the
\* place of one that a version names has the same lists.
ListsStay ==
  work[Task].pc = "apply" /\ work[Task].kind = "refresh" /\ work[Task].new # NoFile
    => \A content \in Retained \ exposed["copy"] :
         content.block = work[Task].old => ListsIn(work[Task].new) = ListsIn(work[Task].old)
=============================================================================
