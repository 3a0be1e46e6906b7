# KixDNS Panel: a verification project

KixDNS Panel is a web panel for the DNS server KixDNS. Its server (Rust, `crates/panel-server`)
owns the configuration KixDNS reads, the KixDNS binary, the Geo data and blocklists, the query
log and the web sessions; a small root helper starts and stops the services; an installer, an
online update and an uninstaller (shell, `scripts/`) put all of it on a host and take it off; a
Vue application is the user interface. KixDNS itself is another program that the panel reaches
over a Unix socket (`docs/control-protocol-v1.en.md`).

This directory holds TLA+ models of the parts where the order of things matters, the TLC runs
that check them on small instances, and theorems with proofs checked by TLAPS. `PROJECT.json`
lists the components, runs, mutants, hazards and theorems, and maps every definition to the
source lines it models. Paths below are relative to `src/crates/panel-server/src/` unless they
begin with another directory of `src/`.

## 1. Inventory

### Configuration apply (`app.rs`, `config_store.rs`, `control.rs`)

*State.* The formal configuration file KixDNS watches; the `config_versions` table; the lock
`config_apply_lock`; the locals of the handler that holds it; KixDNS's process and its last
reload receipt (content in effect, sequence number, success).
*Operations.* Reading, saving, restoring and deleting versions; applying the pending version by
hand or by the 5 second reconciler; the Geo and blocklist schedules, which change the
configuration themselves and roll it back when KixDNS does not take it.
*Interaction.* The handlers write the file; KixDNS's file watch reloads; the handlers poll the
receipt for up to 5 seconds.
*Hard.* Requests dropped with their connection at any await, failing writes, the panel
restarting, KixDNS stopping or restarting in the middle, receipts that arrive late, pages that
show something older than the server has.
*Correct when* an apply is all or nothing; the file of an idle panel holds a content KixDNS has
had in effect; a version is marked applied only when confirmed; nobody overwrites what they
have not seen; a version left pending gets an outcome; the lock is given back.

### Configuration history (`db.rs`)

*State.* The rows of `config_versions` with their apply state.
*Operations.* Storing (superseding the open version), marking applied or failed, importing at
start-up, deleting, pruning to 100 rows.
*Hard.* Row ids are given out again after the newest row is deleted; pruning and superseding in
one transaction; "the newest open version" is a query, not a stored fact.
*Correct when* there is at most one open version, it is the newest row, and the newest applied
row is the configuration in the file, which keeps it from being deleted (see 6 for an import).

### Restart settings and roll back (`app/restart.rs`)

*State.* A record of settings that only a restart of KixDNS changes: the values the running
process started with, whether a restart is pending, the process seen and since when.
*Operations.* Noting that KixDNS is alive or unreachable, offering and doing a roll back,
restarting with a pending change.
*Hard.* A process that answers and then dies inside the steady period; a record about a process
that has been replaced since.
*Correct when* a roll back returns to values a process has come up with and never overwrites a
later change.

### Query log (`app/querylog.rs`, `querylog.rs`)

*State.* KixDNS's ring of records, numbered from 1 in each process; the collector's cursor,
the pages it has asked for ahead, what it remembers of the newest number and of unrecorded
requests; one segment file per hour, plain or compressed, the table of them, the state file.
*Operations.* A collecting round (several pages at once, or page by page), appending a page,
moving the cursor, housekeeping (compressing, expiring, dropping by size, syncing), clearing,
reopening, reading back page by page.
*Interaction.* A request for a page also tells KixDNS how far is stored, and KixDNS deletes
that far. Housekeeping, the user's "clear" and readers run beside the collector.
*Hard.* Pages answered out of order or late, requests abandoned but still carried out, both
processes restarting, a ring that overflows while pages are on their way, a crash between the
append and the cursor, records too large for any reply; files renamed and removed under a
reader; a clock that steps back.
*Correct when* no record is stored twice, none disappears without being counted in a gap row,
gap rows count only what is missing, KixDNS deletes only what is stored, the panel catches up;
ids only go up, nothing is dropped before its time, and a walk through the pages misses nothing.

### Control protocol client (`control.rs`)

*State.* Kept-alive connections. *Operations.* A request on a kept or a new connection, sent
again once when the kept one turns out closed; parsing the replies; one deadline over all of it.
*Hard.* A connection KixDNS closed, an answer nobody waits for any more, a restart of KixDNS.
*Correct when* a request reads the reply to itself and an idle connection costs no request.

### Geo data and blocklists (`geo_data.rs`, `blocklist_data.rs`, `blocklist.rs`, `app/geo.rs`, `app/blocklist.rs`)

*State.* Content-addressed files, the manifests of what was built last, each list's copy and
status, the schedules' settings, the references of the retained configuration versions.
*Operations.* Downloading, importing, building and merging, scheduled updates, clean-up.
*Hard.* Clean-up removes what no retained version names while a new file is being prepared;
a download that fails while others succeed; a setting read, worked on and stored without a lock;
rules of many lists that cancel, cover and except each other.
*Correct when* no retained version names a file that is gone, no list is dropped, the merged
file means what the lists say, and an update does not come before its interval is over.

### Kernel update and rollback (`updates/`, `app/updates.rs`)

*State.* The active binary, the store of verified versions, the settings naming the active and
the previous version, the service.
*Operations.* Finding and checking a release, storing it, activating it, restoring the earlier
binary, rolling back, pruning, replacing an old-track kernel, adopting what is there at start.
*Hard.* The panel ends between the rename of the binary, the restart of the service and the
setting; the new kernel does not come up; putting the earlier one back fails as well; GitHub's
files change between the manifest and the package.
*Correct when* the recorded active version is the binary in place once the panel has settled,
a failed activation leaves the earlier kernel, and what is stored is what was offered.

### Login, sessions and setup (`auth.rs`, `db.rs`, `app.rs`)

*State.* Attempts per account and address in a window, hashing slots, sessions, the first user.
*Hard.* Checks that wait for a password-hashing slot; two setup requests; limits at their edge.
*Correct when* an attempt is counted before its password is looked at, the first user is
created once, and a session belongs to the account that earned it.

### Request trend (`app.rs`, `recent_window.rs`, `db.rs`)

*State.* Samples of KixDNS's counters, in the database and for an hour in memory.
*Hard.* Counters that start again from zero, gaps, both sides restarting, buckets at the edge.
*Correct when* the chart shows what was counted: nothing lost, nothing invented.

### Installer and online update (`scripts/install.sh`, `scripts/panel-online-update.sh`, `panel_update.rs`, `crates/panel-helper`)

*State.* The pieces of a release on the disk, what runs and what the boot starts, a backup of
what a run replaces, the status file of the online update.
*Hard.* A command that fails, a signal, a kill or a loss of power after some pieces are in place.
*Correct when* a run either completes or rolls back, and what is told is true.

### Uninstaller (`scripts/uninstall.sh`)

*State.* What is left on the host, which is also all a further run knows.
*Hard.* A run that failed midway and is run again with the same or with other answers.
*Correct when* what was asked is what is done, and what is not the panel's stays.

### Service operations, diagnostics, region lookup, web front end

`operations.rs`, `diagnostics.rs`, `ip_region.rs` and `web/`: start, stop and restart go through
`systemctl` by way of the helper; the rest are request-scoped reads, pure parsing, and the
editors and views. For the server the front end is a page that remembers the digest it last read.

## 2. Plan

| state | module | models | abstract specification / composed in |
|---|---|---|---|
| done | `ConfigHistory` | the table's transactions, as operators | used by `ConfigApply`, `RestartRollback` |
| done | `ConfigApply` | every change of the formal file and table | implements `AtomicConfig`; `MCConfigApply`, `MCConfigFiles` |
| done | `RestartRollback` | the startup record, the roll back, the unchecked write | reduces an apply to what `ConfigApply` shows of it; `MCRestartRollback` |
| done | `QueryLogHandoff` | KixDNS's ring to the panel's files | `MCQueryLog`, `MCQueryLogFiles` |
| done | `LogSegments` | the segment files, their readers and their clean-up | `MCQueryLogFiles` |
| done | `ControlPool` | kept connections and resends | `MCQueryLogFiles` |
| done | `GeoFiles` | files, retained versions, clean-up | `MCConfigFiles` |
| done | `BlocklistRules` | what merged lists mean, against a reference | `MCConfigFiles` |
| done | `UpdateSchedule` | when a scheduled update runs | `MCPanel` |
| done | `KernelSwitch` | binary, service, settings, store | `MCPanel` |
| done | `KernelPackages` | what is offered, checked, kept and read again | `MCPanel` |
| done | `Sessions` | setup, login limiter, slots | `MCPanel` |
| done | `RequestMetrics` | the charts against a reference | `MCPanel` |
| done | `PanelInstall` | the installer and the online update | `MCConfigFiles` |
| done | `PanelUninstall` | the uninstaller | `MCConfigFiles` |
| done | `HostProofs` | the proofs about `KernelSwitch`, `PanelInstall` and `PanelUninstall` | |
| done | `RequestProofs`, `QueryLogCountProofs` | the proofs about `Sessions` and `ControlPool`; about what gap rows count | |
| done | `FileProofs` | the proofs about `GeoFiles`, `UpdateSchedule` and `LogSegments` | |
| next | `ConfigApply` | a `spawn_blocking` write that lands after its dropped handler gave the lock back | |
| next | `ConfigPage` | the editor's page: draft, baseline, a save that gets no answer | beside `ConfigApply` |

`ConfigApply`, `ConfigHistory`, `AtomicConfig`, `QueryLogHandoff`, `RestartRollback`,
`KernelSwitch`, `PanelInstall`, `PanelUninstall`, `Sessions`, `ControlPool`, `GeoFiles` and
`UpdateSchedule` are proved about.

## 3. What is modelled

A composite module (`MCConfigFiles`, `MCQueryLogFiles`, `MCPanel`) puts parts that share no
state into one run: the variable `part` is chosen at the start, the actions of that part happen
and the others stay as they are. So every behaviour of each part is a behaviour of the run,
and no combination is multiplied out. Where parts do touch, one of them has the whole of the
other's effect in one step: `ConfigApply` takes the files as part of a content, `GeoFiles` has an
apply as one step, `QueryLogHandoff` has the segments as one sequence of rows, and the
installer has a change made in the panel as one step.

### `ConfigHistory`, `ConfigApply`, `AtomicConfig`
`ConfigHistory` is the table as a function from ids to rows, one operator per transaction of
`db.rs`. A content is a model value and stands for its bytes, which the code tells apart by their
SHA-256 digest. `Formatted` (`format_json`) gives the content the panel writes for the same JSON value:
every save, restore and schedule stores that, and so does `RestoreFormal` when an apply failed
(`config_store.rs:212`). Only the import of the first start stores a file as it was found.

`ConfigApply` has one action for each stretch between two awaits of a handler:

| action | code |
|---|---|
| `ReadConfig` | `get_config` |
| `SaveConfig`, `RestoreConfig` (`SavePending`) | `save_config`, `restore_config` up to `apply_pending_candidate` |
| `ApplyPendingConfig`, `ReconcilePending` | `apply_pending_config`, `reconcile_pending` |
| `DeleteConfigVersions` | `delete_config_version(s)` |
| `AcceptCandidate`, `RefuseCandidate`, `Defer` | `validate_candidate`, `mark_candidate_failed`, `pending_response` |
| `SnapshotBefore`, `WritePending`, `WaitAcknowledged`, `WaitFailed`, `RestoreFormal`, `MarkFailed`, `MarkApplied` | `activate_candidate` |
| `SystemWriteBegin` to `SystemWait`, `SystemSavePending` | `write_system_config` |
| `RollbackWrite`, `RollbackStore`, `RollbackWait` | `rollback_config` |
| `DropRequest`, `FailWrite`, `RestartPanel` | a dropped future, an error return, `build_app` |
| `KernelStart`, `KernelStop`, `KernelReload` | external: KixDNS |

`op` is the handler that holds the lock, `view` what a user's page last read, `loaded` a history
variable: what KixDNS has had in effect. A content may fail to load although KixDNS's validation
accepted it, so the roll back is reachable with valid contents. The properties about what was in effect compare JSON values
(`SameValue`), since a roll back puts back a value and not bytes. `NewestAppliedIsFormal` says
besides that the newest applied version has the digest of the file unless it is an import in
another format. The digest decides which version a page shows as the current one and which one
`delete_config_versions` keeps.

`AtomicConfig` is what the panel promises, of JSON values: one content in effect, at most one
candidate, a candidate that takes effect as a whole or not at all. `ConfigApply` implements it without faults
under the mapping `FormalInEffect` (between the two writes of a handler the change counts from
the row that is stored or marked).

### `QueryLogHandoff`

| action | code |
|---|---|
| `BeginRound`, `EndParallel`, `EndWalk` | `Collector::collect`, `collect_parallel` |
| `AskAhead`, `AskNext` | `fetch`, `ControlClient::querylog` |
| `TakePage`, `TakeGone`, `TakeOverlap`, `TakeRestarted`, `TakeTooLarge`, `TakeFailure` | the cases of `collect_parallel` |
| `WalkPage`, `WalkRestarted`, `WalkHalve` | the cases of `collect` |
| `SkipOversized`, `SkipFindsRestart` | `skip_oversized` |
| `AppendRows`, `AppendFails`, `Advance` | `store_page`, `QueryLogStore::append`, `abandon_open`, `set_cursor` |
| `SaveState`, `DropRows` | `maintain`, `enforce`, `clear`, `save_state` |
| `PanelEnds`, `PanelStarts` | a process end, `QueryLogStore::open` |
| `KernelRecord` ... `Answer`, `AnswerStray`, `RequestFails` | external: KixDNS and the socket |

A record is its process and number, a gap row its two counts (the code stores their sum; the
model keeps them apart so that properties can speak of each). `log` holds every row ever
written; `cleared` says how many of them are no longer on disk, so that "never twice" also
covers what was cleared. A deletion asked for by a request that was abandoned or failed may
still reach KixDNS: `stray` is the furthest of these. KixDNS may be restarted at any time when
`EarlyRestarts` is set; otherwise not while the panel has heard of its process, or is about to,
and has taken none of its records (`NoneTaken`: the cursor is at the process's start, or an
answer of the process is on its way; see 6 for what happens then). `since` is a history variable: the number
from which the panel has recorded a process (what a ring lost before the panel's first request
is no gap, by design). A save of the state file that changes nothing a restart would find is no
step. KixDNS's answers are any the protocol allows, including a page that goes past `until`
when `Overruns` is set, which `collect_parallel` defends against.

Left out: the segments (in `LogSegments`), the connections (in `ControlPool`), the live page,
and how an answer is classified; a state file that cannot be written while rows are dropped
(the code accepts that the cursor is lost); a power loss that takes back synced writes; a
change of what KixDNS supports in the middle of a round.

### `RestartRollback`

| action | code |
|---|---|
| `PassAsks`, `PassReadsFormal`, `PassNotes` | `observe`, `note_alive`, `seen_alive`, `update` |
| `PassReadsService`, `PassMarks` | `note_unreachable` |
| `RollBack`, `ReadService`, `MarkDown`, `AcceptRollback`, `SaveRolledBack`, `WriteRolledBack`, `SaveCarried`, `RememberRollback`, `RequestRestart`, `SettleRestart` | `roll_back` |
| `ShowPending` | `get_config`, `ways_out`, `writable_pending` |
| `RestartWithPending`, `AcceptPending`, `WritePending` | `restart_with_pending` |
| `ServiceRestart`, `ObserveAsks`, `ObserveNotes`, `ServiceStop`, `ServiceStart` | `service_action` |
| `ReconcilePending`, `ApplyReads` to `ApplyFails` | `reconcile_pending`, `activate_candidate` with its note before the reload |
| `SaveConfig`, `DeleteVersion` | `save_config`, `delete_config_versions` |
| `KernelStart` to `KernelReloads` | external: KixDNS and systemd |

A content is its restart-only settings and its body, in the panel's own format. KixDNS reads the formal file when it is
started, answers for a moment before it binds, and reports which settings wait for a restart by
comparing what it runs with what it started with (`started`, a history variable; `cameUp` are
the processes that bound). `op` holds `config_apply_lock`; `reader` is the background pass, and
a page's read is the same steps. `shown` is the pending version the page offers to write;
`carriedId` is a history variable that follows the row of the edits a finished roll back carried.
`failed` and `auto-restart` are one service state, as `did_not_come_up` treats them alike.

Left out: a database error on the record (logged and the record left alone); the two requests of
one pass being answered by two processes (they are sent together); a KixDNS that reports no list
of waiting settings; `rollback_origin`, which only labels versions.

### `LogSegments`

| action | code |
|---|---|
| `AppendRecords`, `AppendAbandons` | `append`, `abandon_open` |
| `BeginTidy`, `ReadPlain`, `RenameCompressed`, `NoteCompressed`, `UnlinkPlain`, `Enforce`, `RemoveDropped`, `SyncClosed`, `EndTidy` | `maintain`, `compress`, `forget`, `enforce`, `remove_all` |
| `ClearLog`, `RemoveCleared` | `clear` of the store and of the page's handler |
| `BeginWalk`, `NextPage`, `ReadSegment`, `EndPage` | `query_log`, `read_page_within`, `for_each_line_rev`, `Scan::line` |
| `LogRestart`, `ClockMoves` | `open` after an end of the panel or a loss of power; external: the clock |

The table of segments is under one mutex; the files are read, renamed and removed outside it,
and each such stretch is a step. `PanelStartsOn` is `open`: which files it takes, completes or
removes, and where ids go on; `FilesInOrder` is its sort, as the one sequence of the files in their
order, and `Among` the `retain` and `filter` of every list of segments, written so that the
proofs can expand them. A walk remembers what it must find: what was in the log within
retention when a page began and is newer than what was seen. Left out: ids given out again after
a loss of power that pages had seen, an unreadable newest segment, compressed files
removed by somebody else.

### `ControlPool`

| action | code |
|---|---|
| `BeginRequest`, `TakeIdle`, `ConnectionReady`, `Connect`, `Send`, `ReceiveHead`, `TimesOut` | `request_within`, `request_reusing`, `take_idle`, `connect`, `send` |
| `ReadReply` | `read_and_keep`, `read_reply` |
| `DropCall`, `ServerEnds`, `ServerStarts`, `ServerClosesIdle` | external: the caller, KixDNS |

### `GeoFiles`

| action | code |
|---|---|
| `SyncGeoData`, `ScheduledGeoUpdate`, `Download`, `StoreManifest`, `ApplyGeoData` | `sync_geo_data`, `run_due_geo_schedule`, `GeoDataManager::sync`, `apply_synced_geo_data` |
| `ImportBuiltin`, `SeedBuiltin` | `import_builtin_geosite`, `seed_builtin_geosite` |
| `BuildBlocklists`, `ScheduledRefresh`, `RecallSources`, `FetchLists`, `MergeLists`, `RecordLists`, `ApplyLists` | `build_blocklists`, `run_due_blocklist_schedule`, `refresh_running`, `update`, `merge`, `store`, `apply_scheduled_blocklist_update` |
| `CleanUp`, `ForgetLists`, `FindUnreferenced`, `RemoveFile`, `EndCleanup` | `cleanup_geo_data`, `BlocklistManager::cleanup`, `GeoDataManager::cleanup` |
| `LoadDraft`, `SaveDraft`, `RestoreVersion` | `get_config`, `save_config`, `restore_config` as one step each |
| `NewCopy`, `GeoRestart` | external: the links; the panel's end, with its database kept or replaced |

Files are named by content, so a file is a value. The history variable `exposed` holds the
versions for which the code does not promise that what they need is there, by flaw: `"file"`, a
file the content names may be missing; `"copy"`, a copy of a list its merged file is made of may be
missing. `NamedFilesExist` and `ListsStay` speak of the other versions and of what is on record.
Excluded are:

* a draft saved between a clean-up's reading of the history and its removals (`app/geo.rs:482`),
  and a draft that names files already gone (`Exposing`);
* the path of a manifest that another request replaced before the task wrote it (`stale`);
* a version whose files only a record kept, when the record was replaced while a clean-up was
  under way that had read the history without the version (`LosesRecord`);
* `"copy"` only: a merged file the task writes while a clean-up is under way that knows no version
  of that file, or whose copies are gone (`WriteFlaws`);
* `"copy"` only: a draft that brings the old file of a refresh under way back, when no other version
  named it (`Revives`).

A content stored again from one of these keeps its flaw. The last two have their own paragraphs in 6.

### `BlocklistRules`

Lines, rules and names are sequences of labels with modifiers. `ParseLine`, `Scan`, `Merge` and
`CategoriesOf` follow `blocklist.rs` and `BlocklistManager::merge` with their order, covering and
cutting; `Says` is an independent reading of what the lines of all lists say of a name, and
`Blocks` is what the four categories do to it in the page's rules. `FetchList` takes a copy or
holds it back when it shrank (`shrink_reason`), `Subscribe` changes the links in use.

### `UpdateSchedule`

`SetIntervalReads`/`SetIntervalStores` is a page's change, `LookWhetherDue`, `MarkAttempt...`,
`MarkResult...` the task's run; both read, change and store one setting without a lock.

### `KernelSwitch`

| action | code |
|---|---|
| `StartPanel`, `SettlePrevious` | `initialize_installed_version` |
| `BeginUpdate`, `BeginRollback`, `CheckLegacy`, `BeginReplacement` | `update_kixdns_kernel`, `rollback`, `legacy_kernel_to_replace`, `replace_legacy_kernel` |
| `FetchLatest`, `InstallResolved` | `update_locked`, `install_resolved` |
| `ReadReplaced`, `AdoptVersion`, `AdoptRecord`, `LoadTarget` | `activate_locked`, `adopt_active_version` |
| `WriteBinary`, `RestartTarget`, `CheckTarget` | `activate_binary`, `wait_until_healthy` |
| `RestoreBinary`, `RestartBack`, `CheckBack` | `restore_previous` |
| `RecordActive`, `RememberReplaced`, `NoteLegacy`, `PruneVersions`, `EndSwitch` | `activate_locked` after the activation, `remember_replaced`, `prune_versions`, `run_detached` |
| `PageReads`, `PageAdopts`, `PageRecords` | `UpdateManager::kernel` of a page, which takes no lock |
| `UnitStarts`, `UnitEnds`, `Publish`, `PanelEnds` | `service_action`, and external |

A switch runs on a task of its own, so a dropped request does not stop it; the end of the panel
does, at every step. `outdated` excludes one interleaving: a page that found a kernel before a
switch and records it after (`install.rs:853` from `catalog.rs:293`, without `apply_lock`).

### `KernelPackages`

`ReadRelease`, `ReadManifest`, `DownloadPackage`, `UnpackPackage` follow `fetch_latest`,
`install_resolved` and `extract_artifact`; `AdoptBundled` follows the way of a full package
(`read_bundled_package`); `CaptureCapabilities` asks the running kernel; `ReplaceFiles` and
`NetworkFails` are the world. What is offered is whole or wrong in exactly one field, so that
every check is needed; `Loaded` reads the result again by the other rules of `storage.rs`.

### `Sessions`

| action | code |
|---|---|
| `BeginSetup`, `CreateFirstUser` | `setup`, `create_first_user` |
| `BeginLogin`, `FindUser`, `TakeSlot`, `VerifyPassword`, `Audit`, `CreateSession` | `login`, `find_user`, `reserve`, `clear`, `issue_session` |
| `DropLogin`, `Logout`, `SessionExpires`, `WindowEnds`, `ResetAdmins`, `RestartSessions` | a dropped future, `logout`, `authenticate`, `prune`, `reset_admins`, the panel's end |

The limiter is a sequence of entries by age with its counts per address, as `AttemptTable`.
`ClientIp` walks `X-Forwarded-For` as `TrustedProxies` does. Requests under way while reset-admin
runs are excluded (`crossed`): ids of users are given out again.

### `RequestMetrics`

`HealthAnswers` and `MetricsAnswers` are the two requests that the sampler and the overview send
together (`app.rs:1525`, `:730`), answered in any order. `reading` has what was answered by now:
`SampleMetrics` notes and stores it, a page only shows it (`EndReading`, which is also a request that
failed). `KernelAnswers`, `KernelStartsAgain`, `SecondPasses`, `PanelForgets` are the world: KixDNS may
start again between the two answers. `Trend` follows `build_request_trend` with `IntervalDelta`,
`Scaled` and `Share`; `Since` and `Baseline` follow `recent_window.rs`. `asked` is a history
variable, the true count of each second.

`CountsAreTrue` is about trends and hours in which each sample and the page's own reading are `Whole`:
start and counters of one process. The code does not keep the others apart (see 6). Both
requests are answered and noted within a second, the resolution of `captured_at`. A page
shows nothing that was noted in its own second, so one reader at a time has them all.

### `PanelInstall`

| action | code |
|---|---|
| `Install`, `PreserveExternal`, `StopPanel`, `SaveDatabase`, `HaltKixdns`, `PutPiece`, `EnableServices`, `StartNewPanel`, `VerifyServices` | `main` of `install.sh`, in its order |
| `StepFails`, `UndoServices`, `UndoPiece`, `UndoKixdns`, `UndoPanel` | `fail`, `cancel_install`, `rollback_install` |
| `StartPanelUpdate`, `ShowChecking`, `CompareReleases`, `RunInstaller`, `UpdateFails`, `ReportUpdate`, `StatusAges` | `start_panel_update`, `panel-online-update.sh`, `PanelUpdateStatus` |
| `PanelChanges`, `InstallerKilled`, `PowerLoss` | external |

A host is a release per piece of the disk, what runs and what the boot starts. Planning and
saving what will be replaced are one step, and so is one `rm` or `cp`; `PutOrder` and `UndoOrder`
are the order of the pieces, and a run keeps the set of those that are left. `sound` says which
programs of the new release keep running, so every failure to come up is met. One installer runs
at a time (nothing in the code keeps two apart). `late` marks a change made in the panel after
the backup was taken, which a roll back takes back with the rest; `cut` a run that was killed.

### `PanelUninstall`

`BeginUninstall`, `RemoveComponents`, `RemoveDeadUnit`, `StopUnit`, `RemoveUnit`,
`RemoveProgram`, `PutOriginal`, `RestoreListener`, `RemoveData`, `RemovePanelAccount`,
`RemoveKixdnsConfig`, `RemoveKixdnsAccount`, `RemoveSettings`, `EndUninstall` are the stretches
of `uninstall.sh`; `UninstallFails` ends a run before any of them, and the next run decides from
what is left.

## 4. What the runs check

| run | configuration | checks | bounds |
|---|---|---|---|
| `config_apply` | `ConfigApply.cfg` (`MCConfigFiles`) | `TypeOK`, `FormalWasInEffect`, `NewestAppliedIsFormal`, `SupersededWasShown`, `ImplementsAtomicConfig`; `NamedFilesExist`, `ListsStay`; `MergedListsHold`; `InstallAllOrNothing`; `AskedIsDone` | an imported file in another format than the panel's, its value in the panel's, another content and one that is refused; ids to 4, retention 2, two stops and two reloads of KixDNS; two lists, one page beside the task, two copies, three requests, runs or writes; two links, three downloads; two runs of the installer with one failure or change; three of the uninstaller |
| `config_apply_faults` | `ConfigApplyFaults.cfg` (`MCConfigApply`) | `OneOpenNewest`, `HeldVersionIsOpen`, `AppliedOnlyConfirmed`, `LockReleased`, `PendingResolves` | two contents, ids to 3, retention 2, one fault of any kind at any await |
| `querylog` | `QueryLog.cfg` (`MCQueryLogFiles`) | `NeverTwice`, `NoSilentLoss`, `GapsAreReal`, `DeletedIsStored`; `LogIsSound`, `PagesAreComplete`; `CallsAreAnswered` | three records in each of two KixDNS processes, a ring of two, pages of one, two in flight, any two faults; three records over three hours, segments of two, one clear, end, walk or step back; two callers, two kept connections, three requests, two restarts, closes, timeouts or drops |
| `querylog_oversized` | `QueryLogOversized.cfg` (`MCQueryLog`) | `TypeOK`, `GapsAreExact`, `BusyToldOnce`, `CatchesUp` | four records in each of two processes, a ring of three, pages of two, record 2 too large, one unrecorded request |
| `restart_rollback` | `RestartRollback.cfg` | `TypeOK`, `RecordedIsStarted`, `RollbackOnlyPutsBack`, `CarriedIsChecked`, `MarkFollowsService` | one setting of two values, two bodies, three KixDNS processes, one save, deletion, dropped request or panel restart besides what is waiting at the start |
| `panel` | `Panel.cfg` (`MCPanel`) | `SwitchAllOrNothing`, `WayBackIsKept`, `StartIsNotRefused`, `ObservedSwitchEnds`; `ScheduleIsPaced`; `KeptIsWhole`; `AttemptsStayBounded`, `SessionsAreEarned`; `CountsAreTrue` | three kernels, one end of the panel or failed write in a switch; two intervals, two changes of the setting, one end; one replacement of files; two browsers, one slot, three requests; samples in seconds 0 to 3, a memory of two seconds, one restart of either side, also between the two answers of a sample or a page |
| `refused_after_drop`, `late_receipt`, `skips_lost`, `twice_after_early_restart`, `other_than_confirmed`, `original_gone` | | one property each, violated | see 6 |

*Why the bounds are enough to meet the cases.* Two contents tell "the new" from "the earlier", a
third is one KixDNS refuses. In `config_apply` the file of the first start is a fourth, with the
value of one of them: a failed apply puts that one in its place, and no version may name it then. The
other runs of the apply have contents that are all in the panel's format (`AsWritten`). Retention is below the id bound, so pruning happens, and
deleting the newest row gives its id out again. Two reloads are a change and its roll back; a
stop resets the receipt's sequence, a second one comes after a start. A ring of two under three
records overflows while pages are in flight; two pages in flight are enough for answers out of
order; two faults are a clearing or a failed write followed by a crash. `RestartRollback` starts
from a KixDNS the panel has just met and from one that did not survive a restart, with and
without waiting edits, so that three processes are enough for a reference, one that failed and
one that a way out starts; a process ages only while its age can matter (from when it is first
seen until it is steady). Two copies of a list and three events are a build, a newer copy and a
clean-up or an update in any interleaving; segments of two records in hours of one tick are
closed by size and by hour. Three kernels are the one a host came with, one to update to and one
published meanwhile. One hashing slot makes two logins wait for each other at a limit of two
attempts. Two runs of the installer are one that fails or is cut off and the one that finds what
is left; three of the uninstaller are two interrupted ones and one that ends. The links' contents
in `MCConfigFiles` are chosen one per rule of the parser: comments, hosts lines, anchored and
unanchored patterns, exceptions, `$important`, `$badfilter`, a copy that shrank.
The passing runs together fire every action.

The bounds are named constants and appear in the guards; they limit how much happens and nothing
else (`RoomFor` keeps a schedule from starting when its two rows would not fit below `MaxId`).

## 5. Fairness

`ConfigApply`: every await of a handler is bounded by a timeout and tokio runs a woken task, so
a handler goes on (`WF` on `Candidate` and `System`). The reconciler ticks every 5 seconds and
queues for a first-in first-out lock, so it gets the lock however often others take it (`SF` on
`ReconcilePending`). A KixDNS that stays up is not out of reach at every one of infinitely many
attempts (`SF` on the answers to the two control calls). Nothing is assumed of users, of the
schedules, or of KixDNS's starting and reloading.

`QueryLogHandoff`: the collector is a task of its own whose requests end within their time
limit (`WF` on `Collect` and `Answer`); systemd starts a panel that ended (`WF` on
`PanelStarts`). KixDNS need not record anything.

`RestartRollback`: the background pass runs every 5 seconds and its calls end (`WF` on `Pass`),
and time passes for a process (`WF` on `KernelAges`). Nothing is assumed of the handlers, the
users, KixDNS or systemd; `MarkFollowsService` says what happens when the service stays as it is.

`KernelSwitch`: a switch runs detached from its request and every step of it has a time limit
(`WF` on `SwitchStep`). Nothing is assumed of the network, the service or the pages.

## 6. Findings

Six comments or documents promise more than the code does; each has a run that finds the
behaviour.

* `refused_after_drop`: after a request is dropped between the file write and its confirmation,
  the next attempt takes the unconfirmed content for "the earlier" one and rolls back to it.
* `late_receipt`: a receipt that comes after the 5 second wait lets a second attempt skip its
  own wait and mark the version applied while KixDNS runs the restored content.
* `skips_lost`: a record too large for any reply is skipped by moving the cursor at once; when
  the round then fails, the skip is never recorded.
* `twice_after_early_restart`: a restart of KixDNS before its first record was taken goes
  unnoticed, a page built early by the new process is then taken for a restart, and records are
  stored twice. The passing runs have `EarlyRestarts = FALSE`: KixDNS is not restarted between
  the panel's first contact with its process and the first record taken of it.
* `other_than_confirmed`: the pending version a page shows is deleted and another stored under
  the same id; the endpoint compares ids only, and writes a version nobody confirmed.
* `original_gone`: an uninstall of a migrated host that is to remove everything removes the
  backup before its last steps; when one of those fails, the run after it takes the original
  unit it had put back for the panel's own and removes it.

Behaviours met while modelling and proving that have no run of their own:

* A file that was imported as it was found (`initialize_history`), such as the shipped
  `deploy/config/pipeline.json`, has the import's digest until an apply over it fails. The way back
  writes its value with `format_json` (`config_store.rs:212`), so the file has another digest, and no
  version names it. The page then shows no version as the current one, and the import, which is in
  effect, can be deleted, although the answer to that is to be "正在用的版本不能删除" (`app.rs:1888`,
  "the version in use cannot be deleted"; `config_store.rs:286-293` looks it up by digest).
  `NewestAppliedIsFormal` makes this one exception, for versions not in the panel's format.
* Nothing ties the two answers of a sample, or of the overview, to one process. When KixDNS starts
  again between them, the new start comes with the old counters, or the old start with the new ones;
  `interval_delta` (`app.rs:1626`) then takes the old total for requests of the new process and counts
  them again. With the condition `Whole` taken out of `CountsAreTrue`, TLC finds it within the bounds
  of `panel`.

* An early restart (`NoneTaken`) has two more forms, found by the proof. The cursor need not be at
  the process's start yet: when an answer of the second process is on its way and a third takes
  over before it is taken, records are stored twice in the same way. And when the restart comes
  between an answer that is too large, at the panel's first contact, and the skip of its record,
  `skip_oversized` moves the cursor to that number of the new process, whose record was never
  seen; the next request lets KixDNS delete it (`DeletedIsStored` fails with `EarlyRestarts` and `Overruns`
  set, record 2 oversized and a ring of two).
* The first page of a new process leaves out the records pushed out before it, and may still begin
  with a row that tells of unrecorded requests, at number 0. When a crash leaves only that row, the
  restart goes on from it and counts those records as lost. They are gone, so `GapsAreReal` holds,
  but not `GapsAreExact`, which is therefore stated without faults (found when looking for its
  invariant: one fault, one unrecorded request, rings and pages of two).
* The comment at `app/restart.rs:426-433` says that the rest of the file a roll back keeps "is
  what it accepted on reload"; after `restart_with_pending` wrote an unchecked version that fails
  as well, a roll back keeps the body of that version.
* On a host whose kernel is known by commit alone, an end of the panel between the rename of the
  binary and the record of the active version leaves a binary that no stored version matches
  and the key of another; every later start is refused (`updates/install.rs:812`).
  `StartIsNotRefused` states where that can happen.
* A configuration saved or a kernel switched between the installer's backup and its stop of the
  panel is taken back by a roll back (`late`); a loss of power between `panel.env` and the units
  leaves a host that counts as "already installed" with the older units (`cut`); an online update
  that takes longer than half an hour is shown as failed while it runs.
* Two races around the blocklists, found by the proof of `ListsStay` and both beyond the bounds of
  the run. A refresh reads which file is in use before it takes the blocklists' lock; when every
  version that named the file goes meanwhile and a clean-up forgets a list that the last build no
  longer asked for,
  the refresh merges fewer lists; a page that still holds the old file and saves it then has it
  replaced by one with fewer lists. And when a page's clean-up read the history before the task
  wrote a new merged file, and the task's own clean-up removed the old one, the page's finds no
  sources of the versions it knows and forgets the lists that no build of this database asked for:
  the copies the new file is made of go, so a later refresh cannot fall back on them.

## 7. What is proved

All theorems hold for every value of the constants that satisfies the assumption of the module
they are about: `HistoryAssumption`, `ApplyAssumption`, `HandoffAssumption`, `RestartAssumption`,
`KernelAssumption`, `InstallAssumption`, `UninstallAssumption`, `SessionsAssumption`,
`PoolAssumption`, `GeoAssumption`, `ScheduleAssumption`, `LogAssumption`
(TLC evaluates each in the runs that extend that module).

* `ConfigHistoryProofs`: every transaction keeps a table well formed; `Retention` (pruning is
  monotone and never reaches the newest row) and `StoredRows`.
* `ConfigApplyProofs`: `ApplyInvariant`, and from it `TypeCorrect`, `OneOpenVersion`,
  `HeldVersionStaysOpen` and the action properties `AppliedIsConfirmed` and `SupersededIsShown`
  (`SupersededWasShown`), with all faults; with `MaxFaults = 0`, `FormalFileWasInEffect`, `NewestAppliedIsTheFormal` and the refinement
  `AppliesAtomically`.
* `QueryLogProofs`: where `EarlyRestarts = FALSE`, `OrderInvariant` and from it `TypeCorrect` and
  `WrittenOnce`; `DeletionInvariant` and from it `OnlyStoredIsDeleted`. They hold for pages, rings,
  rounds and pages in flight of any size, each of the three ways to hand records over, any
  ignored and oversized records, replies that go past `until` or not, any number of processes,
  records and faults.
* `QueryLogCountProofs`, as general, again where `EarlyRestarts = FALSE`: `GapInvariant` and from it
  `GapsCountOnlyLosses` (`GapsAreReal`); `BusyInvariant` and from it `BusyIsToldOnce`, both with any
  faults; `LossInvariant` and from it `NothingLostSilently` (`NoSilentLoss`), where `Oversized = {}`
  or `MaxFaults = 0`; `ExactInvariant` and from it `GapsCountExactly` (`GapsAreExact`), where
  `MaxFaults = 0` and, for the latter, `Ignored = {}`.
* `RestartRollbackProofs`: `RestartInvariant`, and from it `RestartTypeCorrect`,
  `RecordIsTrue` and the action properties `RollbackPutsBack` and `CarriedIsNeverUnchecked`, for
  any settings, contents, number of processes and steps of age. The table is the one of
  `ConfigApply` with other contents, so its lemmas are taken from `ConfigHistoryProofs` by
  `INSTANCE ... WITH Configs <- Contents`.
* `HostProofs`, what changes the host itself: `KernelInvariant`, and from it `SwitchIsAllOrNothing`,
  `WayBackIsAlwaysKept` and `StartIsNeverRefused`, for any number of kernels and faults and all
  four kinds of host. The run has one release on hosts that know their kernel by commit alone; the
  theorems have any number there too. `InstallInvariant` and from it `InstallIsAllOrNothing`, for any
  number of runs, failures, kills and losses of power; `UninstallInvariant` and from it
  `AskedIsAlwaysDone`, for any number of runs that fail anywhere and are asked anything.
* `RequestProofs`, of the requests the panel gets and sends: `SessionsInvariant`, and from it
  `AttemptsAlwaysBounded` and `SessionsAlwaysEarned`, for any finite set of browsers, any names,
  addresses, slots and limits; `CallsAlwaysAnswered`, for any finite set of callers and any number
  of kept connections.
* `FileProofs`, of the files the panel keeps: `GeoInvariant`, and from it `FilesExist`
  (`NamedFilesExist`) and `ListsAreKept` (`ListsStay`), for any lists, pages, copies, requests and
  retained versions; for the schedule, `ScheduleInvariant` and the action property
  `UpdatesArePaced`; for the query log's hourly files, `LogInvariant` and from it `LogAlwaysSound`
  (`LogIsSound`), for any number of records, ticks, hours and events, segments and pages of any
  size, any limits, and a log that began with a plain file or not.

*The inductive invariants of the apply.* None of its properties is inductive alone. `ApplyInv`
adds to them what the handler's locals say about the rest: `OpContents` (at which program counters the file
holds the handler's content, and from which on the previous content is known) and
`MarkConfirmed` (a handler about to mark a version applied has had it confirmed and KixDNS has
not moved since). The proof splits a step by what it does to the table (`RowsStep`: nothing or
one transaction, so the lemmas of `ConfigHistoryProofs` apply) and by what it does to the rest
(`Rest`, by kind of step). Without faults two more invariants are needed: `InEffectInv`
(everything the handler may write back was in effect) and `KeepsFormal` (the content to go back
to is the one being replaced, and the history names the content in effect at every step, also
between the two writes). Both speak of JSON values, because the way back formats what it restores.
`KeepsFormal` adds that every row but the first, and what a schedule is about to write, is in the
panel's format: from there a way back changes no digest, and the row keeps naming the file. The
theorem `NewestAppliedIsTheFormal` is therefore about digests for every version the panel wrote
itself, and about the value alone for an import in another format (see 6). The refinement maps every step to one of `AtomicConfig`'s or a
stutter. `SupersededIsShown` needs `RequestApplies` besides: a step marks a version as superseded
for a request only where a page saves, because a request at work only ever applies one, and a
schedule's write, which may store another, is no request's.

*The order of the query log.* `NeverTwice` speaks of the log alone; what keeps it is what the
collector knows while pages are under way. `OrderInv` has `StoreInv` (the log is in the order of
its cursors and ends no further than the cursor, and the state file names a cursor that its own
first rows reach), `PlaceInv` and `GoneInv` (where a round stands between the cursor and the pages
it found pushed out), `BatchInv` (the rows being written follow the log and end at the next
cursor) and `FlightInv`, a condition on every request: where it starts (`AskInv`), and of an
answer that it is of the process at the cursor or of the one that runs (`PageInv`). The last is
why the assumption about early restarts is needed: a page of the new process is told from one of
the old by the cursor's number, which says nothing while that number is 0. `NewestInv` keeps the
collector from asking ahead with the newest number of a process that is gone. The proof has a
lemma per action; those that take a page share one lemma about its rows (the rows of a page follow
each other and what was written before), those that end a round one about giving up what is in
flight.

*Deletion.* A request's start lets KixDNS delete all before it, also when the request is given up
and arrives late (`stray`). `DeletionInv` calls a cursor `Covered` when every number up to it that
KixDNS still holds has its row in the log, or is ignored or oversized, and asks that of whatever a
request may ever start from: the cursor, the state file's, the cursor of every row (a restart goes
on from the last complete row of a write that was cut off), the rows being written together with each
first part of them, the requests under way and `stray`. `AtPassed`, `GonePassed` and
`RepliesPassed` say that what the collector passes over without writing is gone from the ring.
KixDNS's own steps only shrink what has to be covered (a record added is beyond every cursor
reached, a record pushed out needs no row), the panel's only add rows.

*The counts of the query log.* What a gap row counts is a number, and the properties compare sums
of such numbers with the records the log has or lacks. Sums over a sequence need induction, so the
model says them as cardinalities: `LostMarks` and `BusyMarks` have a mark for everything a row
counts, and the proofs map marks to numbers one to one. For the records, the mark `<<k, n>>` stands
for the number `n` steps up to the row's own, so what has to be invariant is where rows lie.

`GapInv` adds to the order that the numbers each row counts follow the rows before it (`RowsApart`),
that pages pushed out whole follow each other from the cursor (`GoneTold`), and that the records
skipped end at the cursor (`SkipsTold`); then two marks never stand for one number, and none for a
row of the log. `LossInv` is the other direction: every number that a cursor has passed since the
panel began to record its process is `Known`, which means ignored, in the log, or counted by a row.
It says so of any cursor the collector may ever go on from: its own, the state file's, that of
every row, of every first part of the rows being written, and of the next. `ExactInv` has that no row
counts what was before the panel began (`since`).

The hypotheses are needed. A record too large for a reply is skipped first and told of by a row
only at the round's end: a fault in between loses it silently (the finding `SkipsAreTold`), hence
`Oversized = {}` or no faults. With faults the counts are not exact either (see 6). An ignored record that was
pushed out is counted as lost, as nobody knows its name.

`BusyInv` is about a counter that pages report in any order. What all rows of KixDNS's process tell stays
within its count (`KernelCount`). Before that comes what the collector remembers (`OwnCount`: not
less than was told, not more than KixDNS's count), what a page in flight may add where the collector
remembers nothing after a restart (`PageCounts`), and what is being written (`BatchCount`).
The rows of a page take the higher of its own count and the collector's; the mutant that takes
the page's is what breaks the property in the run.

*The hourly files.* The table changes under its lock, the files outside it, and between a step that
decides and the step that renames or removes a file the panel may append, clear, enforce its limits
or end. So `LogInv` speaks of every segment that anybody still has at hand (`Spoken`: in the table, on
disk, to compress, taken out, cleared). `KeysInv`: those with one first id are one segment, all are
below the next id, and none is behind the open one. `FilesInv`: every file fits (`Fits`: its rows are
numbered upwards from its first id, stay within its hour and below the first id of every later segment) and
there is one of a kind. `HasFile` and `HasSegment`: each segment of the table has a file of its
format, and a file without a segment is on the list of a pass or of a clearing page, or is the one
copy too many while a segment is being compressed (`Spare`). `RemovesOthers`: nothing on such a list
is in the table again. `CompressInv`: what a pass has read fits, and the table names the format that is
there at each step. `TableInv`: the table is in order and only its last segment may be open.
A start keeps all of it on files that a loss of power has cut anywhere behind what
was synced (`FoundCut`): it keeps one file of a segment (`StartFilesAre`), sorts them (`StartTable`), and
the next id is beyond every row that reads (`NextIdIsNew`).
What `Among` picks of a list of any length (`AmongIs`) and the greatest of a finite set of numbers are
proved by the least counterexample (`LeastNumber`, from the well-foundedness of the naturals).

*The pool.* `PoolInv` says of every caller what it may hold at its step (`HoldsItsWire`: a
connection that owes nothing before the request is sent and exactly the reply to it afterwards)
and why a request whose connection is gone must not count as failed (`IsExcused`: KixDNS ended,
or a second attempt is still open); `OneHolder` and `KeptByNobody` keep the callers and the
kept list apart. A step of one caller leaves the others' connections alone (`OwnStepKeeps`), so
each action is proved for its caller only.

*The Geo files.* A file that a version names is protected by the version, or by a record, or by
a clean-up's not having begun; which of them changes with every step. `GeoInv` says of each actor
what it relies on at its step: the lock it holds (`HoldsLocks`), that what it is about to put on
record is there (`HasFiles`), that a refresh of a file a sound version names has a copy of each of
its lists (`KeepsLists`), that a clean-up knows each sound version or a record of its files
(`CleansWhatIsLeft`), and that nothing it is about to remove is needed (`RemovesTheRest`); with
`VersionsAreThere` and `RecordIsThere` for what it adds up to. There is a lemma per action. A step
changes its own actor's work and leaves the others' parts alone for one of two reasons:
it touches neither their locks, files nor versions (`Undisturbed`), or what it writes is what they
can live with (`Admitted`, for the steps that store a version). Each exclusion of `exposed` is the
hypothesis one of these cases fails without.

*The schedule.* The runner works on a copy of the setting over several awaits. `ScheduleInv`
says when the stored attempt is the latest run, that a run about to be noted was due, and what
the copy may differ in; a setting stored by a page in between is the one way out of each, and
the exception of the property.

*The restart.* `RestartInv` has a part per actor. `WorldInv`: the running process started with
values that are recorded for it in `started`, and one that aged came up. `RecordInv`: the startup
record names a process that came up. `ReaderInv` and `OpInv` say what a pass and a handler know
between two of their awaits: what a process said of itself is about a process that was met
(`Met`), and its content has its starting values when nothing waited (`OwnRead`), so a late note
is still true of that process; a handler at its health check holds a reading since which every
process started with the same file (`SameFileSince`); a roll back holds values of one process
(`FromOneStart`). `TableInv` ties the id of the edits carried along to their content: as long as
the row is there it is the one remembered, which is what lets the unchecked write tell it from
another version with the same id.

*The kernel.* `KernelInv` says at each program counter of a switch, of its way back and of the
panel's start what is installed and what the service runs (`InstalledInv`) and which stored
directories are whole and are never on the clean-up's list (`KeptInv`). `ShapeInv` separates the
start's clean-up from the one after a switch, which share their steps. `KnownInv` holds only where
the first kernel's package is known: a key then names one binary, so neither the installed kernel nor
the recorded one is a directory that does not verify, and a start is not refused. The proof has
a lemma per action, each with a step per part, so that a crash between any two steps is one case of
the same statement.

*The installer.* What a roll back restores is what the run saved, so `SavedInv` says what that
is worth: a host whose panel and KixDNS fit each other (`PanelFits`: a panel that runs is the
installed one, on a database of its own; `KixdnsFits`: so is a KixDNS, and has the port), settled with
the answers the run acts on; `BeforeInv`, that it is the host as the run found it but for what
the panel changes while only itself is replaced. `PanelPiecesInv`, `OtherPiecesInv` and
`KixdnsPiecesInv` say of each piece which release lies there at each step, in
place for those no longer left to put, as before for those no longer left to put back;
`ServicesInv` what runs and what the boot starts. `PutPiece` and `UndoPiece` are proved for one piece
with the rest unchanged, whatever their order, but for one place where it matters: the unit of KixDNS goes in after
the panel's program and settings and comes out before them, so a unit that is not the host's own
means that both are of the new release. The proof found a case the property did not allow: a roll back that
does not replace KixDNS is killed between removing and copying its configuration file, KixDNS
runs on without it, and a later run that does replace KixDNS and fails cannot start it again. It
takes more faults than the run has; `Restored` now names it.

*The uninstaller.* A run decides from what the one before left, so the invariant is about the
traces: `KnowsWhose` (a run removes KixDNS only while `panel.env` says that it is the panel's), `StaysInv` (a
KixDNS that has both its program and unit is as it was), and, where everything is to go,
`BackupInv` (the run knows the backup of the KixDNS it replaced, or there was a run that was cut
after removing it, `lost`), `ProgressInv` (what each step may take to be gone) and `GoneInv`
(without `panel.env`, the next run's only sign of a panel, nothing of it is left).

*The sessions.* `SessionsInv` has `Sound` (the table holds each address and name once and the
names per address are what it holds), `Counted` (an entry's checks and the reservations of the
logins that wait for a slot stay within the limit) and `OneAccount`. The table is a
sequence that evictions cut in the middle, so the lemmas are about counting over a sequence with
an entry removed, replaced or appended; a reservation whose entry went is forgotten, which is
why `Counted` speaks of entries and not of logins.

*Only model-checked.* Liveness (`LockReleased`, `PendingResolves`, `CatchesUp`,
`MarkFollowsService`, `ObservedSwitchEnds`): fairness is out of the prover's reach.
The charts (`CountsAreTrue`), what a walk over the segment files shows
(`PagesAreComplete`) and the rules of merged lists (`MergedListsHold`): each is about what a
fold computes of every input, and the provers cannot instantiate an induction over an operator.
The least-counterexample argument of the hourly files would do for a walk, given an invariant of
every page under way that is not written yet. `KeptIsWhole`: it is about sizes
and digests of single files, which the model gives by examples. With
`EarlyRestarts = TRUE`, `NeverTwice` and `DeletedIsStored` are false (see 6). The rest of the
modules not named above is in the plan.

## 8. What is not modelled, and why

* The catalog of geosite tags, the look at one rule set, the region lookup, journal pages, DNS
  diagnostics, the live page of the query log and how an answer is classified: read per request,
  or pure parsing, with no state that outlives the request.
* The text of a search, of errors and of messages; the GitHub token.
* The web front end's editors: undo, merging of fields, forms. A page is the digest it last read.
* What a dropped request has going in `spawn_blocking` when its future gives the locks back. Drops
  at every await are modelled, with the work done or not done, never with work that goes on beside
  the next holder of the locks. Two places have it: the write of the formal file under
  `config_apply_lock` (`app.rs:889`), and the removals of a page's clean-up under the locks of the
  blocklists and of the Geo data (`geo_data.rs:345`; `RemoveFile` is a step of an actor that holds
  both): a file that a download or a build has stored again meanwhile may be among those still to
  be removed.
* Stored kernel directories of older panels under another key (`updates/storage.rs:377`), and two
  installers at the same time.
* TLS, HTTP, SQLite, systemd and the file system are taken to do what the code relies on: a
  rename is atomic, a transaction is all or nothing, a unit runs what its file names.

The components marked `partly` or `not_modelled` in `PROJECT.json` name what of them is left out.
