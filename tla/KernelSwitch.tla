---------------------------- MODULE KernelSwitch ----------------------------
(***************************************************************************)
(* Replacing the KixDNS binary: the update and roll back of the System     *)
(* page, the automatic replacement of an old-track kernel, and what the    *)
(* panel does about the installed kernel when it starts (updates/          *)
(* install.rs, updates/storage.rs, app/updates.rs).                        *)
(*                                                                         *)
(* A kernel stands for its key and for its binary.  Kernel 0 is the one    *)
(* the host was set up with; the others are fork releases in order.  The   *)
(* two differ only on a host that knows its kernel by commit alone: there  *)
(* key 0 may come to name any binary.  A switch holds config_apply_lock    *)
(* and apply_lock from its first step to its last and runs on its own      *)
(* task, so only the end of the panel process interrupts it; a page that   *)
(* shows the kernel and the service's Start take neither lock.             *)
(***************************************************************************)
EXTENDS Integers, FiniteSets

CONSTANTS
  MaxKernel,       \* newest kernel that is ever released
  NoKernel,        \* no kernel, no stored version, no setting
  Damaged,         \* a version directory that does not verify
  HostKinds,       \* how the host was set up
  MaxKernelFaults  \* bound on ends of the panel process and failed writes, together

Kernels == 0 .. MaxKernel

ASSUME KernelAssumption ==
  /\ MaxKernel \in Nat \ {0}
  /\ MaxKernelFaults \in Nat
  /\ NoKernel \notin Kernels /\ Damaged \notin Kernels /\ NoKernel # Damaged
  /\ HostKinds \subseteq {"fork", "action", "commit", "empty"}

VARIABLES
  hostKind,    \* what the install environment says of kernel 0
  program,     \* the binary file
  versions,    \* the version directories: key -> binary, NoKernel or Damaged
  activeKey,   \* ACTIVE_VERSION_KEY
  previousKey, \* PREVIOUS_VERSION_KEY
  legacyGone,  \* LEGACY_REPLACED_KEY is written
  unit,        \* the KixDNS service: whether it runs, and which binary
  latest,      \* the fork's latest release
  switch,      \* the switch under way, or the start of the panel
  page,        \* a GET /kixdns/kernel
  legacyTask,  \* replace_legacy_kernel: not due, due, waiting for the lock
  kernelFaults, \* how many of these there were
  unnoted,     \* history: a switch took effect and the replaced kernel was not recorded
  outdated     \* history: a page recorded a kernel that had been replaced meanwhile

kernelFiles == <<program, versions>>
kernelSettings == <<activeKey, previousKey, legacyGone>>
kernelRest == <<hostKind, latest>>
kernelHistory == <<unnoted, outdated>>
kernelBeside == <<page, legacyTask, kernelHistory>>
kernelVars == <<hostKind, program, versions, activeKey, previousKey, legacyGone, unit,
                latest, switch, page, legacyTask, kernelFaults, unnoted, outdated>>

NoSwitch == [pc |-> "idle", kind |-> "none", target |-> NoKernel, replaced |-> NoKernel,
             current |-> NoKernel, running |-> FALSE, keep |-> NoKernel, doomed |-> {},
             outcome |-> "none"]
Starting == [NoSwitch EXCEPT !.pc = "start", !.kind = "start"]
NoPage   == [pc |-> "idle", key |-> NoKernel]

---------------------------------------------------------------------------
(* What is installed.                                                      *)

\* VersionSource other than Fork.
OldTrack(key) == key = 0 /\ hostKind \in {"action", "commit"}

\* A key with a package id; without one nothing vouches for the binary.
Tracked(key) == ~(key = 0 /\ hostKind = "commit")

\* bundled_binary_matches: the digest the full package recorded.
BundledMatches == hostKind \in {"fork", "action"} /\ program = 0

StoredWhole(key) == versions[key] \in Kernels

\* active_version fails: the recorded version's directory does not verify.
ActiveUnreadable ==
  /\ program # NoKernel /\ ~BundledMatches
  /\ activeKey # NoKernel /\ versions[activeKey] = Damaged

\* Mutant: the record is believed without a look at the binary.
RecordedVersion ==
  IF program = NoKernel THEN NoKernel ELSE IF BundledMatches THEN 0 ELSE activeKey

\* active_version: the package's kernel, else the recorded one if its binary is the one
\* installed, else the commit of an install from before there was a record.
ActiveVersion ==
  CASE program = NoKernel -> NoKernel
    [] program # NoKernel /\ BundledMatches -> 0
    [] program # NoKernel /\ ~BundledMatches ->
         IF activeKey # NoKernel /\ versions[activeKey] = program THEN activeKey
         ELSE IF hostKind = "commit" THEN 0 ELSE NoKernel

\* adopt_active_version can store or confirm the binary under this key.
CanAdopt(key) ==
  /\ program # NoKernel
  /\ \/ versions[key] = program
     \/ versions[key] = NoKernel /\ (~Tracked(key) \/ (key = 0 /\ BundledMatches))

Adopted(key) == [versions EXCEPT ![key] = program]

\* previous_key.
PreviousOf(active) == IF previousKey = active THEN NoKernel ELSE previousKey

\* systemd (re)starts the service on the binary there is; without one its condition fails.
Launched == [on |-> program # NoKernel, runs |-> program]
Down == [on |-> FALSE, runs |-> NoKernel]

---------------------------------------------------------------------------
(* The switch, step by step.                                               *)

\* A write of the disk or of the database that fails, or the end of the panel.
Fault == kernelFaults < MaxKernelFaults /\ kernelFaults' = kernelFaults + 1
NoFault == UNCHANGED kernelFaults

Step(pc) == switch' = [switch EXCEPT !.pc = pc]
EndAs(outcome) ==
  switch' = [switch EXCEPT !.pc = "ended", !.outcome = outcome, !.replaced = NoKernel,
                            !.doomed = {}]

\* An error before the binary is touched: the switch ends, the panel does not start.
GiveUp == IF switch.kind = "start" THEN Step("refused") ELSE EndAs("failed")

KernelInit ==
  /\ hostKind \in HostKinds
  /\ program = IF hostKind = "empty" THEN NoKernel ELSE 0
  /\ versions = [k \in Kernels |-> NoKernel]
  /\ activeKey = NoKernel /\ previousKey = NoKernel /\ legacyGone = FALSE
  /\ unit = IF hostKind = "empty" THEN Down ELSE Launched
  /\ latest = 1
  /\ switch = Starting /\ page = NoPage /\ legacyTask = "none"
  /\ kernelFaults = 0 /\ unnoted = FALSE /\ outdated = FALSE

\* initialize_installed_version: nothing to do without an active version.
StartPanel ==
  /\ switch.pc = "start"
  /\ IF ActiveUnreadable THEN Step("refused")
     ELSE IF ActiveVersion = NoKernel THEN switch' = NoSwitch
     ELSE switch' = [switch EXCEPT !.pc = "adopt", !.target = ActiveVersion,
                                   !.replaced = ActiveVersion]
  /\ legacyTask' = IF switch'.pc = "idle" THEN "due" ELSE "none"
  /\ UNCHANGED <<kernelFiles, kernelSettings, kernelRest, kernelFaults, unit, page, kernelHistory>>

\* update, for the release the page showed; requests behind replace_legacy_kernel wait.
BeginUpdate(shown) ==
  /\ switch.pc = "idle" /\ legacyTask # "waiting"
  /\ switch' = [NoSwitch EXCEPT !.kind = "request", !.target = shown, !.pc = "fetch"]
  /\ UNCHANGED <<kernelFiles, kernelSettings, kernelRest, kernelFaults, unit, kernelBeside>>

\* rollback.
BeginRollback ==
  /\ switch.pc = "idle" /\ legacyTask # "waiting"
  /\ ~ActiveUnreadable /\ PreviousOf(ActiveVersion) # NoKernel
  /\ switch' = [NoSwitch EXCEPT !.kind = "request", !.pc = "activate",
                                !.target = PreviousOf(ActiveVersion)]
  /\ UNCHANGED <<kernelFiles, kernelSettings, kernelRest, kernelFaults, unit, kernelBeside>>

\* legacy_kernel_to_replace, before the lock is asked for.
CheckLegacy ==
  /\ legacyTask = "due"
  /\ legacyTask' = IF /\ ~ActiveUnreadable /\ ActiveVersion # NoKernel
                      /\ OldTrack(ActiveVersion) /\ ~legacyGone /\ StoredWhole(ActiveVersion)
                   THEN "waiting" ELSE "none"
  /\ UNCHANGED <<kernelFiles, kernelSettings, kernelRest, kernelFaults, unit, switch, page, kernelHistory>>

BeginReplacement ==
  /\ legacyTask = "waiting" /\ switch.pc = "idle"
  /\ legacyTask' = "none"
  /\ switch' = [NoSwitch EXCEPT !.kind = "task", !.pc = "fetch"]
  /\ UNCHANGED <<kernelFiles, kernelSettings, kernelRest, kernelFaults, unit, page, kernelHistory>>

\* fetch_latest past the cache, the expected package, and whether it is active already.
FetchLatest ==
  /\ switch.pc = "fetch"
  /\ \/ GiveUp
     \/ /\ switch.kind = "request" => switch.target = latest
        /\ ~ActiveUnreadable
        /\ IF ActiveVersion = latest THEN EndAs("unchanged")
           ELSE switch' = [switch EXCEPT !.pc = "install", !.target = latest]
  /\ UNCHANGED <<kernelFiles, kernelSettings, kernelRest, kernelFaults, unit, kernelBeside>>

\* install_resolved: a stored version is used as it is, else downloaded and checked.
InstallResolved ==
  /\ switch.pc = "install"
  /\ \/ GiveUp /\ UNCHANGED versions
     \/ /\ versions[switch.target] # Damaged
        /\ versions' = IF StoredWhole(switch.target) THEN versions
                       ELSE [versions EXCEPT ![switch.target] = switch.target]
        /\ Step("activate")
  /\ UNCHANGED <<program, kernelSettings, kernelRest, kernelFaults, unit, kernelBeside>>

\* activate_locked: the kernel that is to be replaced.
ReadReplaced ==
  /\ switch.pc = "activate"
  /\ IF ActiveUnreadable THEN GiveUp
     ELSE switch' = [switch EXCEPT !.replaced = ActiveVersion,
                                   !.pc = IF ActiveVersion = NoKernel THEN "load" ELSE "adopt"]
  /\ UNCHANGED <<kernelFiles, kernelSettings, kernelRest, kernelFaults, unit, kernelBeside>>

\* adopt_active_version: the directory, and then the setting.
AdoptVersion ==
  /\ switch.pc = "adopt"
  /\ IF CanAdopt(switch.replaced)
     THEN versions' = Adopted(switch.replaced) /\ Step("adopted")
     ELSE UNCHANGED versions /\ GiveUp
  /\ UNCHANGED <<program, kernelSettings, kernelRest, kernelFaults, unit, kernelBeside>>

\* Mutant: the target alone is kept.
ToPruneAllElse(keep) ==
  switch' = [switch EXCEPT !.pc = "prune", !.keep = keep, !.replaced = NoKernel,
    !.doomed = {k \in Kernels : StoredWhole(k) /\ k # switch.target}]

\* prune_versions lists what it removes: neither the target nor the one to go back to.
\* A damaged directory is not on the list.
ToPrune(keep) ==
  switch' = [switch EXCEPT !.pc = "prune", !.keep = keep, !.replaced = NoKernel,
    !.doomed = {k \in Kernels : StoredWhole(k) /\ k \notin {switch.target, keep}}]

\* A start goes on to what it keeps: the recorded version if it is there, else the
\* newest other one (which of them that is, the model leaves open).
AdoptRecord ==
  /\ switch.pc = "adopted"
  /\ \/ /\ Fault
        /\ IF switch.kind = "start"
           THEN switch' = [switch EXCEPT !.pc = "refused", !.outcome = "failed"]
           ELSE EndAs("failed")
        /\ UNCHANGED <<activeKey, outdated>>
     \/ /\ activeKey' = switch.replaced /\ outdated' = FALSE /\ NoFault
        /\ IF switch.kind # "start" THEN Step("load")
           ELSE LET others == {k \in Kernels : StoredWhole(k) /\ k # switch.replaced}
                IN  \E keep \in IF previousKey \in others THEN {previousKey}
                                ELSE IF others = {} THEN {NoKernel} ELSE others :
                      ToPrune(keep)
  /\ UNCHANGED <<kernelFiles, previousKey, legacyGone, kernelRest, unit, page, legacyTask,
                 unnoted>>

\* The target verifies and the configuration runs on it; service_running.
LoadTarget ==
  /\ switch.pc = "load"
  /\ \/ GiveUp
     \/ /\ StoredWhole(switch.target)
        /\ switch' = [switch EXCEPT !.pc = "write", !.current = program, !.running = unit.on]
  /\ UNCHANGED <<kernelFiles, kernelSettings, kernelRest, kernelFaults, unit, kernelBeside>>

\* The candidate is renamed over the binary.
WriteBinary ==
  /\ switch.pc = "write"
  /\ \/ Fault /\ GiveUp /\ UNCHANGED program
     \/ /\ NoFault /\ program' = versions[switch.target]
        /\ Step(IF switch.running THEN "restart" ELSE "record")
     \* The rename is done and the directory cannot be synced.
     \/ /\ Fault /\ ~switch.running
        /\ program' = versions[switch.target] /\ EndAs("unsynced")
  /\ UNCHANGED <<versions, kernelSettings, kernelRest, unit, kernelBeside>>

RestartTarget ==
  /\ switch.pc = "restart"
  /\ \/ unit' = Launched /\ Step("health")
     \/ unit' \in {unit, Down} /\ Step("restore")
  /\ UNCHANGED <<kernelFiles, kernelSettings, kernelRest, kernelFaults, kernelBeside>>

\* wait_until_healthy, at most ten seconds.
CheckTarget ==
  /\ switch.pc = "health"
  /\ \/ NoFault /\ unit.on /\ Step("record")
     \/ NoFault /\ Step("restore")
     \/ Fault /\ unit.on /\ EndAs("unsynced")
  /\ UNCHANGED <<kernelFiles, kernelSettings, kernelRest, unit, kernelBeside>>

\* Mutant: the binary is put back and the service left as it is.
RestoreWithoutRestart ==
  /\ switch.pc = "restore"
  /\ \/ NoFault /\ program' = switch.current /\ EndAs("restored")
     \/ Fault /\ program' \in {program, switch.current} /\ EndAs("broken")
  /\ UNCHANGED <<versions, kernelSettings, kernelRest, unit, kernelBeside>>

\* restore_previous, the file; then the service, if it ran before.
RestoreBinary ==
  /\ switch.pc = "restore"
  /\ \/ /\ NoFault /\ program' = switch.current
        /\ IF switch.running THEN Step("restartBack") ELSE EndAs("restored")
     \/ Fault /\ program' \in {program, switch.current} /\ EndAs("broken")
  /\ UNCHANGED <<versions, kernelSettings, kernelRest, unit, kernelBeside>>

RestartBack ==
  /\ switch.pc = "restartBack"
  /\ \/ /\ unit' = Launched
        /\ IF switch.current = NoKernel THEN EndAs("restored") ELSE Step("healthBack")
     \/ unit' \in {unit, Down} /\ EndAs("broken")
  /\ UNCHANGED <<kernelFiles, kernelSettings, kernelRest, kernelFaults, kernelBeside>>

\* Mutant: putting back is tried again until it works.
CheckBackAgain ==
  /\ switch.pc = "healthBack"
  /\ (unit.on /\ EndAs("restored")) \/ Step("restore")
  /\ UNCHANGED <<kernelFiles, kernelSettings, kernelRest, kernelFaults, unit, kernelBeside>>

CheckBack ==
  /\ switch.pc = "healthBack"
  /\ (unit.on /\ EndAs("restored")) \/ EndAs("broken")
  /\ UNCHANGED <<kernelFiles, kernelSettings, kernelRest, kernelFaults, unit, kernelBeside>>

\* The active version is recorded, or the switch is undone.
RecordActive ==
  /\ switch.pc = "record"
  /\ \/ /\ NoFault /\ activeKey' = switch.target /\ outdated' = FALSE
        /\ switch' = [switch EXCEPT !.pc = "remember", !.current = NoKernel]
     \/ Fault /\ UNCHANGED <<activeKey, outdated>> /\ Step("restore")
  /\ UNCHANGED <<kernelFiles, previousKey, legacyGone, kernelRest, unit, page, legacyTask,
                 unnoted>>

\* remember_replaced, its first write; a failed one is only logged.
RememberReplaced ==
  /\ switch.pc = "remember"
  /\ IF switch.replaced \in {NoKernel, switch.target}
     THEN /\ ToPrune(PreviousOf(switch.target))
          /\ UNCHANGED <<previousKey, unnoted, kernelFaults>>
     ELSE /\ \/ previousKey' = switch.replaced /\ UNCHANGED unnoted /\ NoFault
             \/ UNCHANGED previousKey /\ unnoted' = TRUE /\ Fault
          /\ switch' = [switch EXCEPT !.pc = "note", !.keep = switch.replaced]
  /\ UNCHANGED <<kernelFiles, activeKey, legacyGone, kernelRest, unit, page, legacyTask,
                 outdated>>

\* Its second: an old-track kernel gave way to a fork release.
NoteLegacy ==
  /\ switch.pc = "note"
  /\ IF OldTrack(switch.replaced) /\ ~OldTrack(switch.target)
     THEN (legacyGone' = TRUE /\ NoFault) \/ (UNCHANGED legacyGone /\ Fault)
     ELSE UNCHANGED legacyGone /\ NoFault
  /\ ToPrune(switch.keep)
  /\ UNCHANGED <<kernelFiles, activeKey, previousKey, kernelRest, unit, kernelBeside>>

PruneEnds == IF switch.kind = "start" THEN Step("settle") ELSE EndAs("done")

\* An error ends the clean-up; a start then leaves the setting alone.
PruneStops ==
  IF switch.kind = "start" THEN switch' = NoSwitch /\ legacyTask' = "due"
                           ELSE EndAs("done") /\ UNCHANGED legacyTask

\* One directory after the other; removing one is not atomic.
PruneVersions ==
  /\ switch.pc = "prune"
  /\ \/ /\ switch.doomed = {} /\ PruneEnds
        /\ UNCHANGED <<versions, legacyTask, kernelFaults>>
     \/ \E k \in switch.doomed :
          /\ versions' = [versions EXCEPT ![k] = NoKernel]
          /\ switch' = [switch EXCEPT !.doomed = @ \ {k}]
          /\ UNCHANGED <<legacyTask, kernelFaults>>
     \/ \E k \in switch.doomed :
          /\ versions' \in {versions, [versions EXCEPT ![k] = Damaged]}
          /\ PruneStops /\ Fault
  /\ UNCHANGED <<program, kernelSettings, kernelRest, unit, page, kernelHistory>>

\* The start writes what it kept, and the panel serves.
SettlePrevious ==
  /\ switch.pc = "settle"
  /\ \/ /\ previousKey' = IF PreviousOf(switch.target) = switch.keep THEN previousKey ELSE switch.keep
        /\ unnoted' = FALSE /\ NoFault
     \/ /\ PreviousOf(switch.target) # switch.keep
        /\ unnoted' = TRUE /\ Fault /\ UNCHANGED previousKey
  /\ switch' = NoSwitch /\ legacyTask' = "due"
  /\ UNCHANGED <<kernelFiles, activeKey, legacyGone, kernelRest, unit, page, outdated>>

\* The audit entry and the answer: kernel() adopts once more before the locks go.
EndSwitch ==
  /\ switch.pc = "ended"
  /\ switch' = NoSwitch
  /\ activeKey' \in IF /\ switch.outcome \in {"done", "unchanged"} /\ switch.kind = "request"
                       /\ ~ActiveUnreadable /\ ActiveVersion # NoKernel
                       /\ CanAdopt(ActiveVersion)
                    THEN {activeKey, ActiveVersion} ELSE {activeKey}
  /\ UNCHANGED <<kernelFiles, previousKey, legacyGone, kernelRest, kernelFaults, unit, kernelBeside>>

---------------------------------------------------------------------------
(* Beside the switch.                                                      *)

Serving == switch.pc \notin {"start", "refused"} /\ switch.kind # "start"

\* kernel(), called by a page: active_version, adopt_active_version, and its write.
PageReads ==
  /\ Serving /\ page.pc = "idle"
  /\ ~ActiveUnreadable /\ ActiveVersion # NoKernel
  /\ page' = [pc |-> "adopt", key |-> ActiveVersion]
  /\ UNCHANGED <<kernelFiles, kernelSettings, kernelRest, kernelFaults, unit, switch, legacyTask, kernelHistory>>

PageAdopts ==
  /\ page.pc = "adopt"
  /\ IF CanAdopt(page.key)
     THEN versions' = Adopted(page.key) /\ page' = [page EXCEPT !.pc = "record"]
     ELSE UNCHANGED versions /\ page' = NoPage
  /\ UNCHANGED <<program, kernelSettings, kernelRest, kernelFaults, unit, switch, legacyTask, kernelHistory>>

PageRecords ==
  /\ page.pc = "record"
  /\ activeKey' = page.key /\ page' = NoPage
  /\ outdated' = (versions[page.key] # program)
  /\ UNCHANGED <<kernelFiles, previousKey, legacyGone, kernelRest, kernelFaults, unit, switch, legacyTask,
                 unnoted>>

\* The service's Start takes no lock; systemd brings a service back that ended.
UnitStarts ==
  /\ ~unit.on /\ program # NoKernel
  /\ unit' = Launched
  /\ UNCHANGED <<kernelFiles, kernelSettings, kernelRest, kernelFaults, switch, kernelBeside>>

\* It ends by itself, or somebody stops it outside the panel.
UnitEnds ==
  /\ unit.on /\ unit' = Down
  /\ UNCHANGED <<kernelFiles, kernelSettings, kernelRest, kernelFaults, switch, kernelBeside>>

Publish ==
  /\ latest < MaxKernel /\ latest' = latest + 1
  /\ UNCHANGED <<hostKind, kernelFaults, kernelFiles, kernelSettings, unit, switch, page,
                 legacyTask, kernelHistory>>

\* The panel process ends and is started again; a directory being removed stays behind.
PanelEnds ==
  /\ Fault
  /\ switch' = Starting /\ page' = NoPage /\ legacyTask' = "none"
  /\ versions' \in {versions} \union
       {[versions EXCEPT ![k] = Damaged] : k \in switch.doomed}
  /\ unnoted' = (unnoted \/ (switch.pc = "remember"
                              /\ switch.replaced \notin {NoKernel, switch.target}))
  /\ UNCHANGED <<hostKind, latest, program, kernelSettings, unit, outdated>>

---------------------------------------------------------------------------
SwitchStep ==
  \/ StartPanel \/ CheckLegacy \/ BeginReplacement \/ FetchLatest \/ InstallResolved
  \/ ReadReplaced \/ AdoptVersion \/ AdoptRecord \/ LoadTarget \/ WriteBinary
  \/ RestartTarget \/ CheckTarget \/ RestoreBinary \/ RestartBack \/ CheckBack
  \/ RecordActive \/ RememberReplaced \/ NoteLegacy \/ PruneVersions \/ SettlePrevious
  \/ EndSwitch

KernelNext ==
  \/ SwitchStep
  \/ \E shown \in 1 .. latest : BeginUpdate(shown)
  \/ BeginRollback
  \/ PageReads \/ PageAdopts \/ PageRecords
  \/ UnitStarts \/ UnitEnds \/ Publish \/ PanelEnds

\* Every step of a switch has a time limit and runs on a task of its own.
KernelFairness == WF_kernelVars(SwitchStep)
KernelSpec == KernelInit /\ [][KernelNext]_kernelVars /\ KernelFairness

---------------------------------------------------------------------------
KernelOrNone == Kernels \union {NoKernel}

KernelTypeOK ==
  /\ hostKind \in HostKinds
  /\ program \in KernelOrNone
  /\ versions \in [Kernels -> Kernels \union {NoKernel, Damaged}]
  /\ {activeKey, previousKey} \subseteq KernelOrNone
  /\ {legacyGone, unnoted, outdated} \subseteq BOOLEAN
  /\ unit \in [on : BOOLEAN, runs : KernelOrNone]
  /\ latest \in 1 .. MaxKernel
  /\ switch \in [pc : {"start", "refused", "idle", "fetch", "install", "activate", "adopt",
                       "adopted", "load", "write", "restart", "health", "restore",
                       "restartBack", "healthBack", "record", "remember", "note", "prune",
                       "settle", "ended"},
                 kind : {"none", "start", "request", "task"},
                 target : KernelOrNone, replaced : KernelOrNone, current : KernelOrNone,
                 keep : KernelOrNone, doomed : SUBSET Kernels, running : BOOLEAN,
                 outcome : {"none", "failed", "unchanged", "done", "restored", "broken",
                            "unsynced"}]
  /\ page \in [pc : {"idle", "adopt", "record"}, key : KernelOrNone]
  /\ legacyTask \in {"none", "due", "waiting"}
  /\ kernelFaults \in 0 .. MaxKernelFaults

\* A switch that reports success has left its target installed, one that reports that it
\* put the earlier kernel back has; a service that ran before and runs now runs what is
\* installed (run_detached: "the switch completes or rolls back"; docs/deployment.md:219).
\* Left out are the outcomes that say neither: both kernels failed, or a sync did.
SwitchAllOrNothing ==
  switch.pc = "ended" =>
    /\ switch.outcome = "done" => program = versions[switch.target]
    /\ switch.outcome = "restored" => program = switch.current
    /\ switch.outcome \in {"done", "restored"} /\ switch.running /\ unit.on
         => unit.runs = program

\* The kernel a successful switch replaced is the one to go back to (docs/deployment.md:223),
\* and the page never offers a roll back to a kernel whose files are gone, whatever ended in
\* between a switch, its records and its clean-up, unless writing that down failed.
WayBackIsKept ==
  /\ KernelTypeOK
  /\ switch.pc = "ended" /\ switch.outcome = "done" /\ ~unnoted /\ switch.keep # NoKernel
       => previousKey = switch.keep /\ StoredWhole(switch.keep)
  /\ switch.pc = "idle" /\ ~unnoted /\ ~ActiveUnreadable /\ PreviousOf(ActiveVersion) # NoKernel
       => StoredWhole(previousKey)

\* Whatever an interrupted switch left behind, the panel starts again where the kernel's
\* package is known (a failed write of the database, and a page that recorded a kernel
\* replaced since it looked, aside).  A host that knows its kernel by commit alone may be
\* refused: there an end between the rename and the record leaves a binary under a key that
\* another binary was stored for.
StartIsNotRefused ==
  switch.pc = "refused" /\ switch.outcome # "failed" /\ ~outdated => hostKind = "commit"

\* A switch ends and gives its locks back, whatever fails.
SwitchEnds == (switch.pc \notin {"idle", "refused"}) ~> (switch.pc \in {"idle", "refused"})
=============================================================================
