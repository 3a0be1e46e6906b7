---------------------------- MODULE PanelInstall ----------------------------
(***************************************************************************)
(* install.sh and what starts it: by hand, or the online update of the      *)
(* System page through kixdns-panel-helper and panel-online-update.sh.      *)
(*                                                                          *)
(* The host is what lies on its disk, piece by piece and each by the        *)
(* release it is of, what runs, and what the boot starts.  Release 1 is     *)
(* installed, 2 is the newest and what every package brings.  A run saves   *)
(* the pieces it will replace, replaces them one by one while the panel     *)
(* keeps still, starts the services and watches them; whatever fails, and   *)
(* a signal, takes it back.  A kill or a loss of power does not.            *)
(***************************************************************************)
EXTENDS Integers

CONSTANTS
  NoPiece,           \* no such file, nothing running
  Original,         \* a KixDNS and its unit that are not the panel's
  MaxInstallRuns,   \* runs of the installer
  MaxInstallEvents  \* changes made in the panel, failures, and losses

VARIABLES
  disk,        \* what each piece is of
  services,    \* what runs, and what the boot starts
  sound,       \* which programs of release 2 keep running on this host
  install,     \* the run of the installer
  updater,     \* panel-online-update.sh
  updateState, \* its status file, and whether that is over half an hour old
  told,        \* what the last run told
  before,      \* history: the host as the last run found it
  late,        \* history: the panel changed what the last run had saved already
  cut,         \* history: a run was cut off and none has ended since
  installRuns, installEvents

installVars == <<disk, services, sound, install, updater, updateState, told, before, late, cut,
                 installRuns, installEvents>>
installHistory == <<before, late, cut>>
updateRest == <<updater, updateState, told, installHistory>>
installCounts == <<installRuns, installEvents>>

ASSUME InstallAssumption ==
  /\ MaxInstallRuns \in Nat /\ MaxInstallEvents \in Nat
  /\ NoPiece \notin Nat /\ Original \notin Nat \union {NoPiece}

PanelPieces == {"server", "tools", "web", "geo", "env", "units"}
KixdnsPieces == {"kernel", "kunit", "bundle", "config"}
Pieces == PanelPieces \union KixdnsPieces \union {"database", "resolver", "external"}

NoRun == [pc |-> "idle", kind |-> "none", existing |-> FALSE, changed |-> {}, restart |-> FALSE,
          stub |-> FALSE, created |-> FALSE, saved |-> <<>>, stored |-> FALSE, left |-> {}]
Running == install.pc # "idle"
InstallEvent == installEvents < MaxInstallEvents /\ installEvents' = installEvents + 1
Host == [disk |-> disk, services |-> services]
GoTo(pc) == install' = [install EXCEPT !.pc = pc]

---------------------------------------------------------------------------
(* Services.                                                               *)

\* The unit wants the program and the pages, and the program no database newer than itself.
MayStart(d) ==
  /\ d.server # NoPiece /\ d.web # NoPiece /\ d.units # NoPiece
  /\ d.database = NoPiece \/ d.database <= d.server

\* A start of the panel moves the database to its schema before anything else can fail.
StartsPanel(d) ==
  IF ~MayStart(d) THEN {[up |-> NoPiece, database |-> d.database]}
  ELSE IF d.server = 1 \/ "panel" \in sound THEN {[up |-> d.server, database |-> d.server]}
  ELSE {[up |-> NoPiece, database |-> schema] : schema \in {d.database, d.server}}

\* What a start of the KixDNS unit leaves running: the port must be free.
StartsKixdns(d) ==
  IF d.kunit = Original THEN Original
  ELSE IF \/ d.kunit = NoPiece \/ d.kernel = NoPiece \/ d.config = NoPiece \/ d.resolver = "stub"
          \/ d.kernel = 2 /\ "kixdns" \notin sound
       THEN NoPiece
       ELSE d.kernel

\* The panel is started.
PanelComesUp ==
  \E start \in StartsPanel(disk) :
     /\ services' = [services EXCEPT !.panel = start.up]
     /\ disk' = [disk EXCEPT !.database = start.database]

---------------------------------------------------------------------------
(* The hosts.                                                              *)

NoPieces == [p \in Pieces |-> IF p = "resolver" THEN "off" ELSE NoPiece]
HostQuiet == [panel |-> NoPiece, kixdns |-> NoPiece, panelBoots |-> FALSE, kixdnsBoots |-> FALSE]

\* Nothing there, a KixDNS that is not the panel's, or release 1 with its own or the
\* newest KixDNS.
BareHost(resolver) ==
  [disk |-> [NoPieces EXCEPT !.resolver = resolver], services |-> HostQuiet]
ForeignHost(up, boots) ==
  [disk |-> [NoPieces EXCEPT !.kunit = Original, !.config = 1],
   services |-> [HostQuiet EXCEPT !.kixdns = up, !.kixdnsBoots = boots]]
PanelHost(release, active) ==
  [disk |-> [p \in Pieces |->
               CASE p \in {"kernel", "kunit", "bundle"} -> release
                 [] p = "resolver" -> IF active THEN "off" ELSE "stub"
                 [] p = "external" -> NoPiece
                 [] OTHER -> 1],
   services |-> [panel |-> 1, panelBoots |-> TRUE, kixdnsBoots |-> active,
                 kixdns |-> IF active THEN release ELSE NoPiece]]
InstallHosts ==
  {BareHost(resolver) : resolver \in {"stub", "off"}}
  \union {ForeignHost(up, boots) : up \in {Original, NoPiece}, boots \in BOOLEAN}
  \union {PanelHost(release, active) : release \in {1, 2}, active \in BOOLEAN}

InstallInit ==
  /\ sound \in SUBSET {"panel", "kixdns"}
  /\ \E host \in InstallHosts :
       /\ disk = host.disk /\ before = host
       /\ services = [host.services EXCEPT !.kixdns =
                        IF @ = 2 /\ "kixdns" \notin sound THEN NoPiece ELSE @]
  /\ install = NoRun /\ updater = "idle" /\ updateState = [state |-> "idle", old |-> FALSE]
  /\ told = "nothing" /\ late = FALSE /\ cut = FALSE
  /\ installRuns = 0 /\ installEvents = 0

---------------------------------------------------------------------------
(* A run.                                                                  *)

Existing == disk.server # NoPiece /\ disk.env # NoPiece

\* skip_if_already_installed: the release is there and the panel runs.
AlreadyInstalled == Existing /\ disk.env = 2 /\ services.panel # NoPiece

KindOf(panelOnly) ==
  IF panelOnly THEN "panel-only"
  ELSE IF Existing THEN "upgrade"
  ELSE IF disk.kunit # NoPiece \/ disk.kernel # NoPiece THEN "migrate"
  ELSE "fresh"

\* plan_kixdns_changes: what of the package's KixDNS the host lacks.
ChangedKixdns(kind) ==
  IF kind = "panel-only" THEN {} ELSE {p \in {"kernel", "kunit"} : disk[p] # 2}

\* The order in which main and install_services put the pieces into place.
PutOrder == [kernel |-> 1, resolver |-> 2, server |-> 3, tools |-> 4, web |-> 5, geo |-> 6,
             bundle |-> 7, config |-> 8, env |-> 9, kunit |-> 10, units |-> 11]
ToPut(run) ==
  PanelPieces \union run.changed \union (IF run.stub THEN {"resolver"} ELSE {})
    \union (IF run.kind = "panel-only" THEN {} ELSE {"bundle", "config"})

\* The order in which rollback_install puts them back: the database as soon as it is saved,
\* with the programs.
UndoOrder == [kernel |-> 1, kunit |-> 2, bundle |-> 3, config |-> 4, server |-> 5, tools |-> 6,
              web |-> 7, geo |-> 8, units |-> 9, env |-> 10, database |-> 11, resolver |-> 12]
ToUndo(run) ==
  PanelPieces \union run.changed
    \union (IF run.kind = "panel-only" THEN {} ELSE {"bundle", "config"})
    \union (IF run.stored THEN {"database"} ELSE {})
    \union (IF disk.resolver # run.saved.disk.resolver THEN {"resolver"} ELSE {})

\* The next of the pieces that are left.
IsNext(p, order) == p \in install.left /\ \A q \in install.left : order[p] <= order[q]

\* Every question is asked, the kind and the changes are settled, and prepare_rollback saves
\* the pieces; `stub` says that systemd-resolved is to give the port away.  A run that would
\* restart a KixDNS whose port is taken is refused.
BeginRun(panelOnly, stub) ==
  LET kind == KindOf(panelOnly)
      changed == ChangedKixdns(kind)
      restart == services.kixdns # NoPiece /\ changed # {}
  IN  /\ panelOnly => Existing
      /\ stub => disk.resolver = "stub" /\ ~panelOnly
      /\ ~(restart /\ disk.resolver = "stub" /\ ~stub)
      /\ install' = [NoRun EXCEPT
           !.pc = IF kind = "migrate" /\ disk.external = NoPiece THEN "preserve" ELSE "stop",
           !.kind = kind, !.existing = Existing, !.changed = changed, !.restart = restart,
           !.stub = stub, !.saved = Host]
      /\ installRuns' = installRuns + 1 /\ told' = "nothing"
      /\ before' = Host /\ late' = FALSE

\* install.sh by hand, with or without --reinstall, or with --panel-only-update.
Install ==
  /\ ~Running /\ updater = "idle" /\ installRuns < MaxInstallRuns
  /\ \/ /\ AlreadyInstalled /\ told # "already" /\ told' = "already"
        /\ before' = Host
        /\ UNCHANGED <<install, installRuns, late>>
     \/ \E panelOnly, stub \in BOOLEAN : BeginRun(panelOnly, stub)
  /\ UNCHANGED <<disk, services, sound, updater, updateState, cut, installEvents>>

\* preserve_external_install: the unit found, and how it ran.
PreserveExternal ==
  /\ install.pc = "preserve"
  /\ disk' = [disk EXCEPT !.external =
                [unit |-> disk.kunit, active |-> services.kixdns # NoPiece,
                 boots |-> services.kixdnsBoots]]
  /\ install' = [install EXCEPT !.pc = "stop", !.created = TRUE]
  /\ UNCHANGED <<services, sound, updateRest, installCounts>>

StopPanel ==
  /\ install.pc = "stop" /\ GoTo("save")
  /\ services' = [services EXCEPT !.panel = NoPiece]
  /\ UNCHANGED <<disk, sound, updateRest, installCounts>>

\* backup_panel_database: nobody writes it any more.
SaveDatabase ==
  /\ install.pc = "save"
  /\ install' = [install EXCEPT !.pc = "halt", !.stored = TRUE, !.saved.disk.database = disk.database]
  /\ UNCHANGED <<disk, services, sound, updateRest, installCounts>>

\* A KixDNS that is to be replaced is stopped.
HaltKixdns ==
  /\ install.pc = "halt"
  /\ services' = IF install.restart THEN [services EXCEPT !.kixdns = NoPiece] ELSE services
  /\ install' = [install EXCEPT !.pc = "put", !.left = ToPut(install)]
  /\ UNCHANGED <<disk, sound, updateRest, installCounts>>

\* One piece: the pages and the Geo data move aside first; a configuration that is there stays.
PutPiece ==
  /\ install.pc = "put"
  /\ \E p \in Pieces :
       LET aside == p \in {"web", "geo"} /\ disk[p] # NoPiece /\ disk[p] # 2 IN
         /\ IsNext(p, PutOrder)
         /\ disk' = [disk EXCEPT ![p] =
                       CASE p = "resolver" -> "off"
                         [] p = "config" -> IF @ = NoPiece THEN 0 ELSE @
                         [] aside -> NoPiece
                         [] OTHER -> 2]
         /\ install' = IF aside THEN install ELSE [install EXCEPT !.left = @ \ {p}]
  /\ UNCHANGED <<services, sound, updateRest, installCounts>>

\* restore_managed_service_state, where KixDNS was replaced: as it was, or off when it is new.
Resumed(run, d) ==
  IF run.kind = "fresh" THEN [services EXCEPT !.kixdns = NoPiece, !.kixdnsBoots = FALSE]
  ELSE [services EXCEPT !.kixdnsBoots = run.saved.services.kixdnsBoots,
                        !.kixdns = IF run.saved.services.kixdns = NoPiece THEN NoPiece
                                   ELSE StartsKixdns(d)]
EnableServices ==
  /\ install.pc = "put" /\ install.left = {} /\ GoTo("start")
  /\ services' = [(IF install.changed # {} THEN Resumed(install, disk) ELSE services)
                    EXCEPT !.panelBoots = TRUE]
  /\ UNCHANGED <<disk, sound, updateRest, installCounts>>

StartNewPanel ==
  /\ install.pc = "start" /\ GoTo("verify") /\ PanelComesUp
  /\ UNCHANGED <<sound, updateRest, installCounts>>

\* The end of a run, and what the online update makes of it.
RunEnds(what) ==
  /\ install' = NoRun /\ told' = what
  /\ updater' = IF updater # "wait" THEN updater
                ELSE IF what \in {"installed", "already"} THEN "done" ELSE "failed"

\* verify_services_started: the panel, and a KixDNS this run restarted.
VerifyServices ==
  /\ install.pc = "verify"
  /\ IF services.panel = NoPiece \/ (install.restart /\ services.kixdns = NoPiece)
     THEN GoTo("undo") /\ UNCHANGED <<told, updater, cut>>
     ELSE RunEnds("installed") /\ cut' = FALSE
  /\ UNCHANGED <<disk, services, sound, updateState, before, late, installCounts>>

\* A command fails, or a signal comes: rollback_install.
StepFails ==
  /\ install.pc \in {"preserve", "stop", "save", "halt", "put", "start", "verify"}
  /\ InstallEvent /\ GoTo("undo")
  /\ UNCHANGED <<disk, services, sound, updateRest, installRuns>>

UndoServices ==
  /\ install.pc = "undo"
  /\ install' = [install EXCEPT !.pc = "back", !.left = ToUndo(install)]
  /\ services' = [services EXCEPT !.panel = NoPiece,
                    !.panelBoots = IF install.existing THEN @ ELSE FALSE,
                    !.kixdns = IF install.changed # {} THEN NoPiece ELSE @]
  /\ UNCHANGED <<disk, sound, updateRest, installCounts>>

\* Mutant: the database is left as the new panel made it.
UndoPieceButDatabase ==
  /\ install.pc = "back"
  /\ \E p \in Pieces :
       LET gone == disk[p] # NoPiece /\ disk[p] # install.saved.disk[p] /\ p # "database" IN
         /\ IsNext(p, UndoOrder)
         /\ disk' = [disk EXCEPT ![p] = IF gone THEN NoPiece ELSE IF p = "database" THEN @
                                        ELSE install.saved.disk[p]]
         /\ install' = IF gone THEN install ELSE [install EXCEPT !.left = @ \ {p}]
  /\ UNCHANGED <<services, sound, updateRest, installCounts>>

\* restore_path: the piece is removed, then the saved one put there.
UndoPiece ==
  /\ install.pc = "back"
  /\ \E p \in Pieces :
       LET gone == disk[p] # NoPiece /\ disk[p] # install.saved.disk[p] /\ p # "resolver" IN
         /\ IsNext(p, UndoOrder)
         /\ disk' = [disk EXCEPT ![p] = IF gone THEN NoPiece ELSE install.saved.disk[p]]
         /\ install' = IF gone THEN install ELSE [install EXCEPT !.left = @ \ {p}]
  /\ UNCHANGED <<services, sound, updateRest, installCounts>>

\* KixDNS as it was; a failed migration gives its backup up.
UndoKixdns ==
  /\ install.pc = "back" /\ install.left = {} /\ GoTo("restart")
  /\ services' = IF install.created \/ install.changed # {} THEN Resumed(install, disk)
                 ELSE services
  /\ disk' = IF install.created THEN [disk EXCEPT !.external = NoPiece] ELSE disk
  /\ UNCHANGED <<sound, updateRest, installCounts>>

\* The earlier panel is started and watched before anything is told.
UndoPanel ==
  /\ install.pc = "restart"
  /\ IF install.existing THEN PanelComesUp ELSE UNCHANGED <<disk, services>>
  /\ RunEnds(IF install.existing /\ services'.panel = NoPiece THEN "still down" ELSE "restored")
  /\ UNCHANGED <<sound, updateState, installHistory, installCounts>>

---------------------------------------------------------------------------
(* The online update.                                                      *)

\* is_running, with the half hour a status file counts for.
ShownRunning == updateState.state \in {"checking", "downloading"} /\ ~updateState.old
Shows(state) == updateState' = [state |-> state, old |-> FALSE]

\* The helper has systemd run the updater, which it refuses while one does.
LaunchPanelUpdate == disk.tools # NoPiece /\ updater = "idle" /\ updater' = "check"

\* start_panel_update: none is shown running, and the panel that runs is not the newest.
StartPanelUpdate ==
  /\ services.panel = 1 /\ ~ShownRunning /\ LaunchPanelUpdate
  /\ ~Running /\ installRuns < MaxInstallRuns
  /\ UNCHANGED <<disk, services, sound, install, updateState, told, installHistory, installCounts>>

ShowChecking ==
  /\ updater = "check" /\ updater' = "compare" /\ Shows("checking")
  /\ UNCHANGED <<disk, services, sound, install, told, installHistory, installCounts>>

\* The newest release against the recorded one: none to do, or the download.
CompareReleases ==
  /\ updater = "compare"
  /\ IF disk.env = 2 THEN updater' = "idle" /\ Shows("complete")
     ELSE updater' = "fetch" /\ Shows("downloading")
  /\ UNCHANGED <<disk, services, sound, install, told, installHistory, installCounts>>

\* one-click-install.sh has the package and hands over.
RunInstaller ==
  /\ updater = "fetch" /\ ~Running /\ installRuns < MaxInstallRuns
  /\ IF AlreadyInstalled
     THEN /\ updater' = "done" /\ told' = "already" /\ UNCHANGED <<install, installRuns, late>>
          /\ before' = Host
     ELSE updater' = "wait" /\ BeginRun(TRUE, FALSE)
  /\ UNCHANGED <<disk, services, sound, updateState, cut, installEvents>>

UpdateFails ==
  /\ updater \in {"compare", "fetch"} /\ InstallEvent /\ updater' = "failed"
  /\ UNCHANGED <<disk, services, sound, install, updateState, told, installHistory, installRuns>>

ReportUpdate ==
  /\ updater \in {"done", "failed"} /\ updater' = "idle"
  /\ Shows(IF updater = "done" THEN "complete" ELSE "failed")
  /\ UNCHANGED <<disk, services, sound, install, told, installHistory, installCounts>>

StatusAges ==
  /\ ShownRunning /\ updateState' = [updateState EXCEPT !.old = TRUE] /\ InstallEvent
  /\ UNCHANGED <<disk, services, sound, install, updater, told, installHistory, installRuns>>

---------------------------------------------------------------------------
(* The panel's own changes, and what cuts a run off.                       *)

\* A configuration is saved, or KixDNS is switched to another build, which is taken back when
\* KixDNS does not come up again.
PanelChanges ==
  /\ services.panel # NoPiece /\ InstallEvent /\ told' = "nothing"
  /\ \/ disk' = [disk EXCEPT !.config = 2] /\ UNCHANGED services
     \/ /\ disk.kernel # NoPiece /\ disk' = [disk EXCEPT !.kernel = 3]
        /\ services' = [services EXCEPT !.kixdns = IF @ = NoPiece THEN NoPiece ELSE StartsKixdns(disk')]
        /\ services.kixdns # NoPiece => services'.kixdns # NoPiece
  /\ IF Running /\ install.kind # "panel-only"
     THEN late' = TRUE /\ UNCHANGED before
     ELSE before' = [disk |-> [before.disk EXCEPT !.config = disk'.config,
                                                  !.kernel = disk'.kernel],
                     services |-> [before.services EXCEPT !.kixdns = services'.kixdns]]
          /\ UNCHANGED late
  /\ UNCHANGED <<sound, install, updater, updateState, cut, installRuns>>

\* kill -9: no trap runs.
InstallerKilled ==
  /\ Running /\ InstallEvent /\ cut' = TRUE /\ RunEnds("nothing")
  /\ UNCHANGED <<disk, services, sound, updateState, before, late, installRuns>>

\* The power goes, and the boot starts what it is told to.
PowerLoss ==
  /\ Running /\ InstallEvent /\ cut' = TRUE
  /\ install' = NoRun /\ told' = "nothing" /\ updater' = "idle"
  /\ \E start \in IF services.panelBoots THEN StartsPanel(disk)
                  ELSE {[up |-> NoPiece, database |-> disk.database]} :
       /\ disk' = [disk EXCEPT !.database = start.database]
       /\ services' = [services EXCEPT !.panel = start.up,
                         !.kixdns = IF services.kixdnsBoots THEN StartsKixdns(disk) ELSE NoPiece]
  /\ UNCHANGED <<sound, updateState, before, late, installRuns>>

InstallNext ==
  \/ Install \/ PreserveExternal \/ StopPanel \/ SaveDatabase \/ HaltKixdns \/ PutPiece
  \/ EnableServices \/ StartNewPanel \/ VerifyServices \/ StepFails
  \/ UndoServices \/ UndoPiece \/ UndoKixdns \/ UndoPanel
  \/ StartPanelUpdate \/ ShowChecking \/ CompareReleases \/ RunInstaller \/ UpdateFails
  \/ ReportUpdate \/ StatusAges
  \/ PanelChanges \/ InstallerKilled \/ PowerLoss

InstallSpec == InstallInit /\ [][InstallNext]_installVars

---------------------------------------------------------------------------
(* Properties.                                                             *)

\* The newest panel is there, whole, and runs on its own database.
PanelWhole ==
  /\ \A p \in PanelPieces : disk[p] = 2
  /\ services.panel = 2 /\ services.panelBoots /\ disk.database = 2

\* What of KixDNS a run that ended leaves: its own, running as the host's did, or nothing new.
KixdnsAsBefore ==
  /\ \A p \in KixdnsPieces : disk[p] = before.disk[p]
  /\ services.kixdns = before.services.kixdns
KixdnsWhole ==
  /\ disk.kernel = 2 /\ disk.kunit = 2 /\ disk.bundle = 2 /\ disk.config # NoPiece
  /\ services.kixdns = NoPiece <=> before.services.kixdns = NoPiece

Restored ==
  /\ disk = [before.disk EXCEPT !.database = disk.database]
  /\ \/ services.kixdns = before.services.kixdns
     \/ services.kixdns = NoPiece /\ before.disk.config = NoPiece
  /\ services.kixdnsBoots = before.services.kixdnsBoots
  /\ cut \/ services.panelBoots = before.services.panelBoots

\* install.sh's own words, "after that the run either completes or rolls back": told
\* installed, all of the release is there and runs; told restored, the host is as it was, and
\* the panel runs on the database it had; told the panel does not come up again, it did not
\* run before.  An online update that tells it is complete has brought the newest panel,
\* unless a run was cut off.  What the panel changed between the save and its stop is left out,
\* and so is a KixDNS that ran on without its configuration file, which cannot be started.
InstallAllOrNothing ==
  /\ told = "installed" =>
       /\ PanelWhole
       /\ late \/ KixdnsAsBefore \/ KixdnsWhole
       /\ services.kixdnsBoots = before.services.kixdnsBoots
  /\ told = "restored" =>
       /\ late \/ Restored
       /\ before.services.panel # NoPiece => cut \/ services.panel = before.services.panel
  /\ told = "still down" => before.services.panel = NoPiece
  /\ told = "already" => cut \/ PanelWhole
  /\ updateState.state = "complete" => cut \/ disk.server = 2
=============================================================================
