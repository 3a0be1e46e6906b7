-------------------------- MODULE RestartRollback --------------------------
(***************************************************************************)
(* What the panel remembers of KixDNS's starts, and the two ways out it    *)
(* offers when KixDNS does not come back from a restart (app/restart.rs):  *)
(* putting the settings that only a restart changes back to the values the *)
(* reference process started with (roll_back), or writing the pending      *)
(* version into the formal file unchecked (restart_with_pending).          *)
(*                                                                         *)
(* A content is its restart-only settings and the rest of it, its body;    *)
(* the content stands for its digest.  The table of versions is            *)
(* ConfigHistory's.  How a pending version is applied while KixDNS answers *)
(* is the subject of ConfigApply; here it is reduced to what it does to    *)
(* the record and the formal file.  Both requests of one pass (health and  *)
(* active_config, sent together) are answered by one process; the two that *)
(* activate_candidate sends one after the other need not be.               *)
(***************************************************************************)
EXTENDS Integers, FiniteSets

CONSTANTS
  Keys, Vals,   \* settings that take a restart, and their values
  Bodies,       \* everything else in a configuration
  NoConfig,     \* no content
  Unknown,      \* starting values nobody has recorded
  Steady,       \* STEADY_SECONDS
  MaxId,        \* bound on row ids
  MaxVersions,  \* retention of the table
  MaxProcs,     \* bound on KixDNS processes
  MaxAge,       \* bound on a process's uptime
  MaxEvents     \* bound on saves, deletions, dropped requests and panel restarts

Settings == [Keys -> Vals]
Contents == [set: Settings, body: Bodies]

INSTANCE ConfigHistory WITH Configs <- Contents

ASSUME RestartAssumption ==
  /\ {Steady, MaxAge, MaxId, MaxVersions} \subseteq Nat \ {0}
  /\ MaxProcs \in Nat \ {0, 1}
  /\ MaxEvents \in Nat
  /\ Unknown \notin Settings
  /\ Contents # {} /\ NoConfig \notin Contents

Procs == 1 .. MaxProcs

VARIABLES
  formal,    \* the configuration file KixDNS reads
  rows,      \* config_versions
  kernel,    \* KixDNS and its systemd unit
  startup,   \* the Startup record
  rolled,    \* RolledBack.carried: id and digest, or NoStamp
  op,        \* the handler that holds config_apply_lock
  reader,    \* the background pass (a page's read is the same)
  shown,     \* the pending version the page shows: id and digest
  events,    \* how many of these there were
  started,   \* history: the settings each process started with
  cameUp,    \* history: the processes that bound their addresses
  carriedId  \* history: the row with the edits a finished roll back carried

vars == <<formal, rows, kernel, startup, rolled, op, reader, shown, events,
          started, cameUp, carriedId>>
history == <<started, cameUp>>

NoStamp == [id |-> 0, cfg |-> NoConfig]
NoWatch == [proc |-> 0, first |-> 0, settings |-> Unknown]
NoRead  == [proc |-> 0, age |-> 0, cfg |-> NoConfig, waits |-> {}]
Idle    == [pc |-> "idle", kind |-> "none", id |-> 0, read |-> NoRead,
            svc |-> "", values |-> Unknown, keep |-> NoConfig, shown |-> NoConfig]
NoPass  == [pc |-> "idle", read |-> NoRead, known |-> Unknown]

---------------------------------------------------------------------------
(* KixDNS and systemd.                                                     *)

Reachable == kernel.phase \in {"answering", "up"}

\* ServiceStatus of a phase; "failing" is failed, or auto-restart in between two tries.
ServiceState ==
  CASE kernel.phase = "stopped" -> "inactive"
    [] kernel.phase = "failing" -> "failing"
    [] OTHER                    -> "active"

\* GET /v1/health and /v1/config/active of one process.
Report == [proc |-> kernel.proc, age |-> kernel.age, cfg |-> kernel.active,
           waits |-> {k \in Keys : kernel.active.set[k] # started[kernel.proc][k]}]

\* A new process reads the formal file.
Launch == /\ kernel.proc < MaxProcs
          /\ kernel' = [proc |-> kernel.proc + 1, phase |-> "loading", age |-> 0,
                        active |-> formal]
          /\ started' = [started EXCEPT ![kernel.proc + 1] = formal.set]
          /\ UNCHANGED cameUp

Others == <<formal, rows, startup, rolled, op, reader, shown, events, carriedId>>

\* systemd tries again, or somebody outside the panel starts the service.
KernelStart ==
  /\ kernel.phase \in {"failing", "stopped"}
  /\ Launch
  /\ UNCHANGED Others

\* Loading ends: the process answers, for a moment before it binds.
KernelAnswers ==
  /\ kernel.phase = "loading"
  /\ kernel' = [kernel EXCEPT !.phase = "answering"]
  /\ UNCHANGED <<Others, history>>

KernelBinds ==
  /\ kernel.phase = "answering"
  /\ kernel' = [kernel EXCEPT !.phase = "up"]
  /\ cameUp' = cameUp \union {kernel.proc}
  /\ UNCHANGED <<Others, started>>

\* It cannot load or bind, or it crashes later; systemd retries or gives up.
KernelDies ==
  /\ kernel.phase \in {"loading", "answering", "up"}
  /\ kernel' = [kernel EXCEPT !.phase = "failing"]
  /\ UNCHANGED <<Others, history>>

\* Time in the life of a process that came up: only what passes after it was first
\* seen, and until it counts as steady, makes a difference.
KernelAges ==
  /\ kernel.phase = "up" /\ kernel.age < MaxAge
  /\ startup.watching.proc = kernel.proc
  /\ kernel.age < startup.watching.first + Steady
  /\ kernel' = [kernel EXCEPT !.age = @ + 1]
  /\ UNCHANGED <<Others, history>>

\* The file watch: a content that is accepted is in effect, its settings wait.
KernelReloads ==
  /\ kernel.phase = "up" /\ kernel.active # formal
  /\ kernel' = [kernel EXCEPT !.active = formal]
  /\ UNCHANGED <<Others, history>>

Kernel == KernelStart \/ KernelAnswers \/ KernelBinds \/ KernelDies
          \/ KernelAges \/ KernelReloads

---------------------------------------------------------------------------
(* The record.                                                             *)

\* seen_alive: a process was read; known is the formal file's settings or Unknown.
Told(old, known) == IF known # Unknown THEN known ELSE old

\* Mutant: the mark is cleared only when a process becomes the reference.
SeenAgainKeepsMark(s, read, known) ==
  [s EXCEPT !.settings = Told(@, known), !.waits = read.waits]

\* The reference process.
SeenAgain(s, read, known) ==
  [s EXCEPT !.settings = Told(@, known), !.waits = read.waits, !.down = FALSE]

\* Another one, watched until it has been seen twice STEADY_SECONDS apart.
WatchOf(s, read, known) ==
  LET watch == IF s.watching.proc = read.proc THEN s.watching
               ELSE [NoWatch EXCEPT !.proc = read.proc, !.first = read.age]
  IN  [watch EXCEPT !.settings = Told(@, known)]

SeenAlive(s, read, known) ==
  LET watch == WatchOf(s, read, known)
  IN  IF s.process = read.proc THEN SeenAgain(s, read, known)
      ELSE IF read.age - watch.first >= Steady
        THEN [process |-> read.proc, settings |-> watch.settings, waits |-> read.waits,
              watching |-> NoWatch, down |-> FALSE]
      ELSE [s EXCEPT !.watching = watch]

\* Mutant: whatever the file holds now is taken for what the process uses.
KnownAnyDigest(read) == IF read.waits = {} THEN formal.set ELSE Unknown

\* note_alive: the formal file counts only when nothing waits and it is the one in use.
Known(read) == IF read.waits = {} /\ formal = read.cfg THEN formal.set ELSE Unknown

DidNotComeUp(svc) == svc = "failing"
Marked(s, svc) == IF DidNotComeUp(svc) THEN [s EXCEPT !.down = TRUE] ELSE s
NewAttempt(s)  == [s EXCEPT !.down = FALSE]

\* rollback_values: the keys that can go back.
RollbackKeys(s) ==
  IF s.settings = Unknown THEN {}
  ELSE {k \in s.waits : formal.set[k] # s.settings[k]}

\* with_values
WithValues(c, keys, values) ==
  [c EXCEPT !.set = [k \in Keys |-> IF k \in keys THEN values[k] ELSE @[k]]]

\* Not coming up: the mark is set and the service not cleanly stopped.
Down(s, svc) == s.down /\ svc # "inactive"

---------------------------------------------------------------------------
(* The background pass every 5 seconds, and every read of the config page  *)
(* or the overview: each await is a step.                                  *)

ReadWorld == <<formal, rows, kernel, rolled, op, shown, events, history,
               carriedId>>

PassAsks ==
  /\ reader.pc = "idle" /\ Reachable
  /\ reader' = [NoPass EXCEPT !.pc = IF Report.waits = {} THEN "alive" ELSE "note",
                              !.read = Report]
  /\ UNCHANGED <<ReadWorld, startup>>

PassReadsFormal ==
  /\ reader.pc = "alive"
  /\ reader' = [reader EXCEPT !.pc = "note", !.known = Known(reader.read),
                             !.read.cfg = NoConfig]
  /\ UNCHANGED <<ReadWorld, startup>>

PassNotes ==
  /\ reader.pc = "note"
  /\ startup' = SeenAlive(startup, reader.read, reader.known)
  /\ reader' = NoPass
  /\ UNCHANGED ReadWorld

\* note_unreachable; a service that is failing does not answer.
PassReadsService ==
  /\ reader.pc = "idle" /\ DidNotComeUp(ServiceState)
  /\ reader' = [NoPass EXCEPT !.pc = "mark"]
  /\ UNCHANGED <<ReadWorld, startup>>

PassMarks ==
  /\ reader.pc = "mark"
  /\ startup' = [startup EXCEPT !.down = TRUE]
  /\ reader' = NoPass
  /\ UNCHANGED ReadWorld

Pass == PassAsks \/ PassReadsFormal \/ PassNotes \/ PassReadsService \/ PassMarks

---------------------------------------------------------------------------
(* Saving, deleting, and applying the pending version.                     *)

Goto(pc) == op' = [op EXCEPT !.pc = pc]
Frame == <<reader, events, history>>   \* what no handler step changes by itself

OpenRow == rows[OpenOf(rows)]
Waiting == OpenIds(rows) # {} /\ OpenRow.state = "pending"
Desired == IF OpenIds(rows) # {} THEN OpenRow.cfg ELSE formal

\* Mutant: the open version stays open.
StoreBesideOpen(n, c) ==
  /\ IsNextId(rows, n)
  /\ rows' = Pruned([rows EXCEPT ![n] = [cfg |-> c, state |-> "pending"]])
  /\ carriedId' = IF n = carriedId THEN 0 ELSE carriedId

\* A new row takes the id n; a row pruned or replaced is no carried row any more.
Store(n, c) == /\ IsNextId(rows, n)
               /\ rows' = Stored(rows, n, c, "pending")
               /\ carriedId' = IF n = carriedId THEN 0 ELSE carriedId

Applying(id) == [Idle EXCEPT !.pc = "apply", !.kind = "apply", !.id = id]

Happens == events < MaxEvents /\ events' = events + 1

\* Saving what the page shows already would change nothing but the id.
SaveConfig(c) ==
  /\ op = Idle /\ c # Desired
  /\ Happens
  /\ \E n \in Ids : /\ Store(n, c)
                    /\ op' = IF Reachable THEN Applying(n) ELSE Idle
  /\ UNCHANGED <<formal, kernel, startup, rolled, shown, reader, history>>

\* delete_config_versions: never the version in the formal file.
DeleteVersion(i) ==
  /\ op = Idle
  /\ Happens
  /\ i \in Present(rows) /\ i \notin VersionIdsOf(rows, formal)
  /\ rows' = Deleted(rows, {i})
  /\ carriedId' = IF i = carriedId THEN 0 ELSE carriedId
  /\ UNCHANGED <<formal, kernel, startup, rolled, op, shown, reader, history>>

ReconcilePending ==
  /\ op = Idle /\ Waiting
  /\ op' = Applying(OpenOf(rows))
  /\ UNCHANGED <<formal, rows, kernel, startup, rolled, shown, carriedId, Frame>>

\* What follows an apply: a restart sent by service_action, or nothing.
Applied(kind) == IF kind = "restart" THEN [Idle EXCEPT !.pc = "observe", !.kind = kind]
                 ELSE Idle

\* validate_candidate and activate_candidate up to before_reload.
ApplyReads ==
  /\ op.pc = "apply"
  /\ \/ /\ Reachable
        /\ op' = [op EXCEPT !.pc = "health", !.read = Report, !.keep = formal]
        /\ UNCHANGED rows
     \/ /\ op' = Applied(op.kind)                  \* deferred
        /\ UNCHANGED rows
     \/ /\ Reachable                               \* refused
        /\ rows' = MarkedFailed(rows, op.id)
        /\ op' = Applied(op.kind)
  /\ UNCHANGED <<formal, kernel, startup, rolled, shown, carriedId, Frame>>

\* The note before the reload: health is read after active_config.
ApplyNotes ==
  /\ op.pc = "health"
  /\ startup' = IF Reachable
                THEN SeenAlive(startup, [op.read EXCEPT !.proc = kernel.proc, !.age = kernel.age],
                               Known(op.read))
                ELSE startup
  /\ op' = [op EXCEPT !.pc = "write", !.read = NoRead]
  /\ UNCHANGED <<formal, rows, kernel, rolled, shown, carriedId, Frame>>

ApplyWrites ==
  /\ op.pc = "write" /\ op.kind \in {"apply", "restart"}
  /\ formal' = rows[op.id].cfg
  /\ Goto("wait")
  /\ UNCHANGED <<rows, kernel, startup, rolled, shown, carriedId, Frame>>

ApplyConfirmed ==
  /\ op.pc = "wait" /\ Reachable /\ kernel.active = rows[op.id].cfg
  /\ rows' = MarkedApplied(rows, op.id)
  /\ op' = Applied(op.kind)
  /\ UNCHANGED <<formal, kernel, startup, rolled, shown, carriedId, Frame>>

\* Refused, unanswered or too late: the earlier content comes back.
ApplyFails ==
  /\ op.pc = "wait"
  /\ formal' = op.keep
  /\ rows' = MarkedFailed(rows, op.id)
  /\ op' = Applied(op.kind)
  /\ UNCHANGED <<kernel, startup, rolled, shown, carriedId, Frame>>

Apply == ApplyReads \/ ApplyNotes \/ ApplyWrites \/ ApplyConfirmed \/ ApplyFails

---------------------------------------------------------------------------
(* roll_back                                                               *)

\* Steps that leave the configuration alone.
SameConfig == <<formal, rows, rolled, shown, carriedId>>

Begin(kind, pc, id, c) ==
  /\ op = Idle
  /\ op' = [Idle EXCEPT !.pc = pc, !.kind = kind, !.id = id, !.shown = c]

\* config_apply_lock taken, KixDNS does not answer.
RollBack ==
  /\ ~Reachable /\ kernel.proc < MaxProcs
  /\ Begin("rollback", "service", 0, NoConfig)
  /\ UNCHANGED <<SameConfig, kernel, startup, Frame>>

\* note_unreachable reads the service, then marks the record.
ReadService ==
  /\ op.pc = "service"
  /\ op' = [op EXCEPT !.pc = "mark", !.svc = ServiceState]
  /\ UNCHANGED <<SameConfig, kernel, startup, Frame>>

MarkDown ==
  /\ op.pc = "mark"
  /\ startup' = Marked(startup, op.svc)
  /\ Goto("judge")
  /\ UNCHANGED <<SameConfig, kernel, Frame>>

\* offer: down, and settings to put back; waiting edits are read before the first save.
AcceptRollback ==
  /\ op.pc = "judge" /\ op.kind = "rollback"
  /\ op' = IF Down(startup, op.svc) /\ RollbackKeys(startup) # {}
           THEN [op EXCEPT !.pc = "save", !.svc = "",
                   !.values = [k \in RollbackKeys(startup) |-> startup.settings[k]],
                   !.keep = IF Waiting THEN Desired ELSE NoConfig]
           ELSE Idle
  /\ UNCHANGED <<SameConfig, kernel, startup, Frame>>

PutBack(c) == WithValues(c, DOMAIN op.values, op.values)

\* Mutant: the settings are put back into what the user edits.
SaveRolledBackEdits ==
  /\ op.pc = "save"
  /\ \E n \in Ids : /\ Store(n, PutBack(Desired))
                    /\ op' = [op EXCEPT !.pc = "write", !.id = n]
  /\ UNCHANGED <<formal, kernel, startup, rolled, shown, Frame>>

SaveRolledBack ==
  /\ op.pc = "save"
  /\ \E n \in Ids : /\ Store(n, PutBack(formal))
                    /\ op' = [op EXCEPT !.pc = "write", !.id = n]
  /\ UNCHANGED <<formal, kernel, startup, rolled, shown, Frame>>

WriteRolledBack ==
  /\ op.pc = "write" /\ op.kind = "rollback"
  /\ formal' = rows[op.id].cfg
  /\ Goto("carry")
  /\ UNCHANGED <<rows, kernel, startup, rolled, shown, carriedId, Frame>>

\* The waiting edits, with the same settings put back, as a version of their own.
SaveCarried ==
  /\ op.pc = "carry"
  /\ IF op.keep # NoConfig
     THEN \E n \in Ids : /\ Store(n, PutBack(op.keep))
                         /\ op' = [op EXCEPT !.pc = "remember", !.id = n]
     ELSE /\ Goto("remember")
          /\ UNCHANGED <<rows, carriedId>>
  /\ UNCHANGED <<formal, kernel, startup, rolled, shown, Frame>>

\* remember_rollback replaces the last one's record.
RememberRollback ==
  /\ op.pc = "remember"
  /\ LET carried == op.keep # NoConfig
     IN  /\ rolled' = IF carried THEN [id |-> op.id, cfg |-> rows[op.id].cfg] ELSE NoStamp
         /\ carriedId' = IF carried THEN op.id ELSE 0
  /\ Goto("request")
  /\ UNCHANGED <<formal, rows, kernel, startup, shown, Frame>>

\* new_attempt and the request to restart (service_action's came at its beginning).
RequestRestart ==
  /\ op.pc = "request"
  /\ Launch
  /\ startup' = IF op.kind = "restart" THEN startup ELSE NewAttempt(startup)
  /\ op' = [Idle EXCEPT !.pc = "settle", !.kind = op.kind]
  /\ UNCHANGED <<SameConfig, reader, events>>

\* new_attempt once more; the lock is given back.
SettleRestart ==
  /\ op.pc = "settle"
  /\ startup' = NewAttempt(startup)
  /\ op' = Idle
  /\ UNCHANGED <<SameConfig, kernel, Frame>>

---------------------------------------------------------------------------
(* restart_with_pending                                                    *)

\* Mutant: the record of the last roll back is not looked at.
WritableUnlessInFile == Waiting /\ OpenRow.cfg # formal

\* writable_pending
WritablePending ==
  /\ Waiting
  /\ OpenRow.cfg # formal
  /\ rolled # [id |-> OpenOf(rows), cfg |-> OpenRow.cfg]

\* get_config or service_status shows the version that can be written.
ShowPending ==
  /\ ~Reachable /\ Down(startup, ServiceState) /\ RollbackKeys(startup) = {}
  /\ WritablePending
  /\ shown' = [id |-> OpenOf(rows), cfg |-> OpenRow.cfg]
  /\ UNCHANGED <<formal, rows, kernel, startup, rolled, op, carriedId, Frame>>

RestartWithPending ==
  /\ ~Reachable
  /\ shown # NoStamp
  /\ Begin("write", "service", shown.id, shown.cfg)
  /\ shown' = NoStamp
  /\ UNCHANGED <<formal, rows, rolled, carriedId, kernel, startup, Frame>>

AcceptPending ==
  /\ op.pc = "judge" /\ op.kind = "write"
  /\ IF /\ Down(startup, op.svc)
        /\ RollbackKeys(startup) = {}
        /\ OpenOf(rows) = op.id
        /\ WritablePending
     THEN op' = [op EXCEPT !.pc = "write", !.svc = ""]
     ELSE op' = Idle
  /\ UNCHANGED <<SameConfig, kernel, startup, Frame>>

WritePending ==
  /\ op.pc = "write" /\ op.kind = "write"
  /\ formal' = rows[op.id].cfg
  /\ Goto("request")
  /\ UNCHANGED <<rows, kernel, startup, rolled, shown, carriedId, Frame>>

---------------------------------------------------------------------------
(* service_action: restart and stop hold config_apply_lock, start does not. *)

\* A new attempt; a KixDNS that answers is given the pending version first.
ServiceRestart ==
  /\ kernel.proc < MaxProcs
  /\ Begin("restart",
           IF ~Reachable THEN "request" ELSE IF Waiting THEN "apply" ELSE "observe",
           IF Reachable /\ Waiting THEN OpenOf(rows) ELSE 0, NoConfig)
  /\ startup' = NewAttempt(startup)
  /\ UNCHANGED <<SameConfig, kernel, Frame>>

\* observe, after the pending version was applied.
ObserveAsks ==
  /\ op.pc = "observe"
  /\ IF Reachable THEN /\ op' = [op EXCEPT !.pc = "noting", !.read = Report]
                       /\ UNCHANGED startup
                  ELSE /\ startup' = Marked(startup, ServiceState)
                       /\ Goto("request")
  /\ UNCHANGED <<SameConfig, kernel, Frame>>

ObserveNotes ==
  /\ op.pc = "noting"
  /\ startup' = SeenAlive(startup, op.read, Known(op.read))
  /\ op' = [op EXCEPT !.pc = "request", !.read = NoRead]
  /\ UNCHANGED <<SameConfig, kernel, Frame>>

ServiceStop ==
  /\ op = Idle /\ kernel.phase # "stopped"
  /\ kernel' = [kernel EXCEPT !.phase = "stopped"]
  /\ UNCHANGED <<Others, history>>

\* Both calls of new_attempt and the request between them.
ServiceStart ==
  /\ kernel.phase \in {"failing", "stopped"}
  /\ Launch
  /\ startup' = NewAttempt(startup)
  /\ UNCHANGED <<SameConfig, op, reader, events>>

---------------------------------------------------------------------------
(* Faults.                                                                 *)

\* The connection of a request goes, or one of its steps returns an error.
DropRequest ==
  /\ op # Idle
  /\ Happens
  /\ op' = Idle
  /\ UNCHANGED <<SameConfig, kernel, startup, reader, history>>

\* The panel ends and starts again: new_attempt in build_app.
PanelRestart ==
  /\ Happens
  /\ op' = Idle
  /\ reader' = NoPass
  /\ startup' = NewAttempt(startup)
  /\ UNCHANGED <<SameConfig, kernel, history>>

---------------------------------------------------------------------------
(* The panel has just met a KixDNS that came up, or KixDNS did not survive *)
(* a restart, because of a setting changed before it or for another        *)
(* reason, with or without a version saved since.                          *)

\* (The number of the first process only says how many more fit below MaxProcs.)
NoStartup == [process |-> 0, settings |-> Unknown, waits |-> {},
              watching |-> NoWatch, down |-> FALSE]

OneVersion(c) == [i \in Ids |-> IF i = 1 THEN [cfg |-> c, state |-> "applied"] ELSE Absent]

JustMet ==
  /\ rows = OneVersion(formal)
  /\ kernel = [proc |-> MaxProcs - 1, phase |-> "up", age |-> 0, active |-> formal]
  /\ startup = NoStartup
  /\ started = [p \in Procs |-> IF p = MaxProcs - 1 THEN formal.set ELSE Unknown]
  /\ cameUp = {MaxProcs - 1}

DownAfterRestart ==
  \E before \in Settings, edit \in Contents :
    /\ edit # formal
    /\ rows \in {OneVersion(formal),
                 [OneVersion(formal) EXCEPT ![2] = [cfg |-> edit, state |-> "pending"]]}
    /\ kernel = [proc |-> 2, phase |-> "failing", age |-> 0, active |-> formal]
    /\ startup = [NoStartup EXCEPT !.process = 1, !.settings = before, !.down = TRUE,
                                   !.waits = {k \in Keys : before[k] # formal.set[k]}]
    /\ started = [p \in Procs |-> IF p = 1 THEN before
                                  ELSE IF p = 2 THEN formal.set ELSE Unknown]
    /\ cameUp = {1}

\* The contents are alike, so it does not matter which one the file has.
Init ==
  /\ formal = CHOOSE c \in Contents : TRUE
  /\ JustMet \/ DownAfterRestart
  /\ rolled = NoStamp
  /\ op = Idle
  /\ reader = NoPass
  /\ shown = NoStamp
  /\ events = 0
  /\ carriedId = 0

Edit == (\E c \in Contents : SaveConfig(c)) \/ (\E i \in Ids : DeleteVersion(i))

Restarting == ReadService \/ MarkDown \/ AcceptRollback \/ SaveRolledBack \/ WriteRolledBack
              \/ SaveCarried \/ RememberRollback \/ RequestRestart \/ SettleRestart
              \/ AcceptPending \/ WritePending \/ ObserveAsks \/ ObserveNotes

Request == RollBack \/ ShowPending \/ RestartWithPending \/ ServiceRestart
           \/ ServiceStop \/ ServiceStart

Next == Kernel \/ Pass \/ Edit \/ ReconcilePending \/ Apply \/ Request \/ Restarting
        \/ DropRequest \/ PanelRestart

\* The pass runs every 5 seconds and its calls end; time passes for a process.
Fairness == WF_vars(Pass) /\ WF_vars(KernelAges)

Spec == Init /\ [][Next]_vars /\ Fairness

---------------------------------------------------------------------------
(* Properties.                                                             *)

Reads == [proc: {0} \union Procs, age: 0 .. MaxAge, cfg: Contents \union {NoConfig},
          waits: SUBSET Keys]
MaybeSettings == Settings \union {Unknown}
Stamps == [id: {0} \union Ids, cfg: Contents \union {NoConfig}]

\* The values every variable has; the table keeps at most one open, newest version.
TypeOK ==
  /\ formal \in Contents
  /\ GoodTable(rows)
  /\ kernel \in [proc: Procs, age: 0 .. MaxAge, active: Contents,
                 phase: {"stopped", "failing", "loading", "answering", "up"}]
  /\ startup \in [process: {0} \union Procs, settings: MaybeSettings, waits: SUBSET Keys,
                  watching: [proc: {0} \union Procs, first: 0 .. MaxAge,
                             settings: MaybeSettings],
                  down: BOOLEAN]
  /\ rolled \in Stamps /\ shown \in Stamps
  /\ op.pc \in {"idle", "apply", "health", "write", "wait", "service", "mark", "judge",
                "save", "carry", "remember", "request", "settle", "observe", "noting"}
  /\ op.id \in {0} \union Ids /\ op.read \in Reads
  /\ reader.pc \in {"idle", "alive", "note", "mark"} /\ reader.read \in Reads
  /\ reader.known \in MaybeSettings
  /\ events \in 0 .. MaxEvents
  /\ started \in [Procs -> MaybeSettings]
  /\ cameUp \subseteq Procs
  /\ carriedId \in {0} \union Ids

\* "When a process reports nothing waiting for a restart and the formal file is the one
\* it uses, the file's settings are what it started with": however late a pass or a
\* handler writes what it read, the values recorded for a process are its own.
RecordedIsStarted ==
  /\ startup.settings # Unknown => startup.settings = started[startup.process]
  /\ startup.watching.settings # Unknown =>
       startup.watching.settings = started[startup.watching.proc]

\* "Only the formal file changes [...] and these values are what it ran with": a roll back
\* writes values that one and the same process started with and came up with, and leaves
\* the rest of the file as it was, whatever edits are waiting beside it.
RollbackOnlyPutsBack ==
  [][op.pc = "write" /\ op.kind = "rollback" /\ op'.pc = "carry" =>
       /\ formal'.body = formal.body
       /\ \A k \in Keys \ DOMAIN op.values : formal'.set[k] = formal.set[k]
       /\ \E p \in cameUp : \A k \in DOMAIN op.values : formal'.set[k] = started[p][k]]_vars

\* The edits a finished roll back carried along are never written into the formal file
\* unchecked: the only way into it is an apply, whatever was saved, deleted, rolled back
\* or given the same id since.
CarriedIsChecked ==
  [][op.kind = "write" /\ op.pc = "write" /\ op'.pc = "request" => op.id # carriedId]_vars

\* Whether the panel says that KixDNS does not come up follows the service in the end: a
\* service that stays failed is found out, and a process that stays up clears the mark,
\* also one set late from a state read before it came up.
MarkFollowsService ==
  /\ <>[](kernel.phase = "failing") => <>[]startup.down
  /\ <>[](kernel.phase = "up") => <>[]~startup.down

\* "The pending version the page confirmed is the one written": a version stored under
\* the same id since then is not.
ConfirmedIsWritten ==
  [][op.kind = "write" /\ op.pc = "write" /\ op'.pc = "request" => formal' = op.shown]_vars
=============================================================================
