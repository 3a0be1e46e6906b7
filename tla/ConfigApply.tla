---------------------------- MODULE ConfigApply ----------------------------
(***************************************************************************)
(* How a configuration reaches KixDNS (app.rs, config_store.rs).           *)
(*                                                                         *)
(* The panel keeps a table of versions and the formal file KixDNS watches. *)
(* A handler that changes either one holds config_apply_lock; between two  *)
(* of its awaits KixDNS runs, stops or reloads, an HTTP handler may be     *)
(* dropped with its connection, and the panel may be restarted.  `op` is   *)
(* the handler holding the lock: its program counter and locals.  A page   *)
(* (`view`) is what one user's browser last read; requests are made from   *)
(* it.                                                                     *)
(***************************************************************************)
EXTENDS ConfigHistory

CONSTANTS
  Users,        \* browsers with the configuration page open
  Formatted,    \* format_json: how the panel writes the JSON value of a content
  Valid,        \* contents KixDNS's validation accepts
  Initial,      \* content of the formal file when the panel first starts
  MaxReloads,   \* bound on reloads of one KixDNS process
  MaxStops,     \* bound on stops of KixDNS
  Faults,       \* kinds of fault that can happen
  MaxFaults     \* bound on faults

\* Writing a value again changes nothing more, and its validity is the value's.
ASSUME ApplyAssumption ==
  /\ Formatted \in [Configs -> Configs]
  /\ \A c \in Configs : Formatted[Formatted[c]] = Formatted[c]
  /\ Valid \subseteq Configs
  /\ \A c \in Configs : Formatted[c] \in Valid <=> c \in Valid
  /\ Initial \in Valid
  /\ MaxReloads \in Nat
  /\ MaxStops \in Nat
  /\ Faults \subseteq {"drop", "write", "restart"}
  /\ MaxFaults \in Nat

VARIABLES
  rows,     \* the config_versions table
  file,     \* content of the formal configuration file
  kernel,   \* the KixDNS process and its last reload receipt
  op,       \* the handler that holds config_apply_lock
  view,     \* per user: the desired content their page last read
  loaded,   \* history: contents KixDNS has had in effect
  stops,    \* stops of KixDNS so far
  faults    \* faults so far

vars == <<rows, file, kernel, op, view, loaded, stops, faults>>

CandidatePcs == {"validate_candidate", "activate_candidate", "write_pending",
                 "wait_for_config", "restore_formal", "mark_failed", "mark_applied"}
SystemPcs == {"system_validate", "system_write", "system_store", "system_wait",
              "rollback_write", "rollback_store", "rollback_wait"}
WritePcs == {"write_pending", "restore_formal", "mark_failed", "mark_applied",
             "system_write", "system_store", "rollback_write", "rollback_store"}

Idle == [pc |-> "idle", request |-> FALSE, id |-> 0, cfg |-> NoConfig,
         prev |-> NoConfig, base |-> 0, known |-> FALSE]

Stopped == [running |-> FALSE, active |-> NoConfig, sequence |-> 0,
            success |-> FALSE, changed |-> FALSE]

Started(c) == [running |-> TRUE, active |-> c, sequence |-> 0,
               success |-> TRUE, changed |-> FALSE]

---------------------------------------------------------------------------
(* Contents are bytes, told apart by their digest.  What the panel stores   *)
(* or puts back it writes from the JSON value; only the import at start-up  *)
(* stores a file as it was found.                                          *)

InFormat(c) == Formatted[c] = c
Serialized == {c \in Configs : InFormat(c)}
SameValue(c, d) == Formatted[c] = Formatted[d]

---------------------------------------------------------------------------
(* What the handlers read.                                                 *)

\* ConfigStore::pending
OpenId == OpenOf(rows)

\* ConfigStore::desired: the open version, otherwise the formal file.
Desired == IF OpenId # 0 THEN rows[OpenId].cfg ELSE file

LockFree == op.pc = "idle"

\* atomic_write: the content is replaced as a whole; KixDNS's file watch notices.
WriteFile(c) == /\ file' = c
                /\ kernel' = [kernel EXCEPT !.changed = kernel.running]

\* The receipt wait_for_config accepts.
Acknowledged == /\ kernel.running
                /\ kernel.sequence > op.base
                /\ kernel.active = op.cfg
                /\ kernel.success

\* A handler enters apply_pending_candidate with version n of content c.
StartCandidate(request, n, c) ==
  op' = [Idle EXCEPT !.pc = "validate_candidate", !.request = request,
                     !.id = n, !.cfg = c]

Init ==
  /\ rows = [i \in Ids |-> IF i = 1 THEN [cfg |-> Initial, state |-> "applied"]
                                    ELSE Absent]
  /\ file = Initial
  /\ kernel \in {Stopped, Started(Initial)}
  /\ op = Idle
  /\ view = [u \in Users |-> Initial]
  /\ loaded = {Initial}
  /\ stops = 0
  /\ faults = 0

---------------------------------------------------------------------------
(* Requests that take the lock.                                            *)

\* get_config, or the page reading itself again after a conflict
ReadConfig(u) ==
  /\ view' = [view EXCEPT ![u] = Desired]
  /\ UNCHANGED <<rows, file, kernel, op, loaded, stops, faults>>

\* Mutant: save_pending takes whatever the page sends.
SavePendingUnchecked(u, c) ==
  /\ LockFree
  /\ \E n \in Ids : /\ IsNextId(rows, n)
                    /\ rows' = Stored(rows, n, c, "pending")
                    /\ StartCandidate(TRUE, n, c)
  /\ UNCHANGED <<file, kernel, view, loaded, stops, faults>>

\* save_candidate up to apply_pending_candidate: the page's digest must be the
\* desired one (else Conflict, and nothing changes), then the pending row is stored.
SavePending(u, c) ==
  /\ LockFree
  /\ view[u] = Desired
  /\ \E n \in Ids : /\ IsNextId(rows, n)
                    /\ rows' = Stored(rows, n, c, "pending")
                    /\ StartCandidate(TRUE, n, c)
  /\ UNCHANGED <<file, kernel, view, loaded, stops, faults>>

SaveConfig(u) == \E c \in Serialized : SavePending(u, c)

RestoreConfig(u) == \E i \in Present(rows) : SavePending(u, Formatted[rows[i].cfg])

\* apply_pending_config: only the version that is pending now; every other
\* answer (already applied, failed, changed elsewhere) changes nothing.
ApplyPendingConfig ==
  /\ LockFree
  /\ OpenId # 0
  /\ rows[OpenId].state = "pending"
  /\ StartCandidate(TRUE, OpenId, rows[OpenId].cfg)
  /\ UNCHANGED <<rows, file, kernel, view, loaded, stops, faults>>

\* Mutant: the version in the formal file is not protected.
DeleteConfigVersionsUnprotected(u) ==
  /\ LockFree
  /\ view[u] = Desired
  /\ \E ids \in SUBSET Present(rows) :
       /\ ids # {}
       /\ rows' = Deleted(rows, ids)
  /\ UNCHANGED <<file, kernel, op, view, loaded, stops, faults>>

\* Mutant: deleting does not wait for the lock.
DeleteConfigVersionsUnlocked(u) ==
  /\ view[u] = Desired
  /\ \E ids \in SUBSET Present(rows) :
       /\ ids # {}
       /\ VersionIdsOf(rows, file) \intersect ids = {}
       /\ rows' = Deleted(rows, ids)
  /\ UNCHANGED <<file, kernel, op, view, loaded, stops, faults>>

\* delete_config_version(s): all of the ids, never the version the file holds.
DeleteConfigVersions(u) ==
  /\ LockFree
  /\ view[u] = Desired
  /\ \E ids \in SUBSET Present(rows) :
       /\ ids # {}
       /\ VersionIdsOf(rows, file) \intersect ids = {}
       /\ rows' = Deleted(rows, ids)
  /\ UNCHANGED <<file, kernel, op, view, loaded, stops, faults>>

\* Mutant: versions left pending are looked at only after a panel restart.
ReconcileAfterRestart ==
  /\ LockFree
  /\ faults > 0
  /\ OpenId # 0
  /\ rows[OpenId].state = "pending"
  /\ StartCandidate(FALSE, OpenId, rows[OpenId].cfg)
  /\ UNCHANGED <<rows, file, kernel, view, loaded, stops, faults>>

\* reconcile_pending -> apply_waiting_locked, every 5 seconds
ReconcilePending ==
  /\ LockFree
  /\ OpenId # 0
  /\ rows[OpenId].state = "pending"
  /\ StartCandidate(FALSE, OpenId, rows[OpenId].cfg)
  /\ UNCHANGED <<rows, file, kernel, view, loaded, stops, faults>>

---------------------------------------------------------------------------
(* apply_pending_candidate: validate_candidate, then activate_candidate.   *)

Goto(pc) == op' = [op EXCEPT !.pc = pc]

\* KixDNS is down, does not answer in time or has no control interface: the
\* version stays pending (should_defer_control).
Defer ==
  /\ op.pc \in {"validate_candidate", "activate_candidate"}
  /\ op' = Idle
  /\ UNCHANGED <<rows, file, kernel, view, loaded, stops, faults>>

\* A field it does not support, a refused validation, or any other control error.
RefuseCandidate ==
  /\ op.pc \in {"validate_candidate", "activate_candidate"}
  /\ kernel.running
  /\ rows' = MarkedFailed(rows, op.id)
  /\ op' = Idle
  /\ UNCHANGED <<file, kernel, view, loaded, stops, faults>>

AcceptCandidate ==
  /\ op.pc = "validate_candidate"
  /\ kernel.running
  /\ op.cfg \in Valid
  /\ Goto("activate_candidate")
  /\ UNCHANGED <<rows, file, kernel, view, loaded, stops, faults>>

\* The receipt and the formal content before the write.
SnapshotBefore ==
  /\ op.pc = "activate_candidate"
  /\ kernel.running
  /\ op' = [op EXCEPT !.pc = "write_pending", !.prev = file,
                      !.base = kernel.sequence,
                      !.known = kernel.active = op.cfg /\ kernel.success]
  /\ UNCHANGED <<rows, file, kernel, view, loaded, stops, faults>>

\* The file is written; a content KixDNS reported in effect before the write
\* is not waited for.
WritePending ==
  /\ op.pc = "write_pending"
  /\ WriteFile(op.cfg)
  /\ Goto(IF op.known THEN "mark_applied" ELSE "wait_for_config")
  /\ UNCHANGED <<rows, view, loaded, stops, faults>>

\* Mutant: an old receipt is taken for the answer to this write.
WaitAcknowledgedStale ==
  /\ op.pc = "wait_for_config"
  /\ kernel.running
  /\ kernel.success
  /\ Goto("mark_applied")
  /\ UNCHANGED <<rows, file, kernel, view, loaded, stops, faults>>

WaitAcknowledged ==
  /\ op.pc = "wait_for_config"
  /\ Acknowledged
  /\ Goto("mark_applied")
  /\ UNCHANGED <<rows, file, kernel, view, loaded, stops, faults>>

\* Mutant: no time limit: only a refusal or a stopped KixDNS ends the wait.
WaitFailedNoTimeout ==
  /\ op.pc = "wait_for_config"
  /\ ~kernel.running \/ (kernel.sequence > op.base /\ ~kernel.success)
  /\ Goto("restore_formal")
  /\ UNCHANGED <<rows, file, kernel, view, loaded, stops, faults>>

\* Mutant: an unconfirmed version is given up without its outcome.
WaitFailedAbandoned ==
  /\ op.pc = "wait_for_config"
  /\ op' = Idle
  /\ UNCHANGED <<rows, file, kernel, view, loaded, stops, faults>>

\* Refused by the reload, no answer, or no receipt within 5 seconds.
WaitFailed ==
  /\ op.pc = "wait_for_config"
  /\ Goto("restore_formal")
  /\ UNCHANGED <<rows, file, kernel, view, loaded, stops, faults>>

\* Mutant: a refused version stays in the formal file.
RestoreFormalSkipped ==
  /\ op.pc = "restore_formal"
  /\ Goto("mark_failed")
  /\ UNCHANGED <<rows, file, kernel, view, loaded, stops, faults>>

\* Mutant: the newest applied version is put back, which may have been deleted.
RestoreFormalFromHistory ==
  /\ op.pc = "restore_formal"
  /\ WriteFile(IF AppliedIds(rows) # {} THEN rows[NewestOf(AppliedIds(rows))].cfg ELSE NoConfig)
  /\ Goto("mark_failed")
  /\ UNCHANGED <<rows, view, loaded, stops, faults>>

\* The value is put back, in the panel's own format: the bytes of an imported file are
\* not, and no version has this digest then.
RestoreFormal ==
  /\ op.pc = "restore_formal"
  /\ WriteFile(Formatted[op.prev])
  /\ Goto("mark_failed")
  /\ UNCHANGED <<rows, view, loaded, stops, faults>>

MarkFailed ==
  /\ op.pc = "mark_failed"
  /\ rows' = MarkedFailed(rows, op.id)
  /\ op' = Idle
  /\ UNCHANGED <<file, kernel, view, loaded, stops, faults>>

MarkApplied ==
  /\ op.pc = "mark_applied"
  /\ rows' = MarkedApplied(rows, op.id)
  /\ op' = Idle
  /\ UNCHANGED <<file, kernel, view, loaded, stops, faults>>

---------------------------------------------------------------------------
(* write_system_config: the Geo and blocklist schedules.                   *)

\* KixDNS runs: the change is made to the formal file's content.
SystemWriteBegin ==
  /\ LockFree
  /\ kernel.running
  /\ RoomFor(rows, 2)
  /\ \E c \in Serialized \ {Formatted[file]} :
       op' = [Idle EXCEPT !.pc = "system_validate", !.cfg = c, !.prev = file,
                          !.base = kernel.sequence]
  /\ UNCHANGED <<rows, file, kernel, view, loaded, stops, faults>>

\* KixDNS cannot be reached: the change is made to the desired content and waits.
SystemSavePending ==
  /\ LockFree
  /\ \E c \in Serialized \ {Formatted[Desired]}, n \in Ids :
       /\ IsNextId(rows, n)
       /\ rows' = Stored(rows, n, c, "pending")
  /\ UNCHANGED <<file, kernel, op, view, loaded, stops, faults>>

SystemValidate ==
  /\ op.pc = "system_validate"
  /\ \/ kernel.running /\ op.cfg \in Valid /\ Goto("system_write")
     \/ op' = Idle
  /\ UNCHANGED <<rows, file, kernel, view, loaded, stops, faults>>

\* ConfigStore::save writes the file first, then the applied row.
SystemWrite ==
  /\ op.pc = "system_write"
  /\ WriteFile(op.cfg)
  /\ Goto("system_store")
  /\ UNCHANGED <<rows, view, loaded, stops, faults>>

SystemStore ==
  /\ op.pc = "system_store"
  /\ \E n \in Ids : /\ IsNextId(rows, n)
                    /\ rows' = Stored(rows, n, op.cfg, "applied")
  /\ Goto("system_wait")
  /\ UNCHANGED <<file, kernel, view, loaded, stops, faults>>

SystemWait ==
  /\ op.pc = "system_wait"
  /\ \/ Acknowledged /\ op' = Idle
     \/ Goto("rollback_write")
  /\ UNCHANGED <<rows, file, kernel, view, loaded, stops, faults>>

\* rollback_config: the earlier content becomes a new applied version.
RollbackWrite ==
  /\ op.pc = "rollback_write"
  /\ WriteFile(Formatted[op.prev])
  /\ Goto("rollback_store")
  /\ UNCHANGED <<rows, view, loaded, stops, faults>>

RollbackStore ==
  /\ op.pc = "rollback_store"
  /\ \E n \in Ids : /\ IsNextId(rows, n)
                    /\ rows' = Stored(rows, n, Formatted[op.prev], "applied")
  /\ Goto("rollback_wait")
  /\ UNCHANGED <<file, kernel, view, loaded, stops, faults>>

\* Confirmed or not, the update ends here; only its audit entry differs.
RollbackWait ==
  /\ op.pc = "rollback_wait"
  /\ op' = Idle
  /\ UNCHANGED <<rows, file, kernel, view, loaded, stops, faults>>

---------------------------------------------------------------------------
(* Faults.                                                                 *)

\* The connection of an HTTP request closes: its handler is dropped at an
\* await and the lock is released.
DropRequest ==
  /\ "drop" \in Faults
  /\ op.request
  /\ faults < MaxFaults
  /\ faults' = faults + 1
  /\ op' = Idle
  /\ UNCHANGED <<rows, file, kernel, view, loaded, stops>>

\* A write to the file or the database fails: the handler returns the error.
FailWrite ==
  /\ "write" \in Faults
  /\ op.pc \in WritePcs
  /\ faults < MaxFaults
  /\ faults' = faults + 1
  /\ op' = Idle
  /\ UNCHANGED <<rows, file, kernel, view, loaded, stops>>

\* Mutant: the start-up import does not look for an open version.
InitializeHistoryAlways ==
  IF DiffersFromApplied(rows, file)
  THEN \E n \in Ids : IsNextId(rows, n) /\ rows' = Imported(rows, n, file)
  ELSE UNCHANGED rows

\* initialize_history: unless a version is open, a formal file that is not the
\* newest applied version is imported as one.
InitializeHistory ==
  IF OpenId = 0 /\ DiffersFromApplied(rows, file)
  THEN \E n \in Ids : IsNextId(rows, n) /\ rows' = Imported(rows, n, file)
  ELSE UNCHANGED rows

\* The panel process ends, whatever it was doing, and build_app runs again.
RestartPanel ==
  /\ "restart" \in Faults
  /\ faults < MaxFaults
  /\ faults' = faults + 1
  /\ op' = Idle
  /\ InitializeHistory
  /\ UNCHANGED <<file, kernel, view, loaded, stops>>

---------------------------------------------------------------------------
(* KixDNS.  Its code is not in this repository; the panel's client and the *)
(* control protocol say what it reports.                                   *)

\* A process starts on the formal file, or does not come up.
KernelStart ==
  /\ ~kernel.running
  /\ file \in Valid
  /\ kernel' = Started(file)
  /\ loaded' = loaded \union {file}
  /\ UNCHANGED <<rows, file, op, view, stops, faults>>

KernelStop ==
  /\ kernel.running
  /\ stops < MaxStops
  /\ stops' = stops + 1
  /\ kernel' = Stopped
  /\ UNCHANGED <<rows, file, op, view, loaded, faults>>

\* The receipt of a reload that leaves content c in effect.
Reloaded(c, ok) == [running |-> TRUE, active |-> c, sequence |-> kernel.sequence + 1,
                    success |-> ok, changed |-> FALSE]

\* The file watch fires: a reload succeeds, or finally fails (also a valid
\* content may fail to load) and the content in effect stays.
KernelReload ==
  /\ kernel.running
  /\ kernel.changed
  /\ kernel.sequence < MaxReloads
  /\ \/ /\ file \in Valid
        /\ kernel' = Reloaded(file, TRUE)
        /\ loaded' = loaded \union {file}
     \/ /\ kernel' = Reloaded(kernel.active, FALSE)
        /\ UNCHANGED loaded
  /\ UNCHANGED <<rows, file, op, view, stops, faults>>

---------------------------------------------------------------------------
Candidate == \/ Defer \/ RefuseCandidate \/ AcceptCandidate \/ SnapshotBefore
             \/ WritePending \/ WaitAcknowledged \/ WaitFailed
             \/ RestoreFormal \/ MarkFailed \/ MarkApplied

System == \/ SystemValidate \/ SystemWrite \/ SystemStore \/ SystemWait
          \/ RollbackWrite \/ RollbackStore \/ RollbackWait

Request == \/ \E u \in Users : \/ ReadConfig(u) \/ SaveConfig(u)
                               \/ RestoreConfig(u) \/ DeleteConfigVersions(u)
           \/ ApplyPendingConfig

Schedule == ReconcilePending \/ SystemWriteBegin \/ SystemSavePending

Fault == DropRequest \/ FailWrite \/ RestartPanel

Kernel == KernelStart \/ KernelStop \/ KernelReload

Next == Request \/ Schedule \/ Candidate \/ System \/ Fault \/ Kernel

Spec == Init /\ [][Next]_vars

---------------------------------------------------------------------------
(* Properties.                                                             *)

OpType == [pc: {"idle"} \union CandidatePcs \union SystemPcs, request: BOOLEAN,
           id: 0 .. MaxId, cfg: Configs \union {NoConfig},
           prev: Configs \union {NoConfig}, base: 0 .. MaxReloads, known: BOOLEAN]

KernelType == [running: BOOLEAN, active: Configs \union {NoConfig},
               sequence: 0 .. MaxReloads, success: BOOLEAN, changed: BOOLEAN]

\* Every variable has its type.
TypeOK ==
  /\ rows \in Tables
  /\ file \in Configs
  /\ kernel \in KernelType
  /\ op \in OpType
  /\ view \in [Users -> Configs]
  /\ loaded \in SUBSET Configs
  /\ stops \in 0 .. MaxStops
  /\ faults \in 0 .. MaxFaults

\* At most one version waits for an outcome, and no row is newer than it:
\* pending_config_version's "newest open row" is the only one, whatever
\* sequence of saves, applies, deletions, prunings and restarts came before.
OneOpenNewest == OneOpen(rows)

\* While a handler applies a version, that version is the open one and keeps its
\* content: mark_applied never meets a version someone superseded or deleted.
HeldVersionIsOpen ==
  op.pc \in CandidatePcs =>
    /\ op.id \in Ids
    /\ IsOpen(rows[op.id])
    /\ rows[op.id].cfg = op.cfg

\* The configurations KixDNS has had in effect, as JSON values.
ValuesInEffect == {Formatted[c] : c \in loaded}

\* When no handler is at work the formal file holds a configuration KixDNS has had in
\* effect: a refused, unconfirmed or deferred change never stays in it.
FormalWasInEffect == LockFree => Formatted[file] \in ValuesInEffect

\* The newest applied version of t, unless there is none, has the JSON value of c; and
\* it names c by its digest unless it was imported as it was found.
NewestAppliedNames(t, c) ==
  AppliedIds(t) # {} =>
    \E i \in AppliedIds(t) : /\ IsNewestOf(AppliedIds(t), i)
                             /\ SameValue(t[i].cfg, c)
                             /\ InFormat(t[i].cfg) => t[i].cfg = c

\* When no handler is at work the newest applied version is the configuration KixDNS
\* reads at its next start.  Its digest is the file's, so the page shows it as the current
\* version and delete_config_versions keeps it (config_store.rs:286); an import that is not
\* in the panel's format is the exception: a failed apply puts its value back formatted
\* (config_store.rs:212), no version has that digest, and the import may be deleted.
NewestAppliedIsFormal == LockFree => NewestAppliedNames(rows, file)

\* A version becomes applied only while the formal file holds it and, unless its
\* content was already in effect before the write, KixDNS is stopped or running it.
AppliedOnlyConfirmed ==
  [][\A i \in Ids : IsOpen(rows[i]) /\ rows'[i].state = "applied" =>
       /\ file = rows[i].cfg
       /\ ~op.known /\ kernel.running => kernel.active = rows[i].cfg]_vars

\* The same without the exception: what a version's applied mark is said to mean.
AppliedIsRunning ==
  [][\A i \in Ids : IsOpen(rows[i]) /\ rows'[i].state = "applied" /\ kernel.running
       => kernel.active = rows[i].cfg]_vars

\* After a reload that was refused or not confirmed, the formal file holds a
\* content KixDNS has had in effect when the version is marked failed.
RolledBackToInEffect == op.pc = "mark_failed" => Formatted[file] \in ValuesInEffect

\* A request supersedes only a version its page has shown; a page that is behind
\* another save, a schedule or an apply gets a conflict instead.
SupersededWasShown ==
  [][\A i \in Ids :
       IsOpen(rows[i]) /\ rows'[i].state = "superseded" /\ op'.request
         => \E u \in Users : view[u] = rows[i].cfg]_vars

(***************************************************************************)
(* Without faults the handlers implement AtomicConfig.  The content in     *)
(* effect is the formal file, except between a handler's two writes, where *)
(* the change counts from the row that is stored or marked.                *)
(***************************************************************************)
FormalInEffect ==
  CASE op.pc \in {"wait_for_config", "restore_formal", "mark_applied", "system_store"}
         -> op.prev
    [] op.pc = "rollback_store" -> op.cfg
    [] OTHER -> file

Atomic == INSTANCE AtomicConfig WITH
  formal  <- Formatted[FormalInEffect],
  desired <- Formatted[IF OpenId # 0 THEN rows[OpenId].cfg ELSE FormalInEffect],
  status  <- IF OpenId # 0 THEN rows[OpenId].state ELSE "settled"

\* An apply, whatever KixDNS does meanwhile, is all or nothing.
ImplementsAtomicConfig == Atomic!Spec

---------------------------------------------------------------------------
(* The inductive invariants behind the proofs.                             *)

\* The program counters past SnapshotBefore, and those at which the file holds the
\* handler's content.
HasPrevious == SystemPcs \union {"write_pending", "wait_for_config", "restore_formal",
                                 "mark_failed", "mark_applied"}
HasWritten == {"wait_for_config", "restore_formal", "mark_applied",
               "system_store", "system_wait", "rollback_write"}

\* The handler's contents are real ones, and the formal file is what it wrote.
OpContents ==
  /\ op.pc # "idle" => op.cfg \in Configs
  /\ op.pc \in HasPrevious => op.prev \in Configs
  /\ op.pc \in HasWritten => file = op.cfg
  /\ op.pc = "rollback_store" => file = Formatted[op.prev]

\* A handler about to mark a version applied has it confirmed.
MarkConfirmed ==
  op.pc = "mark_applied" /\ ~op.known /\ kernel.running => kernel.active = op.cfg

ApplyInv == /\ TypeOK
            /\ ContentOK(rows)
            /\ OneOpenNewest
            /\ HeldVersionIsOpen
            /\ OpContents
            /\ MarkConfirmed

\* Without faults: what the file, the process and the handler hold was in effect.
InEffectInv ==
  /\ kernel.running => kernel.active \in loaded
  /\ op.pc \notin HasWritten => Formatted[file] \in ValuesInEffect
  /\ op.pc \in HasPrevious => Formatted[op.prev] \in ValuesInEffect
  /\ op.pc \in {"write_pending", "mark_applied"} /\ op.known => op.cfg \in loaded
  /\ op.pc = "mark_applied" => op.cfg \in loaded

\* Without faults: the content to go back to is the one the handler replaces, only the
\* import of the first start is not in the panel's format, and the history names the
\* content in effect at every step.
KeepsFormal ==
  /\ op.pc \in {"write_pending", "system_validate", "system_write"} => op.prev = file
  /\ op.pc \in SystemPcs => InFormat(op.cfg)
  /\ \A i \in Ids : rows[i].state # "absent" /\ ~InFormat(rows[i].cfg) => i = 1
  /\ NewestAppliedNames(rows, FormalInEffect)

---------------------------------------------------------------------------
(* Fairness: tokio runs a woken task, every await of a handler is bounded  *)
(* by a timeout, the reconciler's 5 second tick queues for a first-in      *)
(* first-out lock, and a KixDNS that stays up does not time out forever.   *)

Answers(pc) == op.pc = pc /\ (AcceptCandidate \/ SnapshotBefore \/ RefuseCandidate)

Fairness == /\ WF_vars(Candidate)
            /\ WF_vars(System)
            /\ SF_vars(ReconcilePending)
            /\ SF_vars(Answers("validate_candidate"))
            /\ SF_vars(Answers("activate_candidate"))

FairSpec == Spec /\ Fairness

\* Every handler gives the lock back, also when KixDNS never answers.
LockReleased == (op.pc # "idle") ~> LockFree

\* If KixDNS stays up, no version waits forever: it is applied, refused,
\* superseded or deleted, also after dropped requests and panel restarts.
PendingResolves ==
  <>[]kernel.running =>
    \A i \in Ids : (rows[i].state = "pending") ~> (rows[i].state # "pending")
=============================================================================
