------------------------- MODULE ConfigApplyProofs -------------------------
(***************************************************************************)
(* The safety of ConfigApply for all contents, users, bounds and faults.   *)
(* ApplyInv is inductive: the formal file, the handler's locals and the    *)
(* open version of the table are tied together at every program counter.   *)
(* Without faults it implements AtomicConfig.                              *)
(***************************************************************************)
EXTENDS ConfigApply, ConfigHistoryProofs

\* What the panel writes is a content, and written again it is the same.
LEMMA FormattedContent ==
  ASSUME NEW c \in Configs
  PROVE  /\ Formatted[c] \in Configs /\ Formatted[c] \in Serialized
         /\ InFormat(Formatted[c]) /\ Formatted[Formatted[c]] = Formatted[c]
BY ApplyAssumption DEF Serialized, InFormat

\* The open version, as the handlers read it.
LEMMA OpenVersion ==
  ASSUME GoodTable(rows), OpenId # 0
  PROVE  /\ OpenId \in Ids
         /\ IsOpen(rows[OpenId])
         /\ rows[OpenId].cfg \in Configs
         /\ Desired = rows[OpenId].cfg
<1>1. OpenId \in Ids /\ IsOpen(rows[OpenId])
  BY OpenOfRows DEF OpenId
<1>2. QED
  BY <1>1 DEF IsOpen, GoodTable, ContentOK, Desired

\* No open version, as the handlers read it.
LEMMA NoOpenVersion ==
  ASSUME GoodTable(rows), OpenId = 0
  PROVE  OpenIds(rows) = {} /\ Desired = file
BY OpenOfRows DEF OpenId, OpenIds, Ids, Desired

\* The page can only show contents.
LEMMA DesiredContent ==
  ASSUME GoodTable(rows), file \in Configs
  PROVE  Desired \in Configs
BY OpenVersion, NoOpenVersion

---------------------------------------------------------------------------
(* The table after a step.                                                 *)

\* Without its cases: every step leaves the table, or does one of the
\* transactions of ConfigHistory to it.
RowsStep ==
  \/ UNCHANGED rows
  \/ \E n \in Ids, c \in Configs, s \in {"applied", "pending"} :
       IsNextId(rows, n) /\ rows' = Stored(rows, n, c, s)
  \/ \E ids : rows' = Deleted(rows, ids)
  \/ \E i \in Ids : rows' = MarkedFailed(rows, i)
  \/ op.pc = "mark_applied" /\ rows' = MarkedApplied(rows, op.id)
  \/ /\ OpenIds(rows) = {}
     /\ \E n \in Ids : IsNextId(rows, n) /\ rows' = Imported(rows, n, file)

LEMMA RowsStepCases ==
  ASSUME ApplyInv, [Next]_vars
  PROVE  RowsStep
<1>1. GoodTable(rows) /\ file \in Configs
  BY DEF ApplyInv, TypeOK, OneOpenNewest, GoodTable
<1>2. ASSUME NEW u \in Users, SaveConfig(u) PROVE RowsStep
  BY <1>2 DEF SaveConfig, SavePending, Serialized, RowsStep
<1>3. ASSUME NEW u \in Users, RestoreConfig(u) PROVE RowsStep
  <2>1. \A i \in Present(rows) : Formatted[rows[i].cfg] \in Configs
    BY <1>1, FormattedContent DEF Present, GoodTable, ContentOK
  <2>2. QED
    BY <1>3, <2>1 DEF RestoreConfig, SavePending, RowsStep
<1>4. ASSUME NEW u \in Users, DeleteConfigVersions(u) PROVE RowsStep
  BY <1>4 DEF DeleteConfigVersions, RowsStep
<1>5. ASSUME NEW u \in Users, ReadConfig(u) PROVE RowsStep
  BY <1>5 DEF ReadConfig, RowsStep
<1>6. CASE ApplyPendingConfig \/ ReconcilePending \/ SystemWriteBegin
  BY <1>6 DEF ApplyPendingConfig, ReconcilePending, SystemWriteBegin, RowsStep
<1>7. CASE SystemSavePending
  BY <1>7 DEF SystemSavePending, Serialized, RowsStep
<1>8. CASE Candidate
  <2>1. CASE RefuseCandidate \/ MarkFailed
    <3>1. op.id \in Ids
      BY <2>1 DEF ApplyInv, HeldVersionIsOpen, RefuseCandidate, MarkFailed, CandidatePcs
    <3>2. QED
      BY <2>1, <3>1 DEF RefuseCandidate, MarkFailed, RowsStep
  <2>2. CASE MarkApplied
    BY <2>2 DEF MarkApplied, RowsStep
  <2>3. CASE \/ Defer \/ AcceptCandidate \/ SnapshotBefore \/ WritePending
             \/ WaitAcknowledged \/ WaitFailed \/ RestoreFormal
    BY <2>3 DEF Defer, AcceptCandidate, SnapshotBefore, WritePending,
                WaitAcknowledged, WaitFailed, RestoreFormal, RowsStep
  <2>4. QED
    BY <1>8, <2>1, <2>2, <2>3 DEF Candidate
<1>9. CASE System
  <2>1. CASE SystemStore
    <3>1. op.cfg \in Configs
      BY <2>1 DEF SystemStore, ApplyInv, OpContents
    <3>2. QED
      BY <2>1, <3>1 DEF SystemStore, RowsStep
  <2>2. CASE RollbackStore
    <3>1. op.prev \in Configs /\ Formatted[op.prev] \in Configs
      BY <2>2, FormattedContent DEF RollbackStore, ApplyInv, OpContents, HasPrevious, SystemPcs
    <3>2. QED
      BY <2>2, <3>1 DEF RollbackStore, RowsStep
  <2>3. CASE SystemValidate \/ SystemWrite \/ SystemWait \/ RollbackWrite \/ RollbackWait
    BY <2>3 DEF SystemValidate, SystemWrite, SystemWait, RollbackWrite, RollbackWait, RowsStep
  <2>4. QED
    BY <1>9, <2>1, <2>2, <2>3 DEF System
<1>10. CASE DropRequest \/ FailWrite \/ Kernel
  BY <1>10 DEF DropRequest, FailWrite, Kernel, KernelStart, KernelStop, KernelReload, RowsStep
<1>11. CASE RestartPanel
  BY <1>1, <1>11, NoOpenVersion DEF RestartPanel, InitializeHistory, RowsStep
<1>12. CASE UNCHANGED vars
  BY <1>12 DEF vars, RowsStep
<1>13. QED
  BY <1>2, <1>3, <1>4, <1>5, <1>6, <1>7, <1>8, <1>9, <1>10, <1>11, <1>12
     DEF Next, Request, Schedule, Fault

\* Every step leaves a good table, and only a handler at mark_applied marks an open
\* version applied: the one it holds.
LEMMA RowsAfter ==
  ASSUME ApplyInv, [Next]_vars
  PROVE  /\ GoodTable(rows')
         /\ \A i \in Ids : IsOpen(rows[i]) /\ rows'[i].state = "applied" =>
              op.pc = "mark_applied" /\ i = op.id
<1> DEFINE Result == /\ GoodTable(rows')
                     /\ \A i \in Ids : IsOpen(rows[i]) /\ rows'[i].state = "applied" =>
                          op.pc = "mark_applied" /\ i = op.id
<1>1. GoodTable(rows) /\ file \in Configs /\ rows \in Tables
  BY DEF ApplyInv, TypeOK, OneOpenNewest, GoodTable
<1>2. CASE UNCHANGED rows
  BY <1>1, <1>2 DEF IsOpen
<1>3. ASSUME NEW n \in Ids, NEW c \in Configs, NEW s \in {"applied", "pending"},
             IsNextId(rows, n), rows' = Stored(rows, n, c, s)
      PROVE  Result
  <2>1. GoodTable(rows')
    BY <1>1, <1>3, StoredRows
  <2>2. NoneApplied(rows, Stored(rows, n, c, s))
    BY <1>1, <1>3, StoredRows
  <2>3. NoneApplied(rows, rows')
    BY <1>3, <2>2
  <2>4. QED
    BY <2>1, <2>3 DEF NoneApplied
<1>4. ASSUME NEW ids, rows' = Deleted(rows, ids)
      PROVE  Result
  BY <1>1, <1>4, DeletedRows DEF IsOpen, Absent
<1>5. ASSUME NEW i \in Ids, rows' = MarkedFailed(rows, i)
      PROVE  Result
  <2>1. GoodTable(rows') /\ \A j \in Ids : IsOpen(rows'[j]) <=> IsOpen(rows[j])
    BY <1>1, <1>5, MarkedRows
  <2>2. QED
    BY <2>1 DEF IsOpen
<1>6. CASE op.pc = "mark_applied" /\ rows' = MarkedApplied(rows, op.id)
  <2>1. op.id \in Ids
    BY <1>6 DEF ApplyInv, HeldVersionIsOpen, CandidatePcs
  <2>2. QED
    BY <1>1, <1>6, <2>1, MarkedRows
<1>7. ASSUME OpenIds(rows) = {}, NEW n \in Ids, IsNextId(rows, n),
             rows' = Imported(rows, n, file)
      PROVE  Result
  BY <1>1, <1>7, ImportedRows
<1>8. RowsStep
  BY RowsStepCases
<1>9. QED
  BY <1>2, <1>3, <1>4, <1>5, <1>6, <1>7, <1>8 DEF RowsStep

---------------------------------------------------------------------------
(* The handler.                                                            *)

\* The handler's record after each of its assignments.
LEMMA OpAssigned ==
  ASSUME op \in OpType
  PROVE  /\ Idle \in OpType /\ Idle.pc = "idle"
         /\ \A pc \in {"idle"} \union CandidatePcs \union SystemPcs :
              /\ [op EXCEPT !.pc = pc] \in OpType
              /\ [op EXCEPT !.pc = pc] = [pc |-> pc, request |-> op.request,
                   id |-> op.id, cfg |-> op.cfg, prev |-> op.prev,
                   base |-> op.base, known |-> op.known]
<1>1. MaxId \in Nat /\ MaxReloads \in Nat
  BY HistoryAssumption, ApplyAssumption
<1>2. Idle \in OpType /\ Idle.pc = "idle"
  BY <1>1 DEF Idle, OpType
<1>3. QED
  BY <1>2 DEF OpType

LEMMA StartedCandidate ==
  ASSUME NEW request \in BOOLEAN, NEW n \in Ids, NEW c \in Configs,
         StartCandidate(request, n, c)
  PROVE  op' = [pc |-> "validate_candidate", request |-> request, id |-> n,
                cfg |-> c, prev |-> NoConfig, base |-> 0, known |-> FALSE]
BY DEF StartCandidate, Idle

\* A handler that starts on a version validates it first.
LEMMA StartedPc ==
  ASSUME NEW request, NEW n, NEW c, StartCandidate(request, n, c)
  PROVE  op'.pc = "validate_candidate"
BY DEF StartCandidate, Idle

LEMMA Snapshotted ==
  ASSUME op \in OpType, SnapshotBefore
  PROVE  op' = [pc |-> "write_pending", request |-> op.request, id |-> op.id,
                cfg |-> op.cfg, prev |-> file, base |-> kernel.sequence,
                known |-> kernel.active = op.cfg /\ kernel.success]
BY DEF SnapshotBefore, OpType

LEMMA SystemBegun ==
  ASSUME SystemWriteBegin
  PROVE  \E c \in Serialized :
           op' = [pc |-> "system_validate", request |-> FALSE, id |-> 0,
                  cfg |-> c, prev |-> file, base |-> kernel.sequence, known |-> FALSE]
BY DEF SystemWriteBegin, Idle

---------------------------------------------------------------------------
(* ApplyInv is inductive.                                                  *)

\* The part of ApplyInv that is not about the table alone.
Rest == /\ file \in Configs
        /\ kernel \in KernelType
        /\ op \in OpType
        /\ view \in [Users -> Configs]
        /\ loaded \in SUBSET Configs
        /\ stops \in 0 .. MaxStops
        /\ faults \in 0 .. MaxFaults
        /\ HeldVersionIsOpen
        /\ OpContents
        /\ MarkConfirmed

LEMMA ApplyInvParts == ApplyInv <=> GoodTable(rows) /\ Rest
BY DEF ApplyInv, TypeOK, OneOpenNewest, GoodTable, Rest

\* A KixDNS that is stopped, and one that starts on content c.
LEMMA StartedKernel ==
  /\ Stopped \in KernelType
  /\ \A c \in Configs : Started(c) \in KernelType
BY ApplyAssumption DEF Stopped, Started, KernelType

LEMMA InitApplyInv == Init => ApplyInv
<1> SUFFICES ASSUME Init PROVE GoodTable(rows) /\ Rest
  BY ApplyInvParts
<1>1. /\ NoConfig \notin Configs /\ Initial \in Configs
      /\ MaxId \in Nat \ {0} /\ MaxReloads \in Nat /\ MaxStops \in Nat /\ MaxFaults \in Nat
  BY HistoryAssumption, ApplyAssumption
<1>2. GoodTable(rows)
  BY <1>1 DEF Init, GoodTable, Tables, Row, Absent, ApplyStates, ContentOK, OneOpen, IsOpen, Ids
<1>3. kernel \in KernelType
  BY <1>1, StartedKernel DEF Init
<1>4. op \in OpType /\ op.pc = "idle"
  BY <1>1 DEF Init, OpType, Idle
<1>5. HeldVersionIsOpen /\ OpContents /\ MarkConfirmed
  BY <1>4 DEF HeldVersionIsOpen, OpContents, MarkConfirmed, CandidatePcs, SystemPcs,
              HasPrevious, HasWritten
<1>6. QED
  BY <1>1, <1>2, <1>3, <1>4, <1>5 DEF Init, Rest

\* A handler that has ended, or that has only started, holds nothing yet.
LEMMA IdleRest ==
  ASSUME ApplyInv, op' = Idle,
         file' \in Configs, kernel' \in KernelType, view' \in [Users -> Configs],
         loaded' \in SUBSET Configs, stops' \in 0 .. MaxStops, faults' \in 0 .. MaxFaults
  PROVE  Rest'
<1>1. op \in OpType
  BY DEF ApplyInv, TypeOK
<1>2. op' \in OpType /\ op'.pc = "idle"
  BY <1>1, OpAssigned
<1>3. QED
  BY <1>2 DEF Rest, HeldVersionIsOpen, OpContents, MarkConfirmed, CandidatePcs, SystemPcs,
              HasPrevious, HasWritten

\* A handler that starts on an open version, pending or just stored.
LEMMA StartRest ==
  ASSUME ApplyInv, NEW request \in BOOLEAN, NEW n \in Ids, NEW c \in Configs,
         StartCandidate(request, n, c), IsOpen(rows'[n]), rows'[n].cfg = c,
         UNCHANGED <<file, kernel, view, loaded, stops, faults>>
  PROVE  Rest'
<1>1. op' = [pc |-> "validate_candidate", request |-> request, id |-> n,
             cfg |-> c, prev |-> NoConfig, base |-> 0, known |-> FALSE]
  BY StartedCandidate
<1>2. op' \in OpType
  BY <1>1, HistoryAssumption, ApplyAssumption DEF OpType, CandidatePcs, Ids
<1>3. (HeldVersionIsOpen /\ OpContents /\ MarkConfirmed)'
  BY <1>1 DEF HeldVersionIsOpen, OpContents, MarkConfirmed, HasPrevious, HasWritten, SystemPcs
<1>4. QED
  BY <1>2, <1>3 DEF ApplyInv, TypeOK, Rest

\* KixDNS after a reload, and after the file it watches was written.
LEMMA ChangedKernel ==
  ASSUME kernel \in KernelType, file \in Configs
  PROVE  /\ \A b \in BOOLEAN :
              /\ [kernel EXCEPT !.changed = b] \in KernelType
              /\ [kernel EXCEPT !.changed = b] = [running |-> kernel.running,
                   active |-> kernel.active, sequence |-> kernel.sequence,
                   success |-> kernel.success, changed |-> b]
         /\ KernelReload => /\ kernel' \in KernelType
                            /\ kernel.running
                            /\ kernel'.active \in {file, kernel.active}
                            /\ UNCHANGED <<rows, file, op, view, stops, faults>>
<1>1. MaxReloads \in Nat
  BY ApplyAssumption
<1>2. ASSUME NEW b \in BOOLEAN
      PROVE  /\ [kernel EXCEPT !.changed = b] \in KernelType
             /\ [kernel EXCEPT !.changed = b] = [running |-> kernel.running,
                   active |-> kernel.active, sequence |-> kernel.sequence,
                   success |-> kernel.success, changed |-> b]
  BY DEF KernelType
<1>3. ASSUME KernelReload
      PROVE  /\ kernel' \in KernelType
             /\ kernel.running
             /\ kernel'.active \in {file, kernel.active}
             /\ UNCHANGED <<rows, file, op, view, stops, faults>>
  <2>1. /\ kernel.running /\ kernel.sequence < MaxReloads
        /\ kernel' = Reloaded(file, TRUE) \/ kernel' = Reloaded(kernel.active, FALSE)
        /\ UNCHANGED <<rows, file, op, view, stops, faults>>
    BY <1>3, Zenon DEF KernelReload
  <2>2. kernel.active \in Configs \union {NoConfig} /\ kernel.sequence + 1 \in 0 .. MaxReloads
    BY <1>1, <2>1 DEF KernelType
  <2>3. \A c \in Configs \union {NoConfig}, ok \in BOOLEAN :
          Reloaded(c, ok) \in KernelType /\ Reloaded(c, ok).active = c
    BY <2>2 DEF Reloaded, KernelType
  <2>4. QED
    BY <2>1, <2>2, <2>3
<1>4. QED
  BY <1>2, <1>3, Zenon

\* A handler that only moves on: its locals, its version and the table stay.
LEMMA MovedRest ==
  ASSUME ApplyInv, NEW pc \in CandidatePcs \union SystemPcs, Goto(pc),
         op.pc \in CandidatePcs \/ pc \notin CandidatePcs,
         op.pc # "idle",
         pc \in HasPrevious => op.pc \in HasPrevious,
         pc \in HasWritten => file' = op.cfg,
         pc = "rollback_store" => file' = Formatted[op.prev],
         pc = "mark_applied" /\ ~op.known /\ kernel'.running => kernel'.active = op.cfg,
         pc \in CandidatePcs => UNCHANGED rows,
         file' \in Configs, kernel' \in KernelType,
         UNCHANGED <<view, loaded, stops, faults>>
  PROVE  Rest'
<1>1. op \in OpType
  BY DEF ApplyInv, TypeOK
<1>2. /\ op' \in OpType
      /\ op' = [pc |-> pc, request |-> op.request, id |-> op.id, cfg |-> op.cfg,
                prev |-> op.prev, base |-> op.base, known |-> op.known]
  BY <1>1, OpAssigned DEF Goto
<1>3. HeldVersionIsOpen'
  BY <1>2 DEF ApplyInv, HeldVersionIsOpen
<1>4. OpContents'
  BY <1>2 DEF ApplyInv, OpContents
<1>5. MarkConfirmed'
  BY <1>2 DEF MarkConfirmed
<1>6. QED
  BY <1>2, <1>3, <1>4, <1>5 DEF ApplyInv, TypeOK, Rest

\* A step that leaves the handler, its version and the formal file alone.
LEMMA ApartRest ==
  ASSUME ApplyInv, UNCHANGED <<file, op>>,
         op.pc \in CandidatePcs => UNCHANGED rows,
         kernel'.running /\ kernel'.active # kernel.active => kernel'.active = file,
         kernel'.running /\ ~kernel.running => kernel'.active = file,
         kernel' \in KernelType, view' \in [Users -> Configs],
         loaded' \in SUBSET Configs, stops' \in 0 .. MaxStops, faults' \in 0 .. MaxFaults
  PROVE  Rest'
<1>1. HeldVersionIsOpen'
  BY DEF ApplyInv, HeldVersionIsOpen
<1>2. OpContents'
  BY DEF ApplyInv, OpContents
<1>3. MarkConfirmed'
  BY DEF ApplyInv, MarkConfirmed, OpContents, HasWritten
<1>4. QED
  BY <1>1, <1>2, <1>3 DEF ApplyInv, TypeOK, Rest

LEMMA RestAfterRequest ==
  ASSUME ApplyInv, Request \/ Schedule
  PROVE  Rest'
<1>1. /\ GoodTable(rows) /\ file \in Configs /\ view \in [Users -> Configs]
      /\ kernel \in KernelType /\ loaded \in SUBSET Configs
      /\ stops \in 0 .. MaxStops /\ faults \in 0 .. MaxFaults
  BY ApplyInvParts DEF Rest
<1>2. Desired \in Configs
  BY <1>1, DesiredContent
<1>3. ASSUME NEW u \in Users, ReadConfig(u) PROVE Rest'
  BY <1>1, <1>2, <1>3, ApartRest DEF ReadConfig
<1>4. ASSUME NEW u \in Users, NEW c \in Configs, SavePending(u, c) PROVE Rest'
  <2>1. PICK n \in Ids : /\ IsNextId(rows, n)
                         /\ rows' = Stored(rows, n, c, "pending")
                         /\ StartCandidate(TRUE, n, c)
    BY <1>4 DEF SavePending
  <2>2. Stored(rows, n, c, "pending")[n] = [cfg |-> c, state |-> "pending"]
    BY <1>1, <2>1, StoredRows
  <2>3. IsOpen(rows'[n]) /\ rows'[n].cfg = c
    BY <2>1, <2>2 DEF IsOpen
  <2>4. QED
    BY <1>4, <2>1, <2>3, StartRest DEF SavePending
<1>5. ASSUME NEW u \in Users, RestoreConfig(u) PROVE Rest'
  <2>1. \A i \in Present(rows) : Formatted[rows[i].cfg] \in Configs
    BY <1>1, FormattedContent DEF Present, GoodTable, ContentOK
  <2>2. QED
    BY <1>4, <1>5, <2>1 DEF RestoreConfig
<1>6. ASSUME NEW u \in Users, DeleteConfigVersions(u) PROVE Rest'
  <2>1. op.pc \notin CandidatePcs
    BY <1>6 DEF DeleteConfigVersions, LockFree, CandidatePcs
  <2>2. QED
    BY <1>1, <1>6, <2>1, ApartRest DEF DeleteConfigVersions
<1>7. CASE ApplyPendingConfig \/ ReconcilePending
  <2>1. OpenId # 0
    BY <1>7 DEF ApplyPendingConfig, ReconcilePending
  <2>2. OpenId \in Ids /\ IsOpen(rows[OpenId]) /\ rows[OpenId].cfg \in Configs
    BY <1>1, <2>1, OpenVersion
  <2>3. PICK request \in BOOLEAN : StartCandidate(request, OpenId, rows[OpenId].cfg)
    BY <1>7 DEF ApplyPendingConfig, ReconcilePending
  <2>4. UNCHANGED <<rows, file, kernel, view, loaded, stops, faults>>
    BY <1>7 DEF ApplyPendingConfig, ReconcilePending
  <2>5. IsOpen(rows'[OpenId]) /\ rows'[OpenId].cfg = rows[OpenId].cfg
    BY <2>2, <2>4
  <2>6. QED
    BY <2>2, <2>3, <2>4, <2>5, StartRest
<1>8. CASE SystemWriteBegin
  <2>1. PICK c \in Configs :
          op' = [pc |-> "system_validate", request |-> FALSE, id |-> 0,
                 cfg |-> c, prev |-> file, base |-> kernel.sequence, known |-> FALSE]
    BY <1>8, SystemBegun DEF Serialized
  <2>2. op' \in OpType
    BY <1>1, <2>1, HistoryAssumption DEF OpType, SystemPcs, KernelType
  <2>3. (HeldVersionIsOpen /\ OpContents /\ MarkConfirmed)'
    BY <1>1, <1>8, <2>1 DEF HeldVersionIsOpen, OpContents, MarkConfirmed, CandidatePcs,
       HasWritten, SystemWriteBegin
  <2>4. QED
    BY <1>1, <1>8, <2>2, <2>3 DEF Rest, SystemWriteBegin
<1>9. CASE SystemSavePending
  <2>1. op.pc \notin CandidatePcs
    BY <1>9 DEF SystemSavePending, LockFree, CandidatePcs
  <2>2. QED
    BY <1>1, <1>9, <2>1, ApartRest DEF SystemSavePending
<1>10. QED
  BY <1>3, <1>4, <1>5, <1>6, <1>7, <1>8, <1>9 DEF Request, Schedule, SaveConfig, Serialized

LEMMA RestAfterCandidate ==
  ASSUME ApplyInv, Candidate
  PROVE  Rest'
<1>1. /\ file \in Configs /\ view \in [Users -> Configs]
      /\ kernel \in KernelType /\ loaded \in SUBSET Configs /\ op \in OpType
      /\ stops \in 0 .. MaxStops /\ faults \in 0 .. MaxFaults
  BY ApplyInvParts DEF Rest
<1>2. op.pc \in CandidatePcs /\ op.pc # "idle" /\ op.cfg \in Configs
      /\ (op.pc \in HasPrevious => op.prev \in Configs)
  BY DEF ApplyInv, OpContents, CandidatePcs, Candidate, Defer, RefuseCandidate, AcceptCandidate,
         SnapshotBefore, WritePending, WaitAcknowledged, WaitFailed, RestoreFormal,
         MarkFailed, MarkApplied
<1>3. CASE Defer \/ RefuseCandidate \/ MarkFailed \/ MarkApplied
  BY <1>1, <1>3, IdleRest DEF Defer, RefuseCandidate, MarkFailed, MarkApplied
<1>4. CASE AcceptCandidate
  BY <1>1, <1>2, <1>4, MovedRest DEF AcceptCandidate, CandidatePcs, HasPrevious, HasWritten, SystemPcs
<1>5. CASE SnapshotBefore
  <2>1. op' = [pc |-> "write_pending", request |-> op.request, id |-> op.id,
               cfg |-> op.cfg, prev |-> file, base |-> kernel.sequence,
               known |-> kernel.active = op.cfg /\ kernel.success]
    BY <1>1, <1>5, Snapshotted
  <2>2. kernel.sequence \in 0 .. MaxReloads
        /\ (kernel.active = op.cfg /\ kernel.success) \in BOOLEAN
    BY <1>1 DEF KernelType
  <2>3. op' \in OpType
    BY <1>1, <2>1, <2>2 DEF OpType, CandidatePcs
  <2>4. HeldVersionIsOpen' /\ OpContents' /\ MarkConfirmed'
    BY <1>1, <1>2, <1>5, <2>1 DEF ApplyInv, HeldVersionIsOpen, OpContents, MarkConfirmed,
       HasWritten, SnapshotBefore
  <2>5. QED
    BY <1>1, <1>5, <2>3, <2>4 DEF Rest, SnapshotBefore
<1>6. CASE WritePending
  <2>1. file' = op.cfg /\ kernel' = [kernel EXCEPT !.changed = kernel.running]
    BY <1>6 DEF WritePending, WriteFile
  <2>2. kernel' \in KernelType
    BY <1>1, <2>1, ChangedKernel DEF KernelType
  <2>3. PICK pc \in {"mark_applied", "wait_for_config"} :
          Goto(pc) /\ (pc = "mark_applied" => op.known)
    BY <1>6 DEF WritePending
  <2>4. QED
    BY <1>1, <1>2, <1>6, <2>1, <2>2, <2>3, MovedRest
       DEF WritePending, CandidatePcs, HasPrevious, SystemPcs
<1>7. CASE WaitAcknowledged
  <2>1. file = op.cfg /\ kernel.active = op.cfg
    BY <1>7 DEF ApplyInv, OpContents, HasWritten, WaitAcknowledged, Acknowledged
  <2>2. QED
    BY <1>1, <1>2, <1>7, <2>1, MovedRest DEF WaitAcknowledged, CandidatePcs, HasPrevious
<1>8. CASE WaitFailed
  <2>1. file = op.cfg
    BY <1>8 DEF ApplyInv, OpContents, HasWritten, WaitFailed
  <2>2. QED
    BY <1>1, <1>2, <1>8, <2>1, MovedRest DEF WaitFailed, CandidatePcs, HasPrevious
<1>9. CASE RestoreFormal
  <2>1. file' = Formatted[op.prev] /\ kernel' = [kernel EXCEPT !.changed = kernel.running]
        /\ op.pc \in HasPrevious /\ Goto("mark_failed")
        /\ UNCHANGED <<rows, view, loaded, stops, faults>>
    BY <1>9 DEF RestoreFormal, WriteFile, HasPrevious
  <2>2. kernel' \in KernelType
    BY <1>1, <2>1, ChangedKernel DEF KernelType
  <2>3. QED
    BY <1>1, <1>2, <2>1, <2>2, MovedRest, FormattedContent
       DEF CandidatePcs, HasPrevious, HasWritten, SystemPcs
<1>10. QED
  BY <1>3, <1>4, <1>5, <1>6, <1>7, <1>8, <1>9 DEF Candidate

LEMMA RestAfterSystem ==
  ASSUME ApplyInv, System
  PROVE  Rest'
<1>1. /\ file \in Configs /\ view \in [Users -> Configs]
      /\ kernel \in KernelType /\ loaded \in SUBSET Configs /\ op \in OpType
      /\ stops \in 0 .. MaxStops /\ faults \in 0 .. MaxFaults
  BY ApplyInvParts DEF Rest
<1>2. op.pc \in SystemPcs /\ op.pc # "idle" /\ op.cfg \in Configs /\ op.prev \in Configs
      /\ op.pc \in HasPrevious
      /\ (op.pc \in HasWritten => file = op.cfg)
      /\ (op.pc = "rollback_store" => file = Formatted[op.prev])
  BY DEF ApplyInv, OpContents, SystemPcs, HasPrevious, System, SystemValidate, SystemWrite,
         SystemStore, SystemWait, RollbackWrite, RollbackStore, RollbackWait
<1>3. ASSUME op' = Idle, UNCHANGED <<file, kernel, view, loaded, stops, faults>>
      PROVE  Rest'
  BY <1>1, <1>3, IdleRest
<1>4. ASSUME NEW pc \in SystemPcs, Goto(pc), UNCHANGED <<view, loaded, stops, faults>>,
             file' \in Configs, kernel' \in KernelType,
             pc \in HasWritten => file' = op.cfg,
             pc = "rollback_store" => file' = Formatted[op.prev]
      PROVE  Rest'
  <2>1. pc \notin CandidatePcs /\ pc # "mark_applied"
    BY DEF SystemPcs, CandidatePcs
  <2>2. QED
    BY <1>1, <1>2, <1>4, <2>1, MovedRest
<1>5. ASSUME NEW c \in Configs, WriteFile(c)
      PROVE  file' = c /\ kernel' \in KernelType
  BY <1>1, <1>5, ChangedKernel DEF WriteFile, KernelType
<1>6. CASE SystemValidate
  BY <1>1, <1>3, <1>4, <1>6 DEF SystemValidate, SystemPcs, HasWritten
<1>7. CASE SystemWrite
  BY <1>1, <1>2, <1>4, <1>5, <1>7 DEF SystemWrite, SystemPcs
<1>8. CASE SystemStore
  BY <1>1, <1>2, <1>4, <1>8 DEF SystemStore, SystemPcs, HasWritten
<1>9. CASE SystemWait
  BY <1>1, <1>2, <1>3, <1>4, <1>9 DEF SystemWait, SystemPcs, HasWritten
<1>10. CASE RollbackWrite
  BY <1>1, <1>2, <1>4, <1>5, <1>10, FormattedContent DEF RollbackWrite, SystemPcs, HasWritten
<1>11. CASE RollbackStore
  BY <1>1, <1>2, <1>4, <1>11 DEF RollbackStore, SystemPcs, HasWritten
<1>12. CASE RollbackWait
  BY <1>3, <1>12 DEF RollbackWait
<1>13. QED
  BY <1>6, <1>7, <1>8, <1>9, <1>10, <1>11, <1>12 DEF System

LEMMA RestAfterFault ==
  ASSUME ApplyInv, Fault
  PROVE  Rest'
<1>1. /\ file \in Configs /\ view \in [Users -> Configs]
      /\ kernel \in KernelType /\ loaded \in SUBSET Configs
      /\ stops \in 0 .. MaxStops /\ faults \in 0 .. MaxFaults
  BY ApplyInvParts DEF Rest
<1>2. op' = Idle /\ faults < MaxFaults /\ faults' = faults + 1
      /\ UNCHANGED <<file, kernel, view, loaded, stops>>
  BY DEF Fault, DropRequest, FailWrite, RestartPanel
<1>3. faults' \in 0 .. MaxFaults
  BY <1>1, <1>2, ApplyAssumption
<1>4. QED
  BY <1>1, <1>2, <1>3, IdleRest

LEMMA RestAfterKernel ==
  ASSUME ApplyInv, Kernel
  PROVE  Rest'
<1>1. /\ file \in Configs /\ view \in [Users -> Configs]
      /\ kernel \in KernelType /\ loaded \in SUBSET Configs
      /\ stops \in 0 .. MaxStops /\ faults \in 0 .. MaxFaults
  BY ApplyInvParts DEF Rest
<1>2. CASE KernelStart
  <2>1. kernel' \in KernelType /\ kernel'.active = file
    BY <1>1, <1>2, StartedKernel DEF KernelStart, Started
  <2>2. QED
    BY <1>1, <1>2, <2>1, ApartRest DEF KernelStart
<1>3. CASE KernelStop
  <2>1. kernel' \in KernelType /\ ~kernel'.running
    BY <1>3, StartedKernel DEF KernelStop, Stopped
  <2>2. stops' \in 0 .. MaxStops
    BY <1>1, <1>3, ApplyAssumption DEF KernelStop
  <2>3. QED
    BY <1>1, <1>3, <2>1, <2>2, ApartRest DEF KernelStop
<1>4. CASE KernelReload
  <2>1. /\ kernel' \in KernelType /\ kernel.running
        /\ kernel'.active \in {file, kernel.active}
        /\ UNCHANGED <<rows, file, op, view, stops, faults>>
    BY <1>1, <1>4, ChangedKernel
  <2>2. loaded' \in SUBSET Configs
    BY <1>1, <1>4 DEF KernelReload
  <2>3. QED
    BY <1>1, <2>1, <2>2, ApartRest
<1>5. QED
  BY <1>2, <1>3, <1>4 DEF Kernel

LEMMA StepApplyInv == ApplyInv /\ [Next]_vars => ApplyInv'
<1> SUFFICES ASSUME ApplyInv, [Next]_vars PROVE ApplyInv'
  OBVIOUS
<1>1. GoodTable(rows')
  BY RowsAfter
<1>2. CASE UNCHANGED vars
  BY <1>2 DEF vars, ApplyInv, TypeOK, OneOpenNewest, HeldVersionIsOpen, OpContents, MarkConfirmed
<1>3. CASE Next
  <2>1. Rest'
    BY <1>3, RestAfterRequest, RestAfterCandidate, RestAfterSystem, RestAfterFault,
       RestAfterKernel DEF Next
  <2>2. QED
    BY <1>1, <2>1 DEF ApplyInv, TypeOK, OneOpenNewest, GoodTable, Rest
<1>4. QED
  BY <1>2, <1>3

\* ApplyInv holds whatever faults happen.
THEOREM ApplyInvariant == Spec => []ApplyInv
<1>1. QED
  BY InitApplyInv, StepApplyInv, PTL DEF Spec

\* Every variable keeps its type.
THEOREM TypeCorrect == Spec => []TypeOK
<1>1. ApplyInv => TypeOK
  BY DEF ApplyInv
<1>2. QED
  BY <1>1, ApplyInvariant, PTL

\* At most one version waits for an outcome, and it is the newest row.
THEOREM OneOpenVersion == Spec => []OneOpenNewest
<1>1. ApplyInv => OneOpenNewest
  BY DEF ApplyInv
<1>2. QED
  BY <1>1, ApplyInvariant, PTL

\* A handler's version is open and unaltered until the handler records its outcome.
THEOREM HeldVersionStaysOpen == Spec => []HeldVersionIsOpen
<1>1. ApplyInv => HeldVersionIsOpen
  BY DEF ApplyInv
<1>2. QED
  BY <1>1, ApplyInvariant, PTL

\* A version is marked applied only with its content in the formal file and KixDNS
\* stopped, running it, or reported on it before the write.
THEOREM AppliedIsConfirmed == Spec => AppliedOnlyConfirmed
<1> DEFINE Step == \A i \in Ids : IsOpen(rows[i]) /\ rows'[i].state = "applied" =>
                     /\ file = rows[i].cfg
                     /\ ~op.known /\ kernel.running => kernel.active = rows[i].cfg
<1>1. ASSUME ApplyInv, [Next]_vars PROVE [Step]_vars
  <2> SUFFICES ASSUME NEW i \in Ids, IsOpen(rows[i]), rows'[i].state = "applied"
               PROVE  /\ file = rows[i].cfg
                      /\ ~op.known /\ kernel.running => kernel.active = rows[i].cfg
    OBVIOUS
  <2>1. op.pc = "mark_applied" /\ i = op.id
    BY <1>1, RowsAfter
  <2>2. rows[i].cfg = op.cfg
    BY <1>1, <2>1 DEF ApplyInv, HeldVersionIsOpen, CandidatePcs
  <2>3. file = op.cfg
    BY <1>1, <2>1 DEF ApplyInv, OpContents, HasWritten
  <2>4. QED
    BY <1>1, <2>1, <2>2, <2>3 DEF ApplyInv, MarkConfirmed
<1>2. QED
  BY <1>1, ApplyInvariant, PTL DEF Spec, AppliedOnlyConfirmed

---------------------------------------------------------------------------
(* A request supersedes only what its page has shown.                      *)

\* A request at work applies a version: a schedule's write of its own is none.
RequestApplies == op.request => op.pc \in CandidatePcs

LEMMA StepRequestApplies ==
  ASSUME ApplyInv, RequestApplies, [Next]_vars
  PROVE  RequestApplies'
<1>1. op \in OpType
  BY DEF ApplyInv, TypeOK
<1>2. ~Idle.request
  BY DEF Idle
<1>3. \A pc \in {"idle"} \union CandidatePcs \union SystemPcs :
        Goto(pc) => op'.pc = pc /\ op'.request = op.request
  BY <1>1, OpAssigned DEF Goto
<1>4. ASSUME op' = op \/ op' = Idle PROVE RequestApplies'
  BY <1>2, <1>4 DEF RequestApplies, CandidatePcs
<1>5. ASSUME NEW request, NEW n, NEW c, StartCandidate(request, n, c)
      PROVE  RequestApplies'
  BY <1>5, StartedPc DEF RequestApplies, CandidatePcs
<1>6. CASE Request
  <2>1. CASE ApplyPendingConfig
    BY <1>5, <2>1 DEF ApplyPendingConfig
  <2>2. ASSUME NEW u \in Users, ReadConfig(u) \/ DeleteConfigVersions(u)
        PROVE  RequestApplies'
    BY <1>4, <2>2 DEF ReadConfig, DeleteConfigVersions
  <2>3. ASSUME NEW u \in Users, SaveConfig(u) \/ RestoreConfig(u)
        PROVE  RequestApplies'
    BY <1>5, <2>3 DEF SaveConfig, RestoreConfig, SavePending
  <2>4. QED
    BY <1>6, <2>1, <2>2, <2>3 DEF Request
<1>7. CASE Schedule
  <2>1. CASE ReconcilePending
    BY <1>5, <2>1 DEF ReconcilePending
  <2>2. CASE SystemWriteBegin
    BY <2>2, SystemBegun DEF RequestApplies
  <2>3. CASE SystemSavePending
    BY <1>4, <2>3 DEF SystemSavePending
  <2>4. QED
    BY <1>7, <2>1, <2>2, <2>3 DEF Schedule
<1>8. CASE Candidate
  <2>1. CASE SnapshotBefore
    BY <1>1, <2>1, Snapshotted DEF RequestApplies, CandidatePcs
  <2>2. CASE \/ AcceptCandidate \/ WritePending \/ WaitAcknowledged \/ WaitFailed \/ RestoreFormal
    <3>1. \E pc \in CandidatePcs : Goto(pc)
      BY <2>2 DEF AcceptCandidate, WritePending, WaitAcknowledged, WaitFailed, RestoreFormal,
                  CandidatePcs
    <3>2. op'.pc \in CandidatePcs
      BY <1>3, <3>1
    <3>3. QED
      BY <3>2 DEF RequestApplies
  <2>3. CASE Defer \/ RefuseCandidate \/ MarkFailed \/ MarkApplied
    BY <1>4, <2>3 DEF Defer, RefuseCandidate, MarkFailed, MarkApplied
  <2>4. QED
    BY <1>8, <2>1, <2>2, <2>3 DEF Candidate
<1>9. CASE System
  <2>1. op' = Idle \/ \E pc \in SystemPcs : Goto(pc)
    BY <1>9 DEF System, SystemValidate, SystemWrite, SystemStore, SystemWait, RollbackWrite,
                RollbackStore, RollbackWait, SystemPcs
  <2>2. op.pc \in SystemPcs
    BY <1>9 DEF System, SystemValidate, SystemWrite, SystemStore, SystemWait, RollbackWrite,
                RollbackStore, RollbackWait, SystemPcs
  <2>3. (\E pc \in SystemPcs : Goto(pc)) => op'.request = op.request
    BY <1>3
  <2>4. QED
    BY <1>4, <2>1, <2>2, <2>3 DEF RequestApplies, CandidatePcs, SystemPcs
<1>10. CASE Fault \/ Kernel \/ UNCHANGED vars
  BY <1>4, <1>10 DEF Fault, DropRequest, FailWrite, RestartPanel,
                     Kernel, KernelStart, KernelStop, KernelReload, vars
<1>11. QED
  BY <1>6, <1>7, <1>8, <1>9, <1>10 DEF Next

\* A version is superseded by a new one or by the mark of another: by a page's save, by a
\* schedule, or by no request.
LEMMA Superseding ==
  ASSUME ApplyInv, RequestApplies, [Next]_vars,
         NEW i \in Ids, IsOpen(rows[i]), rows'[i].state = "superseded", op'.request
  PROVE  \E u \in Users : view[u] = Desired
<1>1. GoodTable(rows) /\ op \in OpType /\ rows[i].state # "superseded"
  BY DEF ApplyInv, TypeOK, OneOpenNewest, GoodTable, IsOpen
<1>2. rows' # rows
  BY <1>1
<1>3. ~Idle.request
  BY DEF Idle
<1>4. CASE Request
  <2>1. PICK u \in Users : SaveConfig(u) \/ RestoreConfig(u) \/ DeleteConfigVersions(u)
    BY <1>2, <1>4 DEF Request, ReadConfig, ApplyPendingConfig
  <2>2. view[u] = Desired
    BY <2>1 DEF SaveConfig, RestoreConfig, SavePending, DeleteConfigVersions
  <2>3. QED
    BY <2>2
<1>5. CASE Schedule
  <2>1. SystemSavePending
    BY <1>2, <1>5 DEF Schedule, ReconcilePending, SystemWriteBegin
  <2>2. op' = op /\ op.pc = "idle"
    BY <2>1 DEF SystemSavePending, LockFree
  <2>3. QED
    BY <2>2 DEF RequestApplies, CandidatePcs
<1>6. CASE Candidate
  <2>1. op' = Idle
    BY <1>2, <1>6 DEF Candidate, Defer, RefuseCandidate, AcceptCandidate, SnapshotBefore,
                      WritePending, WaitAcknowledged, WaitFailed, RestoreFormal, MarkFailed, MarkApplied
  <2>2. QED
    BY <1>3, <2>1
<1>7. CASE System
  <2>1. SystemStore \/ RollbackStore
    BY <1>2, <1>7 DEF System, SystemValidate, SystemWrite, SystemWait, RollbackWrite, RollbackWait
  <2>2. op'.request = op.request
    BY <1>1, <2>1, OpAssigned DEF SystemStore, RollbackStore, Goto, SystemPcs
  <2>3. QED
    BY <2>1, <2>2 DEF RequestApplies, SystemStore, RollbackStore, CandidatePcs
<1>8. CASE Fault
  BY <1>2, <1>3, <1>8 DEF Fault, DropRequest, FailWrite, RestartPanel
<1>9. CASE Kernel \/ UNCHANGED vars
  BY <1>2, <1>9 DEF Kernel, KernelStart, KernelStop, KernelReload, vars
<1>10. QED
  BY <1>4, <1>5, <1>6, <1>7, <1>8, <1>9 DEF Next

\* A page's save supersedes only the version that page has shown (save_candidate compares
\* digests under the lock), whatever faults, schedules and other pages come between.
THEOREM SupersededIsShown == Spec => SupersededWasShown
<1> DEFINE Step == \A i \in Ids :
                     IsOpen(rows[i]) /\ rows'[i].state = "superseded" /\ op'.request
                       => \E u \in Users : view[u] = rows[i].cfg
<1>1. Init => RequestApplies
  BY DEF Init, RequestApplies, Idle
<1>2. ApplyInv /\ RequestApplies /\ [Next]_vars => RequestApplies'
  BY StepRequestApplies
<1>3. ASSUME ApplyInv, RequestApplies, [Next]_vars PROVE [Step]_vars
  <2> SUFFICES ASSUME NEW i \in Ids, IsOpen(rows[i]), rows'[i].state = "superseded", op'.request
               PROVE  \E u \in Users : view[u] = rows[i].cfg
    OBVIOUS
  <2>1. GoodTable(rows)
    BY <1>3 DEF ApplyInv, TypeOK, OneOpenNewest, GoodTable
  <2>2. OpenId = i /\ i # 0
    BY <2>1, OpenOfRows DEF OpenId, Ids
  <2>3. Desired = rows[i].cfg
    BY <2>1, <2>2, OpenVersion
  <2>4. QED
    BY <1>3, <2>3, Superseding
<1>4. QED
  BY <1>1, <1>2, <1>3, ApplyInvariant, PTL DEF Spec, SupersededWasShown

---------------------------------------------------------------------------
(* While no fault happens an apply is atomic, for all contents, users and  *)
(* bounds: ConfigApply implements AtomicConfig, the history names the      *)
(* content in effect, and the formal file was always in effect before.     *)

\* What a handler holds when it goes on from each of its program counters.
LEMMA OpFacts ==
  ASSUME ApplyInv
  PROVE  /\ op \in OpType /\ file \in Configs /\ GoodTable(rows)
         /\ op.pc \in CandidatePcs =>
              op.id \in Ids /\ IsOpen(rows[op.id]) /\ rows[op.id].cfg = op.cfg
         /\ op.pc # "idle" => op.cfg \in Configs
         /\ op.pc \in HasPrevious => op.prev \in Configs
         /\ op.pc \in HasWritten => file = op.cfg
         /\ op.pc = "rollback_store" => file = Formatted[op.prev]
BY DEF ApplyInv, TypeOK, OneOpenNewest, GoodTable, HeldVersionIsOpen, OpContents

\* The handler's record after a jump.
LEMMA Jump ==
  ASSUME op \in OpType, NEW pc \in {"idle"} \union CandidatePcs \union SystemPcs, Goto(pc)
  PROVE  op'.pc = pc /\ op'.cfg = op.cfg /\ op'.prev = op.prev /\ op'.known = op.known
<1>1. op' = [pc |-> pc, request |-> op.request, id |-> op.id, cfg |-> op.cfg,
             prev |-> op.prev, base |-> op.base, known |-> op.known]
  BY OpAssigned DEF Goto
<1>2. QED
  BY <1>1

LEMMA InEffectType ==
  ASSUME ApplyInv
  PROVE  FormalInEffect \in Configs
BY OpFacts DEF FormalInEffect, HasPrevious, SystemPcs

---------------------------------------------------------------------------
(* Every step is one of six, seen from the table and the content in effect.*)

\* (restore_formal writes the same value again, in the panel's format)
SameStep    == UNCHANGED rows /\ FormalInEffect' \in {FormalInEffect, Formatted[FormalInEffect]}
ProposeStep == /\ \E n \in Ids, c \in Serialized :
                    IsNextId(rows, n) /\ rows' = Stored(rows, n, c, "pending")
               /\ FormalInEffect' = FormalInEffect
RefuseStep  == /\ op.id \in Ids /\ IsOpen(rows[op.id])
               /\ rows' = MarkedFailed(rows, op.id)
               /\ FormalInEffect' = FormalInEffect
CommitStep  == /\ op.id \in Ids /\ IsOpen(rows[op.id])
               /\ rows' = MarkedApplied(rows, op.id)
               /\ FormalInEffect' = rows[op.id].cfg
ReplaceStep == \E n \in Ids, c \in Serialized :
                 /\ IsNextId(rows, n) /\ rows' = Stored(rows, n, c, "applied")
                 /\ FormalInEffect' = c
DeleteStep  == /\ \E ids : /\ rows' = Deleted(rows, ids)
                           /\ VersionIdsOf(rows, FormalInEffect) \intersect ids = {}
               /\ FormalInEffect' = FormalInEffect

AnyStep == SameStep \/ ProposeStep \/ RefuseStep \/ CommitStep \/ ReplaceStep \/ DeleteStep

LEMMA CandidateStep ==
  ASSUME ApplyInv, KeepsFormal, Candidate
  PROVE  SameStep \/ RefuseStep \/ CommitStep
<1> USE DEF SameStep
<1>1. op \in OpType
  BY OpFacts
<1>2. Idle.pc = "idle"
  BY DEF Idle
<1>3. CASE Defer
  BY <1>2, <1>3 DEF Defer, FormalInEffect
<1>4. CASE RefuseCandidate
  BY <1>2, <1>4, OpFacts DEF RefuseCandidate, RefuseStep, FormalInEffect, CandidatePcs
<1>5. CASE AcceptCandidate
  <2>1. op'.pc = "activate_candidate"
    BY <1>1, <1>5, Jump DEF AcceptCandidate, CandidatePcs
  <2>2. QED
    BY <1>5, <2>1 DEF AcceptCandidate, FormalInEffect
<1>6. CASE SnapshotBefore
  <2>1. op'.pc = "write_pending"
    BY <1>1, <1>6, Snapshotted
  <2>2. QED
    BY <1>6, <2>1 DEF SnapshotBefore, FormalInEffect
<1>7. CASE WritePending
  <2>1. op.prev = file /\ op.pc = "write_pending"
    BY <1>7 DEF KeepsFormal, WritePending
  <2>2. op'.pc \in {"mark_applied", "wait_for_config"} /\ op'.prev = op.prev
    BY <1>1, <1>7, Jump DEF WritePending, CandidatePcs
  <2>3. QED
    BY <1>7, <2>1, <2>2 DEF WritePending, FormalInEffect
<1>8. CASE WaitAcknowledged
  <2>1. op'.pc = "mark_applied" /\ op'.prev = op.prev
    BY <1>1, <1>8, Jump DEF WaitAcknowledged, CandidatePcs
  <2>2. QED
    BY <1>8, <2>1 DEF WaitAcknowledged, FormalInEffect
<1>9. CASE WaitFailed
  <2>1. op'.pc = "restore_formal" /\ op'.prev = op.prev
    BY <1>1, <1>9, Jump DEF WaitFailed, CandidatePcs
  <2>2. QED
    BY <1>9, <2>1 DEF WaitFailed, FormalInEffect
<1>10. CASE RestoreFormal
  <2>1. op'.pc = "mark_failed"
    BY <1>1, <1>10, Jump DEF RestoreFormal, CandidatePcs
  <2>2. QED
    BY <1>10, <2>1 DEF RestoreFormal, WriteFile, FormalInEffect
<1>11. CASE MarkFailed
  BY <1>2, <1>11, OpFacts DEF MarkFailed, RefuseStep, FormalInEffect, CandidatePcs
<1>12. CASE MarkApplied
  <2>1. file = rows[op.id].cfg /\ op.id \in Ids /\ IsOpen(rows[op.id])
    BY <1>12, OpFacts DEF MarkApplied, CandidatePcs, HasWritten
  <2>2. QED
    BY <1>2, <1>12, <2>1 DEF MarkApplied, CommitStep, FormalInEffect
<1>13. QED
  BY <1>3, <1>4, <1>5, <1>6, <1>7, <1>8, <1>9, <1>10, <1>11, <1>12 DEF Candidate

LEMMA SystemStep ==
  ASSUME ApplyInv, KeepsFormal, System
  PROVE  SameStep \/ ReplaceStep
<1> USE DEF SameStep
<1>1. op \in OpType
  BY OpFacts
<1>2. Idle.pc = "idle"
  BY DEF Idle
<1>3. \A pc \in SystemPcs : Goto(pc) => op'.pc = pc /\ op'.cfg = op.cfg /\ op'.prev = op.prev
  BY <1>1, Jump
<1>4. CASE SystemValidate
  BY <1>2, <1>3, <1>4 DEF SystemValidate, FormalInEffect, SystemPcs
<1>5. CASE SystemWrite
  <2>1. op.prev = file
    BY <1>5 DEF KeepsFormal, SystemWrite
  <2>2. QED
    BY <1>3, <1>5, <2>1 DEF SystemWrite, FormalInEffect, SystemPcs
<1>6. CASE SystemStore
  <2>1. op.cfg \in Serialized /\ file = op.cfg
    BY <1>6, OpFacts DEF SystemStore, HasWritten, KeepsFormal, SystemPcs, Serialized
  <2>2. op'.pc = "system_wait"
    BY <1>3, <1>6 DEF SystemStore, SystemPcs
  <2>3. FormalInEffect' = op.cfg
    BY <1>6, <2>1, <2>2 DEF SystemStore, FormalInEffect
  <2>4. QED
    BY <1>6, <2>1, <2>3 DEF SystemStore, ReplaceStep
<1>7. CASE SystemWait
  BY <1>2, <1>3, <1>7 DEF SystemWait, FormalInEffect, SystemPcs
<1>8. CASE RollbackWrite
  <2>1. file = op.cfg
    BY <1>8, OpFacts DEF RollbackWrite, HasWritten
  <2>2. QED
    BY <1>3, <1>8, <2>1 DEF RollbackWrite, FormalInEffect, SystemPcs
<1>9. CASE RollbackStore
  <2>1. Formatted[op.prev] \in Serialized /\ file = Formatted[op.prev]
    BY <1>9, OpFacts, FormattedContent DEF RollbackStore, HasPrevious, SystemPcs
  <2>2. op'.pc = "rollback_wait"
    BY <1>3, <1>9 DEF RollbackStore, SystemPcs
  <2>3. FormalInEffect' = Formatted[op.prev]
    BY <1>9, <2>1, <2>2 DEF RollbackStore, FormalInEffect
  <2>4. QED
    BY <1>9, <2>1, <2>3 DEF RollbackStore, ReplaceStep
<1>10. CASE RollbackWait
  BY <1>2, <1>10 DEF RollbackWait, FormalInEffect
<1>11. QED
  BY <1>4, <1>5, <1>6, <1>7, <1>8, <1>9, <1>10 DEF System

LEMMA RequestStep ==
  ASSUME ApplyInv, Request \/ Schedule
  PROVE  SameStep \/ ProposeStep \/ DeleteStep
<1>1. op \in OpType /\ GoodTable(rows) /\ file \in Configs
  BY OpFacts
<1>2. ASSUME NEW u \in Users, ReadConfig(u) PROVE SameStep
  BY <1>2 DEF ReadConfig, SameStep, FormalInEffect
<1>3. ASSUME NEW u \in Users, NEW c \in Serialized, SavePending(u, c) PROVE ProposeStep
  <2>1. PICK n \in Ids : /\ IsNextId(rows, n)
                         /\ rows' = Stored(rows, n, c, "pending")
                         /\ StartCandidate(TRUE, n, c)
    BY <1>3 DEF SavePending
  <2>2. op'.pc = "validate_candidate"
    BY <2>1, StartedPc, Zenon
  <2>3. FormalInEffect' = FormalInEffect
    BY <1>3, <2>2 DEF SavePending, LockFree, FormalInEffect
  <2>4. QED
    BY <2>1, <2>3 DEF ProposeStep
<1>4. ASSUME NEW u \in Users, RestoreConfig(u) PROVE ProposeStep
  <2>1. \A i \in Present(rows) : Formatted[rows[i].cfg] \in Serialized
    BY <1>1, FormattedContent DEF Present, GoodTable, ContentOK
  <2>2. QED
    BY <1>3, <1>4, <2>1 DEF RestoreConfig
<1>5. ASSUME NEW u \in Users, DeleteConfigVersions(u) PROVE DeleteStep
  <2>1. FormalInEffect = file /\ FormalInEffect' = file
    BY <1>5 DEF DeleteConfigVersions, LockFree, FormalInEffect
  <2>2. PICK ids : rows' = Deleted(rows, ids) /\ VersionIdsOf(rows, file) \intersect ids = {}
    BY <1>5 DEF DeleteConfigVersions
  <2>3. QED
    BY <2>1, <2>2 DEF DeleteStep
<1>6. CASE ApplyPendingConfig \/ ReconcilePending
  <2>1. \/ StartCandidate(TRUE, OpenId, rows[OpenId].cfg)
        \/ StartCandidate(FALSE, OpenId, rows[OpenId].cfg)
    BY <1>6 DEF ApplyPendingConfig, ReconcilePending
  <2>2. op'.pc = "validate_candidate"
    BY <2>1, StartedPc, Zenon
  <2>3. op.pc = "idle" /\ UNCHANGED <<rows, file>>
    BY <1>6 DEF ApplyPendingConfig, ReconcilePending, LockFree
  <2>4. QED
    BY <2>2, <2>3 DEF SameStep, FormalInEffect
<1>7. CASE SystemWriteBegin
  <2>1. op'.pc = "system_validate"
    BY <1>7, SystemBegun
  <2>2. QED
    BY <1>7, <2>1 DEF SystemWriteBegin, LockFree, SameStep, FormalInEffect
<1>8. CASE SystemSavePending
  <2>1. FormalInEffect' = FormalInEffect
    BY <1>8 DEF SystemSavePending, FormalInEffect
  <2>2. QED
    BY <1>8, <2>1 DEF SystemSavePending, ProposeStep
<1>9. QED
  BY <1>2, <1>3, <1>4, <1>5, <1>6, <1>7, <1>8 DEF Request, Schedule, SaveConfig

LEMMA NoFault ==
  ASSUME MaxFaults = 0, ApplyInv
  PROVE  ~Fault
<1>1. faults \in 0 .. 0
  BY DEF ApplyInv, TypeOK
<1>2. ~(faults < MaxFaults)
  BY <1>1
<1>3. QED
  BY <1>2 DEF Fault, DropRequest, FailWrite, RestartPanel

LEMMA StepKinds ==
  ASSUME MaxFaults = 0, ApplyInv, KeepsFormal, [Next]_vars
  PROVE  AnyStep
<1>1. CASE Kernel
  BY <1>1 DEF Kernel, KernelStart, KernelStop, KernelReload, SameStep, FormalInEffect, AnyStep
<1>2. CASE UNCHANGED vars
  BY <1>2 DEF vars, SameStep, FormalInEffect, AnyStep
<1>3. QED
  BY <1>1, <1>2, NoFault, RequestStep, CandidateStep, SystemStep DEF Next, AnyStep

---------------------------------------------------------------------------
(* The history names the content in effect.                                *)

\* Which content the newest applied version has, and which it then names.
LEMMA NamesThenIs ==
  ASSUME NEW t, NEW c, NewestAppliedNames(t, c)
  PROVE  \E d : NewestAppliedIs(t, d) /\ SameValue(d, c) /\ (InFormat(d) => d = c)
<1>1. CASE AppliedIds(t) = {}
  BY <1>1 DEF NewestAppliedIs, SameValue
<1>2. CASE AppliedIds(t) # {}
  BY <1>2 DEF NewestAppliedNames, NewestAppliedIs
<1>3. QED
  BY <1>1, <1>2

LEMMA IsThenNames ==
  ASSUME NEW t, NEW c, NEW d, NewestAppliedIs(t, d), SameValue(d, c), InFormat(d) => d = c
  PROVE  NewestAppliedNames(t, c)
BY DEF NewestAppliedNames, NewestAppliedIs

\* What is named is named in the panel's format too.
LEMMA NamesFormatted ==
  ASSUME NEW t, NEW c \in Configs, NewestAppliedNames(t, c)
  PROVE  NewestAppliedNames(t, Formatted[c])
<1>1. PICK d : NewestAppliedIs(t, d) /\ SameValue(d, c) /\ (InFormat(d) => d = c)
  BY NamesThenIs
<1>2. SameValue(d, Formatted[c]) /\ (InFormat(d) => d = Formatted[c])
  BY <1>1, FormattedContent DEF SameValue, InFormat
<1>3. QED
  BY <1>1, <1>2, IsThenNames

\* An import that is the newest applied version is the only one: without it there is none.
LEMMA ImportDeleted ==
  ASSUME NEW t, NEW d, NEW ids, NewestAppliedIs(t, d), ~InFormat(d),
         \A i \in Ids : t[i].state # "absent" /\ ~InFormat(t[i].cfg) => i = 1
  PROVE  NewestAppliedIs(Deleted(t, ids), d)
<1> DEFINE u == Deleted(t, ids)
<1>1. \A i \in Ids : u[i] = IF i \in ids THEN Absent ELSE t[i]
  BY DEF Deleted
<1> HIDE DEF u
<1>2. AppliedIds(u) \subseteq AppliedIds(t) /\ \A i \in AppliedIds(u) : u[i] = t[i]
  BY <1>1 DEF AppliedIds, Absent
<1>3. SUFFICES ASSUME NEW j \in AppliedIds(u)
               PROVE  \E i \in AppliedIds(u) : IsNewestOf(AppliedIds(u), i) /\ u[i].cfg = d
  BY DEF NewestAppliedIs, u
<1>4. PICK i \in AppliedIds(t) : IsNewestOf(AppliedIds(t), i) /\ t[i].cfg = d
  BY <1>2, <1>3 DEF NewestAppliedIs
<1>5. i = 1 /\ \A k \in AppliedIds(t) : k = 1
  BY <1>4 DEF AppliedIds, IsNewestOf, Ids
<1>6. QED
  BY <1>2, <1>3, <1>4, <1>5 DEF IsNewestOf

LEMMA InitKeepsFormal == Init => KeepsFormal
<1> SUFFICES ASSUME Init PROVE KeepsFormal
  OBVIOUS
<1>1. op.pc = "idle" /\ file = Initial
  BY DEF Init, Idle
<1>2. GoodTable(rows)
  BY InitApplyInv DEF ApplyInv, TypeOK, OneOpenNewest, GoodTable
<1>3. 1 \in Ids /\ rows[1] = [cfg |-> Initial, state |-> "applied"]
      /\ \A j \in Ids : j > 1 => rows[j].state = "absent"
  BY HistoryAssumption DEF Init, Ids, Absent
<1>4. NewestAppliedIs(rows, Initial)
  BY <1>2, <1>3, NewestRow DEF GoodTable
<1>5. FormalInEffect = Initial
  BY <1>1 DEF FormalInEffect
<1>6. NewestAppliedNames(rows, FormalInEffect)
  BY <1>4, <1>5, IsThenNames DEF SameValue
<1>7. QED
  BY <1>1, <1>3, <1>6 DEF KeepsFormal, SystemPcs, Ids

\* A step on the table that keeps the newest applied content, whichever that is, keeps
\* the name of the content in effect.
LEMMA NamesAfter ==
  ASSUME GoodTable(rows), NEW t, NewestAppliedNames(rows, FormalInEffect),
         \A d : NewestAppliedIs(rows, d) => NewestAppliedIs(t, d)
  PROVE  NewestAppliedNames(t, FormalInEffect)
<1>1. PICK d : /\ NewestAppliedIs(rows, d) /\ SameValue(d, FormalInEffect)
               /\ InFormat(d) => d = FormalInEffect
  BY NamesThenIs
<1>2. QED
  BY <1>1, IsThenNames

LEMMA StepNewest ==
  ASSUME ApplyInv, KeepsFormal, AnyStep
  PROVE  NewestAppliedNames(rows', FormalInEffect')
<1>1. GoodTable(rows) /\ NewestAppliedNames(rows, FormalInEffect)
  BY OpFacts DEF KeepsFormal
<1>2. CASE SameStep
  <2>1. CASE FormalInEffect' = FormalInEffect
    BY <1>1, <1>2, <2>1 DEF SameStep
  <2>2. CASE FormalInEffect' = Formatted[FormalInEffect]
    BY <1>1, <1>2, <2>2, InEffectType, NamesFormatted DEF SameStep
  <2>3. QED
    BY <1>2, <2>1, <2>2 DEF SameStep
<1>3. CASE ProposeStep
  <2>1. PICK n \in Ids, c \in Serialized :
          IsNextId(rows, n) /\ rows' = Stored(rows, n, c, "pending")
    BY <1>3 DEF ProposeStep
  <2>2. ASSUME NEW d, NewestAppliedIs(rows, d)
        PROVE  NewestAppliedIs(rows', d)
    <3>1. NewestAppliedIs(Stored(rows, n, c, "pending"), IF "pending" = "applied" THEN c ELSE d)
      BY <1>1, <2>1, <2>2, StoredNewest DEF Serialized
    <3>2. QED
      BY <2>1, <3>1
  <2>3. QED
    BY <1>1, <1>3, <2>2, NamesAfter DEF ProposeStep
<1>4. CASE RefuseStep
  BY <1>1, <1>4, MarkedNewest, NamesAfter DEF RefuseStep
<1>5. CASE CommitStep
  <2>1. PICK d : NewestAppliedIs(rows, d)
    BY <1>1, NamesThenIs
  <2>2. NewestAppliedIs(rows', FormalInEffect')
    BY <1>1, <1>5, <2>1, MarkedNewest DEF CommitStep
  <2>3. QED
    BY <2>2, IsThenNames DEF SameValue
<1>6. CASE ReplaceStep
  <2>1. PICK n \in Ids, c \in Serialized :
          /\ IsNextId(rows, n) /\ rows' = Stored(rows, n, c, "applied")
          /\ FormalInEffect' = c
    BY <1>6 DEF ReplaceStep
  <2>2. PICK d : NewestAppliedIs(rows, d)
    BY <1>1, NamesThenIs
  <2>3. NewestAppliedIs(Stored(rows, n, c, "applied"), IF "applied" = "applied" THEN c ELSE d)
    BY <1>1, <2>1, <2>2, StoredNewest DEF Serialized
  <2>4. QED
    BY <2>1, <2>3, IsThenNames DEF SameValue
<1>7. CASE DeleteStep
  <2>1. PICK ids : /\ rows' = Deleted(rows, ids)
                   /\ VersionIdsOf(rows, FormalInEffect) \intersect ids = {}
    BY <1>7 DEF DeleteStep
  <2>2. PICK d : /\ NewestAppliedIs(rows, d) /\ SameValue(d, FormalInEffect)
                 /\ InFormat(d) => d = FormalInEffect
    BY <1>1, NamesThenIs
  <2>3. NewestAppliedIs(rows', d)
    <3>1. CASE d = FormalInEffect
      BY <1>1, <2>1, <2>2, <3>1, DeletedNewest
    <3>2. CASE ~InFormat(d)
      BY <1>1, <2>1, <2>2, <3>2, ImportDeleted DEF KeepsFormal
    <3>3. QED
      BY <2>2, <3>1, <3>2
  <2>4. QED
    BY <1>7, <2>2, <2>3, IsThenNames DEF DeleteStep
<1>8. QED
  BY <1>2, <1>3, <1>4, <1>5, <1>6, <1>7 DEF AnyStep

\* The program counters at which the file does not hold the handler's content yet.
Before == {"write_pending", "system_validate", "system_write"}

LEMMA StepPrevious ==
  ASSUME MaxFaults = 0, ApplyInv, op.pc \in Before => op.prev = file, [Next]_vars
  PROVE  op'.pc \in Before => op'.prev = file'
<1> USE DEF Before
<1>1. op \in OpType
  BY OpFacts
<1>2. Idle.pc = "idle"
  BY DEF Idle
<1>3. \A pc \in {"idle"} \union CandidatePcs \union SystemPcs :
        Goto(pc) => op'.pc = pc /\ op'.prev = op.prev
  BY <1>1, Jump
<1>4. CASE UNCHANGED <<op, file>>
  BY <1>4
<1>5. CASE Candidate
  <2>1. CASE Defer \/ RefuseCandidate \/ MarkFailed \/ MarkApplied
    BY <1>2, <2>1 DEF Defer, RefuseCandidate, MarkFailed, MarkApplied
  <2>2. CASE SnapshotBefore
    <3>1. op'.prev = file
      BY <1>1, <2>2, Snapshotted
    <3>2. QED
      BY <2>2, <3>1 DEF SnapshotBefore
  <2>3. CASE AcceptCandidate \/ WritePending \/ WaitAcknowledged \/ WaitFailed \/ RestoreFormal
    BY <1>3, <2>3 DEF AcceptCandidate, WritePending, WaitAcknowledged, WaitFailed,
                      RestoreFormal, CandidatePcs
  <2>4. QED
    BY <1>5, <2>1, <2>2, <2>3 DEF Candidate
<1>6. CASE System
  BY <1>2, <1>3, <1>6 DEF System, SystemValidate, SystemWrite, SystemStore, SystemWait,
                          RollbackWrite, RollbackStore, RollbackWait, SystemPcs
<1>7. CASE Request \/ Schedule
  <2>1. ASSUME NEW request, NEW n, NEW c, StartCandidate(request, n, c)
        PROVE  op'.pc \notin Before
    BY <2>1, StartedPc
  <2>2. CASE SystemWriteBegin
    <3>1. op'.prev = file
      BY <2>2, SystemBegun
    <3>2. QED
      BY <2>2, <3>1 DEF SystemWriteBegin
  <2>3. CASE Request \/ ReconcilePending
    <3>1. (\E request, n, c : StartCandidate(request, n, c)) \/ UNCHANGED <<op, file>>
      BY <2>3 DEF Request, ReadConfig, SaveConfig, RestoreConfig, SavePending,
         DeleteConfigVersions, ApplyPendingConfig, ReconcilePending
    <3>2. QED
      BY <1>4, <2>1, <3>1
  <2>4. CASE SystemSavePending
    BY <1>4, <2>4 DEF SystemSavePending
  <2>5. QED
    BY <1>7, <2>2, <2>3, <2>4 DEF Schedule
<1>8. CASE Kernel
  BY <1>4, <1>8 DEF Kernel, KernelStart, KernelStop, KernelReload
<1>9. CASE UNCHANGED vars
  BY <1>4, <1>9 DEF vars
<1>10. QED
  BY <1>5, <1>6, <1>7, <1>8, <1>9, NoFault DEF Next

\* A schedule holds what it has written from the JSON value.
LEMMA StepSystemContent ==
  ASSUME MaxFaults = 0, ApplyInv, op.pc \in SystemPcs => InFormat(op.cfg), [Next]_vars
  PROVE  op'.pc \in SystemPcs => InFormat(op'.cfg)
<1>1. op \in OpType
  BY OpFacts
<1>2. Idle.pc = "idle" /\ "idle" \notin SystemPcs /\ \A pc \in SystemPcs : pc \notin CandidatePcs
  BY DEF Idle, SystemPcs, CandidatePcs
<1>3. \A pc \in {"idle"} \union CandidatePcs \union SystemPcs :
        Goto(pc) => op'.pc = pc /\ op'.cfg = op.cfg
  BY <1>1, Jump
<1>4. CASE UNCHANGED op
  BY <1>4
<1>5. CASE Candidate
  <2>1. CASE Defer \/ RefuseCandidate \/ MarkFailed \/ MarkApplied
    BY <1>2, <2>1 DEF Defer, RefuseCandidate, MarkFailed, MarkApplied
  <2>2. CASE SnapshotBefore
    <3>1. op'.pc = "write_pending"
      BY <1>1, <2>2, Snapshotted
    <3>2. QED
      BY <3>1 DEF SystemPcs
  <2>3. CASE AcceptCandidate \/ WritePending \/ WaitAcknowledged \/ WaitFailed \/ RestoreFormal
    <3>1. \E pc \in CandidatePcs : Goto(pc)
      BY <2>3 DEF AcceptCandidate, WritePending, WaitAcknowledged, WaitFailed,
                  RestoreFormal, CandidatePcs
    <3>2. QED
      BY <1>2, <1>3, <3>1
  <2>4. QED
    BY <1>5, <2>1, <2>2, <2>3 DEF Candidate
<1>6. CASE System
  BY <1>2, <1>3, <1>6 DEF System, SystemValidate, SystemWrite, SystemStore, SystemWait,
                          RollbackWrite, RollbackStore, RollbackWait, SystemPcs
<1>7. CASE Request \/ Schedule
  <2>1. ASSUME NEW request, NEW n, NEW c, StartCandidate(request, n, c)
        PROVE  op'.pc \notin SystemPcs
    BY <2>1, StartedPc DEF SystemPcs
  <2>2. CASE SystemWriteBegin
    <3>1. PICK c \in Serialized : op'.cfg = c
      BY <2>2, SystemBegun
    <3>2. QED
      BY <3>1 DEF Serialized
  <2>3. CASE Request \/ ReconcilePending
    <3>1. (\E request, n, c : StartCandidate(request, n, c)) \/ UNCHANGED op
      BY <2>3 DEF Request, ReadConfig, SaveConfig, RestoreConfig, SavePending,
         DeleteConfigVersions, ApplyPendingConfig, ReconcilePending
    <3>2. QED
      BY <1>4, <2>1, <3>1
  <2>4. CASE SystemSavePending
    BY <1>4, <2>4 DEF SystemSavePending
  <2>5. QED
    BY <1>7, <2>2, <2>3, <2>4 DEF Schedule
<1>8. CASE Kernel
  BY <1>4, <1>8 DEF Kernel, KernelStart, KernelStop, KernelReload
<1>9. CASE UNCHANGED vars
  BY <1>4, <1>9 DEF vars
<1>10. QED
  BY <1>5, <1>6, <1>7, <1>8, <1>9, NoFault DEF Next

\* A step adds no version that is not in the panel's format.
LEMMA StepImported ==
  ASSUME ApplyInv, AnyStep, NEW i \in Ids,
         \A k \in Ids : rows[k].state # "absent" /\ ~InFormat(rows[k].cfg) => k = 1,
         rows'[i].state # "absent", ~InFormat(rows'[i].cfg)
  PROVE  i = 1
<1>1. GoodTable(rows)
  BY OpFacts
<1>2. SUFFICES rows[i].state # "absent" /\ rows'[i].cfg = rows[i].cfg
  OBVIOUS
<1>3. CASE SameStep
  BY <1>3 DEF SameStep
<1>4. ASSUME NEW n \in Ids, NEW c \in Serialized, NEW s, IsNextId(rows, n),
             rows' = Stored(rows, n, c, s)
      PROVE  rows[i].state # "absent" /\ rows'[i].cfg = rows[i].cfg
  BY <1>1, <1>4, StoredContents DEF Serialized
<1>5. CASE RefuseStep \/ CommitStep
  BY <1>1, <1>5, MarkedContents DEF RefuseStep, CommitStep
<1>6. CASE DeleteStep
  <2>1. PICK ids : rows' = Deleted(rows, ids)
    BY <1>6 DEF DeleteStep
  <2>2. rows'[i] = rows[i] \/ rows'[i] = Absent
    BY <1>1, <2>1, DeletedRows
  <2>3. QED
    BY <2>2 DEF Absent
<1>7. QED
  BY <1>3, <1>4, <1>5, <1>6 DEF AnyStep, ProposeStep, ReplaceStep

LEMMA StepKeepsFormal ==
  ASSUME MaxFaults = 0, ApplyInv, KeepsFormal, [Next]_vars
  PROVE  KeepsFormal'
<1>1. AnyStep
  BY StepKinds
<1>2. NewestAppliedNames(rows', FormalInEffect')
  BY <1>1, StepNewest
<1>3. op'.pc \in Before => op'.prev = file'
  BY StepPrevious DEF KeepsFormal, Before
<1>4. op'.pc \in SystemPcs => InFormat(op'.cfg)
  BY StepSystemContent DEF KeepsFormal
<1>5. \A i \in Ids : rows'[i].state # "absent" /\ ~InFormat(rows'[i].cfg) => i = 1
  BY <1>1, StepImported DEF KeepsFormal
<1>6. QED
  BY <1>2, <1>3, <1>4, <1>5 DEF KeepsFormal, Before

LEMMA KeepsFormalInvariant ==
  ASSUME MaxFaults = 0
  PROVE  Spec => [](ApplyInv /\ KeepsFormal)
<1>1. Init => ApplyInv /\ KeepsFormal
  BY InitApplyInv, InitKeepsFormal
<1>2. (ApplyInv /\ KeepsFormal) /\ [Next]_vars => (ApplyInv /\ KeepsFormal)'
  BY StepApplyInv, StepKeepsFormal
<1>3. QED
  BY <1>1, <1>2, PTL DEF Spec

\* While no handler is at work the newest applied version is the configuration in the
\* formal file, and names the file unless it is the import of the first start.
THEOREM NewestAppliedIsTheFormal ==
  ASSUME MaxFaults = 0
  PROVE  Spec => []NewestAppliedIsFormal
<1>1. ApplyInv /\ KeepsFormal => NewestAppliedIsFormal
  BY DEF KeepsFormal, NewestAppliedIsFormal, LockFree, FormalInEffect
<1>2. QED
  BY <1>1, KeepsFormalInvariant, PTL

---------------------------------------------------------------------------
(* The refinement.                                                         *)

\* What AtomicConfig is given for its variables.
ValueInEffect   == Formatted[FormalInEffect]
DesiredInEffect == Formatted[IF OpenId # 0 THEN rows[OpenId].cfg ELSE FormalInEffect]
StatusInEffect  == IF OpenId # 0 THEN rows[OpenId].state ELSE "settled"

LEMMA MappedTypes ==
  ASSUME ApplyInv
  PROVE  /\ ValueInEffect \in Configs
         /\ DesiredInEffect \in Configs
<1>1. FormalInEffect \in Configs
  BY InEffectType
<1>2. OpenId # 0 => rows[OpenId].cfg \in Configs
  BY OpFacts, OpenVersion
<1>3. QED
  BY <1>1, <1>2, FormattedContent DEF ValueInEffect, DesiredInEffect

LEMMA InitAtomic == Init => Atomic!Init
<1> SUFFICES ASSUME Init PROVE Atomic!Init
  OBVIOUS
<1>1. ApplyInv
  BY InitApplyInv
<1>2. \A i \in Ids : ~IsOpen(rows[i])
  BY DEF Init, IsOpen, Absent
<1>3. OpenId = 0
  BY <1>1, <1>2, OpFacts, OpenOfRows DEF OpenId
<1>4. QED
  BY <1>1, <1>3, MappedTypes DEF Atomic!Init, DesiredInEffect, ValueInEffect

LEMMA StepAtomic ==
  ASSUME MaxFaults = 0, ApplyInv, KeepsFormal, [Next]_vars
  PROVE  [Atomic!Next]_(Atomic!cfgVars)
<1> DEFINE Mapped == <<ValueInEffect, DesiredInEffect, StatusInEffect>>
<1> SUFFICES [Atomic!Next]_Mapped
  BY DEF Atomic!cfgVars, ValueInEffect, DesiredInEffect, StatusInEffect
<1>1. GoodTable(rows) /\ GoodTable(rows')
  BY OpFacts, RowsAfter
<1>2. /\ OpenId # 0 => OpenId \in Ids /\ IsOpen(rows[OpenId])
      /\ \A i \in Ids : IsOpen(rows[i]) => OpenId = i
  BY <1>1, OpenOfRows DEF OpenId
<1>3. /\ OpenId' # 0 => OpenId' \in Ids /\ IsOpen(rows'[OpenId'])
      /\ \A i \in Ids : IsOpen(rows'[i]) => OpenId' = i
  BY <1>1, OpenOfRows DEF OpenId
<1>4. 0 \notin Ids
  BY DEF Ids
<1>5. (ValueInEffect \in Configs)' /\ (DesiredInEffect \in Configs)'
  <2>1. ApplyInv'
    BY StepApplyInv
  <2>2. QED
    BY <2>1, MappedTypes, PTL
<1>6. CASE SameStep
  <2>1. UNCHANGED OpenId
    BY <1>6 DEF SameStep, OpenId
  <2>2. Formatted[FormalInEffect'] = Formatted[FormalInEffect]
    BY <1>6, InEffectType, FormattedContent DEF SameStep
  <2>3. UNCHANGED Mapped
    BY <1>6, <2>1, <2>2 DEF SameStep, ValueInEffect, DesiredInEffect, StatusInEffect
  <2>4. QED
    BY <2>3
<1>7. CASE ProposeStep
  <2>1. PICK n \in Ids, c \in Serialized :
          IsNextId(rows, n) /\ rows' = Stored(rows, n, c, "pending")
    BY <1>7 DEF ProposeStep
  <2>2. rows'[n] = [cfg |-> c, state |-> "pending"]
    BY <1>1, <2>1, StoredRows DEF Serialized
  <2>3. OpenId' = n /\ OpenId' # 0
    BY <1>3, <1>4, <2>2 DEF IsOpen
  <2>4. StatusInEffect' = "pending"
    BY <2>2, <2>3 DEF StatusInEffect
  <2>5. ValueInEffect' = ValueInEffect
    BY <1>7 DEF ProposeStep, ValueInEffect
  <2>6. QED
    BY <1>5, <2>4, <2>5 DEF Atomic!Next, Atomic!Propose, ValueInEffect, DesiredInEffect, StatusInEffect
<1>8. CASE RefuseStep
  <2>1. op.id \in Ids /\ IsOpen(rows[op.id]) /\ rows' = MarkedFailed(rows, op.id)
        /\ ValueInEffect' = ValueInEffect
    BY <1>8 DEF RefuseStep, ValueInEffect
  <2>2. rows' = [rows EXCEPT ![op.id].state = "failed"] /\ rows \in Tables
    BY <1>1, <2>1 DEF MarkedFailed, GoodTable
  <2>3. rows'[op.id].state = "failed" /\ rows'[op.id].cfg = rows[op.id].cfg
    BY <2>1, <2>2 DEF Tables, Row
  <2>4. OpenId = op.id /\ OpenId' = op.id /\ op.id # 0
    BY <1>2, <1>3, <1>4, <2>1, <2>3 DEF IsOpen
  <2>5. DesiredInEffect' = DesiredInEffect /\ StatusInEffect' = "failed"
        /\ StatusInEffect = rows[op.id].state
    BY <2>3, <2>4 DEF DesiredInEffect, StatusInEffect
  <2>6. StatusInEffect # "settled"
    BY <2>1, <2>5 DEF IsOpen
  <2>7. QED
    BY <2>1, <2>5, <2>6 DEF Atomic!Next, Atomic!Refuse, ValueInEffect, DesiredInEffect, StatusInEffect
<1>9. CASE CommitStep
  <2>1. op.id \in Ids /\ IsOpen(rows[op.id]) /\ rows' = MarkedApplied(rows, op.id)
        /\ FormalInEffect' = rows[op.id].cfg /\ rows \in Tables
    BY <1>1, <1>9 DEF CommitStep, GoodTable
  <2>2. OpenId = op.id /\ op.id # 0
    BY <1>2, <1>4, <2>1
  <2>3. \A i \in Ids : ~IsOpen(rows'[i])
    BY <1>1, <2>1, MarkedClosed
  <2>4. OpenId' = 0
    BY <1>3, <2>3
  <2>5. DesiredInEffect = ValueInEffect' /\ StatusInEffect # "settled"
    BY <2>1, <2>2 DEF ValueInEffect, DesiredInEffect, StatusInEffect, IsOpen
  <2>6. DesiredInEffect' = ValueInEffect' /\ StatusInEffect' = "settled"
    BY <2>4 DEF ValueInEffect, DesiredInEffect, StatusInEffect
  <2>7. QED
    BY <2>5, <2>6 DEF Atomic!Next, Atomic!Commit, ValueInEffect, DesiredInEffect, StatusInEffect
<1>10. CASE ReplaceStep
  <2>1. PICK n \in Ids, c \in Serialized :
          IsNextId(rows, n) /\ rows' = Stored(rows, n, c, "applied")
    BY <1>10 DEF ReplaceStep
  <2>2. \A i \in Ids : ~IsOpen(rows'[i])
    BY <1>1, <2>1, StoredRows DEF Serialized
  <2>3. OpenId' = 0
    BY <1>3, <2>2
  <2>4. DesiredInEffect' = ValueInEffect' /\ StatusInEffect' = "settled"
    BY <2>3 DEF ValueInEffect, DesiredInEffect, StatusInEffect
  <2>5. QED
    BY <1>5, <2>4 DEF Atomic!Next, Atomic!Replace, ValueInEffect, DesiredInEffect, StatusInEffect
<1>11. CASE DeleteStep
  <2>1. PICK ids : rows' = Deleted(rows, ids)
    BY <1>11 DEF DeleteStep
  <2>2. \A i \in Ids : rows'[i] = rows[i] \/ rows'[i] = Absent
    BY <1>1, <2>1, DeletedRows
  <2>3. FormalInEffect' = FormalInEffect /\ ValueInEffect' = ValueInEffect
    BY <1>11 DEF DeleteStep, ValueInEffect
  <2>4. CASE OpenId' # 0
    <3>1. IsOpen(rows'[OpenId']) /\ OpenId' \in Ids
      BY <1>3, <2>4
    <3>2. rows'[OpenId'] = rows[OpenId']
      BY <2>2, <3>1 DEF IsOpen, Absent
    <3>3. OpenId = OpenId'
      BY <1>2, <3>1, <3>2
    <3>4. UNCHANGED Mapped
      BY <2>3, <2>4, <3>2, <3>3 DEF DesiredInEffect, StatusInEffect
    <3>5. QED
      BY <3>4
  <2>5. CASE OpenId' = 0 /\ OpenId = 0
    BY <2>3, <2>5 DEF DesiredInEffect, StatusInEffect
  <2>6. CASE OpenId' = 0 /\ OpenId # 0
    <3>1. StatusInEffect # "settled"
      BY <1>2, <2>6 DEF StatusInEffect, IsOpen
    <3>2. DesiredInEffect' = ValueInEffect /\ StatusInEffect' = "settled"
      BY <2>3, <2>6 DEF ValueInEffect, DesiredInEffect, StatusInEffect
    <3>3. QED
      BY <2>3, <3>1, <3>2 DEF Atomic!Next, Atomic!Withdraw, ValueInEffect, DesiredInEffect, StatusInEffect
  <2>7. QED
    BY <2>4, <2>5, <2>6
<1>12. AnyStep
  BY StepKinds
<1>13. QED
  BY <1>6, <1>7, <1>8, <1>9, <1>10, <1>11, <1>12 DEF AnyStep

\* An apply, whatever KixDNS, the other pages and the schedules do meanwhile, is all or
\* nothing.
THEOREM AppliesAtomically ==
  ASSUME MaxFaults = 0
  PROVE  Spec => ImplementsAtomicConfig
<1>1. Init => Atomic!Init
  BY InitAtomic
<1>2. ApplyInv /\ KeepsFormal /\ [Next]_vars => [Atomic!Next]_(Atomic!cfgVars)
  BY StepAtomic
<1>3. QED
  BY <1>1, <1>2, KeepsFormalInvariant, PTL DEF Spec, ImplementsAtomicConfig, Atomic!Spec

---------------------------------------------------------------------------
(* The formal file was in effect before.                                   *)

LEMMA InitInEffect == Init => InEffectInv
BY DEF Init, InEffectInv, ValuesInEffect, Idle, Stopped, Started, HasPrevious, HasWritten, SystemPcs

\* The values in effect follow the contents in effect.
LEMMA ValuesFollow ==
  /\ \A c \in loaded : Formatted[c] \in ValuesInEffect
  /\ loaded \subseteq loaded' => ValuesInEffect \subseteq ValuesInEffect'
BY DEF ValuesInEffect

\* A step that reads or writes neither the file, the process nor the handler.
LEMMA InEffectApart ==
  ASSUME InEffectInv, UNCHANGED <<file, op>>, loaded \subseteq loaded',
         kernel'.running => kernel'.active \in loaded'
  PROVE  InEffectInv'
BY ValuesFollow DEF InEffectInv

\* A handler that ends or starts.
LEMMA InEffectFresh ==
  ASSUME InEffectInv, op'.pc \in {"idle", "validate_candidate"}, op.pc \notin HasWritten \/ file \in loaded,
         UNCHANGED <<file, kernel, loaded>>
  PROVE  InEffectInv'
BY ValuesFollow DEF InEffectInv, HasWritten, HasPrevious, SystemPcs

LEMMA InEffectCandidate ==
  ASSUME ApplyInv, InEffectInv, Candidate
  PROVE  InEffectInv'
<1>1. op \in OpType
  BY OpFacts
<1>2. Idle.pc = "idle"
  BY DEF Idle
<1>3. \A pc \in {"idle"} \union CandidatePcs \union SystemPcs :
        Goto(pc) => /\ op'.pc = pc /\ op'.cfg = op.cfg
                    /\ op'.prev = op.prev /\ op'.known = op.known
  BY <1>1, Jump
<1>4. CASE Defer \/ RefuseCandidate \/ MarkFailed
  BY <1>2, <1>4, InEffectFresh DEF Defer, RefuseCandidate, MarkFailed, HasWritten
<1>5. CASE MarkApplied
  <2>1. file \in loaded
    BY <1>5, OpFacts DEF MarkApplied, InEffectInv, HasWritten
  <2>2. QED
    BY <1>2, <1>5, <2>1, InEffectFresh DEF MarkApplied
<1>6. CASE AcceptCandidate
  <2>1. op'.pc = "activate_candidate"
    BY <1>3, <1>6 DEF AcceptCandidate, CandidatePcs
  <2>2. QED
    BY <1>6, <2>1, ValuesFollow DEF AcceptCandidate, InEffectInv, HasWritten, HasPrevious, SystemPcs
<1>7. CASE SnapshotBefore
  <2>1. op'.pc = "write_pending" /\ op'.prev = file /\ op'.cfg = op.cfg
        /\ op'.known = (kernel.active = op.cfg /\ kernel.success)
    BY <1>1, <1>7, Snapshotted
  <2>2. op'.known => kernel.active = op.cfg
    BY <2>1, Zenon
  <2>3. /\ op.pc = "activate_candidate" /\ kernel.running
        /\ UNCHANGED <<file, kernel, loaded>>
    BY <1>7 DEF SnapshotBefore
  <2>4. Formatted[file] \in ValuesInEffect /\ kernel.active \in loaded
    BY <2>3 DEF InEffectInv, HasWritten
  <2>5. op'.known => op'.cfg \in loaded
    BY <2>1, <2>2, <2>4, Zenon
  <2>6. op'.pc = "write_pending" /\ op'.prev = file
    BY <2>1, Zenon
  <2>7. QED
    BY <2>3, <2>4, <2>5, <2>6, ValuesFollow DEF InEffectInv
<1>8. CASE WritePending
  <2>1. /\ op'.pc = IF op.known THEN "mark_applied" ELSE "wait_for_config"
        /\ op'.cfg = op.cfg /\ op'.prev = op.prev /\ op'.known = op.known
    BY <1>3, <1>8 DEF WritePending, CandidatePcs
  <2>2. kernel'.running = kernel.running /\ kernel'.active = kernel.active
    BY <1>8, OpFacts, ChangedKernel DEF WritePending, WriteFile, ApplyInv, TypeOK, KernelType
  <2>3. op.pc = "write_pending" /\ loaded' = loaded
    BY <1>8 DEF WritePending
  <2>4. op'.pc \in HasWritten /\ op'.pc # "write_pending" /\ (op'.pc = "mark_applied" => op.known)
    BY <2>1 DEF HasWritten
  <2>5. Formatted[op.prev] \in ValuesInEffect /\ (op.known => op.cfg \in loaded)
        /\ (kernel.running => kernel.active \in loaded)
    BY <2>3 DEF InEffectInv, HasPrevious
  <2>6. QED
    BY <2>1, <2>2, <2>3, <2>4, <2>5, ValuesFollow DEF InEffectInv
<1>9. CASE WaitAcknowledged
  <2>1. /\ op'.pc = "mark_applied"
        /\ op'.cfg = op.cfg /\ op'.prev = op.prev /\ op'.known = op.known
    BY <1>3, <1>9 DEF WaitAcknowledged, CandidatePcs
  <2>2. op.cfg \in loaded
    BY <1>9 DEF WaitAcknowledged, Acknowledged, InEffectInv
  <2>3. QED
    BY <1>9, <2>1, <2>2, ValuesFollow DEF WaitAcknowledged, InEffectInv, HasWritten, HasPrevious
<1>10. CASE WaitFailed
  <2>1. op'.pc = "restore_formal" /\ op'.prev = op.prev
    BY <1>3, <1>10 DEF WaitFailed, CandidatePcs
  <2>2. QED
    BY <1>10, <2>1, ValuesFollow DEF WaitFailed, InEffectInv, HasWritten, HasPrevious
<1>11. CASE RestoreFormal
  <2>1. op'.pc = "mark_failed" /\ op'.prev = op.prev
    BY <1>3, <1>11 DEF RestoreFormal, CandidatePcs
  <2>2. kernel'.running = kernel.running /\ kernel'.active = kernel.active
    BY <1>11, OpFacts, ChangedKernel DEF RestoreFormal, WriteFile, ApplyInv, TypeOK, KernelType
  <2>3. Formatted[Formatted[op.prev]] = Formatted[op.prev]
    BY <1>11, OpFacts, FormattedContent DEF RestoreFormal, HasPrevious
  <2>4. QED
    BY <1>11, <2>1, <2>2, <2>3, ValuesFollow
       DEF RestoreFormal, WriteFile, InEffectInv, HasWritten, HasPrevious
<1>12. QED
  BY <1>4, <1>5, <1>6, <1>7, <1>8, <1>9, <1>10, <1>11 DEF Candidate

LEMMA InEffectSystem ==
  ASSUME ApplyInv, InEffectInv, System
  PROVE  InEffectInv'
<1>1. op \in OpType /\ kernel \in KernelType
  BY OpFacts DEF ApplyInv, TypeOK
<1>2. Idle.pc = "idle"
  BY DEF Idle
<1>3. \A pc \in SystemPcs : Goto(pc) => op'.pc = pc /\ op'.cfg = op.cfg /\ op'.prev = op.prev
  BY <1>1, Jump
<1>4. /\ Formatted[op.prev] \in ValuesInEffect /\ (kernel.running => kernel.active \in loaded)
      /\ op.prev \in Configs
  BY OpFacts DEF InEffectInv, HasPrevious, SystemPcs, System, SystemValidate, SystemWrite, SystemStore,
         SystemWait, RollbackWrite, RollbackStore, RollbackWait
<1>5. ASSUME NEW c, WriteFile(c)
      PROVE  file' = c /\ kernel'.running = kernel.running /\ kernel'.active = kernel.active
  BY <1>1, <1>5 DEF WriteFile, KernelType
<1>6. CASE SystemValidate
  <2>1. CASE op' = Idle
    BY <1>2, <1>6, <2>1, InEffectFresh DEF SystemValidate, HasWritten
  <2>2. CASE Goto("system_write")
    BY <1>3, <1>4, <1>6, <2>2, ValuesFollow DEF SystemValidate, InEffectInv, HasWritten, SystemPcs
  <2>3. QED
    BY <1>6, <2>1, <2>2 DEF SystemValidate
<1>7. CASE SystemWrite
  BY <1>3, <1>4, <1>5, <1>7, ValuesFollow DEF SystemWrite, InEffectInv, HasWritten, SystemPcs
<1>8. CASE SystemStore
  BY <1>3, <1>4, <1>8, ValuesFollow DEF SystemStore, InEffectInv, HasWritten, SystemPcs
<1>9. CASE SystemWait
  <2>1. CASE Acknowledged /\ op' = Idle
    <3>1. file \in loaded
      BY <1>4, <1>9, <2>1, OpFacts DEF SystemWait, Acknowledged, HasWritten
    <3>2. QED
      BY <1>2, <1>9, <2>1, <3>1, InEffectFresh DEF SystemWait
  <2>2. CASE Goto("rollback_write")
    BY <1>3, <1>4, <1>9, <2>2, ValuesFollow DEF SystemWait, InEffectInv, HasWritten, SystemPcs
  <2>3. QED
    BY <1>9, <2>1, <2>2 DEF SystemWait
<1>10. CASE RollbackWrite
  BY <1>3, <1>4, <1>5, <1>10, ValuesFollow, FormattedContent DEF RollbackWrite, InEffectInv, HasWritten, SystemPcs
<1>11. CASE RollbackStore
  BY <1>3, <1>4, <1>11, ValuesFollow DEF RollbackStore, InEffectInv, HasWritten, SystemPcs
<1>12. CASE RollbackWait
  BY <1>2, <1>12, InEffectFresh DEF RollbackWait, HasWritten
<1>13. QED
  BY <1>6, <1>7, <1>8, <1>9, <1>10, <1>11, <1>12 DEF System

LEMMA InEffectOther ==
  ASSUME ApplyInv, InEffectInv, Request \/ Schedule \/ Kernel
  PROVE  InEffectInv'
<1>1. Idle.pc = "idle"
  BY DEF Idle
<1>2. CASE Kernel
  <2>1. CASE KernelStart
    <3>1. kernel'.active \in loaded' /\ loaded \subseteq loaded'
      BY <2>1 DEF KernelStart, Started
    <3>2. QED
      BY <2>1, <3>1, InEffectApart DEF KernelStart
  <2>2. CASE KernelStop
    BY <2>2, InEffectApart DEF KernelStop, Stopped
  <2>3. CASE KernelReload
    <3>1. kernel.active \in loaded
      BY <2>3 DEF KernelReload, InEffectInv
    <3>2. \/ kernel' = Reloaded(file, TRUE) /\ loaded' = loaded \union {file}
          \/ kernel' = Reloaded(kernel.active, FALSE) /\ loaded' = loaded
      BY <2>3, Zenon DEF KernelReload
    <3>3. \A c, ok : Reloaded(c, ok).active = c
      BY Zenon DEF Reloaded
    <3>4. kernel'.active \in loaded' /\ loaded \subseteq loaded'
      BY <3>1, <3>2, <3>3
    <3>5. UNCHANGED <<file, op>>
      BY <2>3 DEF KernelReload
    <3>6. QED
      BY <3>4, <3>5, InEffectApart
  <2>4. QED
    BY <1>2, <2>1, <2>2, <2>3 DEF Kernel
<1>3. CASE SystemWriteBegin
  <2>1. op'.pc = "system_validate" /\ op'.prev = file
    BY <1>3, SystemBegun
  <2>2. QED
    BY <1>3, <2>1, ValuesFollow DEF SystemWriteBegin, LockFree, InEffectInv, HasWritten
<1>4. CASE Request \/ ReconcilePending \/ SystemSavePending
  <2>1. ASSUME NEW request, NEW n, NEW c, StartCandidate(request, n, c), LockFree,
               UNCHANGED <<file, kernel, loaded>>
        PROVE  InEffectInv'
    BY <2>1, StartedPc, InEffectFresh DEF LockFree, HasWritten
  <2>2. \/ /\ \E request, n, c : StartCandidate(request, n, c)
           /\ LockFree /\ UNCHANGED <<file, kernel, loaded>>
        \/ UNCHANGED <<file, op, kernel, loaded>>
    BY <1>4 DEF Request, ReadConfig, SaveConfig, RestoreConfig, SavePending, DeleteConfigVersions,
       ApplyPendingConfig, ReconcilePending, SystemSavePending
  <2>3. CASE UNCHANGED <<file, op, kernel, loaded>>
    BY <2>3, InEffectApart DEF InEffectInv
  <2>4. QED
    BY <2>1, <2>2, <2>3
<1>5. QED
  BY <1>2, <1>3, <1>4 DEF Schedule

\* Without faults, the formal file of an idle panel is one KixDNS has had in effect.
THEOREM FormalFileWasInEffect ==
  ASSUME MaxFaults = 0
  PROVE  Spec => []FormalWasInEffect
<1>1. ApplyInv /\ InEffectInv /\ [Next]_vars => InEffectInv'
  <2> SUFFICES ASSUME ApplyInv, InEffectInv, [Next]_vars PROVE InEffectInv'
    OBVIOUS
  <2>1. CASE UNCHANGED vars
    BY <2>1, ValuesFollow DEF vars, InEffectInv
  <2>2. QED
    BY <2>1, NoFault, InEffectCandidate, InEffectSystem, InEffectOther DEF Next
<1>2. InEffectInv => FormalWasInEffect
  BY DEF InEffectInv, FormalWasInEffect, LockFree, HasWritten
<1>3. QED
  BY <1>1, <1>2, InitInEffect, ApplyInvariant, PTL DEF Spec
=============================================================================
