----------------------- MODULE RestartRollbackProofs -----------------------
(***************************************************************************)
(* The record of KixDNS's starts and the two ways out of a failed restart, *)
(* for any settings, contents, number of processes, retention and faults.  *)
(* RestartInv ties what a handler, the background pass and the record hold *)
(* to the process it was read from; the version table is ConfigHistory's,  *)
(* whose lemmas are used through an instance.                              *)
(***************************************************************************)
EXTENDS RestartRollback, FiniteSetTheorems, TLAPS

History == INSTANCE ConfigHistoryProofs WITH Configs <- Contents

---------------------------------------------------------------------------
(* The table of versions is that of ConfigHistory.                         *)

LEMMA HistoryHolds == History!HistoryAssumption
BY RestartAssumption DEF History!HistoryAssumption

LEMMA SameRows ==
  /\ Ids = History!Ids /\ Absent = History!Absent /\ Tables = History!Tables
  /\ \A row : IsOpen(row) <=> History!IsOpen(row)
  /\ \A t : GoodTable(t) <=> History!GoodTable(t)
BY DEF Ids, History!Ids, Absent, History!Absent, Tables, History!Tables, Row, History!Row,
       ApplyStates, History!ApplyStates, IsOpen, History!IsOpen, GoodTable, History!GoodTable,
       ContentOK, History!ContentOK, OneOpen, History!OneOpen

LEMMA SameNext == \A t, n : IsNextId(t, n) <=> History!IsNextId(t, n)
BY DEF IsNextId, History!IsNextId, Present, History!Present, Ids, History!Ids

LEMMA SameOpen == \A t : OpenOf(t) = History!OpenOf(t)
BY DEF OpenOf, History!OpenOf, OpenIds, History!OpenIds, NewestOf, History!NewestOf, IsOpen,
       History!IsOpen, Ids, History!Ids

LEMMA SameCardinality == \A S : Cardinality(S) = History!Cardinality(S)
BY Zenon DEF Cardinality, History!Cardinality

LEMMA SamePruned == \A t : Pruned(t) = History!Pruned(t)
BY SameCardinality
   DEF Pruned, History!Pruned, PastRetention, History!PastRetention, Present, History!Present,
       Ids, History!Ids, Absent, History!Absent

LEMMA SameSuperseded == \A t : Superseded(t) = History!Superseded(t)
BY DEF Superseded, History!Superseded, IsOpen, History!IsOpen, Ids, History!Ids

LEMMA SameStored == \A t, n, c, s : Stored(t, n, c, s) = History!Stored(t, n, c, s)
BY SamePruned, SameSuperseded DEF Stored, History!Stored

LEMMA SameMarked ==
  \A t, i : /\ MarkedFailed(t, i) = History!MarkedFailed(t, i)
            /\ MarkedApplied(t, i) = History!MarkedApplied(t, i)
BY SameSuperseded DEF MarkedFailed, History!MarkedFailed, MarkedApplied, History!MarkedApplied,
                      IsOpen, History!IsOpen

LEMMA SameDeleted == \A t, i : Deleted(t, i) = History!Deleted(t, i)
BY DEF Deleted, History!Deleted, Ids, History!Ids, Absent, History!Absent

---------------------------------------------------------------------------
(* The invariant.                                                          *)

KernelType == [proc: Procs, age: 0 .. MaxAge, active: Contents,
               phase: {"stopped", "failing", "loading", "answering", "up"}]
WatchType == [proc: {0} \union Procs, first: 0 .. MaxAge, settings: MaybeSettings]
StartupType == [process: {0} \union Procs, settings: MaybeSettings, waits: SUBSET Keys,
                watching: WatchType, down: BOOLEAN]
MaybeContents == Contents \union {NoConfig}

\* Values of some settings, to be put back.
Values == UNION {[S -> Vals] : S \in SUBSET Keys}

OpType ==
  [pc: {"idle", "apply", "health", "write", "wait", "service", "mark", "judge", "save", "carry",
        "remember", "request", "settle", "observe", "noting"},
   kind: {"none", "apply", "restart", "rollback", "write"}, id: {0} \union Ids, read: Reads,
   svc: {"", "failing", "inactive", "active"}, values: Values \union {Unknown},
   keep: MaybeContents, shown: MaybeContents]

\* What KixDNS is; a process that is up or has aged came up.
WorldInv ==
  /\ formal \in Contents /\ kernel \in KernelType /\ started \in [Procs -> MaybeSettings]
  /\ cameUp \subseteq 1 .. kernel.proc
  /\ \A p \in cameUp \union {kernel.proc} : started[p] \in Settings
  /\ kernel.phase = "up" \/ kernel.age > 0 => kernel.proc \in cameUp

\* A process that was met came up if it had aged.
Met(read) ==
  read.proc \in 1 .. kernel.proc /\ (read.age > 0 => read.proc \in cameUp)

\* What a process said of itself: its content has its starting values if nothing waits.
OwnRead(read) ==
  /\ Met(read) /\ read.cfg \in Contents
  /\ read.waits = {} => read.cfg.set = started[read.proc]

\* The record names a process that came up, and its own starting values.
RecordInv ==
  /\ startup \in StartupType
  /\ startup.process # 0 => startup.process \in cameUp
  /\ startup.watching.proc <= kernel.proc
  /\ startup.settings # Unknown => startup.process # 0
  /\ startup.watching.settings # Unknown => startup.watching.proc # 0
  /\ RecordedIsStarted

ReaderInv ==
  /\ reader \in [pc: {"idle", "alive", "note", "mark"}, read: Reads, known: MaybeSettings]
  /\ reader.pc \in {"alive", "note"} => Met(reader.read)
  /\ reader.pc = "alive" => OwnRead(reader.read) /\ reader.read.waits = {}
  /\ reader.pc = "note" /\ reader.known # Unknown =>
       reader.known = started[reader.read.proc]

\* A carried version that is still there is the one remembered.
TableInv ==
  /\ GoodTable(rows) /\ rolled \in Stamps /\ shown \in Stamps
  /\ events \in 0 .. MaxEvents /\ carriedId \in {0} \union Ids
  /\ carriedId # 0 /\ rows[carriedId].state # "absent" =>
       rolled = [id |-> carriedId, cfg |-> rows[carriedId].cfg]

\* Values that one process started with.
FromOneStart(values) ==
  /\ values \in Values
  /\ \E p \in cameUp : \A k \in DOMAIN values : values[k] = started[p][k]

Applies == op.pc \in {"apply", "health", "write", "wait"} /\ op.kind \in {"apply", "restart"}
WritesBack == op.pc = "write" /\ op.kind = "rollback"
WritesPending == op.pc = "write" /\ op.kind = "write"

\* Since the formal file was read by an apply, processes started with what it still holds.
SameFileSince(read) ==
  formal = op.keep /\ \A q \in (read.proc + 1) .. kernel.proc : started[q] = formal.set

OpInv ==
  /\ op \in OpType
  /\ op.pc \in {"apply", "health", "wait"} => op.kind \in {"apply", "restart"}
  /\ op.pc \in {"save", "carry", "remember"} => op.kind = "rollback"
  /\ Applies => op.id \in Ids /\ IsOpen(rows[op.id])
  /\ Applies /\ op.pc # "apply" => op.keep \in Contents
  /\ op.pc = "health" => OwnRead(op.read) /\ SameFileSince(op.read)
  /\ op.pc = "noting" => OwnRead(op.read)
  /\ op.kind = "rollback" /\ op.pc \in {"save", "write", "carry"} => FromOneStart(op.values)
  /\ op.pc = "remember" /\ op.keep # NoConfig => op.id \in Ids
  /\ WritesBack => op.id \in Ids /\ rows[op.id].cfg = PutBack(formal)
  /\ WritesPending => op.id \in Ids /\ IsOpen(rows[op.id]) /\ op.id # carriedId

RestartInv == WorldInv /\ RecordInv /\ ReaderInv /\ TableInv /\ OpInv

\* KixDNS goes on: what a process started with and that it came up stays true, and a new one
\* starts with what the formal file holds.
Grows ==
  /\ kernel'.proc \in kernel.proc .. MaxProcs /\ cameUp \subseteq cameUp'
  /\ \A p \in 1 .. kernel.proc : started'[p] = started[p]
  /\ \A q \in (kernel.proc + 1) .. kernel'.proc : started'[q] = formal.set

USE RestartAssumption DEF Procs

LEMMA SameKernel ==
  ASSUME WorldInv, formal' \in Contents, UNCHANGED <<kernel, history>>
  PROVE  WorldInv' /\ Grows
BY DEF WorldInv, Grows, history, KernelType

\* Only the phase, the age or the active content of a process changes.
LEMMA KernelMoves ==
  ASSUME WorldInv, kernel' \in KernelType, kernel'.proc = kernel.proc, UNCHANGED <<formal, started>>,
         \/ cameUp' = cameUp /\ (kernel'.phase = "up" \/ kernel'.age > 0 => kernel.proc \in cameUp)
         \/ cameUp' = cameUp \union {kernel.proc}
  PROVE  WorldInv' /\ Grows
<1>1. kernel.proc \in Procs /\ kernel.proc \in 1 .. kernel.proc /\ kernel'.proc = kernel.proc
  BY DEF WorldInv, KernelType
<1>2. /\ cameUp' \subseteq 1 .. kernel'.proc /\ cameUp \subseteq cameUp'
      /\ cameUp' \union {kernel'.proc} = cameUp \union {kernel.proc}
      /\ kernel'.phase = "up" \/ kernel'.age > 0 => kernel'.proc \in cameUp'
  BY <1>1 DEF WorldInv
<1>3. WorldInv'
  BY <1>2 DEF WorldInv
<1>4. Grows
  BY <1>1, <1>2 DEF Grows
<1> QED
  BY <1>3, <1>4

LEMMA LaunchGrows == ASSUME WorldInv, Launch, formal' = formal PROVE WorldInv' /\ Grows
<1>1. /\ kernel.proc \in Procs /\ formal \in Contents /\ formal.set \in Settings
      /\ started \in [Procs -> MaybeSettings] /\ kernel.proc + 1 \in Procs
  BY DEF WorldInv, KernelType, Launch, Contents
<1>2. /\ kernel' = [proc |-> kernel.proc + 1, phase |-> "loading", age |-> 0, active |-> formal]
      /\ started' = [started EXCEPT ![kernel.proc + 1] = formal.set] /\ cameUp' = cameUp
  BY DEF Launch
<1>3. /\ kernel' \in KernelType /\ kernel'.proc = kernel.proc + 1 /\ kernel'.age = 0
      /\ kernel'.phase = "loading"
  BY <1>1, <1>2 DEF KernelType
<1>4. started' \in [Procs -> MaybeSettings] /\ started'[kernel.proc + 1] = formal.set
      /\ \A p \in Procs : p # kernel.proc + 1 => started'[p] = started[p]
  BY <1>1, <1>2 DEF MaybeSettings
<1>5. Grows
  BY <1>1, <1>2, <1>3, <1>4 DEF Grows
<1>6. cameUp' \subseteq 1 .. kernel.proc /\ \A p \in cameUp' : started'[p] \in Settings
  BY <1>1, <1>2, <1>4 DEF WorldInv
<1>7. cameUp' \subseteq 1 .. kernel'.proc
  BY <1>1, <1>3, <1>6
<1>8. WorldInv'
  BY <1>1, <1>3, <1>4, <1>6, <1>7 DEF WorldInv
<1> QED
  BY <1>5, <1>8

---------------------------------------------------------------------------
(* The record and the pass.                                                *)

LEMMA RecordStays ==
  ASSUME WorldInv, RecordInv, Grows, NEW down \in BOOLEAN,
         startup' = [startup EXCEPT !.down = down]
  PROVE  RecordInv'
<1> DEFINE s == [startup EXCEPT !.down = down]
<1>1. startup \in StartupType
  BY DEF RecordInv
<1>2. /\ s \in StartupType /\ s.process = startup.process /\ s.settings = startup.settings
      /\ s.watching = startup.watching
  BY <1>1 DEF StartupType
<1> HIDE DEF s
<1>3. startup' = s
  BY DEF s
<1>4. startup.watching.proc \in {0} \union Procs /\ startup.process \in {0} \union Procs
  BY <1>1 DEF StartupType, WatchType
<1>5. kernel.proc \in Procs /\ cameUp \subseteq 1 .. kernel.proc
  BY DEF WorldInv, KernelType
<1>6. /\ startup.process # 0 => started'[startup.process] = started[startup.process]
      /\ startup.watching.proc # 0 =>
           started'[startup.watching.proc] = started[startup.watching.proc]
  BY <1>4, <1>5 DEF RecordInv, Grows
<1>7. RecordedIsStarted'
  BY <1>2, <1>3, <1>6 DEF RecordInv, RecordedIsStarted
<1>8. startup'.watching.proc <= kernel'.proc
  BY <1>2, <1>3, <1>4, <1>5 DEF RecordInv, Grows
<1> QED
  BY <1>2, <1>3, <1>7, <1>8 DEF RecordInv, Grows

LEMMA RecordSame == ASSUME WorldInv, RecordInv, Grows, startup' = startup PROVE RecordInv'
<1>1. startup \in StartupType
  BY DEF RecordInv
<1>2. startup.down \in BOOLEAN /\ startup = [startup EXCEPT !.down = startup.down]
  BY <1>1 DEF StartupType
<1> QED
  BY <1>2, RecordStays

\* A watch of a process that is met.
Watches(watch, read) ==
  /\ watch \in WatchType /\ watch.proc = read.proc
  /\ watch.settings # Unknown => watch.settings = started[read.proc]

LEMMA WatchIsOwn ==
  ASSUME WorldInv, RecordInv, NEW read \in Reads, Met(read), NEW known \in MaybeSettings,
         known # Unknown => known = started[read.proc]
  PROVE  Watches(WatchOf(startup, read, known), read)
<1> DEFINE fresh == [NoWatch EXCEPT !.proc = read.proc, !.first = read.age]
           watch == IF startup.watching.proc = read.proc THEN startup.watching ELSE fresh
           told == IF known # Unknown THEN known ELSE watch.settings
           w == [watch EXCEPT !.settings = told]
<1>1. startup.watching \in WatchType /\ read.proc \in Procs /\ read.age \in 0 .. MaxAge
  BY DEF RecordInv, StartupType, Reads, Met, WorldInv, KernelType
<1>2. fresh \in WatchType /\ fresh.proc = read.proc /\ fresh.settings = Unknown
  BY <1>1 DEF NoWatch, WatchType, MaybeSettings
<1>3. /\ watch \in WatchType /\ watch.proc = read.proc
      /\ watch.settings # Unknown => watch.settings = started[read.proc]
  BY <1>1, <1>2 DEF RecordInv, RecordedIsStarted
<1>4. WatchOf(startup, read, known) = w
  BY DEF WatchOf, Told
<1> HIDE DEF fresh, watch
<1>5. told \in MaybeSettings /\ (told # Unknown => told = started[read.proc])
  BY <1>3 DEF WatchType
<1> HIDE DEF told
<1>6. w \in WatchType /\ w.proc = read.proc /\ w.settings = told
  BY <1>3, <1>5 DEF WatchType
<1> QED
  BY <1>4, <1>5, <1>6 DEF Watches

\* Noting a process that was met keeps the record its own.
LEMMA SeenKeeps ==
  ASSUME WorldInv, RecordInv, UNCHANGED <<kernel, history>>, NEW read \in Reads, Met(read),
         NEW known \in MaybeSettings, known # Unknown => known = started[read.proc],
         startup' = SeenAlive(startup, read, known)
  PROVE  RecordInv'
<1> DEFINE w == WatchOf(startup, read, known)
           told == IF known # Unknown THEN known ELSE startup.settings
           again == [startup EXCEPT !.settings = told, !.waits = read.waits, !.down = FALSE]
           new == [process |-> read.proc, settings |-> w.settings, waits |-> read.waits,
                   watching |-> NoWatch, down |-> FALSE]
           beside == [startup EXCEPT !.watching = w]
<1>1. /\ startup \in StartupType /\ read.proc \in 1 .. kernel.proc /\ read.proc \in Procs
      /\ read.waits \in SUBSET Keys /\ read.age \in 0 .. MaxAge /\ kernel.proc \in Procs
  BY DEF RecordInv, Reads, Met, WorldInv, KernelType
<1>2. Watches(w, read)
  BY WatchIsOwn
<1>3. started' = started /\ cameUp' = cameUp /\ kernel' = kernel
  BY DEF history
<1> HIDE DEF w
<1>4. CASE startup.process = read.proc
  <2>1. told \in MaybeSettings /\ (told # Unknown => told = started[read.proc])
    BY <1>1, <1>4 DEF RecordInv, RecordedIsStarted, StartupType
  <2>2. startup' = again
    BY <1>4 DEF SeenAlive, SeenAgain, Told, w
  <2> HIDE DEF told
  <2>3. /\ again \in StartupType /\ again.process = read.proc /\ again.settings = told
        /\ again.watching = startup.watching
    BY <1>1, <1>4, <2>1 DEF StartupType
  <2> HIDE DEF again
  <2> QED
    BY <1>1, <1>3, <1>4, <2>1, <2>2, <2>3 DEF RecordInv, RecordedIsStarted
<1>5. CASE startup.process # read.proc /\ read.age - w.first >= Steady
  <2>1. w.first \in Nat
    BY <1>2 DEF Watches, WatchType
  <2>2. read.age > 0
    BY <1>1, <1>5, <2>1
  <2>3. startup' = new
    BY <1>5 DEF SeenAlive, w
  <2>4. NoWatch \in WatchType /\ NoWatch.proc = 0 /\ NoWatch.settings = Unknown
    BY DEF NoWatch, WatchType, MaybeSettings
  <2>5. /\ new \in StartupType /\ new.process = read.proc /\ new.settings = w.settings
        /\ new.watching = NoWatch
    BY <1>1, <1>2, <2>4 DEF StartupType, Watches, WatchType
  <2> HIDE DEF new
  <2>6. read.proc \in cameUp
    BY <2>2 DEF Met
  <2> QED
    BY <1>1, <1>2, <1>3, <2>3, <2>4, <2>5, <2>6 DEF RecordInv, RecordedIsStarted, Watches
<1>6. CASE startup.process # read.proc /\ ~(read.age - w.first >= Steady)
  <2>1. startup' = beside
    BY <1>6 DEF SeenAlive, w
  <2>2. /\ beside \in StartupType /\ beside.process = startup.process
        /\ beside.settings = startup.settings /\ beside.watching = w
    BY <1>1, <1>2 DEF StartupType, Watches
  <2> HIDE DEF beside
  <2> QED
    BY <1>1, <1>2, <1>3, <2>1, <2>2 DEF RecordInv, RecordedIsStarted, Watches
<1> QED
  BY <1>4, <1>5, <1>6

\* What is met stays met.
LEMMA OwnStays ==
  ASSUME WorldInv, Grows, NEW read
  PROVE  (Met(read) => Met(read)') /\ (OwnRead(read) => OwnRead(read)')
BY DEF WorldInv, KernelType, Grows, Met, OwnRead

---------------------------------------------------------------------------
(* The table.                                                              *)

\* Rows that stay keep their content; the others go.
SameContents(after, before, ids) ==
  \A i \in ids :
    \/ after[i] = Absent
    \/ /\ after[i].cfg = before[i].cfg
       /\ after[i].state = "absent" <=> before[i].state = "absent"

LEMMA CarriedStays ==
  ASSUME TableInv, GoodTable(rows'), UNCHANGED <<rolled, shown>>, events' \in 0 .. MaxEvents,
         carriedId' \in {0, carriedId},
         carriedId' # 0 => SameContents(rows', rows, {carriedId})
  PROVE  TableInv'
<1>1. carriedId' # 0 => /\ carriedId' = carriedId
                        /\ \/ rows'[carriedId] = Absent
                           \/ /\ rows'[carriedId].cfg = rows[carriedId].cfg
                              /\ rows'[carriedId].state = "absent" <=>
                                   rows[carriedId].state = "absent"
  <2>1. SUFFICES ASSUME carriedId' # 0
                 PROVE  \/ rows'[carriedId] = Absent
                        \/ /\ rows'[carriedId].cfg = rows[carriedId].cfg
                           /\ rows'[carriedId].state = "absent" <=>
                                rows[carriedId].state = "absent"
    OBVIOUS
  <2> QED
    BY <2>1, Zenon DEF SameContents
<1>2. Absent.state = "absent"
  BY DEF Absent
<1>3. carriedId' # 0 /\ rows'[carriedId'].state # "absent" =>
        rolled' = [id |-> carriedId', cfg |-> rows'[carriedId'].cfg]
  BY <1>1, <1>2 DEF TableInv
<1> QED
  BY <1>3 DEF TableInv

LEMMA StoredIsGood ==
  ASSUME NEW t, GoodTable(t), NEW n, IsNextId(t, n), NEW c \in Contents
  PROVE  /\ GoodTable(Stored(t, n, c, "pending")) /\ n \in Ids
         /\ Stored(t, n, c, "pending")[n] = [cfg |-> c, state |-> "pending"]
         /\ SameContents(Stored(t, n, c, "pending"), t, Ids \ {n})
<1>1. History!GoodTable(t) /\ History!IsNextId(t, n) /\ t \in Tables /\ n \in Ids
  BY SameRows, SameNext DEF GoodTable, IsNextId
<1>2. /\ History!GoodTable(History!Stored(t, n, c, "pending"))
      /\ History!Stored(t, n, c, "pending")[n] = [cfg |-> c, state |-> "pending"]
  BY <1>1, HistoryHolds, History!StoredRows
<1>3. /\ Superseded(t) \in Tables
      /\ \A i \in Ids : Superseded(t)[i].cfg = t[i].cfg
      /\ \A i \in Ids : (Superseded(t)[i].state = "absent") <=> (t[i].state = "absent")
  BY <1>1, HistoryHolds, SameRows, SameSuperseded, History!SupersededRows
<1> DEFINE u == [Superseded(t) EXCEPT ![n] = [cfg |-> c, state |-> "pending"]]
<1>4. u \in Tables /\ \A i \in Ids : i # n => u[i] = Superseded(t)[i]
  BY <1>1, <1>3 DEF Tables, Row, ApplyStates
<1>5. Stored(t, n, c, "pending") = Pruned(u)
  BY DEF Stored
<1> HIDE DEF u
<1>6. \A i \in Ids : Pruned(u)[i] = u[i] \/ Pruned(u)[i] = Absent
  BY <1>4, HistoryHolds, SameRows, SamePruned, History!PrunedRows
<1>7. SameContents(Pruned(u), t, Ids \ {n})
  BY <1>3, <1>4, <1>6 DEF SameContents
<1> QED
  BY <1>1, <1>2, <1>5, <1>7, SameRows, SameStored

LEMMA StoreKeeps ==
  ASSUME TableInv, NEW n, NEW c \in Contents, Store(n, c), UNCHANGED <<rolled, shown>>,
         events' \in 0 .. MaxEvents
  PROVE  TableInv' /\ n \in Ids /\ rows'[n] = [cfg |-> c, state |-> "pending"]
<1>1. GoodTable(rows) /\ IsNextId(rows, n) /\ rows' = Stored(rows, n, c, "pending")
      /\ carriedId' = (IF n = carriedId THEN 0 ELSE carriedId)
  BY DEF TableInv, Store
<1>2. /\ GoodTable(rows') /\ n \in Ids /\ rows'[n] = [cfg |-> c, state |-> "pending"]
      /\ SameContents(rows', rows, Ids \ {n})
  BY <1>1, StoredIsGood
<1>3. carriedId' # 0 => SameContents(rows', rows, {carriedId})
  BY <1>1, <1>2 DEF TableInv, SameContents
<1>4. TableInv'
  BY <1>1, <1>2, <1>3, CarriedStays
<1> QED
  BY <1>2, <1>4

LEMMA MarkedKeeps ==
  ASSUME TableInv, NEW i \in Ids, rows' \in {MarkedFailed(rows, i), MarkedApplied(rows, i)},
         UNCHANGED <<rolled, shown, events, carriedId>>
  PROVE  TableInv'
<1>1. GoodTable(rows) /\ rows \in Tables
  BY DEF TableInv, GoodTable
<1>2. GoodTable(MarkedFailed(rows, i)) /\ GoodTable(MarkedApplied(rows, i))
  BY <1>1, HistoryHolds, SameRows, SameMarked, History!MarkedRows
<1>3. SameContents(MarkedFailed(rows, i), rows, Ids)
  BY <1>1 DEF SameContents, MarkedFailed, Tables, Row, IsOpen
<1>4. SameContents(MarkedApplied(rows, i), rows, Ids)
  <2> DEFINE r == [rows[i] EXCEPT !.state = "applied"]
  <2>1. rows[i] \in Row /\ r.cfg = rows[i].cfg /\ r.state = "applied"
    BY <1>1 DEF Tables, Row
  <2>2. /\ Superseded(rows) \in Tables
        /\ \A j \in Ids : Superseded(rows)[j].cfg = rows[j].cfg
        /\ \A j \in Ids : (Superseded(rows)[j].state = "absent") <=> (rows[j].state = "absent")
    BY <1>1, HistoryHolds, SameRows, SameSuperseded, History!SupersededRows
  <2>3. MarkedApplied(rows, i) = IF IsOpen(rows[i]) THEN [Superseded(rows) EXCEPT ![i] = r]
                                 ELSE rows
    BY DEF MarkedApplied
  <2> HIDE DEF r
  <2> QED
    BY <2>1, <2>2, <2>3 DEF SameContents, Tables, IsOpen
<1>5. events' \in 0 .. MaxEvents /\ carriedId \in {0} \union Ids
  BY DEF TableInv
<1>6. GoodTable(rows') /\ SameContents(rows', rows, Ids)
  BY <1>2, <1>3, <1>4
<1> QED
  BY <1>5, <1>6, CarriedStays DEF SameContents

LEMMA DeletedKeeps ==
  ASSUME TableInv, NEW i \in Ids, rows' = Deleted(rows, {i}), UNCHANGED <<rolled, shown>>,
         events' \in 0 .. MaxEvents, carriedId' = IF i = carriedId THEN 0 ELSE carriedId
  PROVE  TableInv'
<1>1. GoodTable(rows) /\ rows \in Tables
  BY DEF TableInv, GoodTable
<1>2. GoodTable(rows') /\ \A j \in Ids : rows'[j] = rows[j] \/ rows'[j] = Absent
  BY <1>1, HistoryHolds, SameRows, SameDeleted, History!DeletedRows
<1>3. carriedId' # 0 => SameContents(rows', rows, {carriedId})
  BY <1>2 DEF TableInv, SameContents
<1> QED
  BY <1>2, <1>3, CarriedStays

LEMMA TableSame ==
  ASSUME TableInv, UNCHANGED <<rows, rolled, carriedId>>, shown' \in Stamps,
         events' \in 0 .. MaxEvents
  PROVE  TableInv'
BY DEF TableInv

\* The open version, as the handlers read it.
LEMMA OpenIsThere ==
  ASSUME TableInv, OpenIds(rows) # {}
  PROVE  /\ OpenOf(rows) \in Ids /\ IsOpen(rows[OpenOf(rows)]) /\ rows[OpenOf(rows)].cfg \in Contents
         /\ OpenRow = rows[OpenOf(rows)]
<1>1. GoodTable(rows) /\ History!GoodTable(rows)
  BY SameRows DEF TableInv
<1>2. PICK i \in Ids : IsOpen(rows[i])
  BY DEF OpenIds
<1>3. OpenOf(rows) = i
  BY <1>1, <1>2, HistoryHolds, SameRows, SameOpen, History!OpenOfRows
<1>4. rows[i].cfg \in Contents
  BY <1>1, <1>2 DEF GoodTable, ContentOK, IsOpen
<1> QED
  BY <1>2, <1>3, <1>4 DEF OpenRow

LEMMA DesiredIsContent == ASSUME TableInv, WorldInv PROVE Desired \in Contents
BY OpenIsThere DEF Desired, WorldInv

---------------------------------------------------------------------------
(* The handler.                                                            *)

LEMMA IdleFields ==
  /\ Idle \in OpType /\ Idle.pc = "idle" /\ Idle.kind = "none" /\ Idle.id = 0 /\ Idle.svc = ""
  /\ Idle.read = NoRead /\ Idle.values = Unknown /\ Idle.keep = NoConfig /\ Idle.shown = NoConfig
  /\ NoRead \in Reads
<1>1. NoRead \in Reads
  BY DEF NoRead, Reads
<1> QED
  BY <1>1 DEF Idle, OpType, MaybeContents

LEMMA OpStays ==
  ASSUME WorldInv, OpInv, Grows, UNCHANGED <<op, rows, formal, carriedId>>
  PROVE  OpInv'
<1>1. op \in OpType
  BY DEF OpInv
<1>2. op.pc = "health" => (OwnRead(op.read) /\ SameFileSince(op.read))'
  <2>1. SUFFICES ASSUME op.pc = "health" PROVE (OwnRead(op.read) /\ SameFileSince(op.read))'
    OBVIOUS
  <2>2. OwnRead(op.read)'
    BY <2>1, OwnStays DEF OpInv
  <2>3. op.read.proc \in Nat /\ kernel.proc \in Nat /\ kernel'.proc \in Nat
    <3>1. op.read \in Reads
      BY <1>1 DEF OpType
    <3>2. kernel.proc \in Procs /\ kernel'.proc \in kernel.proc .. MaxProcs
      BY DEF WorldInv, KernelType, Grows
    <3> QED
      BY <3>1, <3>2 DEF Reads
  <2>4. \A q \in (op.read.proc + 1) .. kernel'.proc :
          q \in (op.read.proc + 1) .. kernel.proc \/ q \in (kernel.proc + 1) .. kernel'.proc
    BY <2>3
  <2>5. \A q \in (op.read.proc + 1) .. kernel.proc : started'[q] = started[q]
    BY <2>3 DEF Grows
  <2>6. SameFileSince(op.read)'
    BY <2>1, <2>4, <2>5 DEF OpInv, SameFileSince, Grows
  <2> QED
    BY <2>2, <2>6
<1>3. op.pc = "noting" => OwnRead(op.read)'
  BY OwnStays DEF OpInv
<1>4. op.kind = "rollback" /\ op.pc \in {"save", "write", "carry"} => FromOneStart(op.values)'
  BY DEF OpInv, FromOneStart, Grows, WorldInv
<1> QED
  BY <1>1, <1>2, <1>3, <1>4 DEF OpInv, Applies, WritesBack, WritesPending, PutBack

\* Where a handler holds nothing that was read.
LEMMA OpIsFree ==
  ASSUME op' \in OpType,
         op'.pc \in {"idle", "service", "mark", "judge", "request", "settle", "observe"}
  PROVE  OpInv'
BY DEF OpInv, Applies, WritesBack, WritesPending

LEMMA OpIdles == ASSUME op' = Idle PROVE OpInv'
BY IdleFields, OpIsFree

---------------------------------------------------------------------------
(* KixDNS and the pass keep the invariant.                                 *)

LEMMA ReaderSame == ASSUME WorldInv, ReaderInv, Grows, reader' = reader PROVE ReaderInv'
<1>1. reader.pc \in {"alive", "note"} => Met(reader.read)' /\ Met(reader.read)
  BY OwnStays DEF ReaderInv
<1>2. reader.pc = "alive" => OwnRead(reader.read)'
  BY OwnStays DEF ReaderInv
<1>3. reader.pc = "note" => started'[reader.read.proc] = started[reader.read.proc]
  BY <1>1 DEF Met, Grows
<1> QED
  BY <1>1, <1>2, <1>3 DEF ReaderInv

LEMMA ReaderNone == ASSUME reader' = NoPass PROVE ReaderInv'
BY IdleFields DEF NoPass, ReaderInv, MaybeSettings

LEMMA KernelKeeps == ASSUME RestartInv, WorldInv', Grows, UNCHANGED Others PROVE RestartInv'
<1>1. WorldInv /\ RecordInv /\ ReaderInv /\ TableInv /\ OpInv
  BY DEF RestartInv
<1>2. RecordInv' /\ ReaderInv' /\ OpInv'
  BY <1>1, RecordSame, ReaderSame, OpStays DEF Others
<1>3. TableInv'
  BY <1>1 DEF Others, TableInv
<1> QED
  BY <1>2, <1>3 DEF RestartInv

LEMMA KernelActionKeeps == ASSUME RestartInv, Kernel \/ ServiceStop PROVE RestartInv'
<1>1. WorldInv /\ kernel \in KernelType
  BY DEF RestartInv, WorldInv
<1>2. CASE KernelStart
  <2>1. Launch /\ UNCHANGED Others /\ formal' = formal
    BY <1>2 DEF KernelStart, Others
  <2> QED
    BY <1>1, <2>1, LaunchGrows, KernelKeeps
<1>3. CASE KernelAnswers \/ KernelDies \/ ServiceStop
  <2>1. PICK phase \in {"answering", "failing", "stopped"} :
          kernel' = [kernel EXCEPT !.phase = phase] /\ UNCHANGED <<Others, history>>
    BY <1>3 DEF KernelAnswers, KernelDies, ServiceStop
  <2> DEFINE k == [kernel EXCEPT !.phase = phase]
  <2>2. k \in KernelType /\ k.proc = kernel.proc /\ k.age = kernel.age /\ k.phase = phase
    BY <1>1 DEF KernelType
  <2> HIDE DEF k
  <2>3. /\ kernel' = k /\ cameUp' = cameUp /\ UNCHANGED <<formal, started>> /\ UNCHANGED Others
        /\ k.phase = "up" \/ k.age > 0 => kernel.proc \in cameUp
    BY <1>1, <2>1, <2>2 DEF k, Others, history, WorldInv
  <2>4. WorldInv' /\ Grows
    BY <1>1, <2>2, <2>3, KernelMoves
  <2> QED
    BY <2>3, <2>4, KernelKeeps
<1>4. CASE KernelBinds
  <2> DEFINE k == [kernel EXCEPT !.phase = "up"]
  <2>1. k \in KernelType /\ k.proc = kernel.proc
    BY <1>1 DEF KernelType
  <2>2. kernel' = k /\ cameUp' = cameUp \union {kernel.proc} /\ UNCHANGED <<formal, started>>
        /\ UNCHANGED Others
    BY <1>4 DEF KernelBinds, Others
  <2> HIDE DEF k
  <2>3. WorldInv' /\ Grows
    BY <1>1, <2>1, <2>2, KernelMoves
  <2> QED
    BY <2>2, <2>3, KernelKeeps
<1>5. CASE KernelReloads
  <2> DEFINE k == [kernel EXCEPT !.active = formal]
  <2>1. /\ k \in KernelType /\ k.proc = kernel.proc /\ k.age = kernel.age
        /\ k.phase = kernel.phase
    BY <1>1 DEF KernelType, WorldInv
  <2>2. kernel' = k /\ cameUp' = cameUp /\ UNCHANGED <<formal, started>> /\ UNCHANGED Others
    BY <1>5 DEF KernelReloads, Others, history
  <2> HIDE DEF k
  <2>3. k.phase = "up" \/ k.age > 0 => kernel.proc \in cameUp
    BY <1>1, <2>1 DEF WorldInv
  <2>4. WorldInv' /\ Grows
    BY <1>1, <2>1, <2>2, <2>3, KernelMoves
  <2> QED
    BY <2>2, <2>4, KernelKeeps
<1>6. CASE KernelAges
  <2> DEFINE k == [kernel EXCEPT !.age = @ + 1]
  <2>1. k \in KernelType /\ k.proc = kernel.proc
    BY <1>1, <1>6 DEF KernelType, KernelAges
  <2>2. kernel' = k /\ cameUp' = cameUp /\ UNCHANGED <<formal, started>> /\ UNCHANGED Others
        /\ kernel.proc \in cameUp
    BY <1>6 DEF KernelAges, Others, history, RestartInv, WorldInv
  <2> HIDE DEF k
  <2>3. WorldInv' /\ Grows
    BY <1>1, <2>1, <2>2, KernelMoves
  <2> QED
    BY <2>2, <2>3, KernelKeeps
<1> QED
  BY <1>2, <1>3, <1>4, <1>5, <1>6 DEF Kernel

LEMMA ReportIsOwn ==
  ASSUME WorldInv
  PROVE  Report \in Reads /\ OwnRead(Report) /\ Report.proc = kernel.proc
<1> DEFINE waiting == {k \in Keys : kernel.active.set[k] # started[kernel.proc][k]}
<1>1. /\ kernel \in KernelType /\ kernel.proc \in 1 .. kernel.proc
      /\ started[kernel.proc] \in [Keys -> Vals]
  BY DEF WorldInv, KernelType, Settings
<1>2. kernel.active \in Contents /\ kernel.active.set \in [Keys -> Vals]
  BY <1>1 DEF KernelType, Contents, Settings
<1>3. waiting = {} => kernel.active.set = started[kernel.proc]
  BY <1>1, <1>2
<1>4. waiting \in SUBSET Keys
  OBVIOUS
<1>5. Report = [proc |-> kernel.proc, age |-> kernel.age, cfg |-> kernel.active, waits |-> waiting]
  BY DEF Report
<1> HIDE DEF waiting
<1>6. Report \in Reads
  BY <1>1, <1>2, <1>4, <1>5 DEF Reads, KernelType
<1> QED
  BY <1>1, <1>2, <1>3, <1>5, <1>6 DEF OwnRead, Met, WorldInv

LEMMA KnownIsStarted ==
  ASSUME WorldInv, NEW read \in Reads, OwnRead(read)
  PROVE  /\ Known(read) \in MaybeSettings
         /\ Known(read) # Unknown =>
              Known(read) = formal.set /\ Known(read) = started[read.proc] /\ formal = read.cfg
BY DEF WorldInv, Contents, MaybeSettings, OwnRead, Known

\* Steps of the pass.
LEMMA PassKeeps ==
  ASSUME RestartInv, UNCHANGED ReadWorld, RecordInv', ReaderInv'
  PROVE  RestartInv'
<1>1. WorldInv' /\ Grows
  BY SameKernel DEF RestartInv, WorldInv, ReadWorld, history
<1>2. OpInv'
  BY <1>1, OpStays DEF RestartInv, ReadWorld
<1>3. TableInv'
  BY TableSame DEF RestartInv, ReadWorld, TableInv
<1> QED
  BY <1>1, <1>2, <1>3 DEF RestartInv

LEMMA PassActionKeeps == ASSUME RestartInv, Pass PROVE RestartInv'
<1>1. WorldInv /\ RecordInv /\ ReaderInv /\ UNCHANGED ReadWorld
  BY DEF RestartInv, Pass, PassAsks, PassReadsFormal, PassNotes, PassReadsService, PassMarks
<1>2. /\ Grows /\ UNCHANGED <<kernel, history>> /\ UNCHANGED <<kernel, started, cameUp>>
      /\ startup' = startup => RecordInv'
  BY <1>1, SameKernel, RecordSame DEF WorldInv, ReadWorld, history
<1>3. reader.read \in Reads /\ reader.known \in MaybeSettings
  BY <1>1 DEF ReaderInv
<1>4. CASE PassAsks
  <2> DEFINE pc == IF Report.waits = {} THEN "alive" ELSE "note"
             r == [NoPass EXCEPT !.pc = pc, !.read = Report]
  <2>1. Report \in Reads /\ OwnRead(Report)
    BY <1>1, ReportIsOwn
  <2>2. pc \in {"alive", "note"} /\ (pc = "alive" => Report.waits = {})
    OBVIOUS
  <2>3. reader' = r /\ startup' = startup
    BY <1>4 DEF PassAsks
  <2> HIDE DEF pc
  <2>4. /\ r \in [pc: {"idle", "alive", "note", "mark"}, read: Reads, known: MaybeSettings]
        /\ r.pc = pc /\ r.read = Report /\ r.known = Unknown
    BY <2>1, <2>2 DEF NoPass, MaybeSettings
  <2> HIDE DEF r
  <2>5. OwnRead(Report)' /\ Met(Report)'
    BY <1>2, <2>1 DEF OwnRead, Met, Report
  <2>6. Report' = Report
    BY <1>2 DEF Report
  <2>7. ReaderInv'
    BY <2>2, <2>3, <2>4, <2>5, <2>6 DEF ReaderInv
  <2> QED
    BY <1>1, <1>2, <2>3, <2>7, PassKeeps
<1>5. CASE PassReadsFormal
  <2> DEFINE known == Known(reader.read)
             read == [reader.read EXCEPT !.cfg = NoConfig]
             r == [reader EXCEPT !.pc = "note", !.known = known, !.read = read]
  <2>1. /\ known \in MaybeSettings
        /\ known # Unknown => known = started[reader.read.proc]
        /\ Met(reader.read)
    BY <1>1, <1>3, <1>5, KnownIsStarted DEF PassReadsFormal, ReaderInv
  <2>2. /\ read \in Reads /\ read.proc = reader.read.proc /\ read.age = reader.read.age
    BY <1>3 DEF Reads
  <2>3. reader' = r /\ startup' = startup
    BY <1>5 DEF PassReadsFormal
  <2> HIDE DEF known, read
  <2>4. /\ r \in [pc: {"idle", "alive", "note", "mark"}, read: Reads, known: MaybeSettings]
        /\ r.pc = "note" /\ r.read = read /\ r.known = known
    BY <1>1, <2>1, <2>2 DEF ReaderInv
  <2> HIDE DEF r
  <2>5. ReaderInv'
    BY <1>2, <2>1, <2>2, <2>3, <2>4 DEF ReaderInv, Met
  <2> QED
    BY <1>1, <1>2, <2>3, <2>5, PassKeeps
<1>6. CASE PassNotes
  <2>1. RecordInv'
    BY <1>1, <1>2, <1>3, <1>6, SeenKeeps DEF PassNotes, ReaderInv
  <2> QED
    BY <1>1, <1>6, <2>1, ReaderNone, PassKeeps DEF PassNotes
<1>7. CASE PassReadsService
  <2> DEFINE r == [NoPass EXCEPT !.pc = "mark"]
  <2>1. /\ r \in [pc: {"idle", "alive", "note", "mark"}, read: Reads, known: MaybeSettings]
        /\ r.pc = "mark"
    BY IdleFields DEF NoPass, MaybeSettings
  <2>2. reader' = r /\ startup' = startup
    BY <1>7 DEF PassReadsService
  <2> HIDE DEF r
  <2>3. ReaderInv'
    BY <2>1, <2>2 DEF ReaderInv
  <2> QED
    BY <1>1, <1>2, <2>2, <2>3, PassKeeps
<1>8. CASE PassMarks
  <2>1. RecordInv'
    BY <1>1, <1>2, <1>8, RecordStays DEF PassMarks
  <2> QED
    BY <1>1, <1>8, <2>1, ReaderNone, PassKeeps DEF PassMarks
<1> QED
  BY <1>4, <1>5, <1>6, <1>7, <1>8 DEF Pass

---------------------------------------------------------------------------
(* The handlers keep the invariant.                                        *)

\* A step that leaves KixDNS alone.
LEMMA HandlerKeeps ==
  ASSUME RestartInv, UNCHANGED <<kernel, reader>>, UNCHANGED history, formal' \in Contents,
         startup' = startup \/ (\E down \in BOOLEAN : startup' = [startup EXCEPT !.down = down])
           \/ RecordInv',
         TableInv', OpInv'
  PROVE  RestartInv'
<1>1. WorldInv' /\ Grows
  BY SameKernel DEF RestartInv
<1>2. RecordInv'
  BY <1>1, RecordSame, RecordStays DEF RestartInv
<1>3. ReaderInv'
  BY <1>1, ReaderSame DEF RestartInv
<1> QED
  BY <1>1, <1>2, <1>3 DEF RestartInv

FreePcs == {"idle", "service", "mark", "judge", "request", "settle", "observe"}

LEMMA GotoFree == ASSUME OpInv, NEW pc \in FreePcs, Goto(pc) PROVE OpInv'
<1> DEFINE o == [op EXCEPT !.pc = pc]
<1>1. o \in OpType /\ o.pc = pc
  BY DEF OpInv, OpType, FreePcs
<1>2. op' = o
  BY DEF Goto
<1> HIDE DEF o
<1> QED
  BY <1>1, <1>2, OpIsFree DEF FreePcs

\* An apply of an open version.
LEMMA ApplyBegins ==
  ASSUME op' \in OpType, op'.pc = "apply", op'.kind \in {"apply", "restart"}, op'.id \in Ids,
         IsOpen(rows'[op'.id])
  PROVE  OpInv'
BY DEF OpInv, Applies, WritesBack, WritesPending

LEMMA ApplyingBegins ==
  ASSUME NEW n \in Ids, op' = Applying(n), IsOpen(rows'[n])
  PROVE  OpInv'
<1> DEFINE o == [Idle EXCEPT !.pc = "apply", !.kind = "apply", !.id = n]
<1>1. o \in OpType /\ o.pc = "apply" /\ o.kind = "apply" /\ o.id = n
  BY IdleFields DEF OpType, Idle
<1>2. op' = o
  BY DEF Applying
<1> HIDE DEF o
<1> QED
  BY <1>1, <1>2, ApplyBegins

LEMMA AppliedIsFree ==
  ASSUME NEW kind \in {"apply", "restart"}, op' = Applied(kind)
  PROVE  OpInv'
<1> DEFINE o == [Idle EXCEPT !.pc = "observe", !.kind = kind]
<1>1. o \in OpType /\ o.pc = "observe"
  BY IdleFields DEF OpType, Idle
<1>2. op' = o \/ op' = Idle
  BY DEF Applied
<1> HIDE DEF o
<1> QED
  BY <1>1, <1>2, OpIsFree, OpIdles

LEMMA SaveConfigKeeps == ASSUME RestartInv, NEW c \in Contents, SaveConfig(c) PROVE RestartInv'
<1>1. PICK n \in Ids : Store(n, c) /\ (op' = Applying(n) \/ op' = Idle)
  BY DEF SaveConfig
<1>2. /\ UNCHANGED <<kernel, reader>> /\ UNCHANGED history /\ startup' = startup
      /\ UNCHANGED <<rolled, shown>> /\ formal' = formal /\ events' = events + 1
      /\ events < MaxEvents
  BY DEF SaveConfig, Happens
<1>3. events' \in 0 .. MaxEvents
  BY <1>2 DEF RestartInv, TableInv
<1>4. TableInv' /\ rows'[n] = [cfg |-> c, state |-> "pending"]
  BY <1>1, <1>2, <1>3, StoreKeeps DEF RestartInv
<1>5. OpInv'
  BY <1>1, <1>4, ApplyingBegins, OpIdles DEF IsOpen
<1> QED
  BY <1>2, <1>4, <1>5, HandlerKeeps DEF RestartInv, WorldInv

LEMMA DeleteVersionKeeps == ASSUME RestartInv, NEW i \in Ids, DeleteVersion(i) PROVE RestartInv'
<1>1. /\ UNCHANGED <<kernel, reader>> /\ UNCHANGED history /\ startup' = startup
      /\ UNCHANGED <<rolled, shown>> /\ formal' = formal /\ events' = events + 1
      /\ events < MaxEvents /\ op' = Idle /\ rows' = Deleted(rows, {i})
      /\ carriedId' = IF i = carriedId THEN 0 ELSE carriedId
  BY DEF DeleteVersion, Happens
<1>2. events' \in 0 .. MaxEvents
  BY <1>1 DEF RestartInv, TableInv
<1>3. TableInv'
  BY <1>1, <1>2, DeletedKeeps DEF RestartInv
<1> QED
  BY <1>1, <1>3, OpIdles, HandlerKeeps DEF RestartInv, WorldInv

\* A handler's step that leaves the configuration alone.
LEMMA SameConfigKeeps ==
  ASSUME RestartInv, UNCHANGED SameConfig, UNCHANGED <<kernel, reader>>, UNCHANGED history,
         events' \in 0 .. MaxEvents,
         startup' = startup \/ (\E down \in BOOLEAN : startup' = [startup EXCEPT !.down = down])
           \/ RecordInv',
         OpInv'
  PROVE  RestartInv'
<1>1. TableInv' /\ formal' \in Contents
  BY TableSame DEF RestartInv, SameConfig, TableInv, WorldInv
<1> QED
  BY <1>1, HandlerKeeps

LEMMA FrameFields ==
  ASSUME RestartInv, UNCHANGED Frame
  PROVE  reader' = reader /\ UNCHANGED history /\ events' \in 0 .. MaxEvents /\ events' = events
BY DEF Frame, RestartInv, TableInv

LEMMA ReconcilePendingKeeps == ASSUME RestartInv, ReconcilePending PROVE RestartInv'
<1>1. OpenIds(rows) # {} /\ op' = Applying(OpenOf(rows)) /\ UNCHANGED rows
      /\ UNCHANGED SameConfig /\ UNCHANGED <<kernel, startup>> /\ UNCHANGED Frame
  BY DEF ReconcilePending, Waiting, SameConfig
<1>2. OpenOf(rows) \in Ids /\ IsOpen(rows[OpenOf(rows)])
  BY <1>1, OpenIsThere DEF RestartInv
<1>3. OpInv'
  BY <1>1, <1>2, ApplyingBegins
<1> QED
  BY <1>1, <1>3, FrameFields, SameConfigKeeps

---------------------------------------------------------------------------
(* Applying the pending version.                                           *)

LEMMA ApplyReadsKeeps == ASSUME RestartInv, ApplyReads PROVE RestartInv'
<1>1. /\ op \in OpType /\ op.kind \in {"apply", "restart"} /\ op.id \in Ids /\ IsOpen(rows[op.id])
      /\ op.pc = "apply"
  BY DEF ApplyReads, RestartInv, OpInv, Applies
<1>2. /\ UNCHANGED <<kernel, startup, formal, rolled, shown, carriedId>> /\ UNCHANGED Frame
      /\ formal' \in Contents
  BY DEF ApplyReads, RestartInv, WorldInv
<1>3. reader' = reader /\ UNCHANGED history /\ events' \in 0 .. MaxEvents /\ events' = events
  BY <1>2, FrameFields
<1>4. CASE op' = [op EXCEPT !.pc = "health", !.read = Report, !.keep = formal] /\ UNCHANGED rows
  <2> DEFINE o == [op EXCEPT !.pc = "health", !.read = Report, !.keep = formal]
  <2>1. Report \in Reads /\ OwnRead(Report) /\ Report.proc = kernel.proc /\ kernel.proc \in Nat
    BY ReportIsOwn DEF RestartInv, WorldInv, KernelType
  <2>2. formal \in MaybeContents
    BY DEF RestartInv, WorldInv, MaybeContents
  <2>3. /\ o \in OpType /\ o.pc = "health" /\ o.kind = op.kind /\ o.id = op.id
        /\ o.read = Report /\ o.keep = formal
    BY <1>1, <2>1, <2>2 DEF OpType
  <2>4. op' = o
    BY <1>4
  <2> HIDE DEF o
  <2>5. /\ OwnRead(Report)' /\ Report' = Report /\ kernel'.proc = kernel.proc
    BY <1>2, <1>3, <2>1 DEF OwnRead, Met, Report, history
  <2>6. SameFileSince(op.read)'
    BY <1>2, <2>1, <2>3, <2>4, <2>5 DEF SameFileSince
  <2>7. OpInv'
    BY <1>1, <1>2, <1>4, <2>3, <2>4, <2>5, <2>6 DEF OpInv, Applies, WritesBack, WritesPending
  <2>8. TableInv'
    BY <1>2, <1>3, <1>4, TableSame DEF RestartInv, TableInv
  <2> QED
    BY <1>2, <1>3, <2>7, <2>8, HandlerKeeps
<1>5. CASE op' = Applied(op.kind) /\ rows' \in {rows, MarkedFailed(rows, op.id)}
  <2>1. TableInv'
    BY <1>1, <1>2, <1>3, <1>5, TableSame, MarkedKeeps DEF RestartInv, TableInv
  <2> QED
    BY <1>1, <1>2, <1>3, <1>5, <2>1, AppliedIsFree, HandlerKeeps
<1> QED
  BY <1>4, <1>5 DEF ApplyReads

LEMMA ApplyNotesKeeps == ASSUME RestartInv, ApplyNotes PROVE RestartInv'
<1>1. /\ op \in OpType /\ Applies /\ op.pc = "health" /\ op.read \in Reads
      /\ OwnRead(op.read) /\ SameFileSince(op.read)
  BY DEF ApplyNotes, RestartInv, OpInv, Applies, OpType
<1>2. /\ UNCHANGED SameConfig /\ kernel' = kernel /\ UNCHANGED Frame
  BY DEF ApplyNotes, SameConfig
<1>3. RecordInv' \/ startup' = startup
  <2> DEFINE read == [op.read EXCEPT !.proc = kernel.proc, !.age = kernel.age]
             known == Known(op.read)
  <2>1. kernel \in KernelType /\ kernel.proc \in 1 .. kernel.proc /\ WorldInv /\ RecordInv
    BY DEF RestartInv, WorldInv, KernelType
  <2>2. read \in Reads /\ read.proc = kernel.proc /\ read.age = kernel.age
    BY <1>1, <2>1 DEF Reads, KernelType
  <2>3. Met(read)
    BY <2>1, <2>2 DEF Met, WorldInv
  <2>4. known \in MaybeSettings
        /\ (known # Unknown => known = formal.set /\ known = started[op.read.proc])
    BY <1>1, <2>1, KnownIsStarted
  <2>5. known # Unknown => known = started[read.proc]
    <3>1. CASE op.read.proc = kernel.proc
      BY <2>2, <2>4, <3>1
    <3>2. CASE op.read.proc # kernel.proc
      <4>1. op.read.proc \in 1 .. kernel.proc
        BY <1>1 DEF OwnRead, Met
      <4>2. kernel.proc \in (op.read.proc + 1) .. kernel.proc
        BY <2>1, <3>2, <4>1
      <4> QED
        BY <1>1, <2>2, <2>4, <4>2 DEF SameFileSince
    <3> QED
      BY <3>1, <3>2
  <2>6. startup' = startup \/ startup' = SeenAlive(startup, read, known)
    BY DEF ApplyNotes
  <2>7. UNCHANGED <<kernel, history>>
    BY <1>2, FrameFields
  <2> HIDE DEF read, known
  <2> QED
    BY <2>1, <2>2, <2>3, <2>4, <2>5, <2>6, <2>7, SeenKeeps
<1>4. OpInv'
  <2> DEFINE o == [op EXCEPT !.pc = "write", !.read = NoRead]
  <2>1. /\ o \in OpType /\ o.pc = "write" /\ o.kind = op.kind /\ o.id = op.id /\ o.keep = op.keep
    BY <1>1, IdleFields DEF OpType
  <2>2. op' = o
    BY DEF ApplyNotes
  <2> HIDE DEF o
  <2> QED
    BY <1>1, <1>2, <2>1, <2>2
    DEF RestartInv, OpInv, Applies, WritesBack, WritesPending, SameConfig
<1> QED
  BY <1>2, <1>3, <1>4, FrameFields, SameConfigKeeps

LEMMA ApplyWritesKeeps == ASSUME RestartInv, ApplyWrites PROVE RestartInv'
<1>1. /\ op \in OpType /\ op.pc = "write" /\ op.kind \in {"apply", "restart"} /\ op.id \in Ids
      /\ IsOpen(rows[op.id]) /\ op.keep \in Contents
  BY DEF ApplyWrites, RestartInv, OpInv, Applies
<1>2. /\ UNCHANGED <<rows, kernel, startup, rolled, shown, carriedId>> /\ UNCHANGED Frame
      /\ formal' = rows[op.id].cfg
  BY DEF ApplyWrites
<1>3. formal' \in Contents
  BY <1>1, <1>2 DEF RestartInv, TableInv, GoodTable, ContentOK, IsOpen
<1>4. OpInv'
  <2> DEFINE o == [op EXCEPT !.pc = "wait"]
  <2>1. o \in OpType /\ o.pc = "wait" /\ o.kind = op.kind /\ o.id = op.id /\ o.keep = op.keep
    BY <1>1 DEF OpType
  <2>2. op' = o
    BY DEF ApplyWrites, Goto
  <2> HIDE DEF o
  <2> QED
    BY <1>1, <1>2, <2>1, <2>2 DEF OpInv, Applies, WritesBack, WritesPending
<1>5. TableInv'
  BY <1>2, FrameFields, TableSame DEF RestartInv, TableInv
<1> QED
  BY <1>2, <1>3, <1>4, <1>5, FrameFields, HandlerKeeps

LEMMA ApplyEndsKeeps == ASSUME RestartInv, ApplyConfirmed \/ ApplyFails PROVE RestartInv'
<1>1. /\ op \in OpType /\ op.kind \in {"apply", "restart"} /\ op.id \in Ids /\ op.keep \in Contents
  BY DEF ApplyConfirmed, ApplyFails, RestartInv, OpInv, Applies
<1>2. /\ UNCHANGED <<kernel, startup, rolled, shown, carriedId>> /\ UNCHANGED Frame
      /\ formal' \in {formal, op.keep} /\ op' = Applied(op.kind)
      /\ rows' \in {MarkedFailed(rows, op.id), MarkedApplied(rows, op.id)}
  BY DEF ApplyConfirmed, ApplyFails
<1>3. formal' \in Contents /\ UNCHANGED <<rolled, shown, events, carriedId>>
  BY <1>1, <1>2, FrameFields DEF RestartInv, WorldInv
<1>4. TableInv'
  BY <1>1, <1>2, <1>3, MarkedKeeps DEF RestartInv
<1>5. OpInv'
  BY <1>1, <1>2, AppliedIsFree
<1> QED
  BY <1>2, <1>3, <1>4, <1>5, FrameFields, HandlerKeeps

---------------------------------------------------------------------------
(* roll_back                                                               *)

\* A request that reads the service first.
LEMMA BeginKeeps ==
  ASSUME RestartInv, NEW kind \in {"apply", "restart", "rollback", "write"},
         NEW id \in {0} \union Ids, NEW c \in MaybeContents, NEW pc \in {"service", "request", "observe"},
         Begin(kind, pc, id, c)
  PROVE  OpInv'
<1> DEFINE o == [Idle EXCEPT !.pc = pc, !.kind = kind, !.id = id, !.shown = c]
<1>1. o \in OpType /\ o.pc = pc /\ o.kind = kind
  BY IdleFields DEF OpType, Idle
<1>2. op' = o
  BY DEF Begin
<1> HIDE DEF o
<1> QED
  BY <1>1, <1>2, OpIsFree

LEMMA RollBackKeeps == ASSUME RestartInv, RollBack PROVE RestartInv'
<1>1. OpInv'
  BY BeginKeeps DEF RollBack, MaybeContents
<1> QED
  BY <1>1, FrameFields, SameConfigKeeps DEF RollBack

LEMMA ReadServiceKeeps == ASSUME RestartInv, ReadService PROVE RestartInv'
<1> DEFINE o == [op EXCEPT !.pc = "mark", !.svc = ServiceState]
<1>1. op \in OpType /\ ServiceState \in {"inactive", "failing", "active"}
  BY DEF RestartInv, OpInv, ServiceState
<1>2. o \in OpType /\ o.pc = "mark"
  BY <1>1 DEF OpType
<1>3. op' = o
  BY DEF ReadService
<1> HIDE DEF o
<1>4. OpInv'
  BY <1>2, <1>3, OpIsFree
<1> QED
  BY <1>4, FrameFields, SameConfigKeeps DEF ReadService

\* The mark set or left, as a step of the record.
LEMMA MarkedIsDown ==
  ASSUME RestartInv, NEW svc
  PROVE  \E down \in BOOLEAN : Marked(startup, svc) = [startup EXCEPT !.down = down]
<1>1. startup.down \in BOOLEAN /\ startup = [startup EXCEPT !.down = startup.down]
  BY DEF RestartInv, RecordInv, StartupType
<1> QED
  BY <1>1 DEF Marked

LEMMA MarkDownKeeps == ASSUME RestartInv, MarkDown PROVE RestartInv'
<1>1. OpInv'
  BY GotoFree DEF MarkDown, FreePcs, RestartInv
<1>2. \E down \in BOOLEAN : startup' = [startup EXCEPT !.down = down]
  BY MarkedIsDown DEF MarkDown
<1> QED
  BY <1>1, <1>2, FrameFields, SameConfigKeeps DEF MarkDown

\* The values to put back, of settings that one process started with.
LEMMA BackFields ==
  ASSUME WorldInv, NEW values, FromOneStart(values), NEW c \in Contents
  PROVE  LET back == WithValues(c, DOMAIN values, values)
         IN  /\ back \in Contents /\ back.body = c.body
             /\ \A k \in Keys \ DOMAIN values : back.set[k] = c.set[k]
             /\ \A k \in DOMAIN values : back.set[k] = values[k]
<1>1. PICK S \in SUBSET Keys : values \in [S -> Vals]
  BY DEF FromOneStart, Values
<1> DEFINE settings == [k \in Keys |-> IF k \in DOMAIN values THEN values[k] ELSE c.set[k]]
           back == [c EXCEPT !.set = settings]
<1>2. c.set \in [Keys -> Vals]
  BY DEF Contents, Settings
<1>3. settings \in Settings
  BY <1>1, <1>2 DEF Settings
<1>4. WithValues(c, DOMAIN values, values) = back
  BY DEF WithValues
<1>5. /\ \A k \in Keys \ DOMAIN values : settings[k] = c.set[k]
      /\ \A k \in DOMAIN values : settings[k] = values[k]
  BY <1>1
<1> HIDE DEF settings
<1>6. back \in Contents /\ back.body = c.body /\ back.set = settings
  BY <1>3 DEF Contents
<1> QED
  BY <1>4, <1>5, <1>6

LEMMA AcceptRollbackKeeps == ASSUME RestartInv, AcceptRollback PROVE RestartInv'
<1>1. op \in OpType /\ op.kind = "rollback" /\ startup \in StartupType
  BY DEF AcceptRollback, RestartInv, OpInv, RecordInv
<1>2. CASE op' = Idle
  BY <1>2, OpIdles, FrameFields, SameConfigKeeps DEF AcceptRollback
<1>3. CASE op' # Idle
  <2> DEFINE values == [k \in RollbackKeys(startup) |-> startup.settings[k]]
             keep == IF Waiting THEN Desired ELSE NoConfig
             o == [op EXCEPT !.pc = "save", !.svc = "", !.values = values, !.keep = keep]
  <2>1. RollbackKeys(startup) # {} /\ op' = o
    BY <1>3 DEF AcceptRollback
  <2>2. startup.settings # Unknown /\ RollbackKeys(startup) \subseteq Keys
    BY <1>1, <2>1 DEF RollbackKeys, StartupType
  <2>3. /\ startup.process \in cameUp /\ startup.settings = started[startup.process]
        /\ startup.settings \in [Keys -> Vals]
    BY <1>1, <2>2 DEF RestartInv, RecordInv, RecordedIsStarted, StartupType, MaybeSettings, Settings
  <2>4. values \in [RollbackKeys(startup) -> Vals] /\ RollbackKeys(startup) \in SUBSET Keys
    BY <2>2, <2>3
  <2>5. values \in Values
    BY <2>4 DEF Values
  <2>6. FromOneStart(values)
    BY <2>3, <2>5 DEF FromOneStart
  <2>7. keep \in MaybeContents
    BY DesiredIsContent DEF RestartInv, MaybeContents
  <2> HIDE DEF values, keep
  <2>8. /\ o \in OpType /\ o.pc = "save" /\ o.kind = "rollback" /\ o.values = values
    BY <1>1, <2>5, <2>7 DEF OpType
  <2> HIDE DEF o
  <2>9. cameUp' = cameUp /\ started' = started
    BY FrameFields DEF AcceptRollback, history
  <2>10. OpInv'
    BY <2>1, <2>6, <2>8, <2>9 DEF OpInv, Applies, WritesBack, WritesPending, FromOneStart
  <2> QED
    BY <2>10, FrameFields, SameConfigKeeps DEF AcceptRollback
<1> QED
  BY <1>2, <1>3

LEMMA SaveRolledBackKeeps == ASSUME RestartInv, SaveRolledBack PROVE RestartInv'
<1>1. op \in OpType /\ op.kind = "rollback" /\ FromOneStart(op.values) /\ op.pc = "save"
  BY DEF SaveRolledBack, RestartInv, OpInv
<1>2. PutBack(formal) \in Contents
  BY <1>1, BackFields DEF RestartInv, WorldInv, PutBack
<1>3. PICK n \in Ids : Store(n, PutBack(formal)) /\ op' = [op EXCEPT !.pc = "write", !.id = n]
  BY DEF SaveRolledBack
<1>4. UNCHANGED <<formal, kernel, startup, rolled, shown>> /\ UNCHANGED Frame
  BY DEF SaveRolledBack
<1>5. TableInv' /\ rows'[n] = [cfg |-> PutBack(formal), state |-> "pending"]
  BY <1>2, <1>3, <1>4, FrameFields, StoreKeeps DEF RestartInv
<1> DEFINE o == [op EXCEPT !.pc = "write", !.id = n]
<1>6. /\ o \in OpType /\ o.pc = "write" /\ o.kind = "rollback" /\ o.values = op.values /\ o.id = n
  BY <1>1 DEF OpType
<1>7. op' = o
  BY <1>3
<1> HIDE DEF o
<1>8. rows'[n].cfg = PutBack(formal)'
  BY <1>4, <1>5, <1>6, <1>7 DEF PutBack
<1>9. FromOneStart(op.values)'
  BY <1>1, <1>4, <1>6, <1>7, FrameFields DEF FromOneStart, history
<1>10. OpInv'
  BY <1>6, <1>7, <1>8, <1>9 DEF OpInv, Applies, WritesBack, WritesPending
<1> QED
  BY <1>4, <1>5, <1>10, FrameFields, HandlerKeeps DEF RestartInv, WorldInv

LEMMA WriteRolledBackKeeps == ASSUME RestartInv, WriteRolledBack PROVE RestartInv'
<1>1. /\ op \in OpType /\ op.kind = "rollback" /\ FromOneStart(op.values)
      /\ rows[op.id].cfg = PutBack(formal)
  BY DEF WriteRolledBack, RestartInv, OpInv, WritesBack
<1>2. /\ UNCHANGED <<rows, kernel, startup, rolled, shown, carriedId>> /\ UNCHANGED Frame
      /\ formal' = rows[op.id].cfg
  BY DEF WriteRolledBack
<1>3. formal' \in Contents
  BY <1>1, <1>2, BackFields DEF RestartInv, WorldInv, PutBack
<1> DEFINE o == [op EXCEPT !.pc = "carry"]
<1>4. o \in OpType /\ o.pc = "carry" /\ o.kind = "rollback" /\ o.values = op.values
  BY <1>1 DEF OpType
<1>5. op' = o
  BY DEF WriteRolledBack, Goto
<1> HIDE DEF o
<1>6. FromOneStart(op.values)'
  BY <1>1, <1>2, <1>4, <1>5, FrameFields DEF FromOneStart, history
<1>7. OpInv'
  BY <1>4, <1>5, <1>6 DEF OpInv, Applies, WritesBack, WritesPending
<1>8. TableInv'
  BY <1>2, FrameFields, TableSame DEF RestartInv, TableInv
<1> QED
  BY <1>2, <1>3, <1>7, <1>8, FrameFields, HandlerKeeps

LEMMA SaveCarriedKeeps == ASSUME RestartInv, SaveCarried PROVE RestartInv'
<1>1. op \in OpType /\ op.kind = "rollback" /\ FromOneStart(op.values) /\ op.keep \in MaybeContents
  BY DEF SaveCarried, RestartInv, OpInv, OpType
<1>2. /\ UNCHANGED <<formal, kernel, startup, rolled, shown>> /\ UNCHANGED Frame /\ formal' \in Contents
  BY DEF SaveCarried, RestartInv, WorldInv
<1>3. CASE op.keep # NoConfig
  <2>1. PutBack(op.keep) \in Contents
    BY <1>1, <1>3, BackFields DEF RestartInv, PutBack, MaybeContents
  <2>2. PICK n \in Ids : Store(n, PutBack(op.keep)) /\ op' = [op EXCEPT !.pc = "remember", !.id = n]
    BY <1>3 DEF SaveCarried
  <2> DEFINE o == [op EXCEPT !.pc = "remember", !.id = n]
  <2>3. o \in OpType /\ o.pc = "remember" /\ o.kind = "rollback" /\ o.id = n
    BY <1>1 DEF OpType
  <2>4. op' = o
    BY <2>2
  <2> HIDE DEF o
  <2>5. OpInv'
    BY <2>3, <2>4 DEF OpInv, Applies, WritesBack, WritesPending
  <2>6. TableInv'
    BY <1>2, <2>1, <2>2, FrameFields, StoreKeeps DEF RestartInv
  <2> QED
    BY <1>2, <2>5, <2>6, FrameFields, HandlerKeeps
<1>4. CASE op.keep = NoConfig
  <2> DEFINE o == [op EXCEPT !.pc = "remember"]
  <2>1. o \in OpType /\ o.pc = "remember" /\ o.kind = "rollback" /\ o.keep = NoConfig
    BY <1>1, <1>4 DEF OpType
  <2>2. op' = o /\ UNCHANGED <<rows, carriedId>>
    BY <1>4 DEF SaveCarried, Goto
  <2> HIDE DEF o
  <2>3. OpInv'
    BY <2>1, <2>2 DEF OpInv, Applies, WritesBack, WritesPending
  <2> QED
    BY <1>2, <2>2, <2>3, FrameFields, SameConfigKeeps DEF SameConfig
<1> QED
  BY <1>3, <1>4

LEMMA RememberRollbackKeeps == ASSUME RestartInv, RememberRollback PROVE RestartInv'
<1>1. OpInv'
  BY GotoFree DEF RememberRollback, FreePcs, RestartInv
<1>2. /\ UNCHANGED <<formal, rows, kernel, startup, shown>> /\ UNCHANGED Frame /\ formal' \in Contents
      /\ op.keep # NoConfig => op.id \in Ids /\ carriedId' = op.id
                               /\ rolled' = [id |-> op.id, cfg |-> rows[op.id].cfg]
      /\ op.keep = NoConfig => carriedId' = 0 /\ rolled' = NoStamp
  BY DEF RememberRollback, RestartInv, OpInv, WorldInv
<1>3. \A i \in Ids : [id |-> i, cfg |-> rows[i].cfg] \in Stamps
  BY DEF RestartInv, TableInv, GoodTable, Tables, Row, Stamps
<1>4. NoStamp \in Stamps
  BY DEF NoStamp, Stamps
<1>5. TableInv'
  BY <1>2, <1>3, <1>4, FrameFields DEF RestartInv, TableInv
<1> QED
  BY <1>1, <1>2, <1>5, FrameFields, HandlerKeeps

LEMMA RequestRestartKeeps == ASSUME RestartInv, RequestRestart PROVE RestartInv'
<1>1. /\ op \in OpType /\ op.pc = "request" /\ Launch /\ UNCHANGED SameConfig
      /\ UNCHANGED <<reader, events>> /\ formal' = formal
      /\ startup' = startup \/ startup' = [startup EXCEPT !.down = FALSE]
  BY DEF RequestRestart, RestartInv, OpInv, NewAttempt, SameConfig
<1>2. WorldInv' /\ Grows
  BY <1>1, LaunchGrows DEF RestartInv
<1>3. RecordInv' /\ ReaderInv'
  BY <1>1, <1>2, RecordSame, RecordStays, ReaderSame DEF RestartInv
<1>4. TableInv'
  BY <1>1 DEF RestartInv, TableInv, SameConfig
<1>5. OpInv'
  <2> DEFINE o == [Idle EXCEPT !.pc = "settle", !.kind = op.kind]
  <2>1. o \in OpType /\ o.pc = "settle"
    BY <1>1, IdleFields DEF OpType, Idle
  <2>2. op' = o
    BY DEF RequestRestart
  <2> HIDE DEF o
  <2> QED
    BY <2>1, <2>2, OpIsFree
<1> QED
  BY <1>2, <1>3, <1>4, <1>5 DEF RestartInv

LEMMA SettleRestartKeeps == ASSUME RestartInv, SettleRestart PROVE RestartInv'
<1>1. OpInv' /\ \E down \in BOOLEAN : startup' = [startup EXCEPT !.down = down]
  BY OpIdles DEF SettleRestart, NewAttempt
<1> QED
  BY <1>1, FrameFields, SameConfigKeeps DEF SettleRestart

---------------------------------------------------------------------------
(* restart_with_pending, service_action and the faults.                    *)

LEMMA ShowPendingKeeps == ASSUME RestartInv, ShowPending PROVE RestartInv'
<1>1. /\ UNCHANGED <<formal, rows, kernel, startup, rolled, op, carriedId>> /\ UNCHANGED Frame
      /\ OpenIds(rows) # {} /\ shown' = [id |-> OpenOf(rows), cfg |-> OpenRow.cfg]
  BY DEF ShowPending, WritablePending, Waiting
<1>2. shown' \in Stamps
  BY <1>1, OpenIsThere DEF RestartInv, Stamps
<1>3. WorldInv' /\ Grows
  BY <1>1, FrameFields, SameKernel DEF RestartInv, WorldInv
<1>4. OpInv'
  BY <1>1, <1>3, OpStays DEF RestartInv
<1>5. TableInv'
  BY <1>1, <1>2, FrameFields, TableSame DEF RestartInv
<1> QED
  BY <1>1, <1>3, <1>4, <1>5, FrameFields, HandlerKeeps DEF WorldInv

LEMMA RestartWithPendingKeeps == ASSUME RestartInv, RestartWithPending PROVE RestartInv'
<1>1. /\ UNCHANGED <<formal, rows, rolled, carriedId, kernel, startup>> /\ UNCHANGED Frame
      /\ shown' = NoStamp /\ shown \in Stamps /\ formal' \in Contents
      /\ Begin("write", "service", shown.id, shown.cfg)
  BY DEF RestartWithPending, RestartInv, TableInv, WorldInv
<1>2. OpInv'
  BY <1>1, BeginKeeps DEF Stamps, MaybeContents
<1>3. NoStamp \in Stamps
  BY DEF NoStamp, Stamps
<1>4. TableInv'
  BY <1>1, <1>3, FrameFields, TableSame DEF RestartInv
<1> QED
  BY <1>1, <1>2, <1>4, FrameFields, HandlerKeeps

LEMMA AcceptPendingKeeps == ASSUME RestartInv, AcceptPending PROVE RestartInv'
<1>1. op \in OpType /\ op.kind = "write" /\ TableInv
  BY DEF AcceptPending, RestartInv, OpInv
<1>2. CASE op' = Idle
  BY <1>2, OpIdles, FrameFields, SameConfigKeeps DEF AcceptPending
<1>3. CASE op' # Idle
  <2> DEFINE o == [op EXCEPT !.pc = "write", !.svc = ""]
  <2>1. /\ OpenIds(rows) # {} /\ OpenOf(rows) = op.id /\ op' = o
        /\ rolled # [id |-> OpenOf(rows), cfg |-> OpenRow.cfg]
    BY <1>3 DEF AcceptPending, WritablePending, Waiting
  <2>2. o \in OpType /\ o.pc = "write" /\ o.kind = "write" /\ o.id = op.id
    BY <1>1 DEF OpType
  <2> HIDE DEF o
  <2>3. op.id \in Ids /\ IsOpen(rows[op.id]) /\ OpenRow = rows[op.id]
    BY <1>1, <2>1, OpenIsThere
  <2>4. op.id # carriedId
    BY <1>1, <2>1, <2>3 DEF TableInv, IsOpen, Ids
  <2>5. rows' = rows /\ carriedId' = carriedId
    BY DEF AcceptPending, SameConfig
  <2>6. OpInv'
    BY <2>1, <2>2, <2>3, <2>4, <2>5 DEF OpInv, Applies, WritesBack, WritesPending
  <2> QED
    BY <2>6, FrameFields, SameConfigKeeps DEF AcceptPending
<1> QED
  BY <1>2, <1>3

LEMMA WritePendingKeeps == ASSUME RestartInv, WritePending PROVE RestartInv'
<1>1. OpInv'
  BY GotoFree DEF WritePending, FreePcs, RestartInv
<1>2. /\ UNCHANGED <<rows, kernel, startup, rolled, shown, carriedId>> /\ UNCHANGED Frame
      /\ formal' = rows[op.id].cfg /\ op.id \in Ids /\ IsOpen(rows[op.id])
  BY DEF WritePending, RestartInv, OpInv, WritesPending
<1>3. formal' \in Contents
  BY <1>2 DEF RestartInv, TableInv, GoodTable, ContentOK, IsOpen
<1>4. TableInv'
  BY <1>2, FrameFields, TableSame DEF RestartInv, TableInv
<1> QED
  BY <1>1, <1>2, <1>3, <1>4, FrameFields, HandlerKeeps

LEMMA ServiceRestartKeeps == ASSUME RestartInv, ServiceRestart PROVE RestartInv'
<1>1. /\ UNCHANGED SameConfig /\ kernel' = kernel /\ UNCHANGED Frame /\ rows' = rows
      /\ \E down \in BOOLEAN : startup' = [startup EXCEPT !.down = down]
  BY DEF ServiceRestart, NewAttempt, SameConfig
<1>2. OpInv'
  <2>1. CASE Reachable /\ Waiting
    <3> DEFINE n == OpenOf(rows)
               o == [Idle EXCEPT !.pc = "apply", !.kind = "restart", !.id = n, !.shown = NoConfig]
    <3>1. n \in Ids /\ IsOpen(rows[n])
      BY <2>1, OpenIsThere DEF RestartInv, Waiting
    <3>2. op' = o
      BY <2>1 DEF ServiceRestart, Begin
    <3> HIDE DEF n
    <3>3. o \in OpType /\ o.pc = "apply" /\ o.kind = "restart" /\ o.id = n
      BY <3>1, IdleFields DEF OpType, Idle
    <3> HIDE DEF o
    <3> QED
      BY <1>1, <3>1, <3>2, <3>3, ApplyBegins
  <2>2. CASE ~(Reachable /\ Waiting)
    <3>1. Begin("restart", "request", 0, NoConfig) \/ Begin("restart", "observe", 0, NoConfig)
      BY <2>2 DEF ServiceRestart
    <3> QED
      BY <3>1, BeginKeeps DEF MaybeContents
  <2> QED
    BY <2>1, <2>2
<1> QED
  BY <1>1, <1>2, FrameFields, SameConfigKeeps

LEMMA ObserveAsksKeeps == ASSUME RestartInv, ObserveAsks PROVE RestartInv'
<1>1. op \in OpType /\ UNCHANGED SameConfig /\ kernel' = kernel /\ UNCHANGED Frame
  BY DEF ObserveAsks, RestartInv, OpInv
<1>2. CASE Reachable
  <2> DEFINE o == [op EXCEPT !.pc = "noting", !.read = Report]
  <2>1. Report \in Reads /\ OwnRead(Report)
    BY ReportIsOwn DEF RestartInv
  <2>2. o \in OpType /\ o.pc = "noting" /\ o.read = Report
    BY <1>1, <2>1 DEF OpType
  <2>3. op' = o /\ startup' = startup
    BY <1>2 DEF ObserveAsks
  <2> HIDE DEF o
  <2>4. OwnRead(Report)' /\ Report' = Report
    BY <1>1, <2>1, FrameFields DEF OwnRead, Met, Report, history
  <2>5. OpInv'
    BY <2>2, <2>3, <2>4 DEF OpInv, Applies, WritesBack, WritesPending
  <2> QED
    BY <1>1, <2>3, <2>5, FrameFields, SameConfigKeeps
<1>3. CASE ~Reachable
  <2>1. OpInv'
    BY <1>3, GotoFree DEF ObserveAsks, FreePcs, RestartInv
  <2>2. \E down \in BOOLEAN : startup' = [startup EXCEPT !.down = down]
    BY <1>3, MarkedIsDown DEF ObserveAsks
  <2> QED
    BY <1>1, <2>1, <2>2, FrameFields, SameConfigKeeps
<1> QED
  BY <1>2, <1>3

LEMMA ObserveNotesKeeps == ASSUME RestartInv, ObserveNotes PROVE RestartInv'
<1>1. /\ op \in OpType /\ op.read \in Reads /\ OwnRead(op.read) /\ WorldInv /\ RecordInv
      /\ UNCHANGED SameConfig /\ kernel' = kernel /\ UNCHANGED Frame
  BY DEF ObserveNotes, RestartInv, OpInv, OpType
<1>2. UNCHANGED <<kernel, history>>
  BY <1>1, FrameFields
<1>3. RecordInv'
  BY <1>1, <1>2, KnownIsStarted, SeenKeeps DEF ObserveNotes, OwnRead
<1>4. OpInv'
  <2> DEFINE o == [op EXCEPT !.pc = "request", !.read = NoRead]
  <2>1. o \in OpType /\ o.pc = "request"
    BY <1>1, IdleFields DEF OpType
  <2>2. op' = o
    BY DEF ObserveNotes
  <2> HIDE DEF o
  <2> QED
    BY <2>1, <2>2, OpIsFree
<1> QED
  BY <1>1, <1>3, <1>4, FrameFields, SameConfigKeeps

LEMMA ServiceStartKeeps == ASSUME RestartInv, ServiceStart PROVE RestartInv'
<1>1. /\ Launch /\ UNCHANGED SameConfig /\ UNCHANGED <<op, reader, events>> /\ formal' = formal
      /\ startup' = [startup EXCEPT !.down = FALSE]
  BY DEF ServiceStart, NewAttempt, SameConfig
<1>2. WorldInv' /\ Grows
  BY <1>1, LaunchGrows DEF RestartInv
<1>3. RecordInv' /\ ReaderInv'
  BY <1>1, <1>2, RecordStays, ReaderSame DEF RestartInv
<1>4. OpInv' /\ TableInv'
  BY <1>1, <1>2, OpStays DEF RestartInv, TableInv, SameConfig
<1> QED
  BY <1>2, <1>3, <1>4 DEF RestartInv

LEMMA FaultKeeps == ASSUME RestartInv, DropRequest \/ PanelRestart PROVE RestartInv'
<1>1. /\ UNCHANGED SameConfig /\ kernel' = kernel /\ UNCHANGED history /\ op' = Idle
      /\ events' = events + 1 /\ events < MaxEvents /\ formal' = formal
      /\ reader' = reader \/ reader' = NoPass
      /\ startup' = startup \/ startup' = [startup EXCEPT !.down = FALSE]
  BY DEF DropRequest, PanelRestart, Happens, NewAttempt, SameConfig
<1>2. events' \in 0 .. MaxEvents
  BY <1>1 DEF RestartInv, TableInv
<1>3. WorldInv' /\ Grows
  BY <1>1, SameKernel DEF RestartInv, WorldInv
<1>4. RecordInv' /\ ReaderInv'
  BY <1>1, <1>3, RecordSame, RecordStays, ReaderSame, ReaderNone DEF RestartInv
<1>5. TableInv' /\ OpInv'
  BY <1>1, <1>2, OpIdles DEF RestartInv, TableInv, SameConfig
<1> QED
  BY <1>3, <1>4, <1>5 DEF RestartInv

---------------------------------------------------------------------------
(* The invariant holds.                                                    *)

LEMMA RestartStutters == ASSUME RestartInv, UNCHANGED vars PROVE RestartInv'
<1>1. UNCHANGED SameConfig /\ UNCHANGED <<kernel, reader, startup, op, events, rows>>
      /\ UNCHANGED history /\ UNCHANGED Others
  BY DEF vars, SameConfig, history, Others
<1>2. WorldInv' /\ Grows
  BY <1>1, SameKernel DEF RestartInv, WorldInv, SameConfig
<1> QED
  BY <1>1, <1>2, KernelKeeps

LEMMA RestartSteps == ASSUME RestartInv, [Next]_vars PROVE RestartInv'
<1>1. CASE Kernel \/ Pass
  BY <1>1, KernelActionKeeps, PassActionKeeps
<1>2. CASE Edit
  BY <1>2, SaveConfigKeeps, DeleteVersionKeeps DEF Edit
<1>3. CASE ReconcilePending \/ Apply
  BY <1>3, ReconcilePendingKeeps, ApplyReadsKeeps, ApplyNotesKeeps, ApplyWritesKeeps,
     ApplyEndsKeeps DEF Apply
<1>4. CASE Request
  BY <1>4, RollBackKeeps, ShowPendingKeeps, RestartWithPendingKeeps, ServiceRestartKeeps,
     KernelActionKeeps, ServiceStartKeeps DEF Request
<1>5. CASE Restarting
  <2>1. CASE ReadService \/ MarkDown \/ AcceptRollback \/ SaveRolledBack \/ WriteRolledBack
             \/ SaveCarried \/ RememberRollback
    BY <2>1, ReadServiceKeeps, MarkDownKeeps, AcceptRollbackKeeps, SaveRolledBackKeeps,
       WriteRolledBackKeeps, SaveCarriedKeeps, RememberRollbackKeeps
  <2>2. CASE RequestRestart \/ SettleRestart \/ AcceptPending \/ WritePending \/ ObserveAsks
             \/ ObserveNotes
    BY <2>2, RequestRestartKeeps, SettleRestartKeeps, AcceptPendingKeeps, WritePendingKeeps,
       ObserveAsksKeeps, ObserveNotesKeeps
  <2> QED
    BY <1>5, <2>1, <2>2 DEF Restarting
<1>6. CASE DropRequest \/ PanelRestart
  BY <1>6, FaultKeeps
<1>7. CASE UNCHANGED vars
  BY <1>7, RestartStutters
<1> QED
  BY <1>1, <1>2, <1>3, <1>4, <1>5, <1>6, <1>7 DEF Next

LEMMA FirstTables ==
  ASSUME NEW c \in Contents
  PROVE  /\ GoodTable(OneVersion(c))
         /\ \A edit \in Contents :
              GoodTable([OneVersion(c) EXCEPT ![2] = [cfg |-> edit, state |-> "pending"]])
<1> DEFINE first == [cfg |-> c, state |-> "applied"]
<1>1. OneVersion(c) = [i \in Ids |-> IF i = 1 THEN first ELSE Absent]
  BY DEF OneVersion
<1>2. first \in Row /\ Absent \in Row /\ Absent.state = "absent"
  BY DEF Row, Absent, ApplyStates
<1>3. GoodTable(OneVersion(c))
  BY <1>1, <1>2 DEF GoodTable, Tables, ContentOK, OneOpen, IsOpen
<1>4. ASSUME NEW edit \in Contents
      PROVE  GoodTable([OneVersion(c) EXCEPT ![2] = [cfg |-> edit, state |-> "pending"]])
  <2> DEFINE second == [cfg |-> edit, state |-> "pending"]
             t == [OneVersion(c) EXCEPT ![2] = second]
  <2>1. second \in Row
    BY DEF Row, ApplyStates
  <2>2. t = [i \in Ids |-> IF i = 2 THEN second ELSE IF i = 1 THEN first ELSE Absent]
    BY <1>1
  <2>3. t \in Tables
    BY <1>2, <2>1, <2>2 DEF Tables
  <2>4. ContentOK(t)
    BY <1>2, <2>2 DEF ContentOK
  <2>5. OneOpen(t)
    BY <1>2, <2>2 DEF OneOpen, IsOpen, Ids
  <2> QED
    BY <2>3, <2>4, <2>5 DEF GoodTable
<1> QED
  BY <1>3, <1>4

LEMMA RestartInitially == ASSUME Init PROVE RestartInv
<1>1. formal \in Contents /\ formal.set \in Settings
  BY DEF Init, Contents
<1>2. /\ op = Idle /\ reader = NoPass /\ rolled = NoStamp /\ shown = NoStamp /\ events = 0
      /\ carriedId = 0
  BY DEF Init
<1>3. OpInv /\ ReaderInv
  BY <1>2, IdleFields
  DEF OpInv, Applies, WritesBack, WritesPending, ReaderInv, NoPass, MaybeSettings
<1>4. NoWatch \in WatchType /\ NoWatch.proc = 0 /\ NoWatch.settings = Unknown
  BY DEF NoWatch, WatchType, MaybeSettings
<1>5. /\ NoStartup \in StartupType /\ NoStartup.process = 0 /\ NoStartup.settings = Unknown
      /\ NoStartup.watching = NoWatch
  BY <1>4 DEF NoStartup, StartupType, MaybeSettings
<1>6. NoStamp \in Stamps /\ 0 \in 0 .. MaxEvents /\ 0 \in 0 .. MaxAge
  BY DEF NoStamp, Stamps
<1>7. CASE JustMet
  <2>1. GoodTable(rows)
    BY <1>1, <1>7, FirstTables DEF JustMet
  <2>2. TableInv
    BY <1>2, <1>6, <2>1 DEF TableInv
  <2>3. MaxProcs - 1 \in Procs /\ MaxProcs - 1 \in 1 .. (MaxProcs - 1)
    OBVIOUS
  <2>4. kernel = [proc |-> MaxProcs - 1, phase |-> "up", age |-> 0, active |-> formal]
        /\ started = [p \in Procs |-> IF p = MaxProcs - 1 THEN formal.set ELSE Unknown]
        /\ cameUp = {MaxProcs - 1} /\ startup = NoStartup
    BY <1>7 DEF JustMet
  <2>5. kernel \in KernelType /\ kernel.proc = MaxProcs - 1
    BY <1>1, <1>6, <2>3, <2>4 DEF KernelType
  <2>6. WorldInv
    BY <1>1, <2>3, <2>4, <2>5 DEF WorldInv, MaybeSettings
  <2>7. RecordInv
    BY <1>4, <1>5, <2>3, <2>4, <2>5 DEF RecordInv, RecordedIsStarted
  <2> QED
    BY <1>3, <2>2, <2>6, <2>7 DEF RestartInv
<1>8. CASE DownAfterRestart
  <2>1. PICK before \in Settings, edit \in Contents :
          /\ rows \in {OneVersion(formal),
                       [OneVersion(formal) EXCEPT ![2] = [cfg |-> edit, state |-> "pending"]]}
          /\ kernel = [proc |-> 2, phase |-> "failing", age |-> 0, active |-> formal]
          /\ startup = [NoStartup EXCEPT !.process = 1, !.settings = before, !.down = TRUE,
                                         !.waits = {k \in Keys : before[k] # formal.set[k]}]
          /\ started = [p \in Procs |-> IF p = 1 THEN before
                                        ELSE IF p = 2 THEN formal.set ELSE Unknown]
          /\ cameUp = {1}
    BY <1>8 DEF DownAfterRestart
  <2>2. GoodTable(rows)
    BY <1>1, <2>1, FirstTables
  <2>3. TableInv
    BY <1>2, <1>6, <2>2 DEF TableInv
  <2>4. 1 \in Procs /\ 2 \in Procs /\ cameUp \subseteq 1 .. 2
    BY <2>1
  <2>5. kernel \in KernelType /\ kernel.proc = 2 /\ kernel.phase = "failing" /\ kernel.age = 0
    BY <1>1, <1>6, <2>1, <2>4 DEF KernelType
  <2>6. /\ started \in [Procs -> MaybeSettings] /\ started[1] = before /\ started[2] = formal.set
    BY <1>1, <2>1, <2>4 DEF MaybeSettings
  <2>7. WorldInv
    BY <1>1, <2>1, <2>4, <2>5, <2>6 DEF WorldInv
  <2> DEFINE waits == {k \in Keys : before[k] # formal.set[k]}
             t == TRUE
             s == [NoStartup EXCEPT !.process = 1, !.settings = before, !.down = t, !.waits = waits]
  <2>8. waits \in SUBSET Keys /\ t \in BOOLEAN /\ startup = s
    BY <2>1
  <2> HIDE DEF waits, t
  <2>9. s \in StartupType /\ s.process = 1 /\ s.settings = before /\ s.watching = NoWatch
    BY <1>5, <2>4, <2>8 DEF StartupType, MaybeSettings
  <2> HIDE DEF s
  <2>10. RecordInv
    <3>1. /\ startup \in StartupType /\ startup.process = 1 /\ startup.settings = started[1]
          /\ startup.watching.proc = 0 /\ startup.watching.settings = Unknown
      BY <1>4, <2>6, <2>8, <2>9
    <3>2. 1 \in cameUp /\ kernel.proc = 2
      BY <2>1, <2>5
    <3> QED
      BY <3>1, <3>2 DEF RecordInv, RecordedIsStarted
  <2> QED
    BY <1>3, <2>3, <2>7, <2>10 DEF RestartInv
<1> QED
  BY <1>7, <1>8 DEF Init

\* The record, the pass, the table and whoever holds the lock stay in step with the processes
\* they were read from, through restarts of KixDNS and of the panel, dropped requests,
\* deletions and late notes.
THEOREM RestartInvariant == Spec => []RestartInv
<1>1. Init => RestartInv
  BY RestartInitially
<1>2. RestartInv /\ [Next]_vars => RestartInv'
  BY RestartSteps
<1> QED
  BY <1>1, <1>2, PTL DEF Spec

\* Every variable keeps its type and the version table stays well formed.
THEOREM RestartTypeCorrect == Spec => []TypeOK
<1>1. RestartInv => TypeOK
  <2>1. SUFFICES ASSUME RestartInv PROVE TypeOK
    OBVIOUS
  <2>2. /\ formal \in Contents /\ kernel \in KernelType /\ started \in [Procs -> MaybeSettings]
        /\ cameUp \subseteq Procs
    BY <2>1 DEF RestartInv, WorldInv, KernelType
  <2>3. /\ op \in OpType /\ startup \in StartupType
        /\ reader \in [pc: {"idle", "alive", "note", "mark"}, read: Reads, known: MaybeSettings]
    BY <2>1 DEF RestartInv, OpInv, RecordInv, ReaderInv
  <2>4. /\ GoodTable(rows) /\ rolled \in Stamps /\ shown \in Stamps /\ events \in 0 .. MaxEvents
        /\ carriedId \in {0} \union Ids
    BY <2>1 DEF RestartInv, TableInv
  <2>5. kernel \in [proc: Procs, age: 0 .. MaxAge, active: Contents,
                    phase: {"stopped", "failing", "loading", "answering", "up"}]
    BY <2>2 DEF KernelType
  <2>6. startup \in [process: {0} \union Procs, settings: MaybeSettings, waits: SUBSET Keys,
                     watching: [proc: {0} \union Procs, first: 0 .. MaxAge,
                                settings: MaybeSettings],
                     down: BOOLEAN]
    BY <2>3 DEF StartupType, WatchType
  <2>7. /\ op.pc \in {"idle", "apply", "health", "write", "wait", "service", "mark", "judge",
                      "save", "carry", "remember", "request", "settle", "observe", "noting"}
        /\ op.id \in {0} \union Ids /\ op.read \in Reads
    BY <2>3 DEF OpType
  <2>8. /\ reader.pc \in {"idle", "alive", "note", "mark"} /\ reader.read \in Reads
        /\ reader.known \in MaybeSettings
    BY <2>3
  <2> QED
    BY <2>2, <2>4, <2>5, <2>6, <2>7, <2>8 DEF TypeOK
<1> QED
  BY <1>1, RestartInvariant, PTL

\* However late a pass, an apply or a restart writes what it read, the values recorded for a
\* process are those it started with (seen_alive, note_alive of app/restart.rs).
THEOREM RecordIsTrue == Spec => []RecordedIsStarted
<1>1. RestartInv => RecordedIsStarted
  BY DEF RestartInv, RecordInv
<1> QED
  BY <1>1, RestartInvariant, PTL

\* A roll back writes back only values with which one process started and came up, and
\* nothing of the edits beside it (roll_back of app/restart.rs).
THEOREM RollbackPutsBack == Spec => RollbackOnlyPutsBack
<1> DEFINE Back ==
      op.pc = "write" /\ op.kind = "rollback" /\ op'.pc = "carry" =>
        /\ formal'.body = formal.body
        /\ \A k \in Keys \ DOMAIN op.values : formal'.set[k] = formal.set[k]
        /\ \E p \in cameUp : \A k \in DOMAIN op.values : formal'.set[k] = started[p][k]
<1>1. RestartInv /\ [Next]_vars => [Back]_vars
  <2>1. SUFFICES ASSUME RestartInv, Next, op.pc = "write", op.kind = "rollback", op'.pc = "carry"
                 PROVE  Back
    BY DEF vars
  <2>2. WriteRolledBack
    BY <2>1, IdleFields
    DEF Next, Kernel, KernelStart, KernelAnswers, KernelBinds, KernelDies, KernelAges,
        KernelReloads, Others, Pass, PassAsks, PassReadsFormal, PassNotes, PassReadsService,
        PassMarks, ReadWorld, Edit, SaveConfig, DeleteVersion, ReconcilePending, Apply,
        ApplyReads, ApplyNotes, ApplyWrites, ApplyConfirmed, ApplyFails, Request, RollBack,
        Begin, ShowPending, RestartWithPending, ServiceRestart, ServiceStop, ServiceStart,
        Restarting, ReadService, MarkDown, AcceptRollback, SaveRolledBack, SaveCarried,
        RememberRollback, RequestRestart, SettleRestart, AcceptPending, WritePending,
        ObserveAsks, ObserveNotes, DropRequest, PanelRestart
  <2>3. FromOneStart(op.values) /\ formal \in Contents /\ WorldInv
    BY <2>1 DEF RestartInv, OpInv, WorldInv
  <2>4. formal' = WithValues(formal, DOMAIN op.values, op.values)
    BY <2>1, <2>2 DEF WriteRolledBack, RestartInv, OpInv, WritesBack, PutBack
  <2>5. /\ formal'.body = formal.body
        /\ \A k \in Keys \ DOMAIN op.values : formal'.set[k] = formal.set[k]
        /\ \A k \in DOMAIN op.values : formal'.set[k] = op.values[k]
    BY <2>3, <2>4, BackFields
  <2> QED
    BY <2>3, <2>5 DEF FromOneStart
<1>2. RestartInv /\ [Next]_vars =>
        [op.pc = "write" /\ op.kind = "rollback" /\ op'.pc = "carry" =>
           /\ formal'.body = formal.body
           /\ \A k \in Keys \ DOMAIN op.values : formal'.set[k] = formal.set[k]
           /\ \E p \in cameUp : \A k \in DOMAIN op.values : formal'.set[k] = started[p][k]]_vars
  BY <1>1
<1> HIDE DEF Back
<1> QED
  BY <1>2, RestartInvariant, PTL DEF Spec, RollbackOnlyPutsBack

\* The edits a finished roll back carried along are never written into the formal file
\* unchecked, whatever id they have (restart_with_pending, RolledBack of app/restart.rs).
THEOREM CarriedIsNeverUnchecked == Spec => CarriedIsChecked
<1>1. RestartInv /\ [Next]_vars =>
        [op.kind = "write" /\ op.pc = "write" /\ op'.pc = "request" => op.id # carriedId]_vars
  BY DEF RestartInv, OpInv, WritesPending
<1> QED
  BY <1>1, RestartInvariant, PTL DEF Spec, CarriedIsChecked
=============================================================================
