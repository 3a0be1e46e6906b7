------------------------ MODULE ConfigHistoryProofs ------------------------
(***************************************************************************)
(* What the transactions of the version table preserve, for any table.     *)
(***************************************************************************)
EXTENDS ConfigHistory, FiniteSetTheorems, TLAPS

\* Pruning only removes rows, and never a pending one.
LEMMA PrunedRows ==
  ASSUME NEW t \in Tables
  PROVE  /\ Pruned(t) \in Tables
         /\ \A i \in Ids : Pruned(t)[i] = t[i] \/ Pruned(t)[i] = Absent
         /\ \A i \in Ids : t[i].state = "pending" => Pruned(t)[i] = t[i]
BY DEF Pruned, Tables, Row, Absent, ApplyStates

\* After superseding, no version is open and the contents are the same.
LEMMA SupersededRows ==
  ASSUME NEW t \in Tables
  PROVE  /\ Superseded(t) \in Tables
         /\ \A i \in Ids : ~IsOpen(Superseded(t)[i])
         /\ \A i \in Ids : Superseded(t)[i].cfg = t[i].cfg
         /\ \A i \in Ids : (Superseded(t)[i].state = "absent") <=> (t[i].state = "absent")
BY DEF Superseded, Tables, Row, IsOpen, ApplyStates

\* Pruning a good table leaves a good table with no more open versions.
LEMMA PrunedGood ==
  ASSUME NEW t, GoodTable(t)
  PROVE  /\ GoodTable(Pruned(t))
         /\ \A i \in Ids : IsOpen(Pruned(t)[i]) => IsOpen(t[i])
<1> DEFINE p == Pruned(t)
<1>1. p \in Tables /\ \A i \in Ids : p[i] = t[i] \/ p[i] = Absent
  BY PrunedRows DEF GoodTable
<1> HIDE DEF p
<1>2. ContentOK(p)
  BY <1>1 DEF GoodTable, ContentOK, Absent
<1>3. \A i \in Ids : IsOpen(p[i]) => IsOpen(t[i])
  BY <1>1 DEF IsOpen, Absent
<1>4. \A i \in Ids : t[i].state = "absent" => p[i].state = "absent"
  BY <1>1 DEF Absent
<1>5. OneOpen(p)
  BY <1>3, <1>4 DEF GoodTable, OneOpen
<1>6. QED
  BY <1>1, <1>2, <1>3, <1>5 DEF GoodTable, p

\* No open version of t is applied in u.
NoneApplied(t, u) == \A i \in Ids : IsOpen(t[i]) => u[i].state # "applied"

\* A new version, applied or pending, leaves a good table; a pending one is kept
\* and is the only open one; no earlier version becomes applied.
LEMMA StoredRows ==
  ASSUME NEW t, GoodTable(t), NEW n, IsNextId(t, n), NEW c \in Configs,
         NEW s \in {"applied", "pending"}
  PROVE  /\ GoodTable(Stored(t, n, c, s))
         /\ s = "pending" => Stored(t, n, c, s)[n] = [cfg |-> c, state |-> s]
         /\ \A i \in Ids : IsOpen(Stored(t, n, c, s)[i]) => i = n /\ s = "pending"
         /\ NoneApplied(t, Stored(t, n, c, s))
<1> DEFINE new == [cfg |-> c, state |-> s]
           u == [Superseded(t) EXCEPT ![n] = new]
<1>1. t \in Tables /\ n \in Ids /\ \A j \in Ids : t[j].state # "absent" => j < n
  BY DEF GoodTable, IsNextId, Present
<1>2. Superseded(t) \in Tables
  BY <1>1, SupersededRows
<1>3. u \in Tables /\ u[n] = new /\ \A i \in Ids : i # n => u[i] = Superseded(t)[i]
  BY <1>1, <1>2 DEF Tables, Row, ApplyStates
<1>4. Stored(t, n, c, s) = Pruned(u)
  BY DEF Stored
<1> HIDE DEF u
<1>5. \A i \in Ids : IsOpen(u[i]) => i = n /\ s = "pending"
  BY <1>1, <1>3, SupersededRows DEF IsOpen
<1>6. \A i \in Ids : i > n => u[i].state = "absent"
  BY <1>1, <1>3, SupersededRows DEF Ids
<1>7. ContentOK(u)
  BY <1>1, <1>3, SupersededRows DEF GoodTable, ContentOK
<1>8. OneOpen(u)
  BY <1>5, <1>6 DEF OneOpen
<1>9. GoodTable(u)
  BY <1>3, <1>7, <1>8 DEF GoodTable
<1>10. GoodTable(Pruned(u)) /\ \A i \in Ids : IsOpen(Pruned(u)[i]) => i = n /\ s = "pending"
  BY <1>5, <1>9, PrunedGood
<1>11. s = "pending" => Pruned(u)[n] = new
  BY <1>1, <1>3, PrunedRows
<1>12. \A i \in Ids : IsOpen(t[i]) => Pruned(u)[i].state # "applied"
  <2>1. \A i \in Ids : IsOpen(t[i]) => Superseded(t)[i].state = "superseded"
    BY <1>1 DEF Superseded, Tables, Row
  <2>2. \A i \in Ids : IsOpen(t[i]) => i # n
    BY <1>1 DEF IsOpen, Ids
  <2>3. \A i \in Ids : Pruned(u)[i] = u[i] \/ Pruned(u)[i] = Absent
    BY <1>3, PrunedRows
  <2>4. QED
    BY <1>3, <2>1, <2>2, <2>3 DEF Absent
<1>13. QED
  BY <1>4, <1>10, <1>11, <1>12 DEF NoneApplied

\* Storing a version changes no other version's content.
LEMMA StoredContents ==
  ASSUME NEW t, GoodTable(t), NEW n, IsNextId(t, n), NEW c, NEW s,
         NEW i \in Ids, Stored(t, n, c, s)[i].state # "absent"
  PROVE  \/ Stored(t, n, c, s)[i].cfg = c
         \/ t[i].state # "absent" /\ Stored(t, n, c, s)[i].cfg = t[i].cfg
<1> DEFINE new == [cfg |-> c, state |-> s]
           u == [Superseded(t) EXCEPT ![n] = new]
<1>1. t \in Tables /\ n \in Ids
  BY DEF GoodTable, IsNextId
<1>2. Superseded(t) \in Tables
  BY <1>1, SupersededRows
<1>3. u[n] = new /\ \A j \in Ids : j # n => u[j] = Superseded(t)[j]
  BY <1>1, <1>2 DEF Tables
<1>4. Stored(t, n, c, s)[i] = u[i]
  BY DEF Stored, Pruned, Absent
<1> HIDE DEF u
<1>5. QED
  BY <1>1, <1>3, <1>4, SupersededRows

\* Importing the formal file when no version is open leaves a good table.
LEMMA ImportedRows ==
  ASSUME NEW t, GoodTable(t), OpenIds(t) = {}, NEW n, IsNextId(t, n), NEW c \in Configs
  PROVE  /\ GoodTable(Imported(t, n, c))
         /\ \A i \in Ids : ~IsOpen(t[i])
<1> DEFINE u == [t EXCEPT ![n] = [cfg |-> c, state |-> "applied"]]
<1>1. t \in Tables /\ n \in Ids /\ \A i \in Ids : ~IsOpen(t[i])
  BY DEF GoodTable, IsNextId, OpenIds
<1>2. u \in Tables /\ ContentOK(u) /\ \A i \in Ids : ~IsOpen(u[i])
  BY <1>1 DEF GoodTable, ContentOK, Tables, Row, ApplyStates, IsOpen
<1>3. Imported(t, n, c) = Pruned(u)
  BY DEF Imported
<1> HIDE DEF u
<1>4. GoodTable(u)
  BY <1>2 DEF GoodTable, OneOpen
<1>5. QED
  BY <1>1, <1>3, <1>4, PrunedGood

\* Recording an outcome leaves a good table.  A failed version stays open; an
\* applied one is the only version whose mark changes to applied.
LEMMA MarkedRows ==
  ASSUME NEW t, GoodTable(t), NEW i \in Ids
  PROVE  /\ GoodTable(MarkedFailed(t, i))
         /\ GoodTable(MarkedApplied(t, i))
         /\ \A j \in Ids : IsOpen(MarkedFailed(t, i)[j]) <=> IsOpen(t[j])
         /\ \A j \in Ids : MarkedFailed(t, i)[j].cfg = t[j].cfg
         /\ \A j \in Ids : IsOpen(t[j]) /\ MarkedApplied(t, i)[j].state = "applied" => j = i
<1>1. t \in Tables
  BY DEF GoodTable
<1>2. GoodTable(MarkedFailed(t, i))
  BY <1>1 DEF GoodTable, ContentOK, OneOpen, MarkedFailed, IsOpen, Tables, Row, ApplyStates
<1>3. /\ \A j \in Ids : IsOpen(MarkedFailed(t, i)[j]) <=> IsOpen(t[j])
      /\ \A j \in Ids : MarkedFailed(t, i)[j].cfg = t[j].cfg
  BY <1>1 DEF MarkedFailed, IsOpen, Tables, Row
<1>4. GoodTable(MarkedApplied(t, i))
  <2>1. CASE IsOpen(t[i])
    <3> DEFINE s == [t[i] EXCEPT !.state = "applied"]
               u == [Superseded(t) EXCEPT ![i] = s]
    <3>1. s \in Row /\ s.cfg = t[i].cfg /\ ~IsOpen(s)
      BY <1>1 DEF Tables, Row, ApplyStates, IsOpen
    <3>2. u \in Tables /\ u[i] = s /\ \A j \in Ids : j # i => u[j] = Superseded(t)[j]
      BY <1>1, <3>1, SupersededRows DEF Tables
    <3>3. \A j \in Ids : ~IsOpen(u[j])
      BY <1>1, <3>1, <3>2, SupersededRows
    <3>4. ContentOK(u)
      BY <1>1, <2>1, <3>1, <3>2, SupersededRows DEF GoodTable, ContentOK, IsOpen
    <3>5. MarkedApplied(t, i) = u
      BY <2>1 DEF MarkedApplied
    <3> HIDE DEF u
    <3>6. QED
      BY <3>2, <3>3, <3>4, <3>5 DEF GoodTable, OneOpen
  <2>2. CASE ~IsOpen(t[i])
    BY <2>2 DEF MarkedApplied
  <2>3. QED
    BY <2>1, <2>2
<1>5. ASSUME NEW j \in Ids, IsOpen(t[j]), j # i
      PROVE  MarkedApplied(t, i)[j].state # "applied"
  <2>1. Superseded(t)[j].state = "superseded"
    BY <1>1, <1>5 DEF Superseded, Tables, Row
  <2>2. QED
    BY <1>1, <1>5, <2>1, SupersededRows DEF MarkedApplied, IsOpen, Tables
<1>6. QED
  BY <1>2, <1>3, <1>4, <1>5

\* Once a version of a good table is applied, none is open.
LEMMA MarkedClosed ==
  ASSUME NEW t, GoodTable(t), NEW i \in Ids, IsOpen(t[i])
  PROVE  \A j \in Ids : ~IsOpen(MarkedApplied(t, i)[j])
<1> DEFINE s == [t[i] EXCEPT !.state = "applied"]
<1>1. t \in Tables /\ ~IsOpen(s)
  BY DEF GoodTable, Tables, Row, IsOpen
<1>2. MarkedApplied(t, i) = [Superseded(t) EXCEPT ![i] = s]
  BY DEF MarkedApplied
<1>3. \A j \in Ids : ~IsOpen(Superseded(t)[j])
  BY <1>1, SupersededRows
<1>4. Superseded(t) \in Tables
  BY <1>1, SupersededRows
<1> HIDE DEF s
<1>5. QED
  BY <1>1, <1>2, <1>3, <1>4 DEF Tables

\* Recording an outcome changes no content.
LEMMA MarkedContents ==
  ASSUME NEW t, GoodTable(t), NEW i \in Ids, NEW j \in Ids,
         NEW u, u = MarkedFailed(t, i) \/ u = MarkedApplied(t, i)
  PROVE  u[j].cfg = t[j].cfg /\ (u[j].state = "absent" <=> t[j].state = "absent")
<1>1. t \in Tables
  BY DEF GoodTable
<1>2. Superseded(t) \in Tables
  BY <1>1, SupersededRows
<1>3. CASE u = MarkedFailed(t, i)
  BY <1>1, <1>3 DEF MarkedFailed, Tables, Row, IsOpen
<1>4. CASE u = MarkedApplied(t, i)
  <2> DEFINE s == [t[i] EXCEPT !.state = "applied"]
  <2>1. s.cfg = t[i].cfg /\ s.state = "applied" /\ (IsOpen(t[i]) => t[i].state # "absent")
    BY <1>1 DEF Tables, Row, IsOpen
  <2>2. u = IF IsOpen(t[i]) THEN [Superseded(t) EXCEPT ![i] = s] ELSE t
    BY <1>4 DEF MarkedApplied
  <2> HIDE DEF s
  <2>3. CASE ~IsOpen(t[i]) \/ j # i
    BY <1>1, <1>2, <2>2, <2>3, SupersededRows DEF Tables
  <2>4. CASE IsOpen(t[i]) /\ j = i
    BY <1>1, <1>2, <2>1, <2>2, <2>4 DEF Tables
  <2>5. QED
    BY <2>3, <2>4
<1>5. QED
  BY <1>3, <1>4

\* Deleting rows leaves a good table.
LEMMA DeletedRows ==
  ASSUME NEW t, GoodTable(t), NEW ids
  PROVE  /\ GoodTable(Deleted(t, ids))
         /\ \A i \in Ids : Deleted(t, ids)[i] = t[i] \/ Deleted(t, ids)[i] = Absent
BY DEF GoodTable, ContentOK, OneOpen, Deleted, Absent, Tables, Row, ApplyStates, IsOpen

\* The open version, when there is one, is the only one: pending_config_version
\* finds it, and finds nothing only when no version is open.
LEMMA OpenOfRows ==
  ASSUME NEW t, GoodTable(t)
  PROVE  /\ OpenOf(t) # 0 => OpenOf(t) \in Ids /\ IsOpen(t[OpenOf(t)])
         /\ \A i \in Ids : IsOpen(t[i]) => OpenOf(t) = i
<1>1. \A i, j \in OpenIds(t) : i = j
  BY DEF GoodTable, OneOpen, OpenIds, IsOpen, Ids
<1>2. ASSUME NEW i \in OpenIds(t)
      PROVE  OpenOf(t) = i
  <2>1. \A j \in OpenIds(t) : j <= i
    BY <1>1, <1>2 DEF OpenIds, Ids
  <2>2. NewestOf(OpenIds(t)) \in OpenIds(t)
    BY <1>2, <2>1 DEF NewestOf
  <2>3. QED
    BY <1>1, <1>2, <2>2 DEF OpenOf
<1>3. OpenOf(t) # 0 => \E i \in OpenIds(t) : TRUE
  BY DEF OpenOf
<1>4. QED
  BY <1>2, <1>3 DEF OpenIds

---------------------------------------------------------------------------
(* Which version the history names as the newest applied one.              *)

\* A row past retention has every older row past retention, and the newest row
\* never is.
LEMMA Retention ==
  ASSUME NEW t \in Tables, NEW i \in Ids
  PROVE  /\ PastRetention(t, i) => \A j \in Ids : j <= i => PastRetention(t, j)
         /\ t[i].state # "absent" /\ (\A j \in Ids : j > i => t[j].state = "absent")
              => ~PastRetention(t, i)
<1> DEFINE From(j) == {k \in Present(t) : k >= j}
<1>1. MaxId \in Nat /\ MaxVersions \in Nat \ {0}
  BY HistoryAssumption
<1>2. IsFiniteSet(Ids)
  BY <1>1, FS_Interval DEF Ids
<1>3. \A j \in Ids : From(j) \subseteq Ids
  BY DEF Present
<1>4. \A j \in Ids : IsFiniteSet(From(j)) /\ Cardinality(From(j)) \in Nat
  BY <1>2, <1>3, FS_Subset, FS_CardinalityType
<1>5. ASSUME NEW j \in Ids, j <= i
      PROVE  Cardinality(From(i)) <= Cardinality(From(j))
  <2>1. From(i) \subseteq From(j)
    BY <1>5 DEF Present, Ids
  <2>2. QED
    BY <1>4, <2>1, FS_Subset
<1>6. PastRetention(t, i) => \A j \in Ids : j <= i => PastRetention(t, j)
  <2>1. \A j \in Ids : PastRetention(t, j) <=> Cardinality(From(j)) > MaxVersions
    BY DEF PastRetention
  <2> HIDE DEF From
  <2>2. QED
    BY <1>1, <1>4, <1>5, <2>1
<1>7. ASSUME t[i].state # "absent", \A j \in Ids : j > i => t[j].state = "absent"
      PROVE  ~PastRetention(t, i)
  <2>1. From(i) = {i}
    BY <1>7 DEF Present, Ids
  <2>2. Cardinality(From(i)) = 1
    BY <2>1, FS_Singleton
  <2>3. QED
    BY <1>1, <2>2 DEF PastRetention
<1>8. QED
  BY <1>6, <1>7

\* Pruning never changes which content the newest applied version has.
LEMMA PrunedNewest ==
  ASSUME NEW t \in Tables, NEW c, NewestAppliedIs(t, c)
  PROVE  NewestAppliedIs(Pruned(t), c)
<1>1. \A i \in Ids : Pruned(t)[i] = t[i] \/ Pruned(t)[i] = Absent
  BY PrunedRows
<1>2. AppliedIds(Pruned(t)) \subseteq AppliedIds(t)
  BY <1>1 DEF AppliedIds, Absent
<1>3. SUFFICES ASSUME AppliedIds(Pruned(t)) # {}
               PROVE  \E i \in AppliedIds(Pruned(t)) :
                        IsNewestOf(AppliedIds(Pruned(t)), i) /\ Pruned(t)[i].cfg = c
  BY DEF NewestAppliedIs
<1>4. PICK i \in AppliedIds(t) : IsNewestOf(AppliedIds(t), i) /\ t[i].cfg = c
  BY <1>2, <1>3 DEF NewestAppliedIs
<1>5. PICK j \in AppliedIds(Pruned(t)) : TRUE
  BY <1>3
<1>6. j \in Ids /\ i \in Ids /\ j <= i /\ t[i].state = "applied" /\ t[j].state = "applied"
  BY <1>2, <1>4, <1>5 DEF AppliedIds, IsNewestOf
<1>7. ~PastRetention(t, j)
  BY <1>5, <1>6 DEF Pruned, AppliedIds, Absent
<1>8. ~PastRetention(t, i)
  BY <1>6, <1>7, Retention
<1>9. Pruned(t)[i] = t[i]
  BY <1>6, <1>8 DEF Pruned
<1>10. QED
  BY <1>2, <1>4, <1>6, <1>9 DEF AppliedIds, IsNewestOf

\* A row that is the newest of all and applied names its content.
LEMMA NewestRow ==
  ASSUME NEW t \in Tables, NEW n \in Ids, t[n].state = "applied",
         \A j \in Ids : j > n => t[j].state = "absent"
  PROVE  NewestAppliedIs(t, t[n].cfg)
<1>1. n \in AppliedIds(t) /\ \A j \in AppliedIds(t) : j <= n
  BY DEF AppliedIds, Ids
<1>2. QED
  BY <1>1 DEF NewestAppliedIs, IsNewestOf

\* A table with the same applied rows names the same content.
LEMMA SameApplied ==
  ASSUME NEW t, NEW u, NEW c, NewestAppliedIs(t, c),
         \A i \in Ids : u[i].state = "applied" <=> t[i].state = "applied",
         \A i \in Ids : t[i].state = "applied" => u[i].cfg = t[i].cfg
  PROVE  NewestAppliedIs(u, c)
<1>1. AppliedIds(u) = AppliedIds(t)
  BY DEF AppliedIds
<1>2. QED
  BY <1>1 DEF NewestAppliedIs, AppliedIds

\* After a new version is stored the history names the content in effect: the new one
\* when it is stored as applied, the earlier one when it is pending.
LEMMA StoredNewest ==
  ASSUME NEW t, GoodTable(t), NEW n, IsNextId(t, n), NEW c \in Configs,
         NEW s \in {"applied", "pending"}, NEW d, NewestAppliedIs(t, d)
  PROVE  NewestAppliedIs(Stored(t, n, c, s), IF s = "applied" THEN c ELSE d)
<1> DEFINE new == [cfg |-> c, state |-> s]
           u == [Superseded(t) EXCEPT ![n] = new]
<1>1. t \in Tables /\ n \in Ids /\ \A j \in Ids : t[j].state # "absent" => j < n
  BY DEF GoodTable, IsNextId, Present
<1>2. Superseded(t) \in Tables
  BY <1>1, SupersededRows
<1>3. u \in Tables /\ u[n] = new /\ \A i \in Ids : i # n => u[i] = Superseded(t)[i]
  BY <1>1, <1>2 DEF Tables, Row, ApplyStates
<1>4. Stored(t, n, c, s) = Pruned(u)
  BY DEF Stored
<1> HIDE DEF u
<1>5. CASE s = "applied"
  <2>1. \A i \in Ids : i > n => u[i].state = "absent"
    BY <1>1, <1>3, SupersededRows DEF Ids
  <2>2. u[n].cfg = c /\ u[n].state = "applied"
    BY <1>3, <1>5
  <2>3. NewestAppliedIs(u, c)
    BY <1>1, <1>3, <2>1, <2>2, NewestRow
  <2>4. QED
    BY <1>3, <1>4, <1>5, <2>3, PrunedNewest
<1>6. CASE s = "pending"
  <2>1. \A i \in Ids : Superseded(t)[i].state = "applied" <=> t[i].state = "applied"
    BY <1>1 DEF Superseded, Tables, Row, IsOpen
  <2>2. \A i \in Ids : u[i].state = "applied" <=> t[i].state = "applied"
    BY <1>1, <1>3, <1>6, <2>1 DEF Ids
  <2>3. \A i \in Ids : t[i].state = "applied" => u[i].cfg = t[i].cfg
    BY <1>1, <1>3, SupersededRows DEF Ids
  <2>4. NewestAppliedIs(u, d)
    BY <2>2, <2>3, SameApplied
  <2>5. QED
    BY <1>3, <1>4, <1>6, <2>4, PrunedNewest
<1>7. QED
  BY <1>5, <1>6

\* A failed version stays out of the answer; an applied one becomes the answer.
LEMMA MarkedNewest ==
  ASSUME NEW t, GoodTable(t), NEW i \in Ids, IsOpen(t[i]), NEW d, NewestAppliedIs(t, d)
  PROVE  /\ NewestAppliedIs(MarkedFailed(t, i), d)
         /\ NewestAppliedIs(MarkedApplied(t, i), t[i].cfg)
<1>1. t \in Tables /\ \A j \in Ids : j > i => t[j].state = "absent"
  BY DEF GoodTable, OneOpen
<1>2. NewestAppliedIs(MarkedFailed(t, i), d)
  <2>1. \A j \in Ids : MarkedFailed(t, i)[j].state = "applied" <=> t[j].state = "applied"
    BY <1>1 DEF MarkedFailed, Tables, Row, IsOpen
  <2>2. \A j \in Ids : t[j].state = "applied" => MarkedFailed(t, i)[j].cfg = t[j].cfg
    BY <1>1 DEF MarkedFailed, Tables, Row
  <2>3. QED
    BY <2>1, <2>2, SameApplied
<1>3. NewestAppliedIs(MarkedApplied(t, i), t[i].cfg)
  <2> DEFINE s == [t[i] EXCEPT !.state = "applied"]
             u == [Superseded(t) EXCEPT ![i] = s]
  <2>1. s \in Row /\ s.cfg = t[i].cfg /\ s.state = "applied"
    BY <1>1 DEF Tables, Row, ApplyStates
  <2>2. u \in Tables /\ u[i] = s /\ \A j \in Ids : j # i => u[j] = Superseded(t)[j]
    BY <1>1, <2>1, SupersededRows DEF Tables
  <2>3. MarkedApplied(t, i) = u
    BY DEF MarkedApplied
  <2> HIDE DEF u, s
  <2>4. \A j \in Ids : j > i => u[j].state = "absent"
    BY <1>1, <2>2, SupersededRows DEF Ids
  <2>5. u[i].state = "applied" /\ u[i].cfg = t[i].cfg
    BY <2>1, <2>2
  <2>6. NewestAppliedIs(u, u[i].cfg)
    BY <2>2, <2>4, <2>5, NewestRow
  <2>7. QED
    BY <2>3, <2>5, <2>6
<1>4. QED
  BY <1>2, <1>3

\* Deleting rows other than the version of content c keeps c the newest applied.
LEMMA DeletedNewest ==
  ASSUME NEW t, GoodTable(t), NEW c, NewestAppliedIs(t, c), NEW ids,
         VersionIdsOf(t, c) \intersect ids = {}
  PROVE  NewestAppliedIs(Deleted(t, ids), c)
<1> DEFINE u == Deleted(t, ids)
<1>1. \A i \in Ids : u[i] = IF i \in ids THEN Absent ELSE t[i]
  BY DEF Deleted
<1> HIDE DEF u
<1>2. AppliedIds(u) \subseteq AppliedIds(t)
  BY <1>1 DEF AppliedIds, Absent
<1>3. SUFFICES ASSUME AppliedIds(u) # {}
               PROVE  \E i \in AppliedIds(u) : IsNewestOf(AppliedIds(u), i) /\ u[i].cfg = c
  BY DEF NewestAppliedIs, u
<1>4. PICK i \in AppliedIds(t) : IsNewestOf(AppliedIds(t), i) /\ t[i].cfg = c
  BY <1>2, <1>3 DEF NewestAppliedIs
<1>5. i \in VersionIdsOf(t, c)
  BY <1>4 DEF VersionIdsOf, AppliedIds, Present, IsNewestOf
<1>6. u[i] = t[i]
  BY <1>1, <1>4, <1>5 DEF AppliedIds
<1>7. QED
  BY <1>2, <1>4, <1>6 DEF AppliedIds, IsNewestOf
=============================================================================
