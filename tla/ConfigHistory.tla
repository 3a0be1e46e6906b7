--------------------------- MODULE ConfigHistory ---------------------------
(***************************************************************************)
(* The config_versions table of the panel database (db.rs) as operators on *)
(* a table value: what each transaction of db.rs returns or leaves behind. *)
(*                                                                         *)
(* A table is a function from row ids to rows.  SQLite gives a new row the *)
(* largest id in use plus one, so the id of a deleted newest row is given  *)
(* out again.  Contents are model values; a digest identifies its content, *)
(* so the content stands for its sha256.                                   *)
(***************************************************************************)
EXTENDS Integers, FiniteSets

CONSTANTS
  Configs,      \* contents a configuration file can have
  NoConfig,     \* no content: an unused row, a kernel that is not running
  MaxId,        \* bound on row ids
  MaxVersions   \* MAX_CONFIG_VERSIONS (100 in db.rs)

ASSUME HistoryAssumption ==
  /\ NoConfig \notin Configs
  /\ MaxId \in Nat \ {0}
  /\ MaxVersions \in Nat \ {0}

Ids == 1 .. MaxId

ApplyStates == {"absent", "pending", "failed", "applied", "superseded"}

Row    == [cfg: Configs \union {NoConfig}, state: ApplyStates]
Absent == [cfg |-> NoConfig, state |-> "absent"]
Tables == [Ids -> Row]

Present(t) == {i \in Ids : t[i].state # "absent"}

\* A version that waits for an outcome the user still edits: pending or failed.
IsOpen(row)  == row.state \in {"pending", "failed"}
OpenIds(t)   == {i \in Ids : IsOpen(t[i])}
AppliedIds(t) == {i \in Ids : t[i].state = "applied"}

IsNewestOf(S, i) == i \in S /\ \A j \in S : j <= i
NewestOf(S) == CHOOSE i \in S : \A j \in S : j <= i

\* pending_config_version: the newest open version, 0 when there is none.
OpenOf(t) == IF OpenIds(t) # {} THEN NewestOf(OpenIds(t)) ELSE 0

\* The id the next INSERT is given.
IsNextId(t, n) == /\ n \in Ids
                  /\ \A j \in Present(t) : j < n
                  /\ n > 1 => n - 1 \in Present(t)

\* k more rows fit under the bound MaxId.
RoomFor(t, k) == \A j \in Present(t) : j + k <= MaxId

---------------------------------------------------------------------------
(* prune_config_versions: rows at or below the (MaxVersions+1)-th newest   *)
(* id go, unless they are pending.                                         *)

PastRetention(t, i) == Cardinality({j \in Present(t) : j >= i}) > MaxVersions

Pruned(t) ==
  [i \in Ids |-> IF PastRetention(t, i) /\ t[i].state # "pending"
                 THEN Absent ELSE t[i]]

\* Every open version becomes superseded.
Superseded(t) ==
  [i \in Ids |-> IF IsOpen(t[i]) THEN [t[i] EXCEPT !.state = "superseded"]
                 ELSE t[i]]

\* store_config_version (s = "applied"), store_pending_config_version (s = "pending")
Stored(t, n, c, s) == Pruned([Superseded(t) EXCEPT ![n] = [cfg |-> c, state |-> s]])

\* store_config_if_changed: the newest applied content differs from c.
DiffersFromApplied(t, c) ==
  AppliedIds(t) # {} => t[NewestOf(AppliedIds(t))].cfg # c

Imported(t, n, c) == Pruned([t EXCEPT ![n] = [cfg |-> c, state |-> "applied"]])

\* mark_config_version_failed
MarkedFailed(t, i) ==
  IF IsOpen(t[i]) THEN [t EXCEPT ![i].state = "failed"] ELSE t

\* mark_config_version_applied
MarkedApplied(t, i) ==
  IF IsOpen(t[i]) THEN [Superseded(t) EXCEPT ![i] = [t[i] EXCEPT !.state = "applied"]]
  ELSE t

\* delete_config_versions (every id is present, or nothing is deleted)
Deleted(t, ids) == [i \in Ids |-> IF i \in ids THEN Absent ELSE t[i]]

\* latest_config_version_id_by_sha256: applied rows before others, then the newest.
\* The set has one element, or none when no row has this content.
VersionIdsOf(t, c) ==
  LET same    == {i \in Present(t) : t[i].cfg = c}
      applied == same \intersect AppliedIds(t)
  IN  IF applied # {} THEN {i \in applied : IsNewestOf(applied, i)}
                      ELSE {i \in same : IsNewestOf(same, i)}

---------------------------------------------------------------------------
(* Well-formed tables.                                                     *)

\* Every row in use has a content.
ContentOK(t) == \A i \in Ids : t[i].state # "absent" => t[i].cfg \in Configs

\* At most one version is open, and no row is newer than it.
OneOpen(t) == \A i \in Ids : IsOpen(t[i]) => \A j \in Ids : j > i => t[j].state = "absent"

\* The newest applied version, unless all were pruned, has content c.
NewestAppliedIs(t, c) ==
  AppliedIds(t) # {} =>
    \E i \in AppliedIds(t) : IsNewestOf(AppliedIds(t), i) /\ t[i].cfg = c

GoodTable(t) == t \in Tables /\ ContentOK(t) /\ OneOpen(t)
=============================================================================
