--------------------------- MODULE UpdateSchedule ---------------------------
(***************************************************************************)
(* The automatic update of the Geo data or of the blocklists: the setting  *)
(* kept under one database key, a page that changes it, and the task that  *)
(* looks every quarter of an hour whether an update is due (ScheduleStore, *)
(* run_due_geo_schedule, run_due_blocklist_schedule).  The page and the    *)
(* task each read the setting, change their copy and store it, without a   *)
(* lock.  Time is counted in whole ticks.                                  *)
(***************************************************************************)
EXTENDS Integers

CONSTANTS
  Intervals,      \* the intervals offered (a day, a week), in ticks
  Off,            \* no automatic update, no time yet
  MaxClock,       \* bound on time
  MaxSets,        \* bound on changes of the setting
  MaxTaskEnds     \* bound on ends of the panel

ASSUME ScheduleAssumption ==
  /\ Intervals \subseteq Nat \ {0} /\ Off \notin Nat
  /\ MaxClock \in Nat /\ MaxSets \in Nat /\ MaxTaskEnds \in Nat

VARIABLES
  clock,
  setting,    \* what the database holds
  setter,     \* a request to change it
  runner,     \* the task
  sets, taskEnds,
  lastRun,    \* history: when the latest update began, Off if none did
  setSince    \* history: a page stored a setting after that

scheduleVars == <<clock, setting, setter, runner, sets, taskEnds, lastRun, setSince>>

Unset == [interval |-> Off, attempt |-> Off, success |-> Off, failed |-> FALSE]
Quiet == [pc |-> "idle", copy |-> Unset]

\* refresh_next_run, is_due: never tried means now.
NextRun(s) == IF s.attempt = Off THEN clock ELSE s.attempt + s.interval
IsDue(s) == s.interval # Off /\ NextRun(s) <= clock

ScheduleInit ==
  /\ clock = 0 /\ setting = Unset /\ setter = Quiet /\ runner = Quiet
  /\ sets = 0 /\ taskEnds = 0 /\ lastRun = Off /\ setSince = FALSE

\* set_interval: the same interval again changes nothing, another one starts over.
SetIntervalReads ==
  /\ setter.pc = "idle" /\ sets < MaxSets /\ sets' = sets + 1
  /\ \E interval \in Intervals \union {Off} :
       /\ interval # setting.interval
       /\ setter' = [pc |-> "store", copy |-> [setting EXCEPT !.interval = interval,
                                               !.attempt = Off, !.failed = FALSE]]
  /\ UNCHANGED <<clock, setting, runner, taskEnds, lastRun, setSince>>

SetIntervalStores ==
  /\ setter.pc = "store"
  /\ setting' = setter.copy /\ setter' = Quiet /\ setSince' = TRUE
  /\ UNCHANGED <<clock, runner, sets, taskEnds, lastRun>>

\* run_due_*: the setting is read; nothing to update with leaves it alone.
LookWhetherDue ==
  /\ runner.pc = "idle" /\ IsDue(setting)
  /\ runner' = [runner EXCEPT !.pc = "attempt"]
  /\ UNCHANGED <<clock, setting, setter, sets, taskEnds, lastRun, setSince>>

\* mark_attempt reads the setting again, at a time taken before.
MarkAttemptReads ==
  /\ runner.pc = "attempt"
  /\ runner' = [pc |-> "attempted", copy |-> [setting EXCEPT !.attempt = clock]]
  /\ UNCHANGED <<clock, setting, setter, sets, taskEnds, lastRun, setSince>>

\* Mutant: the attempt is noted with the result.
MarkAttemptLate ==
  /\ runner.pc = "attempted"
  /\ runner' = [Quiet EXCEPT !.pc = "run"]
  /\ lastRun' = clock /\ setSince' = FALSE
  /\ UNCHANGED <<clock, setting, setter, sets, taskEnds>>

\* The attempt is stored, and the update begins.
MarkAttemptStores ==
  /\ runner.pc = "attempted"
  /\ setting' = runner.copy /\ runner' = [Quiet EXCEPT !.pc = "run"]
  /\ lastRun' = clock /\ setSince' = FALSE
  /\ UNCHANGED <<clock, setter, sets, taskEnds>>

\* mark_result, over what the setting is by then.
MarkResultReads ==
  /\ runner.pc = "run"
  /\ \E failed \in BOOLEAN :
       runner' = [pc |-> "result",
                  copy |-> [setting EXCEPT !.failed = failed,
                                           !.success = IF failed THEN @ ELSE clock]]
  /\ UNCHANGED <<clock, setting, setter, sets, taskEnds, lastRun, setSince>>

MarkResultStores ==
  /\ runner.pc = "result"
  /\ setting' = runner.copy /\ runner' = Quiet
  /\ UNCHANGED <<clock, setter, sets, taskEnds, lastRun, setSince>>

\* A tick passes; a read and its store are within one.
Tick ==
  /\ clock < MaxClock /\ clock' = clock + 1
  /\ runner.pc \in {"idle", "run"}
  /\ UNCHANGED <<setting, setter, runner, sets, taskEnds, lastRun, setSince>>

\* The panel ends with the task wherever it is, and starts again.
TaskEnds ==
  /\ taskEnds < MaxTaskEnds /\ taskEnds' = taskEnds + 1
  /\ setter' = Quiet /\ runner' = Quiet
  /\ UNCHANGED <<clock, setting, sets, lastRun, setSince>>

ScheduleNext ==
  \/ SetIntervalReads \/ SetIntervalStores
  \/ LookWhetherDue \/ MarkAttemptReads \/ MarkAttemptStores
  \/ MarkResultReads \/ MarkResultStores \/ Tick \/ TaskEnds

ScheduleSpec == ScheduleInit /\ [][ScheduleNext]_scheduleVars

Times == 0 .. MaxClock
SettingType == [interval : Intervals \union {Off}, attempt : Times \union {Off},
                success : Times \union {Off}, failed : BOOLEAN]
ScheduleTypeOK ==
  /\ clock \in Times /\ {lastRun} \subseteq Times \union {Off} /\ setSince \in BOOLEAN
  /\ setting \in SettingType
  /\ setter \in [pc : {"idle", "store"}, copy : SettingType]
  /\ runner \in [pc : {"idle", "attempt", "attempted", "run", "result"}, copy : SettingType]
  /\ sets \in 0 .. MaxSets /\ taskEnds \in 0 .. MaxTaskEnds

\* An update never comes again before its interval is over, even when the panel ends in the
\* middle of one, unless a page stored a setting since (geo_data.rs:542, app/geo.rs:457).
ScheduleIsPaced ==
  [][/\ ScheduleTypeOK'
    /\ lastRun' # lastRun /\ lastRun # Off /\ ~setSince
         => lastRun' >= lastRun + setting'.interval]_scheduleVars
=============================================================================
