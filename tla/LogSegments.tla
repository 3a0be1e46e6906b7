----------------------------- MODULE LogSegments -----------------------------
(***************************************************************************)
(* The files of the query log (querylog.rs): one segment per hour, written *)
(* by the collector, tidied by a task that compresses, drops and syncs,    *)
(* cleared by a page, and read page by page from the newest record back.   *)
(* The table of segments is under one mutex; files are read, renamed and   *)
(* removed outside it, so the four interleave.  What is taken from the     *)
(* kernel, and the cursor, are in QueryLogHandoff.                         *)
(*                                                                         *)
(* Time is in ticks, an hour has TicksPerHour of them; a record counts one *)
(* byte.                                                                   *)
(***************************************************************************)
EXTENDS Integers, FiniteSets, Sequences, SequencesExt

CONSTANTS
  TicksPerHour,
  Retention,      \* retention_hours, in ticks
  SegmentText,    \* segment_limit
  MaxLogBytes,    \* max_bytes
  PageRecords,    \* records per page
  ScanBudget,     \* SCAN_RECORDS
  OldPlain,       \* whether an older version left a plain segment
  MaxRecords,     \* bound on records
  MaxTick,        \* bound on time
  MaxLogEvents    \* bound on clears, ends, failures, walks and steps back of the clock

ASSUME LogAssumption ==
  /\ {TicksPerHour, Retention, SegmentText, MaxLogBytes, PageRecords, ScanBudget}
       \subseteq Nat \ {0}
  /\ OldPlain \in BOOLEAN /\ MaxRecords \in Nat \ {0}
  /\ {MaxTick, MaxLogEvents} \subseteq Nat

VARIABLES
  segs,      \* Inner.segments
  logFiles,  \* the segment files
  nextId, savedId,   \* the next id, and the one in the state file
  unsynced,  \* closed segments to sync
  stateDue,
  tidy,      \* maintain
  clearing,  \* segments clear has yet to remove
  walk,      \* a reader going back page by page
  logClock,
  logEvents

logVars == <<segs, logFiles, nextId, savedId, unsynced, stateDue, tidy, clearing, walk,
             logClock, logEvents>>

HourOf(t) == t \div TicksPerHour
SegmentEnd(s) == (HourOf(s.start) + 1) * TicksPerHour

Same(s, t) == s.start = t.start /\ s.first = t.first
FileAt(s, format) == {f \in logFiles : Same(f, s) /\ f.format = format}
RowsIn(fs) == IF fs = {} THEN <<>> ELSE (CHOOSE f \in fs : TRUE).rows
WithoutFiles(s, formats) == {f \in logFiles : ~(Same(f, s) /\ f.format \in formats)}
Formats == {"plain", "zstd"}

\* retain, filter: the members of S in a log, in its order.  A function of its own and not
\* SelectSeq, so that it can be reasoned about.
Among(log, S) ==
  LET upTo[n \in 0 .. Len(log)] ==
        IF n = 0 THEN <<>>
        ELSE IF log[n] \in S THEN Append(upTo[n - 1], log[n]) ELSE upTo[n - 1]
  IN upTo[Len(log)]

AtRest == [pc |-> "idle", plains |-> <<>>, rows |-> <<>>, doomed |-> <<>>]
NoWalk == [pc |-> "idle", hits |-> {}, after |-> 0, before |-> 0, newest |-> 0,
           first |-> 0, since |-> 0, todo |-> <<>>, scan |-> <<>>, seen |-> {}, wrong |-> FALSE]

LogEvent == logEvents < MaxLogEvents /\ logEvents' = logEvents + 1

---------------------------------------------------------------------------
LogInit ==
  LET row == [id |-> 1, time |-> 0]
  IN  /\ segs = IF OldPlain THEN <<[start |-> 0, first |-> 1, format |-> "plain",
                                    open |-> FALSE, bytes |-> 1]>> ELSE <<>>
      /\ logFiles = IF OldPlain THEN {[start |-> 0, first |-> 1, format |-> "plain",
                                       rows |-> <<row>>, size |-> 1, synced |-> 1]} ELSE {}
      /\ nextId = IF OldPlain THEN 2 ELSE 1
      /\ savedId = 1 /\ unsynced = {} /\ stateDue = FALSE
      /\ tidy = AtRest /\ clearing = <<>> /\ walk = NoWalk
      /\ logClock = 0 /\ logEvents = 0

IsOpen == segs # <<>> /\ Last(segs).open

\* close_open.
ClosedSegs == IF IsOpen THEN ReplaceAt(segs, Len(segs), [Last(segs) EXCEPT !.open = FALSE])
              ELSE segs
ClosedUnsynced == IF IsOpen THEN unsynced \union {<<Last(segs).start, Last(segs).first>>}
                  ELSE unsynced
ClosedDue == stateDue \/ IsOpen

\* A batch: the time of each record is near the clock's, which may have stepped back since.
Batches == {<<logClock>>} \union (IF logClock = MaxTick THEN {<<logClock, logClock>>}
                                  ELSE {<<logClock + 1>>, <<logClock + 1, logClock>>})
Newest(times) == CHOOSE t \in ToSet(times) \union {logClock} :
                   \A u \in ToSet(times) \union {logClock} : t >= u

Put(times, stamp) ==
  LET rows == [i \in DOMAIN times |-> [id |-> nextId + i - 1, time |-> times[i]]]
      goesOn == IsOpen /\ HourOf(Last(segs).start) = HourOf(stamp) /\ Last(segs).bytes < SegmentText
      kept == IF goesOn THEN Front(segs) ELSE ClosedSegs
      s == IF goesOn THEN [Last(segs) EXCEPT !.bytes = @ + Len(rows)]
           ELSE [start |-> stamp, first |-> nextId, format |-> "zstd", open |-> TRUE,
                 bytes |-> Len(rows)]
      before == FileAt(s, "zstd")
  IN  /\ goesOn \/ before = {}
      /\ segs' = Append(kept, s)
      /\ logFiles' = WithoutFiles(s, {"zstd"}) \union
           {[start |-> s.start, first |-> s.first, format |-> "zstd",
             rows |-> RowsIn(before) \o rows, size |-> s.bytes,
             synced |-> IF before = {} THEN 0 ELSE (CHOOSE f \in before : TRUE).synced]}
      /\ nextId' = nextId + Len(rows)
      /\ unsynced' = IF goesOn THEN unsynced ELSE ClosedUnsynced
      /\ stateDue' = (IF goesOn THEN stateDue ELSE ClosedDue) /\ UNCHANGED savedId

\* append: under the lock to its end.
AppendRecords ==
  /\ \E times \in Batches :
       nextId + Len(times) - 1 <= MaxRecords /\ Put(times, Newest(times))
  /\ UNCHANGED <<tidy, clearing, walk, logClock, logEvents>>

\* A write fails, or the end of a frame does: the open segment is cut back to its last
\* whole page and closed (abandon_open).
AppendAbandons ==
  /\ LogEvent /\ IsOpen
  /\ segs' = ReplaceAt(segs, Len(segs), [Last(segs) EXCEPT !.open = FALSE])
  /\ savedId' = nextId /\ stateDue' = FALSE
  /\ UNCHANGED <<logFiles, nextId, unsynced, tidy, clearing, walk, logClock>>

---------------------------------------------------------------------------
(* maintain, on a thread of its own.                                       *)

Compressing(plains) ==
  [AtRest EXCEPT !.pc = IF plains = <<>> THEN "enforce" ELSE "compress", !.plains = plains]

BeginTidy ==
  /\ tidy.pc = "idle" /\ segs # <<>>
  /\ LET late == IsOpen /\ HourOf(Last(segs).start) # HourOf(logClock)
         now == IF late THEN ClosedSegs ELSE segs
     IN  /\ segs' = now
         /\ unsynced' = IF late THEN ClosedUnsynced ELSE unsynced
         /\ stateDue' = (stateDue \/ late)
         /\ tidy' = Compressing(Among(now, {s \in ToSet(now) : ~s.open /\ s.format = "plain"}))
  /\ UNCHANGED <<logFiles, nextId, savedId, clearing, walk, logClock, logEvents>>

\* compress: the text is read; a file that is gone is forgotten.
ReadPlain ==
  /\ tidy.pc = "compress"
  /\ LET s == Head(tidy.plains)
         plain == FileAt(s, "plain")
     IN  IF plain = {}
         THEN /\ segs' = Among(segs, {t \in ToSet(segs) : ~Same(t, s)})
              /\ tidy' = Compressing(Tail(tidy.plains))
         ELSE tidy' = [tidy EXCEPT !.pc = "rename", !.rows = RowsIn(plain)] /\ UNCHANGED segs
  /\ UNCHANGED <<logFiles, nextId, savedId, unsynced, stateDue, clearing, walk, logClock, logEvents>>

\* The compressed copy is synced and renamed into place, or that fails.
RenameCompressed ==
  /\ tidy.pc = "rename"
  /\ LET s == Head(tidy.plains)
     IN  \/ /\ logFiles' = WithoutFiles(s, {"zstd"}) \union
                 {[start |-> s.start, first |-> s.first, format |-> "zstd", rows |-> tidy.rows,
                   size |-> Len(tidy.rows), synced |-> Len(tidy.rows)]}
            /\ tidy' = [tidy EXCEPT !.pc = "note"] /\ UNCHANGED logEvents
         \/ /\ LogEvent /\ UNCHANGED logFiles
            /\ tidy' = Compressing(Tail(tidy.plains))
  /\ UNCHANGED <<segs, nextId, savedId, unsynced, stateDue, clearing, walk, logClock>>

\* Mutant: what was dropped while it was compressed is left there.
NoteCompressedOnly ==
  /\ tidy.pc = "note"
  /\ segs' = [i \in DOMAIN segs |-> IF Same(segs[i], Head(tidy.plains))
                                    THEN [segs[i] EXCEPT !.format = "zstd", !.bytes = Len(tidy.rows)]
                                    ELSE segs[i]]
  /\ tidy' = [tidy EXCEPT !.pc = "unlink"]
  /\ UNCHANGED <<logFiles, nextId, savedId, unsynced, stateDue, clearing, walk, logClock, logEvents>>

\* It is noted under the lock; a segment dropped while it was compressed loses the copy.
NoteCompressed ==
  /\ tidy.pc = "note"
  /\ LET s == Head(tidy.plains)
         kept == \E i \in DOMAIN segs : Same(segs[i], s)
     IN  /\ segs' = [i \in DOMAIN segs |-> IF Same(segs[i], s)
                       THEN [segs[i] EXCEPT !.format = "zstd", !.bytes = Len(tidy.rows)]
                       ELSE segs[i]]
         /\ logFiles' = IF kept THEN logFiles ELSE WithoutFiles(s, {"zstd"})
  /\ tidy' = [tidy EXCEPT !.pc = "unlink"]
  /\ UNCHANGED <<nextId, savedId, unsynced, stateDue, clearing, walk, logClock, logEvents>>

UnlinkPlain ==
  /\ tidy.pc = "unlink"
  /\ logFiles' = WithoutFiles(Head(tidy.plains), {"plain"})
  /\ tidy' = Compressing(Tail(tidy.plains))
  /\ UNCHANGED <<segs, nextId, savedId, unsynced, stateDue, clearing, walk, logClock, logEvents>>

Removing(doomed) ==
  [AtRest EXCEPT !.pc = IF doomed = <<>> THEN "sync" ELSE "remove", !.doomed = doomed]

BytesIn(log) == FoldLeft(LAMBDA sum, s : sum + s.bytes, 0, log)

\* enforce: what is past retention goes, then the oldest until the log fits; the last
\* segment is closed first, or dropped once compressed.
Enforce ==
  /\ tidy.pc = "enforce"
  /\ LET cutoff == logClock - Retention
         expired == {s \in ToSet(segs) : ~s.open /\ SegmentEnd(s) <= cutoff}
         live == Among(segs, ToSet(segs) \ expired)
         fits == {n \in 0 .. Len(live) : n = Len(live) - 1 \/
                    (n < Len(live) - 1 /\ BytesIn(SubSeq(live, n + 1, Len(live))) <= MaxLogBytes)}
         cut == IF fits = {} THEN 0 ELSE CHOOSE n \in fits : \A m \in fits : n <= m
         rest == SubSeq(live, cut + 1, Len(live))
         over == Len(rest) = 1 /\ BytesIn(rest) > MaxLogBytes
         closes == over /\ Last(rest).open
         drops == over /\ ~Last(rest).open /\ Last(rest).format # "plain"
         doomed == Among(segs, expired) \o SubSeq(live, 1, cut)
                     \o (IF drops THEN rest ELSE <<>>)
     IN  /\ segs' = IF drops THEN <<>> ELSE IF closes THEN <<Last(ClosedSegs)>> ELSE rest
         /\ unsynced' = IF closes THEN ClosedUnsynced ELSE unsynced
         /\ tidy' = Removing(doomed)
         /\ UNCHANGED nextId
         /\ IF doomed = <<>>
            THEN stateDue' = (stateDue \/ closes) /\ UNCHANGED <<savedId, logEvents>>
            ELSE \/ savedId' = nextId /\ stateDue' = FALSE /\ UNCHANGED logEvents
                 \/ LogEvent /\ UNCHANGED savedId /\ stateDue' = (stateDue \/ closes)
  /\ UNCHANGED <<logFiles, clearing, walk, logClock>>

RemoveDropped ==
  /\ tidy.pc = "remove"
  /\ logFiles' = WithoutFiles(Head(tidy.doomed), Formats) /\ tidy' = Removing(Tail(tidy.doomed))
  /\ UNCHANGED <<segs, nextId, savedId, unsynced, stateDue, clearing, walk, logClock, logEvents>>

\* The closed segments are taken and synced.
SyncClosed ==
  /\ tidy.pc = "sync"
  /\ logFiles' = {IF <<f.start, f.first>> \in unsynced THEN [f EXCEPT !.synced = Len(f.rows)] ELSE f :
                    f \in logFiles}
  /\ unsynced' = {} /\ tidy' = [tidy EXCEPT !.pc = "state"]
  /\ UNCHANGED <<segs, nextId, savedId, stateDue, clearing, walk, logClock, logEvents>>

EndTidy ==
  /\ tidy.pc = "state" /\ tidy' = AtRest
  /\ IF stateDue THEN savedId' = nextId /\ stateDue' = FALSE ELSE UNCHANGED <<savedId, stateDue>>
  /\ UNCHANGED <<segs, logFiles, nextId, unsynced, clearing, walk, logClock, logEvents>>

---------------------------------------------------------------------------
(* clear, asked for by a page.                                             *)

ClearLog ==
  /\ LogEvent /\ clearing = <<>> /\ segs # <<>>
  /\ segs' = <<>> /\ clearing' = segs
  /\ \/ savedId' = nextId /\ stateDue' = FALSE
     \/ UNCHANGED <<savedId, stateDue>>
  /\ UNCHANGED <<logFiles, nextId, unsynced, tidy, walk, logClock>>

RemoveCleared ==
  /\ clearing # <<>>
  /\ logFiles' = WithoutFiles(Head(clearing), Formats) /\ clearing' = Tail(clearing)
  /\ UNCHANGED <<segs, nextId, savedId, unsynced, stateDue, tidy, walk, logClock, logEvents>>

---------------------------------------------------------------------------
(* Pages, from the newest record back.                                     *)

NoScan == [items |-> {}, last |-> 0, scanned |-> 0, stopped |-> 0, next |-> 0]

\* read_page_within takes the table and the newest id under the lock.
BeginPage(w) ==
  LET cutoff == logClock - Retention
      newest == IF segs = <<>> THEN 0 ELSE nextId - 1
  IN  walk' = [w EXCEPT !.pc = "page", !.newest = newest,
                        !.first = IF w.pc = "idle" THEN newest ELSE @,
                        !.since = IF cutoff > @ THEN cutoff ELSE @,
                        !.scan = NoScan,
                        !.todo = Among(Reverse(segs), {s \in ToSet(segs) :
                          (w.before = 0 \/ s.first < w.before) /\ SegmentEnd(s) > cutoff})]

\* A walk back over the records a filter finds, or over those newer than one seen.
BeginWalk ==
  /\ walk.pc = "idle" /\ UNCHANGED logEvents
  /\ \/ BeginPage([walk EXCEPT !.hits = {id \in 1 .. MaxRecords : id % 2 = 1}])
     \/ nextId > 2 /\ BeginPage([walk EXCEPT !.hits = 1 .. MaxRecords, !.after = nextId - 2])
  /\ UNCHANGED <<segs, logFiles, nextId, savedId, unsynced, stateDue, tidy, clearing, logClock>>

\* The page's own button, or the poll's next page.
NextPage ==
  /\ walk.pc = "next" /\ BeginPage(walk)
  /\ UNCHANGED <<segs, logFiles, nextId, savedId, unsynced, stateDue, tidy, clearing, logClock,
                 logEvents>>

\* Mutant: where the scan stopped is handed back as the last match.
ScanLineFromMatch(scan, row, w) ==
  IF scan.next # 0 \/ row.id > w.newest \/ (w.before # 0 /\ row.id >= w.before)
     \/ row.time < logClock - Retention \/ row.id <= w.after THEN scan
  ELSE IF scan.stopped # 0 THEN [scan EXCEPT !.next = IF scan.last # 0 THEN scan.last ELSE scan.stopped]
  ELSE LET hit == row.id \in w.hits
           counted == [scan EXCEPT !.scanned = @ + 1,
                         !.stopped = IF scan.scanned + 1 >= ScanBudget THEN row.id ELSE 0]
       IN  IF hit /\ Cardinality(scan.items) = PageRecords
           THEN [scan EXCEPT !.next = row.id]
           ELSE IF hit THEN [counted EXCEPT !.items = @ \union {row.id}, !.last = row.id]
           ELSE counted

\* Scan.line: what the page is not about is passed over; the budget leaves the rest to the
\* next page, and so does a match more than fits.
ScanLine(scan, row, w) ==
  IF scan.next # 0 \/ row.id > w.newest \/ (w.before # 0 /\ row.id >= w.before)
     \/ row.time < logClock - Retention \/ row.id <= w.after THEN scan
  ELSE IF scan.stopped # 0 THEN [scan EXCEPT !.next = scan.stopped]
  ELSE LET hit == row.id \in w.hits
           counted == [scan EXCEPT !.scanned = @ + 1,
                         !.stopped = IF scan.scanned + 1 >= ScanBudget THEN row.id ELSE 0]
       IN  IF hit /\ Cardinality(scan.items) = PageRecords
           THEN [scan EXCEPT !.next = scan.last]
           ELSE IF hit THEN [counted EXCEPT !.items = @ \union {row.id}, !.last = row.id]
           ELSE counted

ScanRows(rows, scan, w) == FoldLeft(LAMBDA sc, row : ScanLine(sc, row, w), scan, Reverse(rows))

\* for_each_line_rev: a plain segment compressed meanwhile is read from its copy, one that
\* is gone counts as empty, the open one is read up to the snapshot.
ReadSegment ==
  /\ walk.pc = "page" /\ walk.todo # <<>>
  /\ LET s == Head(walk.todo)
         file == IF s.format = "plain" /\ FileAt(s, "plain") # {} THEN FileAt(s, "plain")
                 ELSE FileAt(s, "zstd")
         rows == RowsIn(file)
         scan == ScanRows(SubSeq(rows, 1, IF Len(rows) < s.bytes THEN Len(rows) ELSE s.bytes),
                          walk.scan, walk)
     IN  walk' = [walk EXCEPT !.scan = scan,
                    !.todo = IF scan.next # 0 \/ s.first <= walk.after THEN <<>> ELSE Tail(@)]
  /\ UNCHANGED <<segs, logFiles, nextId, savedId, unsynced, stateDue, tidy, clearing, logClock,
                 logEvents>>

LogRows(s) == RowsIn(IF s.format = "plain" /\ FileAt(s, "plain") # {} THEN FileAt(s, "plain")
                     ELSE FileAt(s, "zstd"))

\* History: what a walk that has come to its end should have shown.
Due(w) ==
  {row.id : row \in {row \in UNION {ToSet(LogRows(segs[i])) : i \in DOMAIN segs} :
                       row.id \in w.hits /\ row.id > w.after /\ row.id <= w.first
                         /\ row.time >= w.since}}

EndPage ==
  /\ walk.pc = "page" /\ walk.todo = <<>>
  /\ LET items == walk.scan.items
         seen == walk.seen \union items
         wrong == items \intersect walk.seen # {} \/ (walk.scan.next = 0 /\ ~(Due(walk) \subseteq seen))
     IN  walk' = IF walk.scan.next = 0 THEN [NoWalk EXCEPT !.wrong = wrong]
                 ELSE [walk EXCEPT !.pc = "next", !.before = walk.scan.next, !.seen = seen,
                                   !.wrong = wrong, !.scan = <<>>]
  /\ UNCHANGED <<segs, logFiles, nextId, savedId, unsynced, stateDue, tidy, clearing, logClock,
                 logEvents>>

---------------------------------------------------------------------------
(* Time, and the ends of the panel.                                        *)

ClockMoves ==
  /\ \/ logClock < MaxTick /\ logClock' = logClock + 1 /\ UNCHANGED logEvents
     \/ logClock > 0 /\ LogEvent /\ logClock' = logClock - 1
  /\ walk.pc # "page" /\ tidy.pc = "idle"
  /\ UNCHANGED <<segs, logFiles, nextId, savedId, unsynced, stateDue, tidy, clearing, walk>>

\* Files as a start finds them: what was not synced may be cut short by a power loss, to
\* nothing or to what does not decode.
Cut(f, n, junk) ==
  LET kept == IF n < f.synced THEN f.synced ELSE IF n > Len(f.rows) THEN Len(f.rows) ELSE n
  IN  [f EXCEPT !.rows = SubSeq(@, 1, kept), !.synced = kept,
                !.size = IF kept = 0 /\ junk THEN 1 ELSE kept]
Earlier(s, t) == s.first < t.first \/ (s.first = t.first /\ s.start < t.start)
\* The files in their order: one sequence.
FilesInOrder(files) ==
  {order \in [1 .. Cardinality(files) -> files] :
     /\ ToSet(order) = files
     /\ \A i, j \in DOMAIN order : i < j => Earlier(order[i], order[j])}

\* open: empty files go, the compressed copy wins, and the ids go on after the last record
\* that reads, the state file and every segment's first.
PanelStartsOn(found) ==
  LET sized == {f \in found : f.size > 0}
      files == {f \in sized : f.format = "zstd" \/ ~\E g \in sized : g.format = "zstd" /\ Same(f, g)}
      readable == {f \in files : f.rows # <<>>}
      newest == CHOOSE f \in readable : \A g \in readable : g = f \/ Earlier(g, f)
      ids == {savedId} \union {f.first + 1 : f \in files}
               \union (IF readable = {} THEN {1} ELSE {Last(newest.rows).id + 1})
  IN  /\ logFiles' = files
      /\ \E order \in FilesInOrder(files) :
           segs' = [i \in DOMAIN order |-> [start |-> order[i].start, first |-> order[i].first,
                      format |-> order[i].format, open |-> FALSE, bytes |-> order[i].size]]
      /\ nextId' = CHOOSE n \in ids : \A m \in ids : n >= m

LogRestart ==
  /\ LogEvent
  /\ \/ PanelStartsOn(logFiles)
     \/ \E n \in 0 .. 1, junk \in BOOLEAN : PanelStartsOn({Cut(f, n, junk) : f \in logFiles})
  /\ unsynced' = {} /\ stateDue' = FALSE
  /\ tidy' = AtRest /\ clearing' = <<>> /\ walk' = NoWalk
  /\ UNCHANGED <<savedId, logClock>>

LogNext ==
  \/ AppendRecords \/ AppendAbandons
  \/ BeginTidy \/ ReadPlain \/ RenameCompressed \/ NoteCompressed \/ UnlinkPlain
  \/ Enforce \/ RemoveDropped \/ SyncClosed \/ EndTidy
  \/ ClearLog \/ RemoveCleared
  \/ BeginWalk \/ NextPage \/ ReadSegment \/ EndPage
  \/ ClockMoves \/ LogRestart

LogSpec == LogInit /\ [][LogNext]_logVars

---------------------------------------------------------------------------
RowType == [id : 1 .. MaxRecords, time : 0 .. MaxTick]

LogTypeOK ==
  /\ \A i \in DOMAIN segs : /\ segs[i].format \in Formats /\ segs[i].open \in BOOLEAN
                            /\ segs[i].start \in 0 .. MaxTick /\ segs[i].bytes \in Nat \ {0}
  /\ \A f \in logFiles : ToSet(f.rows) \subseteq RowType /\ f.synced \in 0 .. Len(f.rows)
  /\ nextId \in Nat \ {0} /\ savedId \in Nat /\ stateDue \in BOOLEAN
  /\ tidy.pc \in {"idle", "compress", "rename", "note", "unlink", "enforce", "remove", "sync", "state"}
  /\ walk.pc \in {"idle", "page", "next"} /\ walk.wrong \in BOOLEAN
  /\ logClock \in 0 .. MaxTick /\ logEvents \in 0 .. MaxLogEvents

\* Whatever the writer, the tidying, a clear and a start interleave: the ids of the log go
\* up from segment to segment and the next one is new; no record is later than its
\* segment's hour, so that dropping by hour never takes one still to be kept
\* (querylog.rs:1641), clocks stepping back included; and once nobody is removing, the
\* files are those of the table.
LogIsSound ==
  /\ LogTypeOK
  /\ \A i, j \in DOMAIN segs :
       LET rows == LogRows(segs[i])
           others == LogRows(segs[j])
       IN  \A m \in DOMAIN rows :
             /\ rows[m].id < nextId /\ rows[m].time < SegmentEnd(segs[i])
             /\ \A n \in DOMAIN others :
                  i < j \/ (i = j /\ m < n) => rows[m].id < others[n].id
  /\ tidy.pc = "idle" /\ clearing = <<>> =>
       {<<f.start, f.first, f.format>> : f \in logFiles}
         = {<<segs[i].start, segs[i].first, segs[i].format>> : i \in DOMAIN segs}

\* A walk back through the pages finds every record of the log that is within retention,
\* newer than what was seen and found by the filter, and none twice, while records are
\* written, compressed and dropped between and during its pages.
PagesAreComplete == ~walk.wrong
=============================================================================
