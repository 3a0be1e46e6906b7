-------------------------- MODULE QueryLogHandoff --------------------------
(***************************************************************************)
(* How the query log passes from KixDNS to the panel's files               *)
(* (app/querylog.rs, querylog.rs).                                         *)
(*                                                                         *)
(* KixDNS numbers its records from 1 in each process and keeps the newest  *)
(* of them in a ring.  The panel's collector asks for pages after its      *)
(* cursor, several at a time when they pile up, appends them to its log    *)
(* and moves the cursor; a later request tells KixDNS what it may delete.  *)
(* Both processes restart, requests fail or are abandoned, writes fail.    *)
(* Records that were pushed out, cleared or too large to hand over become  *)
(* a gap row with their number.                                            *)
(***************************************************************************)
EXTENDS Integers, Sequences, FiniteSets

CONSTANTS
  Handover,       \* what KixDNS supports: "cursor", "waits" or "ranges"
  PageSize,       \* Handover::waiting_page (500 or 1000 in app/querylog.rs)
  InFlight,       \* IN_FLIGHT (4)
  PipelinePages,  \* PIPELINE_PAGES (64)
  PagesPerTick,   \* PAGES_PER_TICK (20)
  RingSize,       \* records KixDNS's ring holds (16384 or 4096)
  EarlyRestarts,  \* TRUE: KixDNS may be restarted before a first record of it is taken
  Overruns,       \* TRUE: KixDNS may hand over records past `until`
  Ignored,        \* numbers of the records of ignored domains
  Oversized,      \* numbers of the records no reply has room for
  MaxSeq,         \* bound on the records of one KixDNS process
  MaxInstance,    \* bound on KixDNS processes
  MaxUntracked,   \* bound on requests KixDNS does not record
  Faults,         \* kinds of fault that can happen
  MaxFaults       \* bound on faults

ASSUME HandoffAssumption ==
  /\ Handover \in {"cursor", "waits", "ranges"}
  /\ {PageSize, InFlight, PipelinePages, PagesPerTick, RingSize, MaxInstance} \subseteq Nat \ {0}
  /\ {MaxSeq, MaxUntracked, MaxFaults} \subseteq Nat
  /\ {EarlyRestarts, Overruns} \subseteq BOOLEAN
  /\ Ignored \subseteq Nat
  /\ Oversized \subseteq Nat
  /\ Faults \subseteq {"fail", "write", "crash", "clear"}

VARIABLES
  kernel,   \* the KixDNS process: its ring holds the numbers low + 1 .. newest
  flight,   \* the pages asked for and not yet taken, in order
  stray,    \* the furthest deletion an abandoned request may still ask for
  pc,       \* the collector's program counter
  at,       \* the collector's own cursor within a round
  mem,      \* what it remembers between rounds
  round,    \* its other locals of the round
  batch,    \* the rows being written and what follows the write
  cursor,   \* QueryLogStore::cursor
  log,      \* every row ever written, in order
  cleared,  \* how many of them were cleared from the files
  saved,    \* the state file: how many rows there were, and the cursor
  since,    \* history: per process, the number the panel began after
  faults    \* faults so far

vars == <<kernel, flight, stray, pc, at, mem, round, batch, cursor, log, cleared,
          saved, since, faults>>

collector == <<pc, at, mem, round, batch>>
store     == <<cursor, log, cleared, saved, since>>

Smaller(a, b) == IF a < b THEN a ELSE b
Larger(a, b)  == IF a > b THEN a ELSE b

NoCursor == [instance |-> 0, seq |-> 0]
NoCount  == [instance |-> 0, count |-> 0]
NoPage   == [instance |-> 0, newest |-> 0, missed |-> 0, untracked |-> 0, last |-> 0]
NoGone   == [found |-> FALSE, page |-> NoPage, after |-> 0, earlier |-> 0]
NoBatch  == [rows |-> <<>>, next |-> NoCursor, counted |-> NoCount, back |-> "idle"]
Fresh    == [newest |-> NoCount, counted |-> NoCount]

\* A record as it is stored, and a gap row: how many the ring or a reply lost and how
\* many KixDNS did not record (the file keeps their sum).
Entry(i, s)         == [instance |-> i, seq |-> s, lost |-> 0, busy |-> 0]
Gap(i, s, lost, busy) == [instance |-> i, seq |-> s, lost |-> lost, busy |-> busy]
IsGap(row)    == row.lost + row.busy > 0
CursorOf(row) == [instance |-> row.instance, seq |-> row.seq]

NewRound == [asked |-> 0, caught |-> FALSE, gone |-> NoGone, size |-> PageSize,
             pages |-> 0, skipped |-> 0, counts |-> TRUE, more |-> TRUE]

Init ==
  /\ kernel = [instance |-> 1, newest |-> 0, low |-> 0, untracked |-> 0]
  /\ flight = <<>>
  /\ stray = NoCursor
  /\ pc = "idle"
  /\ at = NoCursor
  /\ mem = Fresh
  /\ round = NewRound
  /\ batch = NoBatch
  /\ cursor = NoCursor
  /\ log = <<>>
  /\ cleared = 0
  /\ saved = [rows |-> 0, cursor |-> NoCursor]
  /\ since = [i \in 1 .. MaxInstance |-> 0]
  /\ faults = 0

---------------------------------------------------------------------------
(* KixDNS and the control socket (external: modelled from the panel's      *)
(* requests and docs/control-protocol-v1.md).                              *)

\* A query ends and is recorded; the ring drops its oldest record when it is full.
KernelRecord ==
  /\ kernel.newest < MaxSeq
  /\ kernel' = [kernel EXCEPT !.newest = @ + 1,
                              !.low = Larger(@, kernel.newest + 1 - RingSize)]
  /\ UNCHANGED <<flight, stray, collector, store, faults>>

\* Too many requests at once: one is not recorded.
KernelUntracked ==
  /\ kernel.untracked < MaxUntracked
  /\ kernel' = [kernel EXCEPT !.untracked = @ + 1]
  /\ UNCHANGED <<flight, stray, collector, store, faults>>

\* The panel has heard of this process, or will, and has taken none of its records: its
\* cursor is at the process's start, or an answer of it is on its way.
NoneTaken ==
  \/ cursor.instance # 0 /\ cursor.seq = 0
  \/ /\ cursor.instance # kernel.instance
     /\ \E k \in 1 .. Len(flight) :
          flight[k].kind \in {"page", "large"} /\ flight[k].page.instance = kernel.instance

\* A new process: numbers start over.  Requests under way go to whichever answers.
KernelRestart ==
  /\ kernel.instance < MaxInstance
  /\ EarlyRestarts \/ ~NoneTaken
  /\ kernel' = [instance |-> kernel.instance + 1, newest |-> 0, low |-> 0, untracked |-> 0]
  /\ UNCHANGED <<flight, stray, collector, store, faults>>

\* 120 seconds without a request: the ring is cleared.
KernelForget ==
  /\ pc = "down"
  /\ kernel.low < kernel.newest
  /\ kernel' = [kernel EXCEPT !.low = kernel.newest]
  /\ UNCHANGED <<flight, stray, collector, store, faults>>

\* The ring once the records up to `upto` of process i are deleted.
LowAfter(i, upto) ==
  IF i = kernel.instance THEN Larger(kernel.low, Smaller(upto, kernel.newest))
  ELSE kernel.low

\* A page: the numbers after `from` up to `last`, past the `missed` ones that are gone.
PageOf(req, low, limited) ==
  LET end  == IF limited THEN req.after + req.size ELSE kernel.newest + req.after
      from == Smaller(Larger(low, req.after), end)
      last == Larger(from, Smaller(Smaller(kernel.newest, from + req.size), end))
  IN  [instance |-> kernel.instance, newest |-> kernel.newest,
       missed |-> from - req.after, untracked |-> kernel.untracked, last |-> last]

\* The page's reply, which is too large when it holds an oversized record.
ReplyOf(req, page) ==
  [req EXCEPT !.kind = IF (req.after + page.missed + 1 .. page.last) \intersect Oversized = {}
                       THEN "page" ELSE "large",
              !.page = page]

\* KixDNS answers one of the requests, in any order.
Answer ==
  \E k \in 1 .. Len(flight), limited \in BOOLEAN :
    /\ flight[k].kind = "asked"
    /\ IF flight[k].full THEN limited \/ Overruns ELSE ~limited
    /\ LET req == flight[k]
           low == LowAfter(req.instance, Smaller(req.stored, req.after))
       IN  /\ kernel' = [kernel EXCEPT !.low = low]
           /\ flight' = [flight EXCEPT ![k] = ReplyOf(req, PageOf(req, low, limited))]
    /\ UNCHANGED <<stray, collector, store, faults>>

\* An abandoned request arrives all the same.
AnswerStray ==
  /\ LowAfter(stray.instance, stray.seq) > kernel.low
  /\ kernel' = [kernel EXCEPT !.low = LowAfter(stray.instance, stray.seq)]
  /\ UNCHANGED <<flight, stray, collector, store, faults>>

\* What a request lets KixDNS delete, and which of two deletions goes further.
Deletion(req) == [instance |-> req.instance, seq |-> Smaller(req.stored, req.after)]
UpTo(c, d) == \/ c.instance < d.instance
              \/ c.instance = d.instance /\ c.seq <= d.seq

\* No connection, a timeout, or a reply the panel cannot read: KixDNS may have the
\* request all the same.
RequestFails ==
  /\ "fail" \in Faults
  /\ faults < MaxFaults
  /\ \E k \in 1 .. Len(flight) :
       /\ flight[k].kind = "asked"
       /\ flight' = [flight EXCEPT ![k].kind = "failed"]
       /\ stray' = IF UpTo(Deletion(flight[k]), stray) THEN stray ELSE Deletion(flight[k])
  /\ faults' = faults + 1
  /\ UNCHANGED <<kernel, collector, store>>

---------------------------------------------------------------------------
(* Asking for pages.                                                       *)

Request(after, size, instance, stored, full) ==
  [after |-> after, size |-> size, instance |-> instance, stored |-> stored,
   full |-> full, kind |-> "asked", page |-> NoPage]

\* The requests in `reqs` are abandoned (InFlight::clear, Drop); those not yet
\* answered may still arrive.
AbandonAll(reqs) ==
  LET asked == {k \in 1 .. Len(reqs) : reqs[k].kind = "asked"}
      open  == {stray} \union {Deletion(reqs[k]) : k \in asked}
  IN  /\ flight' = <<>>
      /\ stray' \in {c \in open : \A d \in open : UpTo(d, c)}

\* The round is over; its locals are gone.
EndRound == /\ pc' = "idle"
            /\ at' = NoCursor
            /\ round' = NewRound

\* Collector::collect: several pages at once with a cursor and a kernel that can.
BeginRound ==
  /\ pc = "idle"
  /\ pc' = IF Handover = "ranges" /\ cursor # NoCursor THEN "parallel" ELSE "walk"
  /\ at' = cursor
  /\ round' = NewRound
  /\ UNCHANGED <<kernel, flight, stray, mem, batch, store, faults>>

NextAfter == IF flight = <<>> THEN at.seq
             ELSE flight[Len(flight)].after + PageSize

\* Mutant: only pages known to be full are asked for.
CanAskFull ==
  /\ ~round.caught
  /\ mem.newest.instance = at.instance
  /\ mem.newest.count >= NextAfter + PageSize
  /\ Len(flight) < InFlight
  /\ round.asked < PipelinePages

CanAsk ==
  /\ ~round.caught
  /\ flight # <<>> => flight[Len(flight)].full
  /\ Len(flight) < InFlight
  /\ round.asked < PipelinePages

\* Mutant: pages asked for ahead name their own start as stored.
AskAheadStored ==
  /\ pc = "parallel"
  /\ CanAsk
  /\ LET full == mem.newest.instance = at.instance /\ mem.newest.count >= NextAfter + PageSize
     IN  flight' = Append(flight, Request(NextAfter, PageSize, at.instance, NextAfter, full))
  /\ round' = [round EXCEPT !.asked = @ + 1]
  /\ UNCHANGED <<kernel, stray, pc, at, mem, batch, store, faults>>

\* collect_parallel asks ahead; only the page not known to be full lets KixDNS wait.
AskAhead ==
  /\ pc = "parallel"
  /\ CanAsk
  /\ LET full == mem.newest.instance = at.instance /\ mem.newest.count >= NextAfter + PageSize
     IN  flight' = Append(flight, Request(NextAfter, PageSize, at.instance, cursor.seq, full))
  /\ round' = [round EXCEPT !.asked = @ + 1]
  /\ UNCHANGED <<kernel, stray, pc, at, mem, batch, store, faults>>

\* The page-by-page way.
AskNext ==
  /\ pc = "walk"
  /\ flight = <<>>
  /\ round.more
  /\ round.pages < PagesPerTick
  /\ flight' = <<Request(at.seq, round.size, IF Handover = "cursor" THEN 0 ELSE at.instance,
                         at.seq, FALSE)>>
  /\ UNCHANGED <<kernel, stray, collector, store, faults>>

---------------------------------------------------------------------------
(* Taking the page in front.                                               *)

First == flight[1]

\* The collector awaits the page in front once it has asked for all it can.
Arrived(kind) ==
  /\ flight # <<>>
  /\ First.kind = kind
  /\ pc = "parallel" => ~CanAsk

\* The first error ends the round; its other requests are abandoned.
TakeFailure ==
  /\ pc \in {"parallel", "walk"}
  /\ Arrived("failed")
  /\ AbandonAll(flight)
  /\ EndRound
  /\ UNCHANGED <<kernel, mem, batch, store, faults>>

\* A page over the reply cap: the rest of the round goes page by page.
TakeTooLarge ==
  /\ pc = "parallel"
  /\ Arrived("large")
  /\ AbandonAll(flight)
  /\ pc' = "walk"
  /\ at' = cursor
  /\ round' = NewRound
  /\ UNCHANGED <<kernel, mem, batch, store, faults>>

\* Collector::start_over
StartOver(i) ==
  /\ at' = [instance |-> i, seq |-> 0]
  /\ cursor' = [instance |-> i, seq |-> 0]
  /\ since' = [since EXCEPT ![i] = 0]
  /\ UNCHANGED <<log, cleared, saved>>

Restarted(page) == at.instance # page.instance \/ page.newest < at.seq

SeenNewest(page) ==
  IF mem.newest.instance = page.instance
  THEN [instance |-> page.instance, count |-> Larger(mem.newest.count, page.newest)]
  ELSE [instance |-> page.instance, count |-> page.newest]

\* A page that does not start at the cursor: it and those behind it are dropped.
TakeOverlap ==
  /\ pc = "parallel"
  /\ Arrived("page")
  /\ First.after # at.seq
  /\ mem' = [mem EXCEPT !.newest = SeenNewest(First.page)]
  /\ AbandonAll(Tail(flight))
  /\ UNCHANGED <<kernel, pc, at, round, batch, store, faults>>

\* KixDNS was restarted: from its first record.
TakeRestarted ==
  /\ pc = "parallel"
  /\ Arrived("page")
  /\ First.after = at.seq
  /\ at.seq # 0
  /\ Restarted(First.page)
  /\ mem' = [newest  |-> [instance |-> First.page.instance, count |-> First.page.newest],
             counted |-> [instance |-> First.page.instance, count |-> 0]]
  /\ StartOver(First.page.instance)
  /\ round' = [round EXCEPT !.gone = NoGone]
  /\ AbandonAll(Tail(flight))
  /\ UNCHANGED <<kernel, pc, batch, faults>>

EarlierGone == IF round.gone.found THEN round.gone.earlier + round.gone.page.missed ELSE 0

InOrder == /\ pc = "parallel"
           /\ Arrived("page")
           /\ First.after = at.seq
           /\ at.seq = 0 \/ ~Restarted(First.page)

CaughtUp(page) == page.last >= page.newest

\* A page pushed out whole waits for the rows after it.
TakeGone ==
  /\ InOrder
  /\ First.page.missed > 0
  /\ First.page.last = First.after + First.page.missed
  /\ mem' = [mem EXCEPT !.newest = SeenNewest(First.page)]
  /\ round' = [round EXCEPT !.caught = CaughtUp(First.page),
                            !.gone = [found |-> TRUE, page |-> First.page,
                                      after |-> First.after, earlier |-> EarlierGone]]
  /\ at' = [at EXCEPT !.seq = First.after + First.page.missed]
  /\ flight' = Tail(flight)
  /\ UNCHANGED <<kernel, stray, pc, batch, store, faults>>

---------------------------------------------------------------------------
(* Collector::records and store_page.                                      *)

\* KixDNS's count of unrecorded requests that rows already tell.
BaseOf(page) == IF mem.counted.instance = page.instance THEN mem.counted.count
                ELSE IF mem.counted.instance # 0 THEN 0 ELSE page.untracked

\* The k-th of a set of numbers.
Nth(numbers, k) ==
  CHOOSE s \in numbers : Cardinality({t \in numbers : t <= s}) = k

EntriesOf(page, after) ==
  LET taken == (after + page.missed + 1 .. page.last) \ Ignored
  IN  [k \in 1 .. Cardinality(taken) |-> Entry(page.instance, Nth(taken, k))]

\* Mutant: what the pages pushed out whole missed is left out.
BatchOfForgetful(page, c, after, oversized, back) ==
  LET missed == IF c.instance = page.instance THEN page.missed ELSE 0
      busy   == Larger(0, page.untracked - BaseOf(page))
      gap    == IF missed + busy > 0
                THEN <<Gap(page.instance, after + missed, missed, busy)>>
                ELSE <<>>
  IN  [rows    |-> gap \o EntriesOf(page, after),
       next    |-> [instance |-> page.instance, seq |-> page.last],
       counted |-> [instance |-> page.instance, count |-> Larger(page.untracked, BaseOf(page))],
       back    |-> back]

\* Mutant: the count of unrecorded requests follows the page, also downwards.
BatchOfLowered(page, c, after, oversized, back) ==
  LET missed == IF c.instance = page.instance THEN page.missed ELSE 0
      busy   == Larger(0, page.untracked - BaseOf(page))
      gap    == IF missed + busy + oversized > 0
                THEN <<Gap(page.instance, after + missed, missed + oversized, busy)>>
                ELSE <<>>
  IN  [rows    |-> gap \o EntriesOf(page, after),
       next    |-> [instance |-> page.instance, seq |-> page.last],
       counted |-> [instance |-> page.instance, count |-> page.untracked],
       back    |-> back]

\* The rows of a page taken from cursor c, the cursor after it, and what is then told.
BatchOf(page, c, after, oversized, back) ==
  LET missed == IF c.instance = page.instance THEN page.missed ELSE 0
      busy   == Larger(0, page.untracked - BaseOf(page))
      gap    == IF missed + busy + oversized > 0
                THEN <<Gap(page.instance, after + missed, missed + oversized, busy)>>
                ELSE <<>>
  IN  [rows    |-> gap \o EntriesOf(page, after),
       next    |-> [instance |-> page.instance, seq |-> page.last],
       counted |-> [instance |-> page.instance, count |-> Larger(page.untracked, BaseOf(page))],
       back    |-> back]

\* A process the panel had no number of: what it lost before is not a gap.
NoteSince(page, c) ==
  since' = IF c.instance = page.instance THEN since
           ELSE [since EXCEPT ![page.instance] = page.missed]

\* Mutant: pages pushed out whole are kept although their row is written.
TakePageKeepsGone ==
  /\ InOrder
  /\ ~(First.page.missed > 0 /\ First.page.last = First.after + First.page.missed)
  /\ mem' = [mem EXCEPT !.newest = SeenNewest(First.page)]
  /\ round' = [round EXCEPT !.caught = CaughtUp(First.page)]
  /\ batch' = BatchOf(First.page, at, First.after, EarlierGone, "parallel")
  /\ NoteSince(First.page, at)
  /\ pc' = "write"
  /\ flight' = Tail(flight)
  /\ UNCHANGED <<kernel, stray, at, cursor, log, cleared, saved, faults>>

TakePage ==
  /\ InOrder
  /\ ~(First.page.missed > 0 /\ First.page.last = First.after + First.page.missed)
  /\ mem' = [mem EXCEPT !.newest = SeenNewest(First.page)]
  /\ round' = [round EXCEPT !.caught = CaughtUp(First.page), !.gone = NoGone]
  /\ batch' = BatchOf(First.page, at, First.after, EarlierGone, "parallel")
  /\ NoteSince(First.page, at)
  /\ pc' = "write"
  /\ flight' = Tail(flight)
  /\ UNCHANGED <<kernel, stray, at, cursor, log, cleared, saved, faults>>

\* Nothing asked for and nothing to ask: pages pushed out whole at the end of the
\* round become their row now.
EndParallel ==
  /\ pc = "parallel"
  /\ flight = <<>>
  /\ ~CanAsk
  /\ IF round.gone.found
     THEN /\ batch' = BatchOf(round.gone.page, [at EXCEPT !.seq = round.gone.after],
                              round.gone.after, round.gone.earlier, "idle")
          /\ NoteSince(round.gone.page, at)
          /\ pc' = "write"
          /\ round' = [round EXCEPT !.gone = NoGone]
          /\ UNCHANGED at
     ELSE EndRound /\ UNCHANGED <<batch, since>>
  /\ UNCHANGED <<kernel, flight, stray, mem, cursor, log, cleared, saved, faults>>

---------------------------------------------------------------------------
(* The page-by-page way.                                                   *)

WalkRestarted ==
  /\ pc = "walk"
  /\ Arrived("page")
  /\ at.instance # 0
  /\ First.after # 0
  /\ Restarted(First.page)
  /\ mem' = [mem EXCEPT !.counted = [instance |-> First.page.instance, count |-> 0]]
  /\ StartOver(First.page.instance)
  /\ round' = [round EXCEPT !.pages = @ + 1, !.size = PageSize, !.skipped = 0]
  /\ flight' = <<>>
  /\ UNCHANGED <<kernel, stray, pc, batch, faults>>

WalkPage ==
  /\ pc = "walk"
  /\ Arrived("page")
  /\ at.instance # 0 /\ First.after # 0 => ~Restarted(First.page)
  /\ batch' = BatchOf(First.page, at, First.after,
                      IF round.counts THEN round.skipped ELSE 0, "walk")
  /\ NoteSince(First.page, at)
  /\ round' = [round EXCEPT !.pages = @ + 1, !.size = PageSize, !.skipped = 0,
                            !.more = ~CaughtUp(First.page)]
  /\ pc' = "write"
  /\ flight' = <<>>
  /\ UNCHANGED <<kernel, stray, at, mem, cursor, log, cleared, saved, faults>>

\* Mutant: a page of one record is halved as well.
WalkHalveToNothing ==
  /\ pc = "walk"
  /\ Arrived("large")
  /\ round' = [round EXCEPT !.size = @ \div 2]
  /\ flight' = <<>>
  /\ UNCHANGED <<kernel, stray, pc, at, mem, batch, store, faults>>

WalkHalve ==
  /\ pc = "walk"
  /\ Arrived("large")
  /\ round.size > 1
  /\ round' = [round EXCEPT !.size = @ \div 2]
  /\ flight' = <<>>
  /\ UNCHANGED <<kernel, stray, pc, at, mem, batch, store, faults>>

TooLargeAlone == pc = "walk" /\ Arrived("large") /\ round.size = 1

\* skip_oversized: the probe of the first skip finds another process.
SkipFindsRestart ==
  /\ TooLargeAlone
  /\ round.skipped = 0
  /\ at.instance # 0
  /\ at.instance # kernel.instance
  /\ mem' = [mem EXCEPT !.counted = [instance |-> kernel.instance, count |-> 0]]
  /\ StartOver(kernel.instance)
  /\ round' = [round EXCEPT !.pages = @ + 1, !.size = PageSize, !.skipped = 0]
  /\ flight' = <<>>
  /\ UNCHANGED <<kernel, stray, pc, batch, faults>>

\* Mutant: a skip moves the cursor without counting the record.
SkipOversizedUncounted ==
  /\ TooLargeAlone
  /\ round.skipped = 0 /\ at.instance # 0 => at.instance = kernel.instance
  /\ LET i == IF round.skipped = 0 THEN kernel.instance ELSE at.instance
         counts == IF round.skipped = 0 THEN at.instance # 0 ELSE round.counts
     IN  /\ at' = [instance |-> i, seq |-> First.after + 1]
         /\ round' = [round EXCEPT !.pages = @ + 1, !.counts = counts]
         /\ since' = IF counts THEN since ELSE [since EXCEPT ![i] = First.after + 1]
  /\ cursor' = at'
  /\ flight' = <<>>
  /\ UNCHANGED <<kernel, stray, pc, mem, batch, log, cleared, saved, faults>>

\* Not even one record fits: the cursor moves past it.
SkipOversized ==
  /\ TooLargeAlone
  /\ round.skipped = 0 /\ at.instance # 0 => at.instance = kernel.instance
  /\ LET i == IF round.skipped = 0 THEN kernel.instance ELSE at.instance
         counts == IF round.skipped = 0 THEN at.instance # 0 ELSE round.counts
     IN  /\ at' = [instance |-> i, seq |-> First.after + 1]
         /\ round' = [round EXCEPT !.pages = @ + 1, !.skipped = @ + 1, !.counts = counts]
         /\ since' = IF counts THEN since ELSE [since EXCEPT ![i] = First.after + 1]
  /\ cursor' = at'
  /\ flight' = <<>>
  /\ UNCHANGED <<kernel, stray, pc, mem, batch, log, cleared, saved, faults>>

\* The round's pages are over; skips not yet written become their row.
EndWalk ==
  /\ pc = "walk"
  /\ flight = <<>>
  /\ ~(round.more /\ round.pages < PagesPerTick)
  /\ IF round.skipped > 0 /\ round.counts
     THEN /\ batch' = [rows |-> <<Gap(at.instance, at.seq, round.skipped, 0)>>,
                       next |-> at, counted |-> mem.counted, back |-> "idle"]
          /\ pc' = "write"
          /\ round' = [round EXCEPT !.skipped = 0]
          /\ UNCHANGED at
     ELSE EndRound /\ UNCHANGED batch
  /\ UNCHANGED <<kernel, flight, stray, mem, store, faults>>

---------------------------------------------------------------------------
(* Writing (querylog.rs).                                                  *)

\* What save_state writes: the next id, here as the number of rows, and the cursor.
StateNow == [rows |-> Len(log), cursor |-> cursor]

\* QueryLogStore::append: the rows are in the file, and the cursor is the last row's.
AppendRows ==
  /\ pc = "write"
  /\ log' = log \o batch.rows
  /\ cursor' = IF batch.rows = <<>> THEN cursor ELSE CursorOf(batch.rows[Len(batch.rows)])
  /\ pc' = "advance"
  /\ UNCHANGED <<kernel, flight, stray, at, mem, round, batch, cleared, saved, since, faults>>

\* The write fails: the segment is cut back and the round ends.
AppendFails ==
  /\ "write" \in Faults
  /\ faults < MaxFaults
  /\ pc = "write"
  /\ batch.rows # <<>>
  /\ AbandonAll(flight)
  /\ EndRound
  /\ batch' = NoBatch
  /\ saved' \in {saved, StateNow}
  /\ faults' = faults + 1
  /\ UNCHANGED <<kernel, mem, cursor, log, cleared, since>>

\* The cursor past the page, also past its ignored records (set_cursor).
Advance ==
  /\ pc = "advance"
  /\ cursor' = batch.next
  /\ mem' = [mem EXCEPT !.counted = batch.counted]
  /\ batch' = NoBatch
  /\ IF batch.back = "idle" THEN EndRound
     ELSE pc' = batch.back /\ at' = batch.next /\ UNCHANGED round
  /\ UNCHANGED <<kernel, flight, stray, log, cleared, saved, since, faults>>

\* Mutant: the state file's cursor is always taken.
ReopenedStale == saved.cursor

\* QueryLogStore::open: the state file's cursor when nothing was written after it,
\* otherwise the last row's.
Reopened ==
  LET lastId == IF Len(log) > cleared THEN Len(log) ELSE 0
  IN  IF saved.rows >= lastId THEN saved.cursor
      ELSE CursorOf(log[Len(log)])

\* save_state, by the housekeeping that runs beside the collector.  A save that does
\* not change what a restart finds is no step of its own.
SaveState ==
  /\ pc # "down"
  /\ Reopened # cursor
  /\ saved' = StateNow
  /\ UNCHANGED <<kernel, flight, stray, collector, cursor, log, cleared, since, faults>>

\* QueryLogStore::clear drops every row, enforce the oldest ones; the state file first.
\* A state file that cannot be written is left out: save_state_or_warn accepts that the
\* cursor is then lost at the next start.
DropRows ==
  /\ "clear" \in Faults
  /\ faults < MaxFaults
  /\ pc # "down"
  /\ saved' = StateNow
  /\ cleared' \in cleared + 1 .. Len(log)
  /\ faults' = faults + 1
  /\ UNCHANGED <<kernel, flight, stray, collector, cursor, log, since>>

\* The panel process ends; an unfinished write leaves any first part of its rows.
PanelEnds ==
  /\ "crash" \in Faults
  /\ faults < MaxFaults
  /\ pc # "down"
  /\ \E k \in 0 .. (IF pc = "write" THEN Len(batch.rows) ELSE 0) :
       log' = log \o SubSeq(batch.rows, 1, k)
  /\ AbandonAll(flight)
  /\ pc' = "down"
  /\ at' = NoCursor
  /\ mem' = Fresh
  /\ round' = NewRound
  /\ batch' = NoBatch
  /\ cursor' = NoCursor
  /\ faults' = faults + 1
  /\ UNCHANGED <<kernel, cleared, saved, since>>

PanelStarts ==
  /\ pc = "down"
  /\ cursor' = Reopened
  /\ pc' = "idle"
  /\ UNCHANGED <<kernel, flight, stray, at, mem, round, batch, log, cleared, saved, since, faults>>

---------------------------------------------------------------------------
Parallel == \/ AskAhead \/ TakeTooLarge \/ TakeOverlap \/ TakeRestarted
            \/ TakeGone \/ TakePage \/ EndParallel

Walk == \/ AskNext \/ WalkRestarted \/ WalkPage \/ WalkHalve
        \/ SkipFindsRestart \/ SkipOversized \/ EndWalk

Collect == BeginRound \/ Parallel \/ Walk \/ TakeFailure \/ AppendRows \/ Advance

Kernel == \/ KernelRecord \/ KernelUntracked \/ KernelRestart \/ KernelForget
          \/ Answer \/ AnswerStray

Fault == RequestFails \/ AppendFails \/ DropRows \/ PanelEnds

Next == Collect \/ SaveState \/ PanelStarts \/ Kernel \/ Fault

Spec == Init /\ [][Next]_vars

---------------------------------------------------------------------------
(* Properties.                                                             *)

Seqs      == 0 .. MaxSeq + PageSize
Instances == 0 .. MaxInstance
Cursors   == [instance: Instances, seq: Seqs]
Counts    == [instance: Instances, count: Nat]
Pages     == [instance: Instances, newest: 0 .. MaxSeq, missed: Seqs,
              untracked: 0 .. MaxUntracked, last: Seqs]
Rows      == [instance: Instances, seq: Seqs, lost: Nat, busy: Nat]
Requests  == [after: Seqs, size: 1 .. PageSize, instance: Instances, stored: Seqs,
              full: BOOLEAN, kind: {"asked", "page", "large", "failed"}, page: Pages]

\* Every variable has its type.
TypeOK ==
  /\ kernel \in [instance: Instances \ {0}, newest: 0 .. MaxSeq, low: 0 .. MaxSeq,
                 untracked: 0 .. MaxUntracked]
  /\ flight \in Seq(Requests)
  /\ stray \in Cursors
  /\ pc \in {"down", "idle", "parallel", "walk", "write", "advance"}
  /\ at \in Cursors
  /\ mem \in [newest: Counts, counted: Counts]
  /\ round \in [asked: 0 .. PipelinePages, caught: BOOLEAN,
                gone: [found: BOOLEAN, page: Pages, after: Seqs, earlier: Nat],
                size: 1 .. PageSize, pages: 0 .. PagesPerTick, skipped: Nat,
                counts: BOOLEAN, more: BOOLEAN]
  /\ batch \in [rows: Seq(Rows), next: Cursors, counted: Counts,
                back: {"idle", "parallel", "walk"}]
  /\ cursor \in Cursors
  /\ log \in Seq(Rows)
  /\ cleared \in 0 .. Len(log)
  /\ saved \in [rows: 0 .. Len(log), cursor: Cursors]
  /\ since \in [1 .. MaxInstance -> Seqs]
  /\ faults \in 0 .. MaxFaults

IsStored(i, s) == \E k \in 1 .. Len(log) : log[k] = Entry(i, s)

\* The numbers of process i the cursor has passed and the panel had begun to record.
Passed(i) == since[i] + 1 .. cursor.seq

\* A mark for every record that gap rows of process i say was lost, and for every request
\* they say was not recorded.
RowsOf(i)    == {k \in 1 .. Len(log) : log[k].instance = i}
LostMarks(i) == UNION {{k} \X (1 .. log[k].lost) : k \in RowsOf(i)}
BusyMarks(i) == UNION {{k} \X (1 .. log[k].busy) : k \in RowsOf(i)}
LostTold(i)  == Cardinality(LostMarks(i))
BusyTold(i)  == Cardinality(BusyMarks(i))

\* No record is written twice, and records of a process are written in the order of
\* their numbers, processes one after another: over pages taken out of order, retries
\* of the same range, failed or cut writes and restarts of either side.
NeverTwice ==
  \A j, k \in 1 .. Len(log) :
    j < k /\ ~IsGap(log[j]) /\ ~IsGap(log[k]) =>
      \/ log[j].instance < log[k].instance
      \/ log[j].instance = log[k].instance /\ log[j].seq < log[k].seq

\* Between rounds every record the cursor has passed is stored, of an ignored domain,
\* or counted by a gap row: whatever was interrupted, nothing disappears silently.
NoSilentLoss ==
  pc = "idle" /\ cursor.instance # 0 =>
    Cardinality({s \in Passed(cursor.instance) :
                   s \notin Ignored /\ ~IsStored(cursor.instance, s)})
      <= LostTold(cursor.instance)

\* Gap rows never count a record that is in the log, nor one record twice.
GapsAreReal ==
  pc = "idle" /\ cursor.instance # 0 =>
    LostTold(cursor.instance)
      <= Cardinality({s \in 1 .. cursor.seq : ~IsStored(cursor.instance, s)})

\* Without faults the gap rows count exactly what was pushed out or too large.
GapsAreExact ==
  pc = "idle" /\ cursor.instance # 0 =>
    LostTold(cursor.instance) =
      Cardinality({s \in Passed(cursor.instance) :
                     s \notin Ignored /\ ~IsStored(cursor.instance, s)})

\* The requests KixDNS did not record are counted by gap rows at most once, also when
\* pages with an older count are written after pages with a newer one.
BusyToldOnce == BusyTold(kernel.instance) <= kernel.untracked

\* What a request, under way or abandoned, lets KixDNS delete is in the panel's files,
\* of an ignored domain, or beyond any reply.
MayDelete(i, upto) ==
  i = kernel.instance =>
    \A s \in kernel.low + 1 .. Smaller(upto, kernel.newest) :
      IsStored(i, s) \/ s \in Ignored \/ s \in Oversized

DeletedIsStored ==
  /\ \A k \in 1 .. Len(flight) :
       flight[k].kind = "asked" =>
         MayDelete(flight[k].instance, Smaller(flight[k].stored, flight[k].after))
  /\ MayDelete(stray.instance, stray.seq)

\* "Skips are recorded all the same": the same as NoSilentLoss, asked of rounds that
\* skip a record too large for any reply.
SkipsAreTold == NoSilentLoss

---------------------------------------------------------------------------
(* Fairness: the collector is a task of its own and every request it waits *)
(* for ends within its timeout, so a running panel goes on; systemd starts *)
(* a panel that ended.                                                     *)

Fairness == WF_vars(Collect) /\ WF_vars(Answer) /\ WF_vars(PanelStarts)

FairSpec == Spec /\ Fairness

\* The panel catches up with KixDNS again and again, whatever is too large or pushed
\* out and however often either side starts over: KixDNS records at most MaxSeq
\* numbers per process, so every number of the last process is passed in the end.
CatchesUp ==
  []<>(cursor.instance = kernel.instance /\ cursor.seq >= kernel.newest)
=============================================================================
