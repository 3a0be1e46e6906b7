--------------------------- MODULE QueryLogProofs ---------------------------
(***************************************************************************)
(* No record is written twice and none is deleted in KixDNS before it is   *)
(* in the panel's files, for pages, rings and rounds of any size, any      *)
(* number of processes, records, faults and pages in flight, where KixDNS  *)
(* is not restarted before a first record of it was taken.                 *)
(***************************************************************************)
EXTENDS QueryLogHandoff, FiniteSetTheorems, SequenceTheorems, TLAPS

---------------------------------------------------------------------------
(* The inductive invariant of the order of the log.                        *)

\* A number KixDNS has given, or one of an earlier process.
Reached(c) ==
  /\ c.instance <= kernel.instance
  /\ c.instance = kernel.instance => c.seq <= kernel.newest

\* A cursor KixDNS has reached: without a process it has no number.
Place(c) == Reached(c) /\ (c.instance = 0 => c.seq = 0)

\* Rows in the order they were handed over; a gap may have the number of the row before.
Follows(row, earlier) ==
  /\ UpTo(CursorOf(earlier), CursorOf(row))
  /\ ~IsGap(row) => CursorOf(earlier) # CursorOf(row)
Sorted(rows) == \A j, k \in 1 .. Len(rows) : j < k => Follows(rows[k], rows[j])

\* Rows of processes there were, the first n of them no further than c.
Genuine(rows) == \A k \in 1 .. Len(rows) : rows[k].instance # 0 /\ Reached(CursorOf(rows[k]))
FirstUpTo(rows, n, c) == \A k \in 1 .. n : UpTo(CursorOf(rows[k]), c)

StoreInv ==
  /\ Sorted(log) /\ Genuine(log)
  /\ pc # "down" => FirstUpTo(log, Len(log), cursor)
  /\ cleared <= saved.rows
  /\ FirstUpTo(log, saved.rows, saved.cursor)
  /\ Place(cursor) /\ Place(saved.cursor)

\* The newest number the collector remembers is of a process it can trust: not of the one
\* whose start it waits at while another runs.
NotTrusted(c) ==
  c.seq = 0 /\ c.instance \notin {0, kernel.instance} => mem.newest.instance # c.instance

NewestInv ==
  /\ kernel.low <= kernel.newest
  /\ mem.newest.instance <= kernel.instance /\ mem.newest.count <= MaxSeq
  /\ mem.newest.instance = kernel.instance => mem.newest.count <= kernel.newest
  /\ cursor.instance = 0 => mem.newest.instance = 0
  /\ NotTrusted(cursor)

\* Where the collector is within its round.
PlaceInv ==
  /\ pc \in {"parallel", "walk", "write"} =>
       at.instance = cursor.instance /\ cursor.seq <= at.seq /\ Place(at)
  /\ pc = "parallel" => cursor.instance # 0
  /\ pc = "walk" => at = cursor /\ (round.skipped > 0 => at.instance # 0)
  /\ pc \in {"down", "idle"} => flight = <<>>
  /\ pc = "down" => cursor = NoCursor

\* Pages pushed out whole lie between the cursor and the collector's own.
GoneInv ==
  pc = "parallel" /\ round.gone.found =>
    LET page == round.gone.page
    IN  /\ page.instance \in 1 .. kernel.instance /\ cursor.instance <= page.instance
        /\ page.missed > 0 /\ page.last = round.gone.after + page.missed
        /\ page.instance = kernel.instance => page.last <= kernel.newest
        /\ page.instance = cursor.instance => cursor.seq <= round.gone.after
        /\ page.instance # cursor.instance => cursor.seq = 0 /\ page.instance = kernel.instance

\* The rows being written follow the log and end at the next cursor.
BatchInv ==
  pc \in {"write", "advance"} =>
    /\ batch.next.instance # 0 /\ Reached(batch.next) /\ UpTo(cursor, batch.next)
    /\ Sorted(batch.rows) /\ Genuine(batch.rows)
    /\ \A k \in 1 .. Len(batch.rows) :
         /\ batch.rows[k].instance = batch.next.instance
         /\ batch.rows[k].seq <= batch.next.seq
         /\ pc = "write" =>
              /\ UpTo(cursor, CursorOf(batch.rows[k]))
              /\ ~IsGap(batch.rows[k]) => cursor # CursorOf(batch.rows[k])
    /\ batch.next.instance # cursor.instance =>
         cursor.seq = 0 /\ (cursor.instance = 0 \/ batch.next.instance = kernel.instance)
    /\ flight # <<>> => batch.next.instance = cursor.instance /\ batch.back = "parallel"
    /\ batch.back = "parallel" => ~round.gone.found
    /\ NotTrusted(batch.next)

\* A request starts where there are records; one known to be full names a process that
\* is still the one at the cursor.
AskInv(req) ==
  /\ req.kind = "asked" /\ kernel.instance = cursor.instance => req.after <= kernel.newest
  /\ req.full =>
       /\ req.after + PageSize <= MaxSeq
       /\ kernel.instance = cursor.instance => req.after + PageSize <= kernel.newest
       /\ cursor.seq = 0 => kernel.instance = cursor.instance

\* An answer is of the process at the cursor or of the one that runs, and of the latter
\* while nothing of the former was taken.
PageInv(req, page) ==
  /\ page.instance \in 1 .. kernel.instance /\ cursor.instance <= page.instance
  /\ page.instance = kernel.instance => page.newest <= kernel.newest
  /\ page.instance = cursor.instance => req.after <= page.newest
  /\ req.after <= page.newest => req.after + page.missed <= page.last /\ page.last <= page.newest
  /\ page.instance = kernel.instance \/ (page.instance = cursor.instance /\ cursor.seq > 0)
  /\ req.kind = "large" => req.after + page.missed + 1 <= page.last

Answered(req) == req.kind \in {"page", "large"}

FlightInv ==
  /\ pc = "walk" /\ flight # <<>> =>
       /\ Len(flight) = 1 /\ ~First.full
       /\ First.after = at.seq /\ First.size = round.size
       /\ round.pages < PagesPerTick
  /\ \A k \in 1 .. Len(flight) :
       /\ k < Len(flight) => flight[k].full
       /\ AskInv(flight[k])
       /\ Answered(flight[k]) => PageInv(flight[k], flight[k].page)

OrderInv ==
  TypeOK /\ StoreInv /\ NewestInv /\ PlaceInv /\ GoneInv /\ BatchInv /\ FlightInv

---------------------------------------------------------------------------
(* The inductive invariant of deletion.                                    *)

\* Whatever KixDNS still has up to c is among `rows`, of an ignored domain, or beyond any
\* reply.
CoveredBy(c, process, rows) ==
  c.instance = process.instance =>
    \A s \in process.low + 1 .. c.seq :
      \/ \E k \in 1 .. Len(rows) : rows[k] = Entry(c.instance, s)
      \/ s \in Ignored \/ s \in Oversized
Covered(c) == CoveredBy(c, kernel, log)

\* What the collector passed without writing it is gone.
AtPassed ==
  pc = "parallel" /\ at.instance = kernel.instance => at.seq = cursor.seq \/ at.seq <= kernel.low
GonePassed ==
  pc = "parallel" /\ round.gone.found /\ round.gone.page.instance = kernel.instance =>
    round.gone.page.last <= kernel.low

\* An answer's records begin past what is gone; a large one of one record holds an
\* oversized one.
ReplyPassed(req, page) ==
  /\ page.instance = kernel.instance => page.missed = 0 \/ req.after + page.missed <= kernel.low
  /\ req.kind = "large" /\ req.size = 1 => req.after + page.missed + 1 \in Oversized
RepliesPassed ==
  \A k \in 1 .. Len(flight) : Answered(flight[k]) => ReplyPassed(flight[k], flight[k].page)

\* What is covered by the files: the cursors a restart may find.
FilesCovered ==
  /\ Covered(cursor) /\ Covered(saved.cursor)
  /\ \A k \in 1 .. Len(log) : Covered(CursorOf(log[k]))

\* What will be covered when the rows are written, or a first part of them.
RowsCovered ==
  pc = "write" =>
    /\ CoveredBy(batch.next, kernel, log \o batch.rows)
    /\ \A k \in 1 .. Len(batch.rows) :
         CoveredBy(CursorOf(batch.rows[k]), kernel, log \o SubSeq(batch.rows, 1, k))
NextCovered == pc = "advance" => Covered(batch.next)

\* What requests may delete is covered.
AsksCovered ==
  /\ Reached(stray) /\ Covered(stray)
  /\ \A k \in 1 .. Len(flight) : flight[k].kind = "asked" =>
       Reached(Deletion(flight[k])) /\ Covered(Deletion(flight[k]))

DeletionInv ==
  /\ OrderInv /\ AtPassed /\ GonePassed /\ RepliesPassed
  /\ FilesCovered /\ RowsCovered /\ NextCovered /\ AsksCovered

---------------------------------------------------------------------------
(* Order, and the numbers of a page in order.                              *)

Points == [instance: Nat, seq: Nat]

LEMMA UpToTransitive ==
  ASSUME NEW a, NEW b, NEW c, UpTo(a, b), UpTo(b, c),
         a.instance \in Int, b.instance \in Int, c.instance \in Int,
         a.seq \in Int, b.seq \in Int, c.seq \in Int
  PROVE  UpTo(a, c)
BY DEF UpTo

LEMMA UpToChain ==
  ASSUME NEW a \in Points, NEW b \in Points, NEW c \in Points, UpTo(a, b), UpTo(b, c)
  PROVE  UpTo(a, c)
BY UpToTransitive DEF Points

LEMMA NthOfNumbers ==
  ASSUME NEW numbers, numbers \subseteq Nat, IsFiniteSet(numbers)
  PROVE  /\ Cardinality(numbers) \in Nat
         /\ \A k \in 1 .. Cardinality(numbers) : Nth(numbers, k) \in numbers
         /\ \A j, k \in 1 .. Cardinality(numbers) : j < k => Nth(numbers, j) < Nth(numbers, k)
         /\ \A s \in numbers : \E k \in 1 .. Cardinality(numbers) : Nth(numbers, k) = s
<1> DEFINE n == Cardinality(numbers)
           Below(s) == {t \in numbers : t <= s}
           rank == [s \in numbers |-> Cardinality(Below(s))]
<1>1. n \in Nat
  BY FS_CardinalityType
<1>2. \A s \in numbers : IsFiniteSet(Below(s)) /\ rank[s] \in 1 .. n /\ rank[s] \in Int
  <2> TAKE s \in numbers
  <2>1. IsFiniteSet(Below(s)) /\ Cardinality(Below(s)) <= n
    BY FS_Subset
  <2>2. Cardinality(Below(s)) # 0
    BY <2>1, FS_EmptySet
  <2> QED
    BY <2>1, <2>2, <1>1, FS_CardinalityType
<1>3. \A s, t \in numbers : s < t => rank[s] < rank[t]
  <2> SUFFICES ASSUME NEW s \in numbers, NEW t \in numbers, s < t
               PROVE  rank[s] < rank[t]
    OBVIOUS
  <2>1. Below(s) \subseteq Below(t) /\ t \in Below(t) /\ t \notin Below(s)
    <3>1. s \in Nat /\ t \in Nat /\ \A u \in numbers : u \in Nat
      OBVIOUS
    <3>2. \A u \in numbers : u <= s => u <= t
      BY <3>1
    <3>3. t <= t /\ ~(t <= s)
      BY <3>1
    <3> QED
      BY <3>2, <3>3, Zenon
  <2>2. IsFiniteSet(Below(t)) /\ rank[s] = Cardinality(Below(s)) /\ rank[t] = Cardinality(Below(t))
    BY <1>2
  <2>3. rank[s] <= rank[t] /\ rank[s] # rank[t]
    BY <2>1, <2>2, FS_Subset
  <2>4. rank[s] \in Int /\ rank[t] \in Int
    BY <1>2, <1>1
  <2> QED
    BY <2>3, <2>4
<1>4. \A k \in 1 .. n : \E s \in numbers : rank[s] = k
  <2> SUFFICES ASSUME NEW k \in 1 .. n, \A s \in numbers : rank[s] # k
               PROVE  FALSE
    OBVIOUS
  <2>1. IsFiniteSet(1 .. n) /\ Cardinality(1 .. n) = n
    BY <1>1, FS_Interval
  <2> DEFINE others == (1 .. n) \ {k}
  <2>2. IsFiniteSet(others) /\ Cardinality(others) = n - 1
    <3>1. /\ IsFiniteSet((1 .. n) \ {k})
          /\ Cardinality((1 .. n) \ {k}) =
               IF k \in 1 .. n THEN Cardinality(1 .. n) - 1 ELSE Cardinality(1 .. n)
      BY <2>1, FS_RemoveElement, Zenon
    <3> QED
      BY <3>1, <2>1
  <2>3. rank \in [numbers -> others]
    BY <1>2
  <2> HIDE DEF others, rank
  <2>4. Cardinality(others) < Cardinality(numbers)
    BY <2>2, <1>1
  <2>5. \E s, t \in numbers : s # t /\ rank[s] = rank[t]
    BY <2>2, <2>3, <2>4, FS_PigeonHole
  <2>6. \A s, t \in numbers : s < t \/ t < s \/ s = t
    OBVIOUS
  <2>7. \A s \in numbers : rank[s] \in Int
    BY <1>2
  <2> QED
    BY <2>5, <2>6, <2>7, <1>3
<1>5. \A k \in 1 .. n : Nth(numbers, k) \in numbers /\ rank[Nth(numbers, k)] = k
  <2> TAKE k \in 1 .. n
  <2>1. PICK s \in numbers : Cardinality(Below(s)) = k
    BY <1>4
  <2> QED
    BY <2>1 DEF Nth
<1>6. \A s \in numbers : Nth(numbers, rank[s]) = s
  <2> SUFFICES ASSUME NEW s \in numbers, Nth(numbers, rank[s]) # s PROVE FALSE
    OBVIOUS
  <2> DEFINE t == Nth(numbers, rank[s])
  <2>1. t \in numbers /\ rank[t] = rank[s] /\ rank[s] \in Int
    BY <1>2, <1>5
  <2> HIDE DEF t, rank
  <2>2. t # s
    BY DEF t
  <2>3. t < s \/ s < t
    BY <2>1, <2>2
  <2> QED
    BY <2>1, <2>3, <1>3
<1> HIDE DEF rank
<1>7. \A j, k \in 1 .. n : j < k => Nth(numbers, j) < Nth(numbers, k)
  <2> SUFFICES ASSUME NEW j \in 1 .. n, NEW k \in 1 .. n, j < k
               PROVE  Nth(numbers, j) < Nth(numbers, k)
    OBVIOUS
  <2> DEFINE s == Nth(numbers, j)
             t == Nth(numbers, k)
  <2>1. s \in numbers /\ t \in numbers /\ rank[s] = j /\ rank[t] = k
    BY <1>5
  <2> HIDE DEF s, t
  <2>2. ~(t < s) /\ s # t
    BY <2>1, <1>3, <1>1
  <2>3. s \in Nat /\ t \in Nat
    BY <2>1
  <2>4. s < t
    BY <2>2, <2>3
  <2> QED
    BY <2>4 DEF s, t
<1> QED
  BY <1>1, <1>2, <1>5, <1>6, <1>7

LEMMA Bounds ==
  /\ PageSize \in Nat /\ PageSize >= 1 /\ PipelinePages \in Nat /\ PipelinePages >= 1
  /\ PagesPerTick \in Nat /\ PagesPerTick >= 1 /\ MaxInstance \in Nat /\ MaxInstance >= 1
  /\ MaxSeq \in Nat /\ MaxUntracked \in Nat /\ MaxFaults \in Nat
  /\ RingSize \in Nat /\ RingSize >= 1
<1>1. \A n \in {PageSize, InFlight, PipelinePages, PagesPerTick, RingSize, MaxInstance} :
        n \in Nat /\ n # 0
  BY HandoffAssumption DEF HandoffAssumption
<1>2. \A n \in {MaxSeq, MaxUntracked, MaxFaults} : n \in Nat
  BY HandoffAssumption DEF HandoffAssumption
<1>3. \A n \in Nat : n # 0 => n >= 1
  OBVIOUS
<1> QED
  BY <1>1, <1>2, <1>3

LEMMA SeqsAreNumbers ==
  /\ Seqs = 0 .. MaxSeq + PageSize /\ Instances = 0 .. MaxInstance
  /\ Seqs \subseteq Nat /\ Instances \subseteq Nat /\ 0 \in Seqs /\ 0 \in Instances
  /\ \A n \in Nat : n <= MaxSeq + PageSize => n \in Seqs
  /\ \A n \in Seqs : n <= MaxSeq + PageSize
BY Bounds DEF Seqs, Instances

\* The entries of a page: its numbers but the ignored ones, in order.
LEMMA EntriesOfPage ==
  ASSUME NEW page \in Pages, NEW after \in Seqs
  PROVE  LET rows == EntriesOf(page, after)
         IN  /\ rows \in Seq(Rows)
             /\ \A k \in 1 .. Len(rows) :
                  /\ ~IsGap(rows[k]) /\ rows[k].instance = page.instance
                  /\ rows[k] = Entry(page.instance, rows[k].seq)
                  /\ rows[k].seq \in after + page.missed + 1 .. page.last
             /\ \A j, k \in 1 .. Len(rows) : j < k => rows[j].seq < rows[k].seq
             /\ \A s \in (after + page.missed + 1 .. page.last) \ Ignored :
                  \E k \in 1 .. Len(rows) : rows[k] = Entry(page.instance, s)
<1> DEFINE from == after + page.missed + 1
           taken == (from .. page.last) \ Ignored
           rows == EntriesOf(page, after)
<1>1. /\ page.instance \in Instances /\ page.last \in Seqs /\ from \in Nat
      /\ page.last \in Nat
  BY DEF Pages, Seqs
<1>2. taken \subseteq Nat /\ taken \subseteq Seqs /\ IsFiniteSet(taken)
  <2>1. \A a, b \in Int : IsFiniteSet(a .. b)
    BY FS_Interval
  <2> QED
    <3>1. IsFiniteSet(from .. page.last) /\ from .. page.last \subseteq Seqs /\ Seqs \subseteq Nat
      BY <2>1, <1>1, SeqsAreNumbers, Bounds
    <3> QED
      BY <3>1, FS_Subset
<1> HIDE DEF taken
<1>3. rows = [k \in 1 .. Cardinality(taken) |-> Entry(page.instance, Nth(taken, k))]
  BY DEF EntriesOf, taken
<1> HIDE DEF rows
<1>4. /\ Cardinality(taken) \in Nat
      /\ \A k \in 1 .. Cardinality(taken) : Nth(taken, k) \in taken
      /\ \A j, k \in 1 .. Cardinality(taken) : j < k => Nth(taken, j) < Nth(taken, k)
      /\ \A s \in taken : \E k \in 1 .. Cardinality(taken) : Nth(taken, k) = s
  BY <1>2, NthOfNumbers
<1>5. \A s \in taken : Entry(page.instance, s) \in Rows
  BY <1>1, <1>2 DEF Entry, Rows
<1>6. rows \in Seq(Rows) /\ Len(rows) = Cardinality(taken)
  BY <1>3, <1>4, <1>5
<1>7. \A k \in 1 .. Len(rows) :
        /\ rows[k] = Entry(page.instance, Nth(taken, k)) /\ Nth(taken, k) \in taken
        /\ rows[k].seq = Nth(taken, k)
  BY <1>3, <1>4, <1>6 DEF Entry
<1>8. \A k \in 1 .. Len(rows) : rows[k].seq \in from .. page.last
  BY <1>7 DEF taken
<1>9. \A k \in 1 .. Len(rows) : ~IsGap(rows[k]) /\ rows[k].instance = page.instance
  <2>1. \A i, s : ~IsGap(Entry(i, s)) /\ Entry(i, s).instance = i
    BY DEF Entry, IsGap
  <2> QED
    BY <1>7, <2>1
<1>10. \A s \in taken : \E k \in 1 .. Len(rows) : rows[k] = Entry(page.instance, s)
  BY <1>4, <1>6, <1>7
<1>11. \A j, k \in 1 .. Len(rows) : j < k => rows[j].seq < rows[k].seq
  BY <1>4, <1>6, <1>7
<1> QED
  BY <1>6, <1>7, <1>8, <1>9, <1>10, <1>11 DEF rows, taken

---------------------------------------------------------------------------
(* Rows in order.                                                          *)

LEMMA PointsOfRows ==
  ASSUME NEW row \in Rows
  PROVE  /\ CursorOf(row) \in Points /\ CursorOf(row) \in Cursors
         /\ CursorOf(row).instance = row.instance /\ CursorOf(row).seq = row.seq
         /\ row.instance \in Nat /\ row.seq \in Nat
BY DEF Rows, CursorOf, Points, Cursors, Instances, Seqs

LEMMA CursorsArePoints == Cursors \subseteq Points
BY DEF Cursors, Points, Instances, Seqs

LEMMA UpToBothWays ==
  ASSUME NEW a \in Points, NEW b \in Points, UpTo(a, b), UpTo(b, a)
  PROVE  a = b
<1>1. a.instance = b.instance /\ a.seq = b.seq
  BY DEF UpTo, Points
<1> QED
  BY <1>1 DEF Points

\* Rows further on than c follow rows up to c.
LEMMA FollowsPast ==
  ASSUME NEW row \in Rows, NEW earlier \in Rows, NEW c \in Points,
         UpTo(CursorOf(earlier), c), UpTo(c, CursorOf(row)),
         ~IsGap(row) => c # CursorOf(row)
  PROVE  Follows(row, earlier)
<1> DEFINE a == CursorOf(earlier)
           b == CursorOf(row)
<1>1. a \in Points /\ b \in Points
  BY PointsOfRows
<1> HIDE DEF a, b
<1>2. UpTo(a, c) /\ UpTo(c, b)
  BY DEF a, b
<1>3. UpTo(a, b)
  BY <1>1, <1>2, UpToTransitive DEF Points
<1>4. a = b => c = b
  BY <1>1, <1>2, UpToBothWays
<1> QED
  BY <1>3, <1>4 DEF Follows, a, b

LEMMA ConcatRows ==
  ASSUME NEW a \in Seq(Rows), NEW b \in Seq(Rows)
  PROVE  /\ a \o b \in Seq(Rows) /\ Len(a \o b) = Len(a) + Len(b)
         /\ Len(a) \in Nat /\ Len(b) \in Nat
         /\ \A k \in 1 .. Len(a) : (a \o b)[k] = a[k] /\ a[k] \in Rows
         /\ \A k \in 1 .. Len(b) : (a \o b)[Len(a) + k] = b[k] /\ b[k] \in Rows
         /\ \A k \in 1 .. Len(a \o b) :
              k \in 1 .. Len(a) \/ \E n \in 1 .. Len(b) : k = Len(a) + n
<1>1. /\ a \o b \in Seq(Rows) /\ Len(a \o b) = Len(a) + Len(b)
      /\ \A k \in 1 .. Len(a) + Len(b) :
           (a \o b)[k] = IF k <= Len(a) THEN a[k] ELSE b[k - Len(a)]
  BY ConcatProperties
<1>2. Len(a) \in Nat /\ Len(b) \in Nat
  OBVIOUS
<1>3. \A k \in 1 .. Len(a) : (a \o b)[k] = a[k] /\ a[k] \in Rows
  BY <1>1, <1>2
<1>4. \A k \in 1 .. Len(b) : (a \o b)[Len(a) + k] = b[k] /\ b[k] \in Rows
  <2> TAKE k \in 1 .. Len(b)
  <2>1. Len(a) + k \in 1 .. Len(a) + Len(b) /\ ~(Len(a) + k <= Len(a)) /\ Len(a) + k - Len(a) = k
    BY <1>2
  <2> QED
    BY <1>1, <2>1
<1>5. \A k \in 1 .. Len(a \o b) :
        k \in 1 .. Len(a) \/ \E n \in 1 .. Len(b) : k = Len(a) + n
  <2> TAKE k \in 1 .. Len(a \o b)
  <2>1. CASE k <= Len(a)
    BY <2>1, <1>1, <1>2
  <2>2. CASE ~(k <= Len(a))
    <3>1. k - Len(a) \in 1 .. Len(b) /\ k = Len(a) + (k - Len(a))
      BY <2>2, <1>1, <1>2
    <3> QED
      BY <3>1
  <2> QED
    BY <2>1, <2>2
<1> QED
  BY <1>1, <1>2, <1>3, <1>4, <1>5

LEMMA SortedConcat ==
  ASSUME NEW a \in Seq(Rows), NEW b \in Seq(Rows), NEW c \in Points,
         Sorted(a), Sorted(b), FirstUpTo(a, Len(a), c),
         \A k \in 1 .. Len(b) : /\ UpTo(c, CursorOf(b[k]))
                                /\ ~IsGap(b[k]) => c # CursorOf(b[k])
  PROVE  Sorted(a \o b)
<1> DEFINE r == a \o b
<1> SUFFICES ASSUME NEW j \in 1 .. Len(r), NEW k \in 1 .. Len(r), j < k
             PROVE  Follows(r[k], r[j])
  BY DEF Sorted
<1>1. CASE j \in 1 .. Len(a) /\ k \in 1 .. Len(a)
  BY <1>1, ConcatRows DEF Sorted
<1>2. CASE j \in 1 .. Len(a) /\ \E n \in 1 .. Len(b) : k = Len(a) + n
  <2>1. PICK n \in 1 .. Len(b) : k = Len(a) + n
    BY <1>2
  <2>2. r[j] = a[j] /\ a[j] \in Rows /\ r[k] = b[n] /\ b[n] \in Rows
    BY <1>2, <2>1, ConcatRows
  <2>3. /\ UpTo(CursorOf(a[j]), c) /\ UpTo(c, CursorOf(b[n]))
        /\ ~IsGap(b[n]) => c # CursorOf(b[n])
    BY <1>2 DEF FirstUpTo
  <2> QED
    BY <2>2, <2>3, FollowsPast
<1>3. CASE \E m, n \in 1 .. Len(b) : j = Len(a) + m /\ k = Len(a) + n
  <2>1. PICK m \in 1 .. Len(b), n \in 1 .. Len(b) : j = Len(a) + m /\ k = Len(a) + n
    BY <1>3
  <2>2. r[j] = b[m] /\ r[k] = b[n]
    BY <2>1, ConcatRows
  <2>3. m < n
    BY <2>1, ConcatRows
  <2> QED
    BY <2>2, <2>3 DEF Sorted
<1>4. ~(k \in 1 .. Len(a) /\ \E m \in 1 .. Len(b) : j = Len(a) + m)
  BY ConcatRows
<1>5. \A i \in 1 .. Len(r) : i \in 1 .. Len(a) \/ \E n \in 1 .. Len(b) : i = Len(a) + n
  BY ConcatRows
<1> QED
  BY <1>1, <1>2, <1>3, <1>4, <1>5, Zenon

\* What holds of every row of both holds of every row of their concatenation.
LEMMA GenuineConcat ==
  ASSUME NEW a \in Seq(Rows), NEW b \in Seq(Rows), Genuine(a), Genuine(b)
  PROVE  Genuine(a \o b)
<1> DEFINE r == a \o b
<1> SUFFICES ASSUME NEW k \in 1 .. Len(r)
             PROVE  r[k].instance # 0 /\ Reached(CursorOf(r[k]))
  BY DEF Genuine
<1>1. CASE k \in 1 .. Len(a)
  BY <1>1, ConcatRows DEF Genuine
<1>2. CASE \E n \in 1 .. Len(b) : k = Len(a) + n
  BY <1>2, ConcatRows DEF Genuine
<1> QED
  BY <1>1, <1>2, ConcatRows

LEMMA FirstUpToConcat ==
  ASSUME NEW a \in Seq(Rows), NEW b \in Seq(Rows), NEW c \in Points, NEW d \in Points,
         FirstUpTo(a, Len(a), c), UpTo(c, d), FirstUpTo(b, Len(b), d)
  PROVE  FirstUpTo(a \o b, Len(a \o b), d)
<1> DEFINE r == a \o b
<1> SUFFICES ASSUME NEW k \in 1 .. Len(r)
             PROVE  UpTo(CursorOf(r[k]), d)
  BY DEF FirstUpTo
<1>1. CASE k \in 1 .. Len(a)
  <2>1. r[k] = a[k] /\ a[k] \in Rows /\ UpTo(CursorOf(a[k]), c)
    BY <1>1, ConcatRows DEF FirstUpTo
  <2>2. CursorOf(a[k]) \in Points
    BY <2>1, PointsOfRows
  <2> DEFINE x == CursorOf(a[k])
  <2>3. x \in Points /\ UpTo(x, c)
    BY <2>1, <2>2
  <2> HIDE DEF x
  <2>4. UpTo(x, d)
    BY <2>3, UpToChain
  <2> QED
    BY <2>1, <2>4 DEF x
<1>2. CASE \E n \in 1 .. Len(b) : k = Len(a) + n
  BY <1>2, ConcatRows DEF FirstUpTo
<1> QED
  BY <1>1, <1>2, ConcatRows

\* The first rows of a batch.
LEMMA FirstRows ==
  ASSUME NEW rows \in Seq(Rows), NEW n \in 0 .. Len(rows)
  PROVE  LET part == SubSeq(rows, 1, n)
         IN  /\ part \in Seq(Rows) /\ Len(part) = n
             /\ \A k \in 1 .. n : part[k] = rows[k] /\ k \in 1 .. Len(rows)
             /\ Sorted(rows) => Sorted(part)
             /\ Genuine(rows) => Genuine(part)
<1> DEFINE part == SubSeq(rows, 1, n)
<1>1. Len(rows) \in Nat
  OBVIOUS
<1>2. part \in Seq(Rows) /\ Len(part) = n /\ \A k \in 1 .. n : part[k] = rows[k]
  BY <1>1, SubSeqProperties
<1> HIDE DEF part
<1>3. \A k \in 1 .. n : k \in 1 .. Len(rows)
  BY <1>1
<1>4. Sorted(rows) => Sorted(part)
  BY <1>2, <1>3 DEF Sorted
<1>5. Genuine(rows) => Genuine(part)
  BY <1>2, <1>3 DEF Genuine
<1> QED
  BY <1>2, <1>3, <1>4, <1>5 DEF part

\* The last row of a log in order is the furthest.
LEMMA LastIsFurthest ==
  ASSUME NEW rows \in Seq(Rows), Sorted(rows), rows # <<>>
  PROVE  /\ Len(rows) \in 1 .. Len(rows) /\ rows[Len(rows)] \in Rows
         /\ FirstUpTo(rows, Len(rows), CursorOf(rows[Len(rows)]))
<1>1. Len(rows) \in Nat /\ Len(rows) >= 1 /\ \A k \in 1 .. Len(rows) : rows[k] \in Rows
  OBVIOUS
<1>2. \A k \in 1 .. Len(rows) : k < Len(rows) \/ k = Len(rows)
  BY <1>1
<1>3. \A k \in 1 .. Len(rows) : k < Len(rows) => UpTo(CursorOf(rows[k]), CursorOf(rows[Len(rows)]))
  BY <1>1 DEF Sorted, Follows
<1>4. UpTo(CursorOf(rows[Len(rows)]), CursorOf(rows[Len(rows)]))
  BY <1>1, PointsOfRows DEF UpTo
<1> QED
  BY <1>1, <1>2, <1>3, <1>4 DEF FirstUpTo

---------------------------------------------------------------------------
(* The types of the variables, one by one.                                 *)

KernelType == [instance: Instances \ {0}, newest: 0 .. MaxSeq, low: 0 .. MaxSeq,
               untracked: 0 .. MaxUntracked]
MemType    == [newest: Counts, counted: Counts]
GoneType   == [found: BOOLEAN, page: Pages, after: Seqs, earlier: Nat]
RoundType  == [asked: 0 .. PipelinePages, caught: BOOLEAN, gone: GoneType,
               size: 1 .. PageSize, pages: 0 .. PagesPerTick, skipped: Nat,
               counts: BOOLEAN, more: BOOLEAN]
BatchType  == [rows: Seq(Rows), next: Cursors, counted: Counts,
               back: {"idle", "parallel", "walk"}]
Pcs        == {"down", "idle", "parallel", "walk", "write", "advance"}

KernelTyped  == kernel \in KernelType /\ flight \in Seq(Requests) /\ stray \in Cursors
CollectTyped == pc \in Pcs /\ at \in Cursors /\ mem \in MemType /\ round \in RoundType
                /\ batch \in BatchType
StoreTyped   == /\ cursor \in Cursors /\ log \in Seq(Rows) /\ cleared \in 0 .. Len(log)
                /\ saved \in [rows: 0 .. Len(log), cursor: Cursors]
                /\ since \in [1 .. MaxInstance -> Seqs] /\ faults \in 0 .. MaxFaults

LEMMA TypeParts == TypeOK <=> KernelTyped /\ CollectTyped /\ StoreTyped
BY DEF TypeOK, KernelTyped, CollectTyped, StoreTyped, KernelType, MemType, GoneType, RoundType,
       BatchType, Pcs

LEMMA TypePartsAfter == TypeOK' <=> KernelTyped' /\ CollectTyped' /\ StoreTyped'
BY DEF TypeOK, KernelTyped, CollectTyped, StoreTyped, KernelType, MemType, GoneType, RoundType,
       BatchType, Pcs

LEMMA FixedRecords ==
  /\ NoCursor \in Cursors /\ NoCount \in Counts /\ NoPage \in Pages /\ NoGone \in GoneType
  /\ NoBatch \in BatchType /\ Fresh \in MemType /\ NewRound \in RoundType
<1>1. NoCursor \in Cursors /\ NoCount \in Counts /\ NoPage \in Pages
  BY SeqsAreNumbers, Bounds DEF NoCursor, Cursors, NoCount, Counts, NoPage, Pages
<1>2. NoGone \in GoneType
  BY <1>1, SeqsAreNumbers DEF NoGone, GoneType
<1>3. NoBatch \in BatchType /\ Fresh \in MemType
  BY <1>1 DEF NoBatch, BatchType, Fresh, MemType
<1>4. NewRound \in RoundType
  BY <1>2, Bounds DEF NewRound, RoundType
<1> QED
  BY <1>1, <1>2, <1>3, <1>4

---------------------------------------------------------------------------
(* The page KixDNS builds.                                                 *)

LEMMA PageBuilt ==
  ASSUME kernel \in KernelType, NEW req \in Requests, NEW low \in 0 .. kernel.newest,
         NEW limited \in BOOLEAN
  PROVE  LET page == PageOf(req, low, limited)
         IN  /\ page \in Pages
             /\ page.instance = kernel.instance /\ page.newest = kernel.newest
             /\ req.after <= page.newest =>
                  req.after + page.missed <= page.last /\ page.last <= page.newest
             /\ page.missed = 0 \/ req.after + page.missed <= low
             /\ page.last <= req.after + page.missed + req.size
<1> DEFINE a == req.after
           z == req.size
           n == kernel.newest
           end == IF limited THEN a + z ELSE n + a
           from == Smaller(Larger(low, a), end)
           last == Larger(from, Smaller(Smaller(n, from + z), end))
           page == PageOf(req, low, limited)
<1>1. /\ a \in Nat /\ a <= MaxSeq + PageSize /\ z \in Nat /\ z >= 1
      /\ n \in Nat /\ n <= MaxSeq /\ low \in Nat /\ low <= n
      /\ MaxSeq \in Nat /\ PageSize \in Nat
  BY Bounds, SeqsAreNumbers DEF Requests, KernelType
<1>2. /\ kernel.instance \in Instances /\ kernel.untracked \in 0 .. MaxUntracked
      /\ kernel.newest \in 0 .. MaxSeq
  BY DEF KernelType
<1>3. page = [instance |-> kernel.instance, newest |-> n, missed |-> from - a,
              untracked |-> kernel.untracked, last |-> last]
  BY DEF PageOf
<1> HIDE DEF page, a, z, n
<1>4. end \in Nat /\ a <= end /\ (limited => end = a + z) /\ (~limited => end = n + a)
  BY <1>1
<1> HIDE DEF end
<1>5. /\ from \in Nat /\ a <= from /\ (from = a \/ from <= low)
      /\ from <= MaxSeq + PageSize
  <2> DEFINE higher == Larger(low, a)
  <2>1. higher \in Nat /\ (higher = a \/ higher = low) /\ a <= higher
    BY <1>1 DEF Larger
  <2> HIDE DEF higher
  <2>2. from = Smaller(higher, end)
    BY DEF higher
  <2>3. from = higher \/ (from = end /\ end < higher)
    BY <2>1, <2>2, <1>4 DEF Smaller
  <2> HIDE DEF from
  <2> QED
    BY <1>1, <1>4, <2>1, <2>3
<1>6. from <= low => from <= n
  BY <1>1, <1>5
<1>7. a <= n => from <= n
  BY <1>5, <1>6, <1>1
<1> HIDE DEF from
<1>8. /\ last \in Nat /\ from <= last /\ last <= from + z
      /\ last <= MaxSeq + PageSize /\ (from <= n => last <= n)
  <2> DEFINE upper == Smaller(Smaller(n, from + z), end)
  <2>1. upper \in Nat /\ upper <= n /\ upper <= from + z
    BY <1>1, <1>4, <1>5 DEF Smaller
  <2> HIDE DEF upper
  <2>2. last = Larger(from, upper)
    BY DEF upper
  <2>3. (last = from) \/ (last = upper /\ from < upper)
    BY <2>1, <2>2, <1>5 DEF Larger
  <2>4. last = from \/ last = upper
    BY <2>3
  <2>5. from <= last
    BY <2>1, <2>2, <1>5 DEF Larger
  <2> HIDE DEF last
  <2> QED
    BY <1>1, <1>5, <2>1, <2>4, <2>5
<1> HIDE DEF last
<1>9. from - a \in Seqs /\ last \in Seqs
  <2>1. from - a \in Nat /\ from - a <= MaxSeq + PageSize
    BY <1>1, <1>5
  <2> QED
    BY <2>1, <1>8, SeqsAreNumbers
<1>10. page \in Pages
  BY <1>2, <1>3, <1>9 DEF Pages, n
<1>11. /\ page.instance = kernel.instance /\ page.newest = n /\ page.missed = from - a
       /\ page.last = last
  BY <1>3
<1>12. a + (from - a) = from
  BY <1>1, <1>5
<1>13. (from - a = 0 <=> from = a)
  BY <1>1, <1>5
<1> QED
  BY <1>5, <1>7, <1>8, <1>10, <1>11, <1>12, <1>13 DEF page, a, z, n

---------------------------------------------------------------------------
(* The rows of a page that is taken.                                       *)

\* What lets a page be taken after the number `after`.
Takeable(page, after) ==
  /\ page.instance \in 1 .. kernel.instance /\ cursor.instance <= page.instance
  /\ after + page.missed <= page.last
  /\ page.instance = kernel.instance => page.last <= kernel.newest
  /\ page.instance = cursor.instance => cursor.seq <= after
  /\ page.instance # cursor.instance => cursor.seq = 0 /\ page.instance = kernel.instance

\* What is written of it lies between the cursor and the next one.
Between(rows, next) ==
  \A k \in 1 .. Len(rows) :
    /\ rows[k].instance = next.instance /\ rows[k].seq <= next.seq
    /\ UpTo(cursor, CursorOf(rows[k]))
    /\ ~IsGap(rows[k]) => cursor # CursorOf(rows[k])

\* They hold every number of the page past `from`, and each first part of them those up
\* to its end.
InFull(rows, page, from) ==
  /\ \A s \in (from + 1 .. page.last) \ Ignored :
       \E k \in 1 .. Len(rows) : rows[k] = Entry(page.instance, s)
  /\ \A k \in 1 .. Len(rows) :
       \/ rows[k].seq <= from
       \/ /\ rows[k].seq <= page.last
          /\ \A s \in (from + 1 .. rows[k].seq) \ Ignored :
               \E n \in 1 .. k : rows[n] = Entry(page.instance, s)

LEMMA GapRow ==
  ASSUME NEW i, NEW s, NEW lost \in Nat, NEW busy \in Nat
  PROVE  /\ Gap(i, s, lost, busy).instance = i /\ Gap(i, s, lost, busy).seq = s
         /\ IsGap(Gap(i, s, lost, busy)) <=> lost + busy > 0
         /\ i \in Instances /\ s \in Seqs => Gap(i, s, lost, busy) \in Rows
BY DEF Gap, IsGap, Rows

LEMMA Beyond ==
  ASSUME NEW a \in Nat, NEW b \in Nat, NEW c \in Nat, NEW d \in Nat, b <= c,
         NEW s \in a + c + 1 .. d
  PROVE  a + b < s
OBVIOUS

LEMMA AllRows ==
  ASSUME NEW rows \in Seq(Rows)
  PROVE  SubSeq(rows, 1, Len(rows)) = rows
OBVIOUS

\* A sequence of one row, and one followed by none.
LEMMA OneRow ==
  ASSUME NEW row \in Rows
  PROVE  /\ <<row>> \in Seq(Rows) /\ Len(<<row>>) = 1
         /\ \A k \in 1 .. Len(<<row>>) : k = 1 /\ <<row>>[k] = row /\ SubSeq(<<row>>, 1, k) = <<row>>
<1>1. <<row>> \in Seq(Rows) /\ Len(<<row>>) = 1 /\ <<row>>[1] = row
  OBVIOUS
<1>2. \A k \in 1 .. 1 : k = 1
  OBVIOUS
<1>3. SubSeq(<<row>>, 1, 1) = <<row>>
  BY <1>1, AllRows
<1> QED
  BY <1>1, <1>2, <1>3

LEMMA NoMoreRows ==
  ASSUME NEW a \in Seq(Rows), NEW b \in Seq(Rows)
  PROVE  a \o SubSeq(b, 1, 0) = a
<1>1. SubSeq(b, 1, 0) = <<>>
  OBVIOUS
<1> QED
  BY <1>1

\* A place in two sequences put together is one in the first or in the second.
LEMMA PlaceOfTwo ==
  ASSUME NEW m \in Nat, NEW n \in Nat, NEW k \in 1 .. m + n
  PROVE  k \in 1 .. m \/ \E j \in 1 .. n : k = m + j
<1>1. CASE k <= m
  BY <1>1
<1>2. CASE k > m
  <2>1. k - m \in 1 .. n /\ k = m + (k - m)
    BY <1>2
  <2> QED
    BY <2>1
<1> QED
  BY <1>1, <1>2

LEMMA BatchOfPage ==
  ASSUME TypeOK, NEW page \in Pages, NEW c \in Cursors, NEW after \in Seqs,
         NEW oversized \in Nat, NEW back \in {"idle", "parallel", "walk"},
         Takeable(page, after)
  PROVE  LET b == BatchOf(page, c, after, oversized, back)
         IN  /\ b \in BatchType /\ b.back = back
             /\ b.next.instance = page.instance /\ b.next.seq = page.last
             /\ b.next \in Cursors /\ b.next.instance # 0 /\ Reached(b.next) /\ UpTo(cursor, b.next)
             /\ b.rows \in Seq(Rows) /\ Sorted(b.rows) /\ Genuine(b.rows)
             /\ Between(b.rows, b.next) /\ InFull(b.rows, page, after + page.missed)
<1> DEFINE missed == IF c.instance = page.instance THEN page.missed ELSE 0
           busy == Larger(0, page.untracked - BaseOf(page))
           row == Gap(page.instance, after + missed, missed + oversized, busy)
           gap == IF missed + busy + oversized > 0 THEN <<row>> ELSE <<>>
           entries == EntriesOf(page, after)
           rows == gap \o entries
           b == BatchOf(page, c, after, oversized, back)
<1>1. /\ page.instance \in Instances /\ page.instance \in Nat /\ page.missed \in Nat
      /\ page.last \in Seqs /\ page.last \in Nat /\ after \in Nat
      /\ page.untracked \in Nat /\ after + page.missed <= page.last /\ page.instance # 0
      /\ page.last <= MaxSeq + PageSize
  BY SeqsAreNumbers DEF Pages, Takeable
<1>2. BaseOf(page) \in Nat
  BY <1>1 DEF TypeOK, Counts, BaseOf
<1>3. missed \in Nat /\ missed <= page.missed /\ busy \in Nat
  BY <1>1, <1>2 DEF Larger
<1> HIDE DEF missed
<1>4. after + missed \in Seqs
  <2>1. after + missed \in Nat /\ after + missed <= MaxSeq + PageSize
    BY <1>1, <1>3, Bounds
  <2> QED
    BY <2>1, SeqsAreNumbers
<1>5. /\ row \in Rows /\ row.instance = page.instance /\ row.seq = after + missed
      /\ missed + busy + oversized > 0 => IsGap(row)
  <2>1. missed + oversized \in Nat /\ busy \in Nat
        /\ (missed + busy + oversized > 0 => missed + oversized + busy > 0)
    BY <1>3
  <2> HIDE DEF busy
  <2> DEFINE lost == missed + oversized
             from == after + missed
  <2>2. page.instance \in Instances /\ from \in Seqs
    BY <1>1, <1>4
  <2> HIDE DEF from, lost
  <2>3. /\ Gap(page.instance, from, lost, busy) \in Rows
        /\ Gap(page.instance, from, lost, busy).instance = page.instance
        /\ Gap(page.instance, from, lost, busy).seq = from
        /\ IsGap(Gap(page.instance, from, lost, busy)) <=> lost + busy > 0
    BY <2>1, <2>2, GapRow DEF lost
  <2> QED
    BY <2>1, <2>3 DEF from, lost
<1> HIDE DEF busy, row
<1>6. /\ gap \in Seq(Rows) /\ Len(gap) \in 0 .. 1
      /\ \A k \in 1 .. Len(gap) : gap[k] = row /\ IsGap(row)
  BY <1>5
<1>7. /\ entries \in Seq(Rows)
      /\ \A k \in 1 .. Len(entries) :
           /\ ~IsGap(entries[k]) /\ entries[k].instance = page.instance
           /\ entries[k] = Entry(page.instance, entries[k].seq)
           /\ entries[k].seq \in after + page.missed + 1 .. page.last
      /\ \A j, k \in 1 .. Len(entries) : j < k => entries[j].seq < entries[k].seq
      /\ \A s \in (after + page.missed + 1 .. page.last) \ Ignored :
           \E k \in 1 .. Len(entries) : entries[k] = Entry(page.instance, s)
  BY EntriesOfPage
<1> HIDE DEF gap, entries
<1>8. /\ rows \in Seq(Rows) /\ Len(rows) = Len(gap) + Len(entries)
      /\ Len(gap) \in Nat /\ Len(entries) \in Nat
      /\ \A k \in 1 .. Len(gap) : rows[k] = gap[k] /\ gap[k] \in Rows
      /\ \A k \in 1 .. Len(entries) : rows[Len(gap) + k] = entries[k] /\ entries[k] \in Rows
      /\ \A k \in 1 .. Len(rows) :
           k \in 1 .. Len(gap) \/ \E n \in 1 .. Len(entries) : k = Len(gap) + n
  BY <1>6, <1>7, ConcatRows
<1> HIDE DEF rows
<1>9. \A k \in 1 .. Len(rows) :
        /\ rows[k] \in Rows /\ rows[k].instance = page.instance
        /\ after <= rows[k].seq /\ rows[k].seq <= page.last
        /\ ~IsGap(rows[k]) => after < rows[k].seq
  <2> TAKE k \in 1 .. Len(rows)
  <2>1. CASE k \in 1 .. Len(gap)
    <3>1. rows[k] = row /\ rows[k] \in Rows /\ IsGap(rows[k])
      BY <2>1, <1>6, <1>8
    <3> QED
      BY <3>1, <1>1, <1>3, <1>5
  <2>2. CASE \E n \in 1 .. Len(entries) : k = Len(gap) + n
    <3>1. PICK n \in 1 .. Len(entries) : k = Len(gap) + n
      BY <2>2
    <3>2. rows[k] = entries[n] /\ rows[k] \in Rows
      BY <3>1, <1>8
    <3>3. /\ entries[n].instance = page.instance
          /\ entries[n].seq \in after + page.missed + 1 .. page.last
      BY <1>7
    <3> HIDE DEF entries
    <3> QED
      BY <3>2, <3>3, <1>1
  <2> QED
    BY <2>1, <2>2, <1>8
<1>10. Sorted(rows)
  <2> SUFFICES ASSUME NEW j \in 1 .. Len(rows), NEW k \in 1 .. Len(rows), j < k
               PROVE  Follows(rows[k], rows[j])
    BY DEF Sorted
  <2>1. PICK n \in 1 .. Len(entries) : k = Len(gap) + n
    <3>1. k \notin 1 .. Len(gap)
      BY <1>6
    <3> QED
      BY <3>1, <1>8
  <2>2. rows[k] = entries[n] /\ rows[k].instance = page.instance /\ rows[k] \in Rows
    BY <2>1, <1>7, <1>8
  <2>3. rows[j].instance = page.instance /\ rows[j].seq < rows[k].seq /\ rows[j] \in Rows
    <3>1. CASE j \in 1 .. Len(gap)
      <4>1. rows[j] = row /\ rows[j] \in Rows
        BY <3>1, <1>6, <1>8
      <4>2. entries[n].seq \in after + page.missed + 1 .. page.last
        BY <1>7
      <4>3. after + missed < entries[n].seq
        <5>1. /\ after \in Nat /\ missed \in Nat /\ page.missed \in Nat /\ page.last \in Nat
              /\ missed <= page.missed
          BY <1>1, <1>3
        <5> QED
          BY <4>2, <5>1, Beyond
      <4> QED
        BY <4>1, <4>3, <2>2, <1>5
    <3>2. CASE \E m \in 1 .. Len(entries) : j = Len(gap) + m
      <4>1. PICK m \in 1 .. Len(entries) : j = Len(gap) + m
        BY <3>2
      <4>2. m < n
        BY <4>1, <2>1, <1>8
      <4> QED
        BY <4>1, <4>2, <2>2, <1>7, <1>8
    <3> QED
      BY <3>1, <3>2, <1>8
  <2> QED
    BY <2>2, <2>3, PointsOfRows DEF Follows, UpTo
<1>11. /\ b = [rows |-> rows, next |-> [instance |-> page.instance, seq |-> page.last],
               counted |-> [instance |-> page.instance, count |-> Larger(page.untracked, BaseOf(page))],
               back |-> back]
  BY DEF BatchOf, rows, gap, entries, row, missed, busy
<1> HIDE DEF b
<1>12. /\ b.rows = rows /\ b.next.instance = page.instance /\ b.next.seq = page.last /\ b.back = back
       /\ b.next \in Cursors
  BY <1>1, <1>11 DEF Cursors
<1>13. b \in BatchType
  <2>1. Larger(page.untracked, BaseOf(page)) \in Nat
    BY <1>1, <1>2 DEF Larger
  <2>2. [instance |-> page.instance, count |-> Larger(page.untracked, BaseOf(page))] \in Counts
    BY <1>1, <2>1 DEF Counts
  <2> QED
    BY <1>8, <1>11, <1>12, <2>2 DEF BatchType
<1>14. Reached(b.next) /\ UpTo(cursor, b.next)
  <2>1. cursor.instance \in Nat /\ cursor.seq \in Nat
    BY SeqsAreNumbers DEF TypeOK, Cursors
  <2>2. kernel.instance \in Nat /\ kernel.newest \in Nat
    BY SeqsAreNumbers DEF TypeOK
  <2> QED
    BY <1>1, <1>12, <2>1, <2>2 DEF Takeable, Reached, UpTo
<1>15. Genuine(rows)
  <2> SUFFICES ASSUME NEW k \in 1 .. Len(rows)
               PROVE  rows[k].instance # 0 /\ Reached(CursorOf(rows[k]))
    BY DEF Genuine
  <2>1. CursorOf(rows[k]).instance = page.instance /\ CursorOf(rows[k]).seq <= page.last
        /\ CursorOf(rows[k]).seq \in Nat
    BY <1>9, PointsOfRows
  <2>2. kernel.newest \in Nat /\ kernel.instance \in Nat
    BY SeqsAreNumbers DEF TypeOK
  <2> QED
    BY <1>1, <1>9, <2>1, <2>2 DEF Takeable, Reached
<1>16. Between(rows, b.next)
  <2> SUFFICES ASSUME NEW k \in 1 .. Len(rows)
               PROVE  /\ UpTo(cursor, CursorOf(rows[k]))
                      /\ ~IsGap(rows[k]) => cursor # CursorOf(rows[k])
    BY <1>9, <1>12 DEF Between
  <2>1. /\ CursorOf(rows[k]).instance = page.instance /\ CursorOf(rows[k]).seq = rows[k].seq
        /\ rows[k].seq \in Nat /\ after <= rows[k].seq
        /\ ~IsGap(rows[k]) => after < rows[k].seq
    BY <1>9, PointsOfRows
  <2>2. cursor.instance \in Nat /\ cursor.seq \in Nat
    BY SeqsAreNumbers DEF TypeOK, Cursors
  <2> QED
    BY <1>1, <2>1, <2>2 DEF Takeable, UpTo
<1>17. \A s \in (after + page.missed + 1 .. page.last) \ Ignored :
         \E k \in 1 .. Len(rows) : rows[k] = Entry(page.instance, s)
  <2> TAKE s \in (after + page.missed + 1 .. page.last) \ Ignored
  <2>1. PICK k \in 1 .. Len(entries) : entries[k] = Entry(page.instance, s)
    BY <1>7
  <2>2. Len(gap) + k \in 1 .. Len(rows)
    BY <1>8
  <2> QED
    BY <2>1, <2>2, <1>8
<1>18. \A k \in 1 .. Len(rows) :
         \/ rows[k].seq <= after + page.missed
         \/ /\ rows[k].seq <= page.last
            /\ \A s \in (after + page.missed + 1 .. rows[k].seq) \ Ignored :
                 \E n \in 1 .. k : rows[n] = Entry(page.instance, s)
  <2> SUFFICES ASSUME NEW k \in 1 .. Len(rows), ~(rows[k].seq <= after + page.missed),
                      NEW s \in (after + page.missed + 1 .. rows[k].seq) \ Ignored
               PROVE  \E n \in 1 .. k : rows[n] = Entry(page.instance, s)
    BY <1>9
  <2>1. s \in (after + page.missed + 1 .. page.last) \ Ignored
    BY <1>1, <1>9, PointsOfRows
  <2>2. PICK n \in 1 .. Len(rows) : rows[n] = Entry(page.instance, s)
    BY <2>1, <1>17
  <2>3. rows[n].seq = s /\ rows[n].seq <= rows[k].seq
    BY <2>2 DEF Entry
  <2>4. ~(k < n)
    <3> SUFFICES ASSUME k < n PROVE FALSE
      OBVIOUS
    <3>1. Follows(rows[n], rows[k]) /\ ~IsGap(rows[n])
      BY <1>10, <2>2 DEF Sorted, Entry, IsGap
    <3>2. rows[n] \in Rows /\ rows[k] \in Rows /\ rows[n].instance = rows[k].instance
      BY <1>9
    <3> QED
      BY <3>1, <3>2, <2>3, PointsOfRows DEF Follows, UpTo, CursorOf
  <2> QED
    BY <2>2, <2>4, <1>8
<1>19. InFull(rows, page, after + page.missed)
  BY <1>17, <1>18 DEF InFull
<1> QED
  BY <1>8, <1>10, <1>12, <1>13, <1>14, <1>15, <1>16, <1>19, <1>1 DEF b

---------------------------------------------------------------------------
(* KixDNS moves on.                                                        *)

LEMMA PointFacts ==
  ASSUME NEW c \in Cursors
  PROVE  c.instance \in Nat /\ c.seq \in Nat /\ c.instance \in Instances /\ c.seq \in Seqs
         /\ c.instance <= MaxInstance /\ c.seq <= MaxSeq + PageSize /\ c \in Points
         /\ c = [instance |-> c.instance, seq |-> c.seq]
<1>1. c.instance \in Instances /\ c.seq \in Seqs /\ c = [instance |-> c.instance, seq |-> c.seq]
  BY DEF Cursors
<1>2. c \in Points
  BY CursorsArePoints
<1>3. c.instance \in 0 .. MaxInstance /\ c.seq \in 0 .. MaxSeq + PageSize
  BY <1>1, SeqsAreNumbers
<1> QED
  BY <1>1, <1>2, <1>3, Bounds

LEMMA KernelFacts ==
  ASSUME kernel \in KernelType
  PROVE  /\ kernel.instance \in Nat /\ kernel.instance >= 1 /\ kernel.instance <= MaxInstance
         /\ kernel.newest \in Nat /\ kernel.newest <= MaxSeq
         /\ kernel.low \in Nat /\ kernel.low <= MaxSeq
         /\ kernel.untracked \in 0 .. MaxUntracked
<1>1. /\ kernel.instance \in (0 .. MaxInstance) \ {0} /\ kernel.newest \in 0 .. MaxSeq
      /\ kernel.low \in 0 .. MaxSeq /\ kernel.untracked \in 0 .. MaxUntracked
  BY SeqsAreNumbers DEF KernelType
<1> QED
  BY <1>1, Bounds

LEMMA RequestFacts ==
  ASSUME NEW req \in Requests
  PROVE  /\ req.after \in Seqs /\ req.after \in Nat /\ req.after <= MaxSeq + PageSize
         /\ req.size \in 1 .. PageSize /\ req.size \in Nat /\ req.size >= 1
         /\ req.instance \in Nat /\ req.instance \in Instances
         /\ req.stored \in Nat /\ req.stored \in Seqs
         /\ req.full \in BOOLEAN /\ req.page \in Pages
         /\ req.kind \in {"asked", "page", "large", "failed"}
<1>1. /\ req.after \in Seqs /\ req.size \in 1 .. PageSize /\ req.instance \in Instances
      /\ req.stored \in Seqs /\ req.full \in BOOLEAN /\ req.page \in Pages
      /\ req.kind \in {"asked", "page", "large", "failed"}
  BY DEF Requests
<1>2. req.after \in Nat /\ req.after <= MaxSeq + PageSize /\ req.instance \in Nat /\ req.stored \in Nat
  BY <1>1, SeqsAreNumbers
<1>3. req.size \in Nat /\ req.size >= 1
  BY <1>1, Bounds
<1> QED
  BY <1>1, <1>2, <1>3

LEMMA PageFacts ==
  ASSUME NEW page \in Pages
  PROVE  /\ page.instance \in Nat /\ page.instance \in Instances
         /\ page.newest \in Nat /\ page.newest <= MaxSeq
         /\ page.missed \in Nat /\ page.missed \in Seqs
         /\ page.untracked \in Nat /\ page.last \in Nat /\ page.last \in Seqs
<1>1. /\ page.instance \in Instances /\ page.newest \in 0 .. MaxSeq /\ page.missed \in Seqs
      /\ page.untracked \in 0 .. MaxUntracked /\ page.last \in Seqs
  BY DEF Pages
<1> QED
  BY <1>1, SeqsAreNumbers, Bounds

LEMMA CountFacts ==
  ASSUME NEW c \in Counts
  PROVE  c.instance \in Nat /\ c.instance \in Instances /\ c.count \in Nat
         /\ c = [instance |-> c.instance, count |-> c.count]
BY SeqsAreNumbers DEF Counts

\* A step of KixDNS: its numbers only grow, or a new process begins where that is allowed.
KernelForward ==
  /\ kernel' \in KernelType /\ kernel.instance <= kernel'.instance
  /\ kernel'.low <= kernel'.newest
  /\ kernel'.instance = kernel.instance =>
       kernel.newest <= kernel'.newest /\ kernel.low <= kernel'.low
  /\ kernel'.instance # kernel.instance => ~NoneTaken

LEMMA ForwardFacts ==
  ASSUME kernel \in KernelType, KernelForward
  PROVE  /\ kernel'.instance \in Nat /\ kernel'.instance >= kernel.instance
         /\ kernel'.newest \in Nat /\ kernel'.low \in Nat /\ kernel'.low <= kernel'.newest
         /\ kernel.instance \in Nat /\ kernel.instance >= 1
         /\ kernel.newest \in Nat /\ kernel.low \in Nat
         /\ kernel'.instance = kernel.instance =>
              kernel.newest <= kernel'.newest /\ kernel.low <= kernel'.low
<1>1. /\ kernel'.instance \in (0 .. MaxInstance) \ {0} /\ kernel'.newest \in 0 .. MaxSeq
      /\ kernel'.low \in 0 .. MaxSeq
  BY SeqsAreNumbers DEF KernelType, KernelForward
<1> QED
  BY <1>1, KernelFacts, Bounds DEF KernelForward

LEMMA ReachedStays ==
  ASSUME kernel \in KernelType, KernelForward, NEW c, c.instance \in Nat, c.seq \in Nat, Reached(c)
  PROVE  c.instance <= kernel'.instance
         /\ (c.instance = kernel'.instance => c.seq <= kernel'.newest)
BY ForwardFacts DEF Reached

LEMMA GenuineStays ==
  ASSUME kernel \in KernelType, KernelForward, NEW rows \in Seq(Rows), Genuine(rows)
  PROVE  \A k \in 1 .. Len(rows) :
           /\ rows[k].instance # 0 /\ CursorOf(rows[k]).instance <= kernel'.instance
           /\ CursorOf(rows[k]).instance = kernel'.instance => CursorOf(rows[k]).seq <= kernel'.newest
<1> TAKE k \in 1 .. Len(rows)
<1>1. rows[k] \in Rows /\ rows[k].instance # 0 /\ Reached(CursorOf(rows[k]))
  BY DEF Genuine
<1>2. CursorOf(rows[k]).instance \in Nat /\ CursorOf(rows[k]).seq \in Nat
  BY <1>1, PointsOfRows
<1> QED
  BY <1>1, <1>2, ReachedStays

\* Everything but what is said of the requests under way.
PanelInv == CollectTyped /\ StoreTyped /\ StoreInv /\ NewestInv /\ PlaceInv /\ GoneInv /\ BatchInv

LEMMA PanelStays ==
  ASSUME kernel \in KernelType, PanelInv, KernelForward, UNCHANGED <<collector, store, faults>>,
         (flight' = <<>>) <=> (flight = <<>>)
  PROVE  PanelInv'
<1> USE DEF PanelInv
<1>1. UNCHANGED <<pc, at, mem, round, batch, cursor, log, cleared, saved, since, faults>>
  BY DEF collector, store
<1>2. CollectTyped' /\ StoreTyped'
  BY <1>1 DEF CollectTyped, StoreTyped
<1>3. /\ cursor \in Cursors /\ at \in Cursors /\ saved.cursor \in Cursors /\ log \in Seq(Rows)
      /\ batch.next \in Cursors /\ batch.rows \in Seq(Rows)
      /\ mem.newest \in Counts /\ round.gone \in GoneType
      /\ round.gone.page \in Pages /\ round.gone.after \in Seqs
  BY DEF CollectTyped, StoreTyped, BatchType, MemType, RoundType, GoneType
<1>4. \A c \in Cursors : Reached(c) => Reached(c)'
  BY ReachedStays, PointFacts DEF Reached
<1>5. cursor.instance \in Nat /\ cursor.seq \in Nat
  BY <1>3, PointFacts
<1>6. StoreInv'
  <2>1. Genuine(log)'
    BY <1>1, <1>3, GenuineStays DEF StoreInv, Genuine, Reached
  <2>2. Place(cursor)' /\ Place(saved.cursor)'
    BY <1>1, <1>3, <1>4 DEF StoreInv, Place, Reached
  <2>3. Sorted(log)' /\ (pc # "down" => FirstUpTo(log, Len(log), cursor))'
        /\ FirstUpTo(log, saved.rows, saved.cursor)' /\ (cleared <= saved.rows)'
    BY <1>1 DEF StoreInv, Sorted, FirstUpTo, Follows
  <2> QED
    BY <2>1, <2>2, <2>3 DEF StoreInv
<1>7. kernel'.instance # kernel.instance => cursor.instance = 0 \/ cursor.seq > 0
  BY <1>5 DEF KernelForward, NoneTaken
<1>8. NewestInv'
  <2>1. mem.newest.instance \in Nat /\ mem.newest.count \in Nat
    BY <1>3, CountFacts
  <2>2. NotTrusted(cursor)'
    BY <1>1, <1>5, <1>7 DEF NewestInv, NotTrusted
  <2> QED
    BY <1>1, <2>1, <2>2, ForwardFacts DEF NewestInv
<1>9. PlaceInv'
  BY <1>1, <1>3, <1>4 DEF PlaceInv, Place, Reached
<1>10. GoneInv'
  <2>1. /\ round.gone.page.instance \in Nat /\ round.gone.page.last \in Nat
        /\ round.gone.page.missed \in Nat /\ round.gone.after \in Nat
    BY <1>3, PageFacts, SeqsAreNumbers
  <2>2. pc = "parallel" => cursor.instance # 0
    BY DEF PlaceInv
  <2> SUFFICES ASSUME pc = "parallel", round.gone.found
               PROVE  GoneInv'
    BY <1>1 DEF GoneInv
  <2> DEFINE page == round.gone.page
  <2>3. /\ page.instance \in 1 .. kernel.instance /\ cursor.instance <= page.instance
        /\ page.missed > 0 /\ page.last = round.gone.after + page.missed
        /\ page.instance = kernel.instance => page.last <= kernel.newest
        /\ page.instance = cursor.instance => cursor.seq <= round.gone.after
        /\ page.instance # cursor.instance => cursor.seq = 0 /\ page.instance = kernel.instance
    BY DEF GoneInv
  <2>4. /\ kernel'.instance \in Nat /\ kernel'.newest \in Nat
        /\ kernel.instance \in Nat /\ kernel.newest \in Nat
        /\ kernel'.instance >= kernel.instance
        /\ kernel'.instance = kernel.instance => kernel.newest <= kernel'.newest
    BY ForwardFacts
  <2>5. page.instance \in 1 .. kernel'.instance
    BY <2>1, <2>3, <2>4
  <2>6. page.instance = kernel'.instance => page.last <= kernel'.newest
    BY <2>1, <2>3, <2>4
  <2>7. page.instance # cursor.instance => page.instance = kernel'.instance
    BY <1>7, <2>2, <2>3
  <2> QED
    BY <1>1, <2>3, <2>5, <2>6, <2>7 DEF GoneInv
<1>11. BatchInv'
  <2> SUFFICES ASSUME pc \in {"write", "advance"}
               PROVE  BatchInv'
    BY <1>1 DEF BatchInv
  <2>1. Genuine(batch.rows)' /\ Reached(batch.next)'
    BY <1>1, <1>3, <1>4, GenuineStays DEF BatchInv, Genuine, Reached
  <2>2. batch.next.instance \in Nat /\ batch.next.seq \in Nat
    BY <1>3, PointFacts
  <2>3. NotTrusted(batch.next)'
    <3>1. CASE kernel'.instance = kernel.instance
      BY <3>1, <1>1 DEF BatchInv, NotTrusted
    <3>2. CASE kernel'.instance # kernel.instance /\ batch.next.seq = 0
      <4>1. cursor.seq = 0
        BY <3>2, <2>2, <1>5 DEF BatchInv, UpTo
      <4>2. cursor.instance = 0
        BY <4>1, <3>2, <1>7
      <4>3. mem.newest.instance = 0 /\ batch.next.instance # 0
        BY <4>2 DEF NewestInv, BatchInv
      <4> QED
        BY <4>3, <1>1 DEF NotTrusted
    <3>3. CASE batch.next.seq # 0
      BY <3>3, <1>1 DEF NotTrusted
    <3> QED
      BY <3>1, <3>2, <3>3
  <2>4. Sorted(batch.rows)'
    BY <1>1 DEF BatchInv, Sorted, Follows
  <2>5. kernel'.instance # kernel.instance /\ batch.next.instance # cursor.instance => cursor.instance = 0
    BY <1>5, <1>7 DEF BatchInv
  <2> QED
    BY <1>1, <2>1, <2>3, <2>4, <2>5 DEF BatchInv
<1> QED
  BY <1>2, <1>6, <1>8, <1>9, <1>10, <1>11

\* What is known of a request stays true while KixDNS moves on.
LEMMA AskStays ==
  ASSUME kernel \in KernelType, cursor \in Cursors, KernelForward, Reached(cursor),
         NEW req \in Requests, AskInv(req), cursor.instance # 0 \/ ~req.full
  PROVE  /\ req.kind = "asked" /\ kernel'.instance = cursor.instance => req.after <= kernel'.newest
         /\ req.full =>
              /\ req.after + PageSize <= MaxSeq
              /\ kernel'.instance = cursor.instance => req.after + PageSize <= kernel'.newest
              /\ cursor.seq = 0 => kernel'.instance = cursor.instance
<1>1. cursor.instance \in Nat /\ cursor.seq \in Nat /\ cursor.instance <= kernel.instance
  BY PointFacts DEF Reached
<1>2. req.after \in Nat /\ PageSize \in Nat
  BY RequestFacts, Bounds
<1>3. kernel'.instance # kernel.instance =>
        /\ kernel'.instance # cursor.instance
        /\ cursor.instance = 0 \/ cursor.seq # 0
  BY <1>1, ForwardFacts DEF KernelForward, NoneTaken
<1> QED
  BY <1>1, <1>2, <1>3, ForwardFacts DEF AskInv

LEMMA PageStays ==
  ASSUME kernel \in KernelType, cursor \in Cursors, KernelForward, Reached(cursor),
         NEW k \in 1 .. Len(flight), flight[k] \in Requests, Answered(flight[k]),
         PageInv(flight[k], flight[k].page)
  PROVE  LET req == flight[k]  page == flight[k].page
         IN  /\ page.instance \in 1 .. kernel'.instance /\ cursor.instance <= page.instance
             /\ page.instance = kernel'.instance => page.newest <= kernel'.newest
             /\ page.instance = cursor.instance => req.after <= page.newest
             /\ req.after <= page.newest =>
                  req.after + page.missed <= page.last /\ page.last <= page.newest
             /\ page.instance = kernel'.instance \/ (page.instance = cursor.instance /\ cursor.seq > 0)
             /\ req.kind = "large" => req.after + page.missed + 1 <= page.last
<1> DEFINE page == flight[k].page
<1>1. cursor.instance \in Nat /\ cursor.seq \in Nat /\ cursor.instance <= kernel.instance
  BY PointFacts DEF Reached
<1>2. page.instance \in Nat /\ page.newest \in Nat
  BY RequestFacts, PageFacts
<1>3. kernel'.instance # kernel.instance /\ page.instance = kernel.instance =>
        page.instance = cursor.instance /\ cursor.seq > 0
  <2> SUFFICES ASSUME kernel'.instance # kernel.instance, page.instance = kernel.instance
               PROVE  page.instance = cursor.instance /\ cursor.seq > 0
    OBVIOUS
  <2>1. cursor.instance = kernel.instance
    BY DEF KernelForward, NoneTaken, Answered
  <2>2. cursor.instance # 0 => cursor.seq # 0
    BY DEF KernelForward, NoneTaken
  <2> QED
    BY <2>1, <2>2, <1>1, ForwardFacts
<1>4. page.instance \in 1 .. kernel.instance /\ cursor.instance <= page.instance
  BY DEF PageInv
<1>5. page.instance \in 1 .. kernel'.instance
  BY <1>4, <1>2, ForwardFacts
<1>6. page.instance = kernel'.instance => page.newest <= kernel'.newest
  <2>1. page.instance = kernel'.instance => kernel'.instance = kernel.instance
    BY <1>4, <1>2, ForwardFacts
  <2>2. page.instance = kernel.instance => page.newest <= kernel.newest
    BY DEF PageInv
  <2> QED
    BY <1>2, <2>1, <2>2, ForwardFacts
<1>7. page.instance = kernel.instance \/ (page.instance = cursor.instance /\ cursor.seq > 0)
  BY DEF PageInv
<1>8. page.instance = kernel'.instance \/ (page.instance = cursor.instance /\ cursor.seq > 0)
  BY <1>3, <1>7
<1> QED
  BY <1>4, <1>5, <1>6, <1>8 DEF PageInv

LEMMA StateFacts ==
  ASSUME TypeOK
  PROVE  /\ KernelTyped /\ CollectTyped /\ StoreTyped /\ kernel \in KernelType
         /\ cursor \in Cursors /\ at \in Cursors /\ saved.cursor \in Cursors /\ batch.next \in Cursors
         /\ log \in Seq(Rows) /\ batch.rows \in Seq(Rows)
         /\ mem \in MemType /\ mem.newest \in Counts /\ mem.counted \in Counts
         /\ round \in RoundType /\ round.gone \in GoneType /\ round.gone.page \in Pages
         /\ round.gone.after \in Seqs /\ round.gone.earlier \in Nat
         /\ flight \in Seq(Requests) /\ Len(flight) \in Nat
         /\ \A k \in 1 .. Len(flight) : flight[k] \in Requests
         /\ saved.rows \in 0 .. Len(log) /\ Len(log) \in Nat /\ cleared \in 0 .. Len(log)
<1>1. KernelTyped /\ CollectTyped /\ StoreTyped
  BY TypeParts
<1>2. /\ kernel \in KernelType /\ flight \in Seq(Requests) /\ Len(flight) \in Nat
      /\ \A k \in 1 .. Len(flight) : flight[k] \in Requests
  BY <1>1 DEF KernelTyped
<1>3. /\ at \in Cursors /\ mem \in MemType /\ round \in RoundType /\ batch.next \in Cursors
      /\ batch.rows \in Seq(Rows) /\ mem.newest \in Counts /\ mem.counted \in Counts
  BY <1>1 DEF CollectTyped, BatchType, MemType
<1>4. /\ round.gone \in GoneType /\ round.gone.page \in Pages /\ round.gone.after \in Seqs
      /\ round.gone.earlier \in Nat
  BY <1>3 DEF RoundType, GoneType
<1>5. /\ cursor \in Cursors /\ saved.cursor \in Cursors /\ log \in Seq(Rows)
      /\ saved.rows \in 0 .. Len(log) /\ Len(log) \in Nat /\ cleared \in 0 .. Len(log)
  BY <1>1 DEF StoreTyped
<1> QED
  BY <1>1, <1>2, <1>3, <1>4, <1>5

\* Requests of a process at the cursor: without one there are none that are full.
LEMMA FullHasProcess ==
  ASSUME OrderInv, NEW k \in 1 .. Len(flight), flight[k].full
  PROVE  cursor.instance # 0
<1> USE DEF OrderInv
<1>1. Len(flight) \in Nat /\ flight # <<>> /\ pc \in Pcs
  BY StateFacts DEF CollectTyped
<1>2. CASE pc = "parallel"
  BY <1>2 DEF PlaceInv
<1>3. CASE pc = "walk"
  <2>1. Len(flight) = 1 /\ ~First.full
    BY <1>1, <1>3, Zenon DEF FlightInv
  <2>2. k = 1
    BY <2>1
  <2> QED
    BY <2>1, <2>2 DEF First
<1>4. CASE pc \in {"write", "advance"}
  BY <1>1, <1>4 DEF BatchInv
<1>5. CASE pc \in {"down", "idle"}
  BY <1>1, <1>5 DEF PlaceInv
<1> QED
  BY <1>1, <1>2, <1>3, <1>4, <1>5 DEF Pcs

\* A step of KixDNS that leaves the requests alone, or answers one of them.
LEMMA KernelStep ==
  ASSUME OrderInv, KernelForward, UNCHANGED <<collector, store, faults>>,
         flight' \in Seq(Requests), stray' \in Cursors, Len(flight') = Len(flight),
         \A k \in 1 .. Len(flight) :
           /\ flight'[k] = flight[k]
              \/ /\ flight[k].kind = "asked" /\ Answered(flight'[k])
                 /\ flight'[k].after = flight[k].after /\ flight'[k].size = flight[k].size
                 /\ flight'[k].full = flight[k].full
                 /\ kernel'.instance = kernel.instance
                 /\ PageInv(flight'[k], flight'[k].page)
  PROVE  OrderInv'
<1> USE DEF OrderInv
<1>1. /\ UNCHANGED <<pc, at, mem, round, batch, cursor, log, cleared, saved, since, faults>>
  BY DEF collector, store
<1>2. Len(flight) \in Nat /\ (flight' = <<>>) <=> (flight = <<>>)
  BY StateFacts
<1>3. PanelInv
  BY StateFacts DEF PanelInv
<1>4. PanelInv'
  BY <1>2, <1>3, StateFacts, PanelStays
<1>5. TypeOK'
  BY <1>4, TypePartsAfter DEF PanelInv, KernelTyped, KernelForward
<1>6. FlightInv'
  <2>1. \A k \in 1 .. Len(flight) :
          /\ flight'[k].after = flight[k].after /\ flight'[k].size = flight[k].size
          /\ flight'[k].full = flight[k].full
    OBVIOUS
  <2>2. pc' = "walk" /\ flight' # <<>> =>
           /\ Len(flight') = 1 /\ ~First'.full
           /\ First'.after = at'.seq /\ First'.size = round'.size
           /\ round'.pages < PagesPerTick
    <3> SUFFICES ASSUME pc = "walk", flight # <<>>
                 PROVE  /\ Len(flight') = 1 /\ ~First'.full
                        /\ First'.after = at'.seq /\ First'.size = round'.size
                        /\ round'.pages < PagesPerTick
      BY <1>1, <1>2
    <3>1. /\ Len(flight) = 1 /\ ~First.full /\ First.after = at.seq /\ First.size = round.size
          /\ round.pages < PagesPerTick
      BY DEF FlightInv
    <3>2. /\ flight'[1].after = flight[1].after /\ flight'[1].size = flight[1].size
          /\ flight'[1].full = flight[1].full
      BY <3>1, <2>1
    <3> QED
      BY <3>1, <3>2, <1>1 DEF First
  <2>3. ASSUME NEW k \in 1 .. Len(flight)
        PROVE  /\ k < Len(flight') => flight'[k].full
               /\ AskInv(flight[k])' /\ (Answered(flight[k]) => PageInv(flight[k], flight[k].page))'
    <3> DEFINE req == flight[k]
    <3>1. /\ req \in Requests /\ AskInv(req) /\ (k < Len(flight) => req.full)
          /\ Answered(req) => PageInv(req, req.page)
      BY StateFacts DEF FlightInv
    <3>2. /\ kernel \in KernelType /\ cursor \in Cursors /\ Reached(cursor)
      BY StateFacts DEF StoreInv, Place
    <3>3. cursor.instance # 0 \/ ~req.full
      BY FullHasProcess
    <3>4. /\ req.kind = "asked" /\ kernel'.instance = cursor.instance => req.after <= kernel'.newest
          /\ req.full =>
               /\ req.after + PageSize <= MaxSeq
               /\ kernel'.instance = cursor.instance => req.after + PageSize <= kernel'.newest
               /\ cursor.seq = 0 => kernel'.instance = cursor.instance
      BY <3>1, <3>2, <3>3, AskStays
    <3>5. CASE flight'[k] = flight[k]
      <4>1. AskInv(flight[k])'
        BY <3>4, <3>5, <1>1 DEF AskInv
      <4>2. ASSUME Answered(flight[k])'
            PROVE  PageInv(flight[k], flight[k].page)'
        <5>1. Answered(flight[k])
          BY <3>5, <4>2 DEF Answered
        <5> QED
          BY <5>1, <3>1, <3>2, <3>5, <1>1, PageStays DEF PageInv
      <4> QED
        BY <3>1, <3>5, <4>1, <4>2
    <3>6. CASE flight'[k] # flight[k]
      <4>1. /\ Answered(flight'[k]) /\ flight'[k].full = flight[k].full
            /\ flight'[k].after = flight[k].after /\ PageInv(flight'[k], flight'[k].page)
            /\ kernel'.instance = kernel.instance
        BY <3>6
      <4>2. AskInv(flight[k])'
        BY <4>1, <3>4, <1>1 DEF AskInv, Answered
      <4>3. PageInv(flight[k], flight[k].page)'
        <5> DEFINE page == flight'[k].page
        <5>1. flight'[k] \in Requests
          BY <1>2
        <5>2. page.newest \in Nat
          BY <5>1, RequestFacts, PageFacts
        <5>3. page.instance = kernel.instance => page.newest <= kernel'.newest
          BY <4>1, <5>2, <3>2, ForwardFacts DEF PageInv
        <5> QED
          BY <4>1, <5>3, <1>1 DEF PageInv
      <4> QED
        BY <3>1, <4>1, <4>2, <4>3
    <3> QED
      BY <3>5, <3>6
  <2> QED
    BY <2>2, <2>3 DEF FlightInv, First
<1> QED
  BY <1>4, <1>5, <1>6 DEF PanelInv

LEMMA LowAfterFacts ==
  ASSUME kernel \in KernelType, kernel.low <= kernel.newest, NEW i, NEW upto \in Nat
  PROVE  /\ LowAfter(i, upto) \in 0 .. kernel.newest /\ LowAfter(i, upto) \in 0 .. MaxSeq
         /\ kernel.low <= LowAfter(i, upto)
         /\ LowAfter(i, upto) = kernel.low
            \/ (i = kernel.instance /\ LowAfter(i, upto) <= upto)
<1>1. /\ kernel.newest \in Nat /\ kernel.newest <= MaxSeq /\ kernel.low \in Nat
  BY KernelFacts
<1>2. Smaller(upto, kernel.newest) \in Nat /\ Smaller(upto, kernel.newest) <= kernel.newest
      /\ Smaller(upto, kernel.newest) <= upto
  BY <1>1 DEF Smaller
<1> DEFINE most == Smaller(upto, kernel.newest)
           low == LowAfter(i, upto)
<1>3. low = kernel.low \/ (i = kernel.instance /\ low = most)
  BY DEF LowAfter, Larger
<1>4. kernel.low <= low
  BY <1>1, <1>2 DEF LowAfter, Larger
<1> HIDE DEF most, low
<1>5. low \in 0 .. kernel.newest /\ low \in 0 .. MaxSeq
  BY <1>1, <1>2, <1>3, Bounds DEF most
<1>6. low = kernel.low \/ (i = kernel.instance /\ low <= upto)
  BY <1>2, <1>3 DEF most
<1> QED
  BY <1>4, <1>5, <1>6 DEF low

\* KixDNS only advances, and a new process begins where that is allowed.
LEMMA KernelGoesForward ==
  ASSUME OrderInv, EarlyRestarts = FALSE,
         KernelRecord \/ KernelUntracked \/ KernelRestart \/ KernelForget \/ AnswerStray
  PROVE  KernelForward /\ UNCHANGED <<flight, stray, collector, store, faults>>
<1>1. /\ kernel \in KernelType /\ flight \in Seq(Requests) /\ stray \in Cursors
      /\ kernel.low <= kernel.newest
  <2>1. TypeOK /\ NewestInv
    BY DEF OrderInv
  <2> QED
    BY <2>1, StateFacts DEF NewestInv, KernelTyped
<1>2. /\ kernel.instance \in Nat /\ kernel.instance >= 1 /\ kernel.instance <= MaxInstance
      /\ kernel.newest \in Nat /\ kernel.newest <= MaxSeq
      /\ kernel.low \in Nat /\ kernel.low <= MaxSeq /\ kernel.untracked \in 0 .. MaxUntracked
      /\ kernel.instance \in Instances \ {0}
      /\ kernel = [instance |-> kernel.instance, newest |-> kernel.newest, low |-> kernel.low,
                   untracked |-> kernel.untracked]
  BY <1>1, KernelFacts DEF KernelType
<1>3. KernelForward
  <2>1. CASE KernelRecord
    <3> DEFINE low == Larger(kernel.low, kernel.newest + 1 - RingSize)
    <3>1. kernel' = [instance |-> kernel.instance, newest |-> kernel.newest + 1, low |-> low,
                     untracked |-> kernel.untracked]
          /\ kernel.newest < MaxSeq
      BY <2>1, <1>2 DEF KernelRecord
    <3>2. low \in Nat /\ low <= kernel.newest + 1 /\ kernel.low <= low
      <4>1. /\ kernel.low \in Nat /\ kernel.newest \in Nat /\ kernel.low <= kernel.newest
            /\ RingSize \in Nat /\ RingSize >= 1
        BY <1>1, <1>2, Bounds
      <4> QED
        BY <4>1 DEF Larger
    <3> HIDE DEF low
    <3>3. low \in 0 .. MaxSeq /\ kernel.newest + 1 \in 0 .. MaxSeq
      BY <3>1, <3>2, <1>2, Bounds
    <3> QED
      BY <3>1, <3>2, <3>3, <1>2 DEF KernelForward, KernelType
  <2>2. CASE KernelUntracked
    <3>1. kernel' = [instance |-> kernel.instance, newest |-> kernel.newest, low |-> kernel.low,
                     untracked |-> kernel.untracked + 1]
          /\ kernel.untracked < MaxUntracked
      BY <2>2, <1>2 DEF KernelUntracked
    <3>2. /\ kernel.untracked + 1 \in 0 .. MaxUntracked /\ kernel.newest \in 0 .. MaxSeq
          /\ kernel.low \in 0 .. MaxSeq
      BY <3>1, <1>2, Bounds
    <3> QED
      BY <3>1, <3>2, <1>1, <1>2 DEF KernelForward, KernelType
  <2>3. CASE KernelRestart
    <3>1. /\ kernel' = [instance |-> kernel.instance + 1, newest |-> 0, low |-> 0, untracked |-> 0]
          /\ kernel.instance < MaxInstance /\ ~NoneTaken
      BY <2>3 DEF KernelRestart
    <3>2. kernel.instance + 1 \in Instances \ {0} /\ 0 \in 0 .. MaxSeq /\ 0 \in 0 .. MaxUntracked
      BY <3>1, <1>2, Bounds, SeqsAreNumbers
    <3> QED
      BY <3>1, <3>2, <1>2 DEF KernelForward, KernelType
  <2>4. CASE KernelForget
    <3>1. kernel' = [instance |-> kernel.instance, newest |-> kernel.newest, low |-> kernel.newest,
                     untracked |-> kernel.untracked]
      BY <2>4, <1>2 DEF KernelForget
    <3>2. kernel.newest \in 0 .. MaxSeq
      BY <1>2, Bounds
    <3> QED
      BY <3>1, <3>2, <1>1, <1>2 DEF KernelForward, KernelType
  <2>5. CASE AnswerStray
    <3> DEFINE low == LowAfter(stray.instance, stray.seq)
    <3>1. kernel' = [instance |-> kernel.instance, newest |-> kernel.newest, low |-> low,
                     untracked |-> kernel.untracked]
      BY <2>5, <1>2 DEF AnswerStray
    <3>2. low \in 0 .. kernel.newest /\ low \in 0 .. MaxSeq /\ kernel.low <= low
      BY <1>1, PointFacts, LowAfterFacts
    <3> HIDE DEF low
    <3>3. kernel.newest \in 0 .. MaxSeq
      BY <1>2, Bounds
    <3> QED
      BY <3>1, <3>2, <3>3, <1>2 DEF KernelForward, KernelType
  <2> QED
    BY <2>1, <2>2, <2>3, <2>4, <2>5
<1>4. UNCHANGED <<flight, stray, collector, store, faults>>
  BY DEF KernelRecord, KernelUntracked, KernelRestart, KernelForget, AnswerStray
<1> QED
  BY <1>3, <1>4

LEMMA KernelMoves ==
  ASSUME OrderInv, EarlyRestarts = FALSE,
         KernelRecord \/ KernelUntracked \/ KernelRestart \/ KernelForget \/ AnswerStray
  PROVE  OrderInv'
<1>1. flight \in Seq(Requests) /\ stray \in Cursors
  <2>1. TypeOK
    BY DEF OrderInv
  <2> QED
    BY <2>1, StateFacts DEF KernelTyped
<1> QED
  BY <1>1, KernelGoesForward, KernelStep

\* An answer is a page of the process that runs.
LEMMA AnswerFacts ==
  ASSUME OrderInv, Answer
  PROVE  /\ KernelForward /\ UNCHANGED <<stray, collector, store, faults>>
         /\ flight' \in Seq(Requests) /\ Len(flight') = Len(flight) /\ stray' \in Cursors
         /\ \A n \in 1 .. Len(flight) :
              \/ flight'[n] = flight[n]
              \/ /\ flight[n].kind = "asked" /\ Answered(flight'[n])
                 /\ flight'[n].after = flight[n].after /\ flight'[n].size = flight[n].size
                 /\ flight'[n].full = flight[n].full
                 /\ kernel'.instance = kernel.instance
                 /\ PageInv(flight'[n], flight'[n].page)
                 /\ \/ flight'[n].page.missed = 0
                    \/ flight'[n].after + flight'[n].page.missed <= kernel'.low
                 /\ flight'[n].kind = "large" /\ flight'[n].size = 1 =>
                      flight'[n].after + flight'[n].page.missed + 1 \in Oversized
<1>1. /\ kernel \in KernelType /\ flight \in Seq(Requests) /\ stray \in Cursors
      /\ kernel.low <= kernel.newest /\ Reached(cursor) /\ cursor \in Cursors
  <2>1. TypeOK /\ NewestInv /\ StoreInv
    BY DEF OrderInv
  <2> QED
    BY <2>1, StateFacts DEF NewestInv, StoreInv, Place, KernelTyped
<1>2. PICK k \in 1 .. Len(flight), limited \in BOOLEAN :
        /\ flight[k].kind = "asked"
        /\ LET req == flight[k]
               low == LowAfter(req.instance, Smaller(req.stored, req.after))
           IN  /\ kernel' = [kernel EXCEPT !.low = low]
               /\ flight' = [flight EXCEPT ![k] = ReplyOf(req, PageOf(req, low, limited))]
        /\ UNCHANGED <<stray, collector, store, faults>>
  BY DEF Answer
<1> DEFINE req == flight[k]
           low == LowAfter(req.instance, Smaller(req.stored, req.after))
           page == PageOf(req, low, limited)
           reply == ReplyOf(req, page)
<1>3. req \in Requests /\ AskInv(req) /\ req.kind = "asked"
  BY <1>2, StateFacts DEF OrderInv, FlightInv
<1>4. /\ low \in 0 .. kernel.newest /\ low \in 0 .. MaxSeq /\ kernel.low <= low
  <2>1. Smaller(req.stored, req.after) \in Nat
    BY <1>3, RequestFacts DEF Smaller
  <2> QED
    BY <2>1, <1>1, LowAfterFacts
<1>5. /\ page \in Pages /\ page.instance = kernel.instance /\ page.newest = kernel.newest
      /\ req.after <= page.newest =>
           req.after + page.missed <= page.last /\ page.last <= page.newest
      /\ page.missed = 0 \/ req.after + page.missed <= low
      /\ page.last <= req.after + page.missed + req.size
  BY <1>1, <1>3, <1>4, PageBuilt
<1>6. kernel' = [kernel EXCEPT !.low = low] /\ flight' = [flight EXCEPT ![k] = reply]
      /\ UNCHANGED <<stray, collector, store, faults>>
  BY <1>2
<1> HIDE DEF low, page
<1>7. /\ reply \in Requests /\ reply.page = page /\ Answered(reply)
      /\ reply.after = req.after /\ reply.size = req.size /\ reply.full = req.full
      /\ reply.kind = "large" => (req.after + page.missed + 1 .. page.last) \intersect Oversized # {}
  BY <1>3, <1>5 DEF ReplyOf, Requests, Answered
<1> HIDE DEF reply
<1>8. PageInv(reply, page)
  <2>1. /\ kernel.instance \in Nat /\ kernel.instance >= 1 /\ kernel.newest \in Nat
        /\ cursor.instance <= kernel.instance
    BY <1>1, KernelFacts DEF Reached
  <2>2. page.instance \in 1 .. kernel.instance /\ cursor.instance <= page.instance
    BY <2>1, <1>5
  <2>3. page.instance = cursor.instance => req.after <= page.newest
    BY <1>3, <1>5 DEF AskInv
  <2>4. reply.kind = "large" => req.after + page.missed + 1 <= page.last
    <3>1. req.after \in Nat /\ page.missed \in Nat /\ page.last \in Nat
      BY <1>3, <1>5, RequestFacts, PageFacts
    <3> QED
      BY <3>1, <1>7
  <2> QED
    BY <2>1, <2>2, <2>3, <2>4, <1>5, <1>7 DEF PageInv
<1>8a. reply.kind = "large" /\ reply.size = 1 => req.after + page.missed + 1 \in Oversized
  <2>1. req.after \in Nat /\ page.missed \in Nat /\ page.last \in Nat
    BY <1>3, <1>5, RequestFacts, PageFacts
  <2> SUFFICES ASSUME reply.kind = "large", reply.size = 1
               PROVE  req.after + page.missed + 1 \in Oversized
    OBVIOUS
  <2>2. PICK s \in Oversized : s \in req.after + page.missed + 1 .. page.last
    BY <1>7
  <2>3. page.last <= req.after + page.missed + 1
    BY <1>5, <1>7
  <2>4. s = req.after + page.missed + 1
    BY <2>1, <2>2, <2>3
  <2> QED
    BY <2>2, <2>4
<1>9. KernelForward /\ kernel'.low = low
  <2>1. /\ kernel'.instance = kernel.instance /\ kernel'.newest = kernel.newest
        /\ kernel'.low = low /\ kernel' \in KernelType
    BY <1>1, <1>4, <1>6 DEF KernelType
  <2> QED
    BY <2>1, <1>1, <1>4, KernelFacts DEF KernelForward
<1>10. /\ flight' \in Seq(Requests) /\ Len(flight') = Len(flight) /\ stray' \in Cursors
       /\ kernel'.instance = kernel.instance /\ flight'[k] = reply
       /\ \A n \in 1 .. Len(flight) : n # k => flight'[n] = flight[n]
  BY <1>1, <1>6, <1>7 DEF KernelType
<1>11. UNCHANGED <<collector, store, faults>>
  BY <1>6
<1>12. ASSUME NEW n \in 1 .. Len(flight)
       PROVE  \/ flight'[n] = flight[n]
              \/ /\ flight[n].kind = "asked" /\ Answered(flight'[n])
                 /\ flight'[n].after = flight[n].after /\ flight'[n].size = flight[n].size
                 /\ flight'[n].full = flight[n].full
                 /\ kernel'.instance = kernel.instance
                 /\ PageInv(flight'[n], flight'[n].page)
                 /\ \/ flight'[n].page.missed = 0
                    \/ flight'[n].after + flight'[n].page.missed <= kernel'.low
                 /\ flight'[n].kind = "large" /\ flight'[n].size = 1 =>
                      flight'[n].after + flight'[n].page.missed + 1 \in Oversized
  <2>1. CASE n = k
    BY <2>1, <1>3, <1>5, <1>7, <1>8, <1>9, <1>10, <1>8a
  <2>2. CASE n # k
    BY <2>2, <1>10
  <2> QED
    BY <2>1, <2>2
<1> QED
  BY <1>6, <1>9, <1>10, <1>12

LEMMA AnswerKeepsOrder ==
  ASSUME OrderInv, Answer
  PROVE  OrderInv'
<1>1. KernelForward /\ UNCHANGED <<collector, store, faults>>
  BY AnswerFacts
<1> QED
  BY <1>1, AnswerFacts, KernelStep

---------------------------------------------------------------------------
(* The collector's steps, part by part.                                    *)

LEMMA OrderFacts ==
  ASSUME OrderInv
  PROVE  /\ TypeOK /\ StoreInv /\ NewestInv /\ PlaceInv /\ GoneInv /\ BatchInv /\ FlightInv
         /\ kernel.instance \in Nat /\ kernel.instance >= 1 /\ kernel.instance <= MaxInstance
         /\ kernel.newest \in Nat /\ kernel.newest <= MaxSeq
         /\ cursor.instance \in Nat /\ cursor.seq \in Nat /\ cursor.instance <= kernel.instance
         /\ at.instance \in Nat /\ at.seq \in Nat
         /\ (cursor.instance = 0 => cursor.seq = 0)
<1>1. TypeOK /\ StoreInv /\ NewestInv /\ PlaceInv /\ GoneInv /\ BatchInv /\ FlightInv
  BY DEF OrderInv
<1>2. cursor \in Cursors /\ at \in Cursors /\ kernel \in KernelType
  BY <1>1, StateFacts
<1>3. cursor.instance <= kernel.instance /\ (cursor.instance = 0 => cursor.seq = 0)
  BY <1>1 DEF StoreInv, Place, Reached
<1>4. /\ cursor.instance \in Nat /\ cursor.seq \in Nat /\ at.instance \in Nat /\ at.seq \in Nat
  BY <1>2, PointFacts
<1>5. /\ kernel.instance \in Nat /\ kernel.instance >= 1 /\ kernel.instance <= MaxInstance
      /\ kernel.newest \in Nat /\ kernel.newest <= MaxSeq
  BY <1>2, KernelFacts
<1> QED
  BY <1>1, <1>3, <1>4, <1>5

LEMMA DeletionType ==
  ASSUME NEW req \in Requests
  PROVE  Deletion(req) \in Cursors
<1>1. req.instance \in Instances /\ req.stored \in Seqs /\ req.after \in Seqs
  BY RequestFacts
<1>2. Smaller(req.stored, req.after) \in Seqs
  BY <1>1 DEF Smaller
<1> QED
  BY <1>1, <1>2 DEF Deletion, Cursors

LEMMA AbandonFacts ==
  ASSUME stray \in Cursors, NEW reqs \in Seq(Requests), AbandonAll(reqs)
  PROVE  /\ flight' = <<>> /\ flight' \in Seq(Requests) /\ stray' \in Cursors
         /\ \/ stray' = stray
            \/ \E k \in 1 .. Len(reqs) : reqs[k].kind = "asked" /\ stray' = Deletion(reqs[k])
<1>1. \A k \in 1 .. Len(reqs) : reqs[k] \in Requests /\ Deletion(reqs[k]) \in Cursors
  BY DeletionType
<1>2. flight' = <<>> /\ flight' \in Seq(Requests)
  BY DEF AbandonAll
<1>3. \/ stray' = stray
      \/ \E k \in 1 .. Len(reqs) : reqs[k].kind = "asked" /\ stray' = Deletion(reqs[k])
  BY DEF AbandonAll
<1> QED
  BY <1>1, <1>2, <1>3

LEMMA NoFlight ==
  ASSUME flight' = <<>>
  PROVE  FlightInv'
BY DEF FlightInv

\* The log, the cursors and the state file are left alone by a running panel.
LEMMA StoreKept ==
  ASSUME StoreInv, UNCHANGED <<kernel, cursor, log, cleared, saved>>, pc # "down" \/ pc' = "down"
  PROVE  StoreInv'
BY DEF StoreInv, Sorted, Follows, Genuine, FirstUpTo, Place, Reached

LEMMA NewestKept ==
  ASSUME NewestInv, UNCHANGED <<kernel, cursor>>, mem'.newest = mem.newest
  PROVE  NewestInv'
BY DEF NewestInv, NotTrusted

\* The request in front.
LEMMA FrontFacts ==
  ASSUME OrderInv, flight # <<>>
  PROVE  /\ First \in Requests /\ AskInv(First) /\ (Answered(First) => PageInv(First, First.page))
         /\ Len(flight) \in Nat /\ Len(flight) >= 1 /\ (Len(flight) > 1 => First.full)
         /\ First.page \in Pages /\ First.after \in Seqs /\ First.after \in Nat
<1>1. TypeOK /\ FlightInv
  BY DEF OrderInv
<1>2. Len(flight) \in Nat /\ Len(flight) >= 1 /\ First \in Requests
  BY <1>1, StateFacts DEF First
<1>3. 1 \in 1 .. Len(flight)
  BY <1>2
<1>4. /\ 1 < Len(flight) => flight[1].full
      /\ AskInv(flight[1])
      /\ Answered(flight[1]) => PageInv(flight[1], flight[1].page)
  BY <1>1, <1>3, Zenon DEF FlightInv
<1> QED
  BY <1>2, <1>4, RequestFacts DEF First

\* A page in front that continues the collector's cursor, or is the first of its process.
LEMMA FrontTakeable ==
  ASSUME OrderInv, pc \in {"parallel", "walk"}, flight # <<>>, First.kind = "page",
         First.after = at.seq, at.instance = First.page.instance \/ First.after = 0
  PROVE  /\ Takeable(First.page, First.after)
         /\ First.page.instance # cursor.instance => Len(flight) = 1
         /\ First.page.last = 0 => First.page.instance = kernel.instance
<1> DEFINE page == First.page
           after == First.after
<1>1. /\ at.instance = cursor.instance /\ cursor.seq <= at.seq
      /\ cursor.instance \in Nat /\ cursor.seq \in Nat
  BY OrderFacts DEF PlaceInv
<1>2. /\ page \in Pages /\ after \in Nat /\ AskInv(First) /\ PageInv(First, page)
      /\ Len(flight) \in Nat /\ Len(flight) >= 1 /\ (Len(flight) > 1 => First.full)
  BY FrontFacts DEF Answered
<1>3. /\ page.instance \in Nat /\ page.newest \in Nat /\ page.missed \in Nat /\ page.last \in Nat
  BY <1>2, PageFacts
<1>4. kernel.instance \in Nat /\ kernel.newest \in Nat
  BY OrderFacts
<1>5. after = at.seq /\ (at.instance = page.instance \/ after = 0)
  OBVIOUS
<1>6. after <= page.newest
  BY <1>1, <1>2, <1>3, <1>5 DEF PageInv
<1>7. /\ page.instance \in 1 .. kernel.instance /\ cursor.instance <= page.instance
      /\ after + page.missed <= page.last /\ page.last <= page.newest
      /\ page.instance = kernel.instance => page.newest <= kernel.newest
      /\ page.instance = kernel.instance \/ (page.instance = cursor.instance /\ cursor.seq > 0)
  BY <1>2, <1>6, Zenon DEF PageInv
<1>8. page.instance # cursor.instance => cursor.seq = 0 /\ page.instance = kernel.instance
  BY <1>1, <1>5, <1>7
<1>9. page.instance # cursor.instance => Len(flight) = 1
  <2> SUFFICES ASSUME page.instance # cursor.instance PROVE Len(flight) = 1
    OBVIOUS
  <2>1. ~First.full
    BY <1>2, <1>8 DEF AskInv
  <2>2. ~(Len(flight) > 1)
    BY <2>1, <1>2, Zenon
  <2>3. Len(flight) \in Nat /\ Len(flight) >= 1
    BY <1>2, Zenon
  <2>4. \A n \in Nat : n >= 1 /\ ~(n > 1) => n = 1
    OBVIOUS
  <2> QED
    BY <2>2, <2>3, <2>4, Zenon
<1>10. page.last = 0 => page.instance = kernel.instance
  BY <1>1, <1>3, <1>5, <1>7, <1>2
<1> HIDE DEF page, after
<1>11. Takeable(page, after)
  BY <1>1, <1>3, <1>4, <1>5, <1>7, <1>8, <1>2 DEF Takeable
<1> QED
  BY <1>9, <1>10, <1>11 DEF page, after

\* What an answer says of the newest number.
LEMMA SeenNewestFacts ==
  ASSUME OrderInv, flight # <<>>, First.kind = "page", cursor.instance # 0,
         UNCHANGED <<kernel, cursor>>, mem' = [mem EXCEPT !.newest = SeenNewest(First.page)]
  PROVE  /\ mem' \in MemType /\ mem'.newest.instance = First.page.instance /\ mem'.counted = mem.counted
         /\ NewestInv'
<1> DEFINE page == First.page
           seen == SeenNewest(page)
<1>1. page \in Pages /\ PageInv(First, page)
  BY FrontFacts DEF Answered
<1>2. /\ page.instance \in Nat /\ page.instance \in Instances /\ page.newest \in Nat
      /\ page.newest <= MaxSeq
  BY <1>1, PageFacts
<1>3. TypeOK /\ NewestInv /\ kernel.instance \in Nat /\ kernel.newest \in Nat
      /\ cursor.instance \in Nat /\ cursor.seq \in Nat
  BY OrderFacts
<1>4. mem \in MemType /\ mem.newest.instance \in Nat /\ mem.newest.count \in Nat
      /\ mem.counted \in Counts
  BY <1>3, StateFacts, CountFacts
<1>5. seen.instance = page.instance /\ seen.count \in Nat
      /\ \/ seen.count = page.newest
         \/ seen.count = mem.newest.count /\ mem.newest.instance = page.instance
      /\ seen = [instance |-> seen.instance, count |-> seen.count]
  BY <1>2, <1>4 DEF SeenNewest, Larger
<1> HIDE DEF seen
<1>6. mem' = [newest |-> seen, counted |-> mem.counted]
  BY <1>4 DEF seen, MemType
<1>7. seen \in Counts
  BY <1>2, <1>5 DEF Counts
<1>8. page.instance <= kernel.instance
      /\ (page.instance = kernel.instance => page.newest <= kernel.newest)
      /\ (page.instance = kernel.instance \/ cursor.seq > 0)
  BY <1>1, <1>2, <1>3 DEF PageInv
<1> HIDE DEF page
<1>9. NewestInv'
  <2>1. seen.count <= MaxSeq /\ (seen.instance = kernel.instance => seen.count <= kernel.newest)
    BY <1>2, <1>3, <1>4, <1>5, <1>8, Bounds DEF NewestInv
  <2>2. NotTrusted(cursor)'
    BY <1>3, <1>5, <1>6, <1>8 DEF NotTrusted
  <2> QED
    BY <1>3, <1>5, <1>6, <1>8, <2>1, <2>2 DEF NewestInv
<1> QED
  BY <1>4, <1>5, <1>6, <1>7, <1>9 DEF MemType, page

\* The rest of the flight once the page in front is taken.
LEMMA RestOfFlight ==
  ASSUME OrderInv, flight # <<>>, flight' = Tail(flight), UNCHANGED <<kernel, cursor>>,
         pc' # "walk"
  PROVE  /\ flight' \in Seq(Requests) /\ FlightInv'
         /\ Len(flight) = 1 => flight' = <<>>
<1>1. TypeOK /\ FlightInv
  BY DEF OrderInv
<1>2. flight \in Seq(Requests) /\ Len(flight) \in Nat /\ Len(flight) >= 1
  BY <1>1, StateFacts
<1>3. /\ flight' \in Seq(Requests) /\ Len(flight') = Len(flight) - 1
      /\ \A k \in 1 .. Len(flight') : flight'[k] = flight[k + 1]
  BY <1>2
<1>4. ASSUME NEW k \in 1 .. Len(flight')
      PROVE  /\ k < Len(flight') => flight'[k].full
             /\ AskInv(flight[k])' /\ (Answered(flight[k]) => PageInv(flight[k], flight[k].page))'
  <2>1. k + 1 \in 1 .. Len(flight) /\ flight'[k] = flight[k + 1]
        /\ (k < Len(flight') => k + 1 < Len(flight))
    BY <1>2, <1>3
  <2>2. /\ k + 1 < Len(flight) => flight[k + 1].full
        /\ AskInv(flight[k + 1])
        /\ Answered(flight[k + 1]) => PageInv(flight[k + 1], flight[k + 1].page)
    BY <1>1, <2>1, Zenon DEF FlightInv
  <2>3. AskInv(flight[k])'
    BY <2>1, <2>2 DEF AskInv
  <2>4. (Answered(flight[k]) => PageInv(flight[k], flight[k].page))'
    BY <2>1, <2>2 DEF Answered, PageInv
  <2> QED
    BY <2>1, <2>2, <2>3, <2>4
<1>5. FlightInv'
  BY <1>4 DEF FlightInv
<1>6. Len(flight) = 1 => flight' = <<>>
  BY <1>2, <1>3
<1> QED
  BY <1>3, <1>5, <1>6

\* The rows of a page are to be written.
LEMMA BatchTaken ==
  ASSUME OrderInv, NEW page \in Pages, NEW c \in Cursors, NEW after \in Seqs,
         NEW oversized \in Nat, NEW back \in {"idle", "parallel", "walk"},
         Takeable(page, after), batch' = BatchOf(page, c, after, oversized, back),
         UNCHANGED <<kernel, cursor>>, pc' = "write",
         flight' = <<>> \/ (page.instance = cursor.instance /\ back = "parallel"),
         back = "parallel" => ~round'.gone.found,
         page.last = 0 /\ page.instance # kernel.instance => mem'.newest.instance # page.instance
  PROVE  batch' \in BatchType /\ BatchInv'
<1> DEFINE b == BatchOf(page, c, after, oversized, back)
<1>1. TypeOK
  BY OrderFacts
<1>2. /\ b \in BatchType /\ b.back = back
      /\ b.next.instance = page.instance /\ b.next.seq = page.last
      /\ b.next \in Cursors /\ b.next.instance # 0 /\ Reached(b.next) /\ UpTo(cursor, b.next)
      /\ b.rows \in Seq(Rows) /\ Sorted(b.rows) /\ Genuine(b.rows)
      /\ Between(b.rows, b.next)
  BY <1>1, BatchOfPage
<1>3. batch' = b
  OBVIOUS
<1> HIDE DEF b
<1>4. /\ batch'.next.instance # 0 /\ Reached(batch.next)' /\ UpTo(cursor, batch.next)'
      /\ Sorted(batch.rows)' /\ Genuine(batch.rows)'
  BY <1>2, <1>3 DEF Reached, UpTo, Sorted, Genuine, Follows
<1>5. \A k \in 1 .. Len(batch'.rows) :
           /\ batch'.rows[k].instance = batch'.next.instance
           /\ batch'.rows[k].seq <= batch'.next.seq
           /\ UpTo(cursor, CursorOf(batch'.rows[k]))
           /\ ~IsGap(batch'.rows[k]) => cursor # CursorOf(batch'.rows[k])
  BY <1>2, <1>3, Zenon DEF Between
<1>6. page.instance # cursor.instance => cursor.seq = 0 /\ page.instance = kernel.instance
  BY DEF Takeable
<1>7. NotTrusted(batch.next)'
  BY <1>2, <1>3 DEF NotTrusted
<1>8. (flight # <<>>)' => batch'.next.instance = cursor'.instance /\ batch'.back = "parallel"
  BY <1>2, <1>3
<1>9. BatchInv'
  BY <1>2, <1>3, <1>4, <1>5, <1>6, <1>7, <1>8 DEF BatchInv, UpTo
<1> QED
  BY <1>2, <1>3, <1>9

LEMMA NoteSinceType ==
  ASSUME TypeOK, NEW page \in Pages, NEW c, NoteSince(page, c), page.instance \in 1 .. kernel.instance
  PROVE  since' \in [1 .. MaxInstance -> Seqs]
<1>1. since \in [1 .. MaxInstance -> Seqs]
  BY StateFacts DEF StoreTyped
<1>2. page.instance \in 1 .. MaxInstance /\ page.missed \in Seqs
  <2>1. kernel.instance \in Nat /\ kernel.instance <= MaxInstance /\ MaxInstance \in Nat
    BY StateFacts, KernelFacts, Bounds
  <2> QED
    BY <2>1, PageFacts
<1> QED
  BY <1>1, <1>2 DEF NoteSince

\* A step without rows to write, outside the parallel part.
LEMMA Elsewhere ==
  /\ pc' # "parallel" => GoneInv'
  /\ pc' \notin {"write", "advance"} => BatchInv'
BY DEF GoneInv, BatchInv

\* The round is over and nothing is asked for.
LEMMA RoundEnds ==
  ASSUME OrderInv, pc # "down", EndRound, flight' = <<>>, stray' \in Cursors,
         UNCHANGED <<kernel, mem, cursor, log, cleared, since>>, batch' \in BatchType,
         faults' \in 0 .. MaxFaults, saved' \in {saved, StateNow}
  PROVE  OrderInv'
<1>1. /\ TypeOK /\ StoreInv /\ NewestInv /\ KernelTyped /\ CollectTyped /\ StoreTyped
      /\ cursor \in Cursors /\ Len(log) \in Nat /\ saved.rows \in 0 .. Len(log)
      /\ cleared \in 0 .. Len(log)
  BY OrderFacts, StateFacts
<1>2. pc' = "idle" /\ at' = NoCursor /\ round' = NewRound
  BY DEF EndRound
<1>3. KernelTyped' /\ CollectTyped'
  BY <1>1, <1>2, FixedRecords DEF KernelTyped, CollectTyped, Pcs
<1>4. saved' \in [rows: 0 .. Len(log), cursor: Cursors] /\ StoreTyped'
  BY <1>1 DEF StoreTyped, StateNow
<1>5. StoreInv'
  <2>1. CASE saved' = saved
    BY <2>1, <1>1, <1>2, StoreKept
  <2>2. CASE saved' = [rows |-> Len(log), cursor |-> cursor]
    BY <2>2, <1>1, <1>2 DEF StoreInv, Sorted, Follows, Genuine, FirstUpTo, Place, Reached
  <2> QED
    BY <2>1, <2>2 DEF StateNow
<1>6. NewestInv' /\ GoneInv' /\ BatchInv' /\ FlightInv'
  BY <1>1, <1>2, NewestKept, NoFlight, Elsewhere
<1>7. PlaceInv'
  BY <1>2 DEF PlaceInv
<1> QED
  BY <1>3, <1>4, <1>5, <1>6, <1>7, TypePartsAfter DEF OrderInv

LEMMA TakeFailureKeepsOrder ==
  ASSUME OrderInv, TakeFailure
  PROVE  OrderInv'
<1>1. TypeOK /\ stray \in Cursors /\ flight \in Seq(Requests) /\ batch \in BatchType
      /\ faults \in 0 .. MaxFaults
  BY OrderFacts, StateFacts DEF KernelTyped, CollectTyped, StoreTyped
<1>2. /\ pc \in {"parallel", "walk"} /\ AbandonAll(flight) /\ EndRound
      /\ UNCHANGED <<kernel, mem, batch, store, faults>>
  BY DEF TakeFailure
<1>3. flight' = <<>> /\ stray' \in Cursors
  BY <1>1, <1>2, AbandonFacts
<1> QED
  BY <1>1, <1>2, <1>3, RoundEnds DEF store

LEMMA AppendFailsKeepsOrder ==
  ASSUME OrderInv, AppendFails
  PROVE  OrderInv'
<1>1. TypeOK /\ stray \in Cursors /\ flight \in Seq(Requests) /\ faults \in 0 .. MaxFaults
  BY OrderFacts, StateFacts DEF KernelTyped, StoreTyped
<1>2. /\ pc = "write" /\ AbandonAll(flight) /\ EndRound /\ batch' = NoBatch
      /\ saved' \in {saved, StateNow} /\ faults < MaxFaults /\ faults' = faults + 1
      /\ UNCHANGED <<kernel, mem, cursor, log, cleared, since>>
  BY DEF AppendFails
<1>3. flight' = <<>> /\ stray' \in Cursors /\ batch' \in BatchType
  BY <1>1, <1>2, AbandonFacts, FixedRecords
<1>4. faults' \in 0 .. MaxFaults
  BY <1>1, <1>2, Bounds
<1> QED
  BY <1>2, <1>3, <1>4, RoundEnds

LEMMA BeginRoundKeepsOrder ==
  ASSUME OrderInv, BeginRound
  PROVE  OrderInv'
<1>1. /\ TypeOK /\ StoreInv /\ NewestInv /\ PlaceInv /\ KernelTyped /\ CollectTyped /\ StoreTyped
      /\ cursor \in Cursors /\ cursor.instance \in Nat /\ cursor.seq \in Nat
      /\ (cursor.instance = 0 => cursor.seq = 0)
  BY OrderFacts, StateFacts
<1>2. /\ pc = "idle" /\ at' = cursor /\ round' = NewRound
      /\ pc' = IF Handover = "ranges" /\ cursor # NoCursor THEN "parallel" ELSE "walk"
      /\ UNCHANGED <<kernel, flight, stray, mem, batch, cursor, log, cleared, saved, since, faults>>
  BY DEF BeginRound, store
<1>3. flight = <<>>
  BY <1>1, <1>2 DEF PlaceInv
<1>4. pc' = "parallel" => cursor.instance # 0
  BY <1>1, <1>2, PointFacts DEF NoCursor
<1>5. KernelTyped' /\ CollectTyped' /\ StoreTyped'
  BY <1>1, <1>2, FixedRecords DEF KernelTyped, CollectTyped, StoreTyped, Pcs
<1>6. StoreInv' /\ NewestInv' /\ FlightInv' /\ BatchInv'
  BY <1>1, <1>2, <1>3, StoreKept, NewestKept, NoFlight, Elsewhere
<1>7. PlaceInv'
  <2>1. Place(cursor) /\ Place(cursor)'
    BY <1>1, <1>2 DEF StoreInv, Place, Reached
  <2> QED
    BY <1>1, <1>2, <1>3, <1>4, <2>1 DEF PlaceInv, Place, Reached, NewRound
<1>8. GoneInv'
  BY <1>2 DEF GoneInv, NewRound, NoGone
<1> QED
  BY <1>5, <1>6, <1>7, <1>8, TypePartsAfter DEF OrderInv

LEMMA TakeTooLargeKeepsOrder ==
  ASSUME OrderInv, TakeTooLarge
  PROVE  OrderInv'
<1>1. /\ TypeOK /\ StoreInv /\ NewestInv /\ PlaceInv /\ KernelTyped /\ CollectTyped /\ StoreTyped
      /\ cursor \in Cursors /\ cursor.seq \in Nat /\ flight \in Seq(Requests) /\ stray \in Cursors
  BY OrderFacts, StateFacts DEF KernelTyped
<1>2. /\ pc = "parallel" /\ pc' = "walk" /\ at' = cursor /\ round' = NewRound /\ AbandonAll(flight)
      /\ UNCHANGED <<kernel, mem, batch, cursor, log, cleared, saved, since, faults>>
  BY DEF TakeTooLarge, store
<1>3. flight' = <<>> /\ flight' \in Seq(Requests) /\ stray' \in Cursors
  BY <1>1, <1>2, AbandonFacts
<1>4. KernelTyped' /\ CollectTyped' /\ StoreTyped'
  BY <1>1, <1>2, <1>3, FixedRecords DEF KernelTyped, CollectTyped, StoreTyped, Pcs
<1>5. StoreInv' /\ NewestInv' /\ FlightInv' /\ BatchInv' /\ GoneInv'
  BY <1>1, <1>2, <1>3, StoreKept, NewestKept, NoFlight, Elsewhere
<1>6. PlaceInv'
  <2>1. Place(cursor)'
    BY <1>1, <1>2 DEF StoreInv, Place, Reached
  <2> QED
    BY <1>1, <1>2, <1>3, <2>1 DEF PlaceInv, Place, Reached, NewRound
<1> QED
  BY <1>4, <1>5, <1>6, TypePartsAfter DEF OrderInv

LEMMA TakeOverlapKeepsOrder ==
  ASSUME OrderInv, TakeOverlap
  PROVE  OrderInv'
<1>1. /\ TypeOK /\ StoreInv /\ NewestInv /\ PlaceInv /\ GoneInv
      /\ KernelTyped /\ CollectTyped /\ StoreTyped
      /\ flight \in Seq(Requests) /\ stray \in Cursors
  BY OrderFacts, StateFacts DEF KernelTyped
<1>2. /\ pc = "parallel" /\ flight # <<>> /\ First.kind = "page"
      /\ mem' = [mem EXCEPT !.newest = SeenNewest(First.page)] /\ AbandonAll(Tail(flight))
      /\ UNCHANGED <<kernel, pc, at, round, batch, cursor, log, cleared, saved, since, faults>>
  BY DEF TakeOverlap, store, Arrived
<1>3. Tail(flight) \in Seq(Requests)
  BY <1>1, <1>2
<1>4. flight' = <<>> /\ flight' \in Seq(Requests) /\ stray' \in Cursors
  BY <1>1, <1>2, <1>3, AbandonFacts
<1>5. mem' \in MemType /\ NewestInv'
  <2>1. cursor.instance # 0
    BY <1>1, <1>2 DEF PlaceInv
  <2> QED
    BY <1>2, <2>1, SeenNewestFacts
<1>6. KernelTyped' /\ CollectTyped' /\ StoreTyped'
  BY <1>1, <1>2, <1>4, <1>5 DEF KernelTyped, CollectTyped, StoreTyped
<1>7. StoreInv' /\ FlightInv' /\ BatchInv'
  BY <1>1, <1>2, <1>4, StoreKept, NoFlight, Elsewhere
<1>8. PlaceInv' /\ GoneInv'
  BY <1>1, <1>2, <1>4 DEF PlaceInv, GoneInv, Place, Reached
<1> QED
  BY <1>5, <1>6, <1>7, <1>8, TypePartsAfter DEF OrderInv

---------------------------------------------------------------------------
(* Starting over and moving on within a process.                           *)

\* The cursor moves to c, further than every row there is.
LEMMA CursorMoves ==
  ASSUME OrderInv, NEW c \in Cursors, UpTo(cursor, c), Place(c), cursor' = c,
         pc # "down", UNCHANGED <<kernel, log, cleared, saved>>
  PROVE  StoreInv'
<1>1. /\ TypeOK /\ StoreInv /\ cursor \in Cursors /\ log \in Seq(Rows)
  BY OrderFacts, StateFacts
<1>2. FirstUpTo(log, Len(log), c)
  <2> SUFFICES ASSUME NEW k \in 1 .. Len(log) PROVE UpTo(CursorOf(log[k]), c)
    BY DEF FirstUpTo
  <2>1. log[k] \in Rows /\ UpTo(CursorOf(log[k]), cursor)
    BY <1>1 DEF StoreInv, FirstUpTo
  <2> QED
    BY <2>1, <1>1, PointsOfRows, PointFacts, UpToChain
<1>3. FirstUpTo(log, Len(log), cursor)'
  BY <1>2 DEF FirstUpTo, UpTo
<1>4. Place(cursor)' /\ Place(saved.cursor)'
  BY <1>1 DEF StoreInv, Place, Reached
<1> QED
  BY <1>1, <1>3, <1>4 DEF StoreInv, Sorted, Follows, Genuine, FirstUpTo, Reached

\* KixDNS was restarted: the collector goes on with the first record of the new process.
LEMMA StartsOver ==
  ASSUME OrderInv, NEW i, i = kernel.instance, cursor.instance < i, StartOver(i),
         pc \in {"parallel", "walk"}, flight' = <<>>, stray' \in Cursors,
         mem' \in MemType, round' \in RoundType, pc = "walk" => round'.skipped = 0,
         \/ mem'.newest = mem.newest
         \/ mem'.newest.instance = i /\ mem'.newest.count <= kernel.newest,
         pc = "parallel" => ~round'.gone.found,
         UNCHANGED <<kernel, pc, batch, faults>>
  PROVE  OrderInv'
<1> DEFINE c == [instance |-> i, seq |-> 0]
<1>1. /\ TypeOK /\ StoreInv /\ NewestInv /\ PlaceInv
      /\ KernelTyped /\ CollectTyped /\ StoreTyped /\ kernel \in KernelType
      /\ kernel.instance \in Nat /\ kernel.instance >= 1 /\ kernel.instance <= MaxInstance
      /\ kernel.newest \in Nat /\ kernel.newest <= MaxSeq
      /\ cursor.instance \in Nat /\ cursor.seq \in Nat
  BY OrderFacts, StateFacts
<1>2. /\ at' = c /\ cursor' = c /\ since' = [since EXCEPT ![i] = 0]
      /\ UNCHANGED <<log, cleared, saved>>
  BY DEF StartOver
<1>3. c.instance = i /\ c.seq = 0 /\ i \in Nat /\ i >= 1 /\ i \in 1 .. MaxInstance
  BY <1>1, Bounds
<1>4. c \in Cursors
  BY <1>3, SeqsAreNumbers DEF Cursors
<1>5. Place(c) /\ UpTo(cursor, c)
  BY <1>1, <1>3 DEF Place, Reached, UpTo
<1> HIDE DEF c
<1>6. KernelTyped' /\ CollectTyped' /\ StoreTyped'
  <2>1. since' \in [1 .. MaxInstance -> Seqs]
    BY <1>1, <1>2, <1>3, SeqsAreNumbers DEF StoreTyped
  <2> QED
    BY <1>1, <1>2, <1>4, <2>1 DEF KernelTyped, CollectTyped, StoreTyped
<1>7. StoreInv'
  BY <1>2, <1>4, <1>5, CursorMoves
<1>8. NewestInv'
  <2>1. mem'.newest.count \in Nat /\ MaxSeq \in Nat
    BY Bounds, CountFacts DEF MemType
  <2>2. /\ mem'.newest.instance <= kernel.instance /\ mem'.newest.count <= MaxSeq
        /\ mem'.newest.instance = kernel.instance => mem'.newest.count <= kernel.newest
    BY <1>1, <2>1 DEF NewestInv
  <2> QED
    BY <1>1, <1>2, <1>3, <2>2 DEF NewestInv, NotTrusted
<1>9. PlaceInv'
  BY <1>1, <1>2, <1>3, <1>5 DEF PlaceInv, Place, Reached
<1>10. GoneInv' /\ BatchInv' /\ FlightInv'
  BY <1>2, NoFlight, Elsewhere DEF GoneInv
<1> QED
  BY <1>6, <1>7, <1>8, <1>9, <1>10, TypePartsAfter DEF OrderInv

\* A page that shows a restart is of the process that runs, and of no earlier one.
LEMMA RestartIsNew ==
  ASSUME OrderInv, pc \in {"parallel", "walk"}, flight # <<>>, First.kind = "page",
         First.after = at.seq, Restarted(First.page), at.seq # 0 \/ First.after # 0
  PROVE  /\ First.page.instance = kernel.instance /\ cursor.instance < First.page.instance
         /\ First.page.newest <= kernel.newest /\ First.page \in Pages
<1> DEFINE page == First.page
<1>1. /\ page \in Pages /\ PageInv(First, page) /\ First.after \in Nat
  BY FrontFacts DEF Answered
<1>2. page.instance \in Nat /\ page.newest \in Nat
  BY <1>1, PageFacts
<1>3. at.instance = cursor.instance /\ cursor.instance \in Nat /\ at.seq \in Nat
  BY OrderFacts DEF PlaceInv
<1>4. page.instance # cursor.instance
  BY <1>1, <1>2, <1>3 DEF Restarted, PageInv
<1>5. page.instance = kernel.instance /\ cursor.instance <= page.instance
      /\ page.newest <= kernel.newest
  BY <1>1, <1>4 DEF PageInv
<1> HIDE DEF page
<1> QED
  BY <1>1, <1>2, <1>3, <1>4, <1>5 DEF page

LEMMA TakeRestartedKeepsOrder ==
  ASSUME OrderInv, TakeRestarted
  PROVE  OrderInv'
<1> DEFINE page == First.page
<1>1. /\ TypeOK /\ flight \in Seq(Requests) /\ stray \in Cursors /\ round \in RoundType
  BY OrderFacts, StateFacts DEF KernelTyped
<1>2. /\ pc = "parallel" /\ flight # <<>> /\ First.kind = "page" /\ First.after = at.seq
      /\ at.seq # 0 /\ Restarted(page) /\ StartOver(page.instance)
      /\ mem' = [newest  |-> [instance |-> page.instance, count |-> page.newest],
                 counted |-> [instance |-> page.instance, count |-> 0]]
      /\ round' = [round EXCEPT !.gone = NoGone] /\ AbandonAll(Tail(flight))
      /\ UNCHANGED <<kernel, pc, batch, faults>>
  BY DEF TakeRestarted, Arrived
<1>3. Tail(flight) \in Seq(Requests)
  BY <1>1, <1>2
<1>4. flight' = <<>> /\ stray' \in Cursors
  BY <1>1, <1>2, <1>3, AbandonFacts
<1>5. /\ page.instance = kernel.instance /\ cursor.instance < page.instance
      /\ page.newest <= kernel.newest /\ page \in Pages
  BY <1>2, RestartIsNew
<1>6. /\ mem' \in MemType /\ mem'.newest.instance = page.instance
      /\ mem'.newest.count <= kernel.newest
  BY <1>2, <1>5, PageFacts DEF MemType, Counts
<1>7. round' \in RoundType /\ ~round'.gone.found
  BY <1>1, <1>2, FixedRecords DEF RoundType, NoGone
<1> HIDE DEF page
<1> QED
  BY <1>2, <1>4, <1>5, <1>6, <1>7, StartsOver

\* One more page of a round.
LEMMA NextPages ==
  ASSUME OrderInv, pc = "walk", flight # <<>>
  PROVE  /\ round.pages + 1 \in 0 .. PagesPerTick /\ PageSize \in 1 .. PageSize
         /\ round \in RoundType /\ First.after = at.seq /\ First.size = round.size
<1>1. round.pages < PagesPerTick /\ First.after = at.seq /\ First.size = round.size
  BY OrderFacts DEF FlightInv
<1>2. round \in RoundType
  BY OrderFacts, StateFacts
<1>3. round.pages \in Nat
  BY <1>2, Bounds DEF RoundType
<1> QED
  BY <1>1, <1>2, <1>3, Bounds

LEMMA WalkRestartedKeepsOrder ==
  ASSUME OrderInv, WalkRestarted
  PROVE  OrderInv'
<1> DEFINE page == First.page
<1>1. /\ TypeOK /\ stray \in Cursors /\ mem \in MemType
  BY OrderFacts, StateFacts DEF KernelTyped
<1>2. /\ pc = "walk" /\ flight # <<>> /\ First.kind = "page"
      /\ First.after # 0 /\ Restarted(page) /\ StartOver(page.instance)
      /\ mem' = [mem EXCEPT !.counted = [instance |-> page.instance, count |-> 0]]
      /\ round' = [round EXCEPT !.pages = @ + 1, !.size = PageSize, !.skipped = 0]
      /\ flight' = <<>> /\ UNCHANGED <<kernel, stray, pc, batch, faults>>
  BY DEF WalkRestarted, Arrived
<1>3. /\ round.pages + 1 \in 0 .. PagesPerTick /\ PageSize \in 1 .. PageSize
      /\ round \in RoundType /\ First.after = at.seq
  BY <1>2, NextPages
<1>4. /\ page.instance = kernel.instance /\ cursor.instance < page.instance /\ page \in Pages
  BY <1>2, <1>3, RestartIsNew
<1>5. mem' \in MemType /\ mem'.newest = mem.newest
  BY <1>1, <1>2, <1>4, PageFacts DEF MemType, Counts
<1>6. round' \in RoundType /\ round'.skipped = 0
  BY <1>2, <1>3 DEF RoundType
<1> HIDE DEF page
<1> QED
  BY <1>1, <1>2, <1>4, <1>5, <1>6, StartsOver

LEMMA SkipFindsRestartKeepsOrder ==
  ASSUME OrderInv, SkipFindsRestart
  PROVE  OrderInv'
<1>1. /\ TypeOK /\ stray \in Cursors /\ mem \in MemType /\ kernel \in KernelType
  BY OrderFacts, StateFacts DEF KernelTyped
<1>2. /\ pc = "walk" /\ flight # <<>> /\ at.instance # kernel.instance
      /\ StartOver(kernel.instance)
      /\ mem' = [mem EXCEPT !.counted = [instance |-> kernel.instance, count |-> 0]]
      /\ round' = [round EXCEPT !.pages = @ + 1, !.size = PageSize, !.skipped = 0]
      /\ flight' = <<>> /\ UNCHANGED <<kernel, stray, pc, batch, faults>>
  BY DEF SkipFindsRestart, TooLargeAlone, Arrived
<1>3. /\ round.pages + 1 \in 0 .. PagesPerTick /\ PageSize \in 1 .. PageSize
      /\ round \in RoundType
  BY <1>2, NextPages
<1>4. cursor.instance < kernel.instance
  BY <1>2, OrderFacts DEF PlaceInv
<1>5. mem' \in MemType /\ mem'.newest = mem.newest
  BY <1>1, <1>2 DEF MemType, Counts, KernelType
<1>6. round' \in RoundType /\ round'.skipped = 0
  BY <1>2, <1>3 DEF RoundType
<1> QED
  BY <1>1, <1>2, <1>4, <1>5, <1>6, StartsOver

\* A large reply in front: its first record is one of the process it is skipped in.
LEMMA SkippedRecord ==
  ASSUME OrderInv, TooLargeAlone, round.skipped = 0 /\ at.instance # 0 => at.instance = kernel.instance
  PROVE  LET i == IF round.skipped = 0 THEN kernel.instance ELSE at.instance
             c == [instance |-> i, seq |-> First.after + 1]
         IN  /\ i \in 1 .. MaxInstance /\ i # 0 /\ First.after + 1 \in Seqs /\ First.after + 1 # 0
             /\ c \in Cursors /\ Place(c) /\ UpTo(cursor, c) /\ at = cursor /\ First.after = at.seq
             /\ cursor.instance # 0 => i = cursor.instance
             /\ i = kernel.instance =>
                  First.page.instance = kernel.instance /\ First.page \in Pages
                  /\ PageInv(First, First.page)
<1> DEFINE i == IF round.skipped = 0 THEN kernel.instance ELSE at.instance
           page == First.page
           after == First.after
<1>1. pc = "walk" /\ flight # <<>> /\ First.kind = "large"
  BY DEF TooLargeAlone, Arrived
<1>2. /\ at = cursor /\ after = at.seq
      /\ kernel.instance \in Nat /\ kernel.instance >= 1 /\ kernel.instance <= MaxInstance
      /\ cursor.instance \in Nat /\ cursor.seq \in Nat /\ cursor.instance <= kernel.instance
      /\ cursor.instance = 0 => cursor.seq = 0
      /\ round.skipped > 0 => at.instance # 0
      /\ kernel.newest \in Nat
  BY <1>1, OrderFacts, NextPages DEF PlaceInv
<1>3. page \in Pages /\ PageInv(First, page) /\ after \in Nat
  BY <1>1, FrontFacts DEF Answered
<1>4. /\ page.instance \in Nat /\ page.newest \in Nat /\ page.missed \in Nat /\ page.last \in Nat
      /\ page.last \in Seqs
  BY <1>3, PageFacts
<1>5. round.skipped \in Nat
  BY OrderFacts, StateFacts DEF RoundType
<1>6. (round.skipped = 0 => i = kernel.instance) /\ (round.skipped # 0 => i = at.instance)
      /\ (round.skipped # 0 => round.skipped > 0)
  BY <1>5
<1> HIDE DEF i
<1>7. i \in Nat /\ i # 0 /\ i <= kernel.instance /\ cursor.instance <= i
      /\ (cursor.instance # 0 => i = cursor.instance)
  BY <1>2, <1>6
<1>8. /\ page.instance \in 1 .. kernel.instance /\ cursor.instance <= page.instance
      /\ page.instance = kernel.instance => page.newest <= kernel.newest
      /\ after <= page.newest => page.last <= page.newest
      /\ page.instance = kernel.instance \/ (page.instance = cursor.instance /\ cursor.seq > 0)
      /\ page.instance = cursor.instance => after <= page.newest
      /\ after + page.missed + 1 <= page.last
  BY <1>1, <1>3, Zenon DEF PageInv
<1>9. i = kernel.instance => page.instance = kernel.instance /\ after <= page.newest
  <2> SUFFICES ASSUME i = kernel.instance
               PROVE  page.instance = kernel.instance /\ after <= page.newest
    OBVIOUS
  <2>1. CASE cursor.instance = 0
    BY <2>1, <1>2, <1>4, <1>8
  <2>2. CASE cursor.instance # 0
    BY <2>2, <1>2, <1>4, <1>7, <1>8
  <2> QED
    BY <2>1, <2>2
<1> HIDE DEF page, after
<1>10. after + 1 \in Nat /\ after + 1 <= page.last /\ after + 1 # 0
  BY <1>3, <1>4, <1>8
<1>11. i = kernel.instance => after + 1 <= kernel.newest
  BY <1>2, <1>4, <1>8, <1>9, <1>10
<1>12. after + 1 \in Seqs
  BY <1>4, <1>10, SeqsAreNumbers, Bounds
<1> DEFINE c == [instance |-> i, seq |-> after + 1]
<1>13. c \in Cursors
  <2>1. i \in Instances
    BY <1>2, <1>7, SeqsAreNumbers, Bounds
  <2> QED
    BY <2>1, <1>12 DEF Cursors
<1>14. Place(c) /\ UpTo(cursor, c)
  BY <1>2, <1>3, <1>7, <1>11 DEF Place, Reached, UpTo
<1>15. i \in 1 .. MaxInstance
  BY <1>2, <1>7, Bounds
<1> QED
  BY <1>2, <1>3, <1>7, <1>9, <1>10, <1>12, <1>13, <1>14, <1>15 DEF i, page, after

LEMMA SkipOversizedKeepsOrder ==
  ASSUME OrderInv, SkipOversized
  PROVE  OrderInv'
<1> DEFINE i == IF round.skipped = 0 THEN kernel.instance ELSE at.instance
           counts == IF round.skipped = 0 THEN at.instance # 0 ELSE round.counts
           c == [instance |-> i, seq |-> First.after + 1]
<1>1. /\ TypeOK /\ StoreInv /\ NewestInv /\ KernelTyped /\ CollectTyped /\ StoreTyped
      /\ since \in [1 .. MaxInstance -> Seqs]
  BY OrderFacts, StateFacts DEF StoreTyped
<1>2. /\ TooLargeAlone /\ pc = "walk" /\ flight # <<>>
      /\ round.skipped = 0 /\ at.instance # 0 => at.instance = kernel.instance
      /\ at' = c /\ cursor' = c /\ flight' = <<>>
      /\ round' = [round EXCEPT !.pages = @ + 1, !.skipped = @ + 1, !.counts = counts]
      /\ since' = IF counts THEN since ELSE [since EXCEPT ![i] = First.after + 1]
      /\ UNCHANGED <<kernel, stray, pc, mem, batch, log, cleared, saved, faults>>
  BY DEF SkipOversized, TooLargeAlone, Arrived
<1>3. /\ i \in 1 .. MaxInstance /\ i # 0 /\ First.after + 1 \in Seqs /\ First.after + 1 # 0
      /\ c \in Cursors /\ Place(c) /\ UpTo(cursor, c)
  BY <1>2, SkippedRecord
<1>4. /\ round.pages + 1 \in 0 .. PagesPerTick /\ round \in RoundType
  BY <1>2, NextPages
<1>5. counts \in BOOLEAN /\ round.skipped + 1 \in Nat
  <2>1. round.counts \in BOOLEAN /\ round.skipped \in Nat
    BY <1>4 DEF RoundType
  <2>2. counts \in BOOLEAN
    BY <2>1, Zenon
  <2> QED
    BY <2>1, <2>2
<1>6. since' \in [1 .. MaxInstance -> Seqs]
  BY <1>1, <1>2, <1>3
<1>7. c.instance = i /\ c.seq = First.after + 1
  OBVIOUS
<1> HIDE DEF i, counts, c
<1>8. round' \in RoundType
  BY <1>2, <1>4, <1>5 DEF RoundType
<1>9. KernelTyped' /\ CollectTyped' /\ StoreTyped'
  BY <1>1, <1>2, <1>3, <1>6, <1>8 DEF KernelTyped, CollectTyped, StoreTyped
<1>10. StoreInv'
  BY <1>2, <1>3, CursorMoves
<1>11. NewestInv'
  BY <1>1, <1>2, <1>3, <1>7 DEF NewestInv, NotTrusted
<1>12. PlaceInv'
  <2>1. c.seq <= c.seq
    BY <1>3, PointFacts
  <2> QED
    BY <1>2, <1>3, <1>7, <2>1 DEF PlaceInv, Place, Reached
<1>13. GoneInv' /\ BatchInv' /\ FlightInv'
  BY <1>2, NoFlight, Elsewhere
<1> QED
  BY <1>9, <1>10, <1>11, <1>12, <1>13, TypePartsAfter DEF OrderInv

\* The page in front is taken in its order.
LEMMA InOrderTakeable ==
  ASSUME OrderInv, InOrder
  PROVE  /\ pc = "parallel" /\ flight # <<>> /\ First.kind = "page" /\ First.after = at.seq
         /\ Takeable(First.page, First.after) /\ cursor.instance # 0
         /\ First.page.instance # cursor.instance => Len(flight) = 1
         /\ First.page.last = 0 => First.page.instance = kernel.instance
<1>1. /\ pc = "parallel" /\ flight # <<>> /\ First.kind = "page" /\ First.after = at.seq
      /\ at.seq = 0 \/ ~Restarted(First.page)
  BY DEF InOrder, Arrived
<1>2. at.instance = First.page.instance \/ First.after = 0
  BY <1>1 DEF Restarted
<1>3. cursor.instance # 0
  BY <1>1, OrderFacts DEF PlaceInv
<1> QED
  BY <1>1, <1>2, <1>3, FrontTakeable

LEMMA EarlierGoneType ==
  ASSUME TypeOK
  PROVE  EarlierGone \in Nat
<1>1. round.gone.earlier \in Nat /\ round.gone.page.missed \in Nat
  BY StateFacts, PageFacts
<1> QED
  BY <1>1 DEF EarlierGone

LEMMA TakeGoneKeepsOrder ==
  ASSUME OrderInv, TakeGone
  PROVE  OrderInv'
<1> DEFINE page == First.page
           gone == [found |-> TRUE, page |-> page, after |-> First.after, earlier |-> EarlierGone]
           next == First.after + page.missed
<1>1. /\ TypeOK /\ StoreInv /\ NewestInv /\ PlaceInv /\ KernelTyped /\ CollectTyped /\ StoreTyped
      /\ round \in RoundType /\ at \in Cursors
      /\ kernel.instance \in Nat /\ kernel.newest \in Nat
      /\ at.instance \in Nat /\ at.seq \in Nat /\ cursor.instance \in Nat /\ cursor.seq \in Nat
  BY OrderFacts, StateFacts
<1>2. /\ pc = "parallel" /\ flight # <<>> /\ First.kind = "page" /\ First.after = at.seq
      /\ Takeable(page, First.after) /\ cursor.instance # 0
      /\ page.instance # cursor.instance => Len(flight) = 1
  BY InOrderTakeable DEF TakeGone
<1>3. /\ page.missed > 0 /\ page.last = next
      /\ mem' = [mem EXCEPT !.newest = SeenNewest(page)]
      /\ round' = [round EXCEPT !.caught = CaughtUp(page), !.gone = gone]
      /\ at' = [at EXCEPT !.seq = next] /\ flight' = Tail(flight)
      /\ UNCHANGED <<kernel, stray, pc, batch, cursor, log, cleared, saved, since, faults>>
  BY DEF TakeGone, store
<1>4. page \in Pages /\ First.after \in Seqs /\ First.after \in Nat
  BY <1>2, FrontFacts
<1>5. /\ page.instance \in Nat /\ page.missed \in Nat /\ page.last \in Seqs /\ page.last \in Nat
  BY <1>4, PageFacts
<1>6. mem' \in MemType /\ NewestInv'
  BY <1>2, <1>3, SeenNewestFacts
<1>7. flight' \in Seq(Requests) /\ FlightInv'
  BY <1>2, <1>3, RestOfFlight
<1>8. gone \in GoneType
  BY <1>1, <1>4, EarlierGoneType DEF GoneType
<1>9. CaughtUp(page) \in BOOLEAN
  BY DEF CaughtUp
<1> HIDE DEF gone
<1>10. round' \in RoundType
  BY <1>1, <1>3, <1>8, <1>9 DEF RoundType
<1>11. at' \in Cursors /\ at'.instance = at.instance /\ at'.seq = page.last
  BY <1>1, <1>3, <1>5 DEF Cursors
<1>12. KernelTyped' /\ CollectTyped' /\ StoreTyped'
  BY <1>1, <1>3, <1>6, <1>7, <1>10, <1>11 DEF KernelTyped, CollectTyped, StoreTyped
<1>13. StoreInv' /\ BatchInv'
  BY <1>1, <1>2, <1>3, StoreKept, Elsewhere
<1>14. PlaceInv'
  <2>1. at.instance = cursor.instance /\ cursor.seq <= at.seq /\ Place(at) /\ at.instance # 0
    BY <1>1, <1>2 DEF PlaceInv
  <2>2. at'.instance = cursor'.instance /\ cursor'.seq <= at'.seq
    BY <2>1, <1>1, <1>2, <1>3, <1>5, <1>11
  <2>3. at.instance = kernel.instance => page.last <= kernel.newest
    BY <2>1, <1>2, <1>1, <1>5 DEF Takeable
  <2>4. Place(at)'
    BY <2>1, <2>3, <1>3, <1>11 DEF Place, Reached
  <2> QED
    BY <2>2, <2>4, <1>2, <1>3 DEF PlaceInv, Place, Reached
<1>15. GoneInv'
  <2>1. /\ round'.gone.page = page /\ round'.gone.after = First.after
    BY <1>1, <1>3 DEF RoundType, gone
  <2>2. page.instance = kernel.instance => page.last <= kernel.newest
    BY <1>2 DEF Takeable
  <2> QED
    BY <2>1, <2>2, <1>2, <1>3 DEF GoneInv, Takeable
<1> QED
  BY <1>6, <1>7, <1>12, <1>13, <1>14, <1>15, TypePartsAfter DEF OrderInv

LEMMA TakePageKeepsOrder ==
  ASSUME OrderInv, TakePage
  PROVE  OrderInv'
<1> DEFINE page == First.page
<1>1. /\ TypeOK /\ StoreInv /\ NewestInv /\ PlaceInv /\ KernelTyped /\ CollectTyped /\ StoreTyped
      /\ round \in RoundType /\ at \in Cursors
  BY OrderFacts, StateFacts
<1>2. /\ pc = "parallel" /\ flight # <<>> /\ First.kind = "page" /\ First.after = at.seq
      /\ Takeable(page, First.after) /\ cursor.instance # 0
      /\ page.instance # cursor.instance => Len(flight) = 1
      /\ page.last = 0 => page.instance = kernel.instance
  BY InOrderTakeable DEF TakePage
<1>3. /\ mem' = [mem EXCEPT !.newest = SeenNewest(page)]
      /\ round' = [round EXCEPT !.caught = CaughtUp(page), !.gone = NoGone]
      /\ batch' = BatchOf(page, at, First.after, EarlierGone, "parallel")
      /\ NoteSince(page, at) /\ pc' = "write" /\ flight' = Tail(flight)
      /\ UNCHANGED <<kernel, stray, at, cursor, log, cleared, saved, faults>>
  BY DEF TakePage
<1>4. page \in Pages /\ First.after \in Seqs
  BY <1>2, FrontFacts
<1>5. mem' \in MemType /\ NewestInv'
  BY <1>2, <1>3, SeenNewestFacts
<1>6. flight' \in Seq(Requests) /\ FlightInv' /\ (Len(flight) = 1 => flight' = <<>>)
  BY <1>2, <1>3, RestOfFlight
<1>7. round' \in RoundType /\ ~round'.gone.found
  <2>1. CaughtUp(page) \in BOOLEAN
    BY DEF CaughtUp
  <2>2. NoGone \in GoneType /\ ~NoGone.found
    BY FixedRecords DEF NoGone
  <2> QED
    BY <1>1, <1>3, <2>1, <2>2 DEF RoundType
<1>8. since' \in [1 .. MaxInstance -> Seqs]
  BY <1>1, <1>2, <1>3, <1>4, NoteSinceType DEF Takeable
<1> HIDE DEF page
<1>9. batch' \in BatchType /\ BatchInv'
  BY <1>1, <1>2, <1>3, <1>4, <1>6, <1>7, EarlierGoneType, BatchTaken
<1>10. KernelTyped' /\ CollectTyped' /\ StoreTyped'
  BY <1>1, <1>3, <1>5, <1>6, <1>7, <1>8, <1>9 DEF KernelTyped, CollectTyped, StoreTyped, Pcs
<1>11. StoreInv' /\ GoneInv'
  BY <1>1, <1>2, <1>3, StoreKept, Elsewhere
<1>12. PlaceInv'
  BY <1>1, <1>2, <1>3 DEF PlaceInv, Place, Reached
<1> QED
  BY <1>5, <1>6, <1>9, <1>10, <1>11, <1>12, TypePartsAfter DEF OrderInv

LEMMA EndParallelKeepsOrder ==
  ASSUME OrderInv, EndParallel
  PROVE  OrderInv'
<1> DEFINE gone == round.gone
           c == [at EXCEPT !.seq = gone.after]
<1>1. /\ TypeOK /\ StoreInv /\ NewestInv /\ PlaceInv /\ GoneInv
      /\ KernelTyped /\ CollectTyped /\ StoreTyped
      /\ round \in RoundType /\ at \in Cursors /\ gone \in GoneType /\ gone.page \in Pages
      /\ gone.after \in Seqs /\ gone.earlier \in Nat /\ flight \in Seq(Requests) /\ stray \in Cursors
      /\ batch \in BatchType /\ faults \in 0 .. MaxFaults
  BY OrderFacts, StateFacts DEF KernelTyped, CollectTyped, StoreTyped
<1>2. /\ pc = "parallel" /\ flight = <<>>
      /\ UNCHANGED <<kernel, flight, stray, mem, cursor, log, cleared, saved, faults>>
  BY DEF EndParallel
<1>3. CASE ~gone.found
  <2>1. EndRound /\ UNCHANGED <<batch, since>>
    BY <1>3 DEF EndParallel
  <2> QED
    BY <2>1, <1>1, <1>2, RoundEnds
<1>4. CASE gone.found
  <2>1. /\ batch' = BatchOf(gone.page, c, gone.after, gone.earlier, "idle")
        /\ NoteSince(gone.page, at) /\ pc' = "write" /\ round' = [round EXCEPT !.gone = NoGone]
        /\ UNCHANGED at
    BY <1>4 DEF EndParallel
  <2>2. /\ gone.page.instance \in 1 .. kernel.instance /\ cursor.instance <= gone.page.instance
        /\ gone.page.missed > 0 /\ gone.page.last = gone.after + gone.page.missed
        /\ gone.page.instance = kernel.instance => gone.page.last <= kernel.newest
        /\ gone.page.instance = cursor.instance => cursor.seq <= gone.after
        /\ gone.page.instance # cursor.instance =>
             cursor.seq = 0 /\ gone.page.instance = kernel.instance
    BY <1>1, <1>2, <1>4 DEF GoneInv
  <2>3. gone.page.missed \in Nat /\ gone.after \in Nat /\ gone.page.last \in Nat
    BY <1>1, PageFacts, SeqsAreNumbers
  <2>4. Takeable(gone.page, gone.after) /\ gone.page.last # 0
    BY <2>2, <2>3 DEF Takeable
  <2>5. c \in Cursors
    BY <1>1 DEF Cursors
  <2>6. round' \in RoundType /\ ~round'.gone.found
    BY <1>1, <2>1, FixedRecords DEF RoundType, NoGone
  <2>7. since' \in [1 .. MaxInstance -> Seqs]
    BY <1>1, <2>1, <2>2, NoteSinceType
  <2> HIDE DEF gone, c
  <2>8. batch' \in BatchType /\ BatchInv'
    BY <1>1, <1>2, <2>1, <2>4, <2>5, <2>6, BatchTaken
  <2>9. KernelTyped' /\ CollectTyped' /\ StoreTyped'
    BY <1>1, <1>2, <2>1, <2>6, <2>7, <2>8 DEF KernelTyped, CollectTyped, StoreTyped, Pcs
  <2>10. StoreInv' /\ NewestInv' /\ GoneInv' /\ FlightInv'
    BY <1>1, <1>2, <2>1, StoreKept, NewestKept, NoFlight, Elsewhere
  <2>11. PlaceInv'
    BY <1>1, <1>2, <2>1 DEF PlaceInv, Place, Reached
  <2> QED
    BY <2>8, <2>9, <2>10, <2>11, TypePartsAfter DEF OrderInv
<1> QED
  BY <1>3, <1>4

LEMMA WalkPageKeepsOrder ==
  ASSUME OrderInv, WalkPage
  PROVE  OrderInv'
<1> DEFINE page == First.page
           oversized == IF round.counts THEN round.skipped ELSE 0
<1>1. /\ TypeOK /\ StoreInv /\ NewestInv /\ PlaceInv /\ KernelTyped /\ CollectTyped /\ StoreTyped
      /\ at \in Cursors /\ at.instance \in Nat /\ cursor.instance \in Nat
      /\ (cursor.instance = 0 => cursor.seq = 0)
  BY OrderFacts, StateFacts
<1>2. /\ pc = "walk" /\ flight # <<>> /\ First.kind = "page"
      /\ at.instance # 0 /\ First.after # 0 => ~Restarted(page)
      /\ batch' = BatchOf(page, at, First.after, oversized, "walk")
      /\ NoteSince(page, at)
      /\ round' = [round EXCEPT !.pages = @ + 1, !.size = PageSize, !.skipped = 0,
                                !.more = ~CaughtUp(page)]
      /\ pc' = "write" /\ flight' = <<>>
      /\ UNCHANGED <<kernel, stray, at, mem, cursor, log, cleared, saved, faults>>
  BY DEF WalkPage, Arrived
<1>3. /\ round.pages + 1 \in 0 .. PagesPerTick /\ PageSize \in 1 .. PageSize
      /\ round \in RoundType /\ First.after = at.seq
  BY <1>2, NextPages
<1>4. at = cursor
  BY <1>1, <1>2 DEF PlaceInv
<1>5. at.instance = page.instance \/ First.after = 0
  BY <1>1, <1>2, <1>3, <1>4 DEF Restarted
<1>6. Takeable(page, First.after) /\ (page.last = 0 => page.instance = kernel.instance)
  BY <1>2, <1>3, <1>5, FrontTakeable
<1>7. page \in Pages /\ First.after \in Seqs
  BY <1>2, FrontFacts
<1>8. oversized \in Nat /\ (~CaughtUp(page)) \in BOOLEAN
  <2>1. round.skipped \in Nat
    BY <1>3 DEF RoundType
  <2>2. (~CaughtUp(page)) \in BOOLEAN
    BY DEF CaughtUp
  <2> QED
    BY <2>1, <2>2
<1>9. since' \in [1 .. MaxInstance -> Seqs]
  BY <1>1, <1>2, <1>6, <1>7, NoteSinceType DEF Takeable
<1> HIDE DEF page, oversized
<1>10. round' \in RoundType
  BY <1>2, <1>3, <1>8 DEF RoundType
<1>11. batch' \in BatchType /\ BatchInv'
  BY <1>1, <1>2, <1>6, <1>7, <1>8, BatchTaken
<1>12. KernelTyped' /\ CollectTyped' /\ StoreTyped'
  BY <1>1, <1>2, <1>9, <1>10, <1>11 DEF KernelTyped, CollectTyped, StoreTyped, Pcs
<1>13. StoreInv' /\ NewestInv' /\ GoneInv' /\ FlightInv'
  BY <1>1, <1>2, StoreKept, NewestKept, NoFlight, Elsewhere
<1>14. PlaceInv'
  BY <1>1, <1>2 DEF PlaceInv, Place, Reached
<1> QED
  BY <1>11, <1>12, <1>13, <1>14, TypePartsAfter DEF OrderInv

LEMMA WalkHalveKeepsOrder ==
  ASSUME OrderInv, WalkHalve
  PROVE  OrderInv'
<1>1. /\ TypeOK /\ StoreInv /\ NewestInv /\ PlaceInv /\ KernelTyped /\ CollectTyped /\ StoreTyped
      /\ round \in RoundType
  BY OrderFacts, StateFacts
<1>2. /\ pc = "walk" /\ round.size > 1 /\ round' = [round EXCEPT !.size = @ \div 2]
      /\ flight' = <<>>
      /\ UNCHANGED <<kernel, stray, pc, at, mem, batch, cursor, log, cleared, saved, since, faults>>
  BY DEF WalkHalve, store
<1>3. round.size \div 2 \in 1 .. PageSize
  BY <1>1, <1>2, Bounds DEF RoundType
<1>4. round' \in RoundType /\ round'.skipped = round.skipped
  BY <1>1, <1>2, <1>3 DEF RoundType
<1>5. KernelTyped' /\ CollectTyped' /\ StoreTyped'
  BY <1>1, <1>2, <1>4 DEF KernelTyped, CollectTyped, StoreTyped
<1>6. StoreInv' /\ NewestInv' /\ GoneInv' /\ BatchInv' /\ FlightInv'
  BY <1>1, <1>2, StoreKept, NewestKept, NoFlight, Elsewhere
<1>7. PlaceInv'
  BY <1>1, <1>2, <1>4 DEF PlaceInv, Place, Reached
<1> QED
  BY <1>5, <1>6, <1>7, TypePartsAfter DEF OrderInv

LEMMA EndWalkKeepsOrder ==
  ASSUME OrderInv, EndWalk
  PROVE  OrderInv'
<1> DEFINE row == Gap(at.instance, at.seq, round.skipped, 0)
<1>1. /\ TypeOK /\ StoreInv /\ NewestInv /\ PlaceInv
      /\ KernelTyped /\ CollectTyped /\ StoreTyped
      /\ round \in RoundType /\ at \in Cursors /\ mem.counted \in Counts
      /\ cursor.instance \in Nat /\ cursor.seq \in Nat /\ at.instance \in Instances /\ at.seq \in Seqs
      /\ stray \in Cursors /\ batch \in BatchType /\ faults \in 0 .. MaxFaults
  BY OrderFacts, StateFacts, PointFacts DEF KernelTyped, CollectTyped, StoreTyped
<1>2. /\ pc = "walk" /\ flight = <<>>
      /\ UNCHANGED <<kernel, flight, stray, mem, cursor, log, cleared, saved, since, faults>>
  BY DEF EndWalk, store
<1>3. CASE ~(round.skipped > 0 /\ round.counts)
  <2>1. EndRound /\ UNCHANGED batch
    BY <1>3 DEF EndWalk
  <2> QED
    BY <2>1, <1>1, <1>2, RoundEnds
<1>4. CASE round.skipped > 0 /\ round.counts
  <2>1. /\ batch' = [rows |-> <<row>>, next |-> at, counted |-> mem.counted, back |-> "idle"]
        /\ pc' = "write" /\ round' = [round EXCEPT !.skipped = 0] /\ UNCHANGED at
    BY <1>4 DEF EndWalk
  <2>2. at = cursor /\ at.instance # 0 /\ Place(at)
    BY <1>1, <1>2, <1>4 DEF PlaceInv
  <2>3. round.skipped \in Nat /\ round.skipped + 0 > 0
    BY <1>1, <1>4 DEF RoundType
  <2>4. row \in Rows /\ row.instance = at.instance /\ row.seq = at.seq /\ IsGap(row)
    BY <1>1, <2>3, GapRow
  <2> HIDE DEF row
  <2>5. batch' \in BatchType /\ round' \in RoundType
    <3>1. <<row>> \in Seq(Rows) /\ at \in Cursors /\ mem.counted \in Counts
      BY <1>1, <2>4, OneRow
    <3>2. batch' \in BatchType
      BY <2>1, <3>1 DEF BatchType
    <3>3. round' \in RoundType
      BY <1>1, <2>1 DEF RoundType
    <3> QED
      BY <3>2, <3>3
  <2>6. KernelTyped' /\ CollectTyped' /\ StoreTyped'
    BY <1>1, <1>2, <2>1, <2>5 DEF KernelTyped, CollectTyped, StoreTyped, Pcs
  <2>7. StoreInv' /\ NewestInv' /\ GoneInv' /\ FlightInv'
    BY <1>1, <1>2, <2>1, StoreKept, NewestKept, NoFlight, Elsewhere
  <2>8. PlaceInv'
    BY <1>1, <1>2, <2>1 DEF PlaceInv, Place, Reached
  <2>9. BatchInv'
    <3>1. /\ batch'.rows = <<row>> /\ batch'.next = cursor /\ batch'.back = "idle"
          /\ Len(batch'.rows) = 1 /\ batch'.rows[1] = row
      BY <2>1, <2>2
    <3>2. CursorOf(row) = cursor /\ UpTo(cursor, cursor)
      BY <2>2, <2>4, <1>1, PointFacts DEF CursorOf, UpTo
    <3>3. Reached(cursor)
      BY <2>2 DEF Place
    <3>4. \A k \in 1 .. Len(batch'.rows) : k = 1 /\ batch'.rows[k] = row
      BY <3>1
    <3>5. Sorted(batch.rows)'
      BY <3>4 DEF Sorted
    <3>6. Genuine(batch.rows)'
      BY <3>2, <3>3, <3>4, <2>2, <2>4, <1>2 DEF Genuine, Reached
    <3>7. NotTrusted(batch.next)'
      BY <3>1, <1>1, <1>2 DEF NewestInv, NotTrusted
    <3>8. \A k \in 1 .. Len(batch'.rows) :
               /\ batch'.rows[k].instance = batch'.next.instance
               /\ batch'.rows[k].seq <= batch'.next.seq
               /\ UpTo(cursor', CursorOf(batch'.rows[k]))
               /\ IsGap(batch'.rows[k])
      BY <3>1, <3>2, <3>4, <2>2, <2>4, <1>1, <1>2 DEF UpTo
    <3>9. batch'.next.instance # 0 /\ Reached(batch.next)' /\ UpTo(cursor, batch.next)'
      BY <3>1, <3>2, <3>3, <2>2, <1>2 DEF Reached, UpTo
    <3>10. flight' = <<>> /\ batch'.next.instance = cursor'.instance
      BY <1>2, <3>1
    <3> QED
      BY <3>1, <3>5, <3>6, <3>7, <3>8, <3>9, <3>10 DEF BatchInv
  <2> QED
    BY <2>6, <2>7, <2>8, <2>9, TypePartsAfter DEF OrderInv
<1> QED
  BY <1>3, <1>4

LEMMA AskNextKeepsOrder ==
  ASSUME OrderInv, AskNext
  PROVE  OrderInv'
<1> DEFINE i == IF Handover = "cursor" THEN 0 ELSE at.instance
           req == Request(at.seq, round.size, i, at.seq, FALSE)
<1>1. /\ TypeOK /\ StoreInv /\ NewestInv /\ PlaceInv
      /\ KernelTyped /\ CollectTyped /\ StoreTyped
      /\ round \in RoundType /\ round.size \in 1 .. PageSize
      /\ at.instance \in Instances /\ at.seq \in Seqs /\ 0 \in Instances
  BY OrderFacts, StateFacts, PointFacts, SeqsAreNumbers DEF RoundType
<1>2. /\ pc = "walk" /\ round.pages < PagesPerTick /\ flight' = <<req>>
      /\ UNCHANGED <<kernel, stray, pc, at, mem, round, batch, cursor, log, cleared, saved, since,
                     faults>>
  BY DEF AskNext, collector, store
<1>3. /\ req \in Requests /\ req.after = at.seq /\ req.size = round.size /\ req.full = FALSE
      /\ req.kind = "asked"
  <2>1. i \in Instances /\ FALSE \in BOOLEAN
    BY <1>1
  <2> HIDE DEF i
  <2> QED
    BY <1>1, <2>1, FixedRecords DEF Request, Requests
<1> HIDE DEF req
<1>4. flight' \in Seq(Requests) /\ Len(flight') = 1 /\ flight'[1] = req /\ flight' # <<>>
      /\ \A k \in 1 .. Len(flight') : k = 1
  BY <1>2, <1>3
<1>5. KernelTyped' /\ CollectTyped' /\ StoreTyped'
  BY <1>1, <1>2, <1>4 DEF KernelTyped, CollectTyped, StoreTyped
<1>6. StoreInv' /\ NewestInv' /\ GoneInv' /\ BatchInv'
  BY <1>1, <1>2, StoreKept, NewestKept, Elsewhere
<1>7. PlaceInv'
  BY <1>1, <1>2 DEF PlaceInv, Place, Reached
<1>8. FlightInv'
  <2>1. kernel.instance = cursor.instance => at.seq <= kernel.newest
    BY <1>1, <1>2 DEF PlaceInv, Place, Reached
  <2>2. AskInv(First)' /\ ~Answered(First)'
    BY <2>1, <1>2, <1>3, <1>4 DEF AskInv, Answered, First
  <2> QED
    BY <2>2, <1>2, <1>3, <1>4 DEF FlightInv, First
<1> QED
  BY <1>5, <1>6, <1>7, <1>8, TypePartsAfter DEF OrderInv

\* The number a page is asked for after, and that it exists.
LEMMA NextAfterFacts ==
  ASSUME OrderInv, pc = "parallel", flight # <<>> => flight[Len(flight)].full
  PROVE  /\ NextAfter \in Seqs
         /\ kernel.instance = cursor.instance => NextAfter <= kernel.newest
<1>1. CASE flight = <<>>
  <2>1. Place(at) /\ at.instance = cursor.instance /\ at.seq \in Seqs
    BY OrderFacts, StateFacts, PointFacts DEF PlaceInv
  <2> QED
    BY <1>1, <2>1 DEF NextAfter, Place, Reached
<1>2. CASE flight # <<>>
  <2> DEFINE req == flight[Len(flight)]
  <2>1. Len(flight) \in 1 .. Len(flight)
    BY <1>2, OrderFacts, StateFacts
  <2>2. req \in Requests /\ AskInv(req) /\ req.full
    BY <1>2, <2>1, OrderFacts, StateFacts DEF FlightInv
  <2>3. req.after \in Nat /\ PageSize \in Nat /\ MaxSeq \in Nat
    BY <2>2, RequestFacts, Bounds
  <2>4. NextAfter = req.after + PageSize
    BY <1>2 DEF NextAfter
  <2> HIDE DEF req
  <2>5. req.after + PageSize <= MaxSeq
        /\ (kernel.instance = cursor.instance => req.after + PageSize <= kernel.newest)
    BY <2>2 DEF AskInv
  <2>6. req.after + PageSize \in Nat /\ req.after + PageSize <= MaxSeq + PageSize
    BY <2>3, <2>5
  <2> QED
    BY <2>4, <2>5, <2>6, SeqsAreNumbers
<1> QED
  BY <1>1, <1>2

LEMMA AskAheadKeepsOrder ==
  ASSUME OrderInv, AskAhead
  PROVE  OrderInv'
<1> DEFINE full == mem.newest.instance = at.instance /\ mem.newest.count >= NextAfter + PageSize
           req == Request(NextAfter, PageSize, at.instance, cursor.seq, full)
<1>1. /\ TypeOK /\ StoreInv /\ NewestInv /\ PlaceInv /\ GoneInv /\ FlightInv
      /\ KernelTyped /\ CollectTyped /\ StoreTyped /\ round \in RoundType
      /\ at \in Cursors /\ cursor \in Cursors /\ flight \in Seq(Requests) /\ Len(flight) \in Nat
      /\ mem.newest.count \in Nat
  BY OrderFacts, StateFacts, CountFacts
<1>2. /\ pc = "parallel" /\ CanAsk /\ flight' = Append(flight, req)
      /\ round' = [round EXCEPT !.asked = @ + 1]
      /\ UNCHANGED <<kernel, stray, pc, at, mem, batch, cursor, log, cleared, saved, since, faults>>
  BY DEF AskAhead, store
<1>3. (flight # <<>> => flight[Len(flight)].full) /\ round.asked < PipelinePages
  BY <1>2 DEF CanAsk
<1>4. NextAfter \in Seqs /\ NextAfter \in Nat
      /\ (kernel.instance = cursor.instance => NextAfter <= kernel.newest)
  BY <1>2, <1>3, NextAfterFacts, SeqsAreNumbers
<1>5. /\ at.instance \in Instances /\ cursor.seq \in Seqs /\ at.instance = cursor.instance
      /\ cursor.instance # 0 /\ PageSize \in 1 .. PageSize /\ PageSize \in Nat
  BY <1>1, <1>2, PointFacts, Bounds DEF PlaceInv
<1>6. full \in BOOLEAN
  OBVIOUS
<1>7. full => /\ NextAfter + PageSize <= MaxSeq
              /\ kernel.instance = cursor.instance => NextAfter + PageSize <= kernel.newest
              /\ cursor.seq = 0 => kernel.instance = cursor.instance
  <2> SUFFICES ASSUME full
               PROVE  /\ NextAfter + PageSize <= MaxSeq
                      /\ kernel.instance = cursor.instance => NextAfter + PageSize <= kernel.newest
                      /\ cursor.seq = 0 => kernel.instance = cursor.instance
    OBVIOUS
  <2>1. mem.newest.count <= MaxSeq
        /\ (kernel.instance = cursor.instance => mem.newest.count <= kernel.newest)
    BY <1>1, <1>5 DEF NewestInv
  <2>2. cursor.seq = 0 => kernel.instance = cursor.instance
    BY <1>1, <1>5 DEF NewestInv, NotTrusted
  <2>3. kernel.newest \in Nat /\ MaxSeq \in Nat
    BY OrderFacts, Bounds
  <2> QED
    BY <2>1, <2>2, <2>3, <1>1, <1>4, <1>5
<1> HIDE DEF full
<1>8. /\ req \in Requests /\ req.after = NextAfter /\ req.full = full /\ req.kind = "asked"
  BY <1>4, <1>5, <1>6, FixedRecords DEF Request, Requests
<1> HIDE DEF req
<1>9. /\ flight' \in Seq(Requests) /\ Len(flight') = Len(flight) + 1
      /\ flight'[Len(flight) + 1] = req /\ \A k \in 1 .. Len(flight) : flight'[k] = flight[k]
  BY <1>1, <1>2, <1>8
<1>10. round' \in RoundType
  <2>1. round.asked \in Nat /\ round.asked + 1 \in 0 .. PipelinePages
    BY <1>1, <1>3, Bounds DEF RoundType
  <2> QED
    BY <1>1, <1>2, <2>1 DEF RoundType
<1>11. KernelTyped' /\ CollectTyped' /\ StoreTyped'
  BY <1>1, <1>2, <1>9, <1>10 DEF KernelTyped, CollectTyped, StoreTyped
<1>12. StoreInv' /\ NewestInv' /\ BatchInv'
  BY <1>1, <1>2, StoreKept, NewestKept, Elsewhere
<1>13. round'.gone = round.gone
  BY <1>1, <1>2 DEF RoundType
<1>14. PlaceInv' /\ GoneInv'
  BY <1>1, <1>2, <1>13 DEF PlaceInv, Place, Reached, GoneInv
<1>15. FlightInv'
  <2>1. ASSUME NEW k \in 1 .. Len(flight')
        PROVE  /\ k < Len(flight') => flight'[k].full
               /\ AskInv(flight[k])' /\ (Answered(flight[k]) => PageInv(flight[k], flight[k].page))'
    <3>1. CASE k = Len(flight) + 1
      <4>1. flight'[k] = req /\ ~(k < Len(flight'))
        BY <3>1, <1>1, <1>9
      <4>2. AskInv(flight[k])' /\ ~Answered(flight[k])'
        BY <4>1, <1>2, <1>4, <1>7, <1>8 DEF AskInv, Answered
      <4> QED
        BY <4>1, <4>2
    <3>2. CASE k # Len(flight) + 1
      <4>1. k \in 1 .. Len(flight) /\ flight'[k] = flight[k]
        BY <3>2, <1>1, <1>9
      <4>2. /\ k < Len(flight) => flight[k].full
            /\ AskInv(flight[k])
            /\ Answered(flight[k]) => PageInv(flight[k], flight[k].page)
        BY <4>1, <1>1, Zenon DEF FlightInv
      <4>3. flight[k].full
        <5>1. CASE k < Len(flight)
          BY <5>1, <4>2, Zenon
        <5>2. CASE k = Len(flight)
          <6>1. flight # <<>>
            BY <5>2, <4>1
          <6> QED
            BY <5>2, <6>1, <1>3
        <5> QED
          BY <5>1, <5>2, <4>1, <1>1
      <4>4. AskInv(flight[k])'
        BY <4>1, <4>2, <1>2 DEF AskInv
      <4>5. (Answered(flight[k]) => PageInv(flight[k], flight[k].page))'
        BY <4>1, <4>2, <1>2 DEF Answered, PageInv
      <4> QED
        BY <4>1, <4>3, <4>4, <4>5
    <3> QED
      BY <3>1, <3>2
  <2> QED
    BY <2>1, <1>2 DEF FlightInv
<1> QED
  BY <1>11, <1>12, <1>14, <1>15, TypePartsAfter DEF OrderInv

---------------------------------------------------------------------------
(* Failures, writing, and the panel's restart.                             *)

LEMMA RequestFailsKeepsOrder ==
  ASSUME OrderInv, RequestFails
  PROVE  OrderInv'
<1>1. /\ TypeOK /\ StoreInv /\ NewestInv /\ PlaceInv /\ GoneInv /\ BatchInv /\ FlightInv
      /\ KernelTyped /\ CollectTyped /\ StoreTyped
      /\ flight \in Seq(Requests) /\ Len(flight) \in Nat /\ stray \in Cursors
      /\ faults \in 0 .. MaxFaults
  BY OrderFacts, StateFacts DEF KernelTyped, StoreTyped
<1>2. /\ faults < MaxFaults /\ faults' = faults + 1
      /\ UNCHANGED <<kernel, pc, at, mem, round, batch, cursor, log, cleared, saved, since>>
  BY DEF RequestFails, collector, store
<1>3. PICK n \in 1 .. Len(flight) :
        /\ flight[n].kind = "asked" /\ flight' = [flight EXCEPT ![n].kind = "failed"]
        /\ stray' = IF UpTo(Deletion(flight[n]), stray) THEN stray ELSE Deletion(flight[n])
  BY DEF RequestFails
<1>4. faults' \in 0 .. MaxFaults
  BY <1>1, <1>2, Bounds
<1>5. flight[n] \in Requests /\ [flight[n] EXCEPT !.kind = "failed"] \in Requests
      /\ flight' = [flight EXCEPT ![n] = [flight[n] EXCEPT !.kind = "failed"]]
  <2>1. flight[n] \in Requests
    BY <1>1
  <2>2. [flight[n] EXCEPT !.kind = "failed"] \in Requests
    BY <2>1 DEF Requests
  <2>3. flight' = [flight EXCEPT ![n] = [flight[n] EXCEPT !.kind = "failed"]]
    BY <1>3
  <2> QED
    BY <2>1, <2>2, <2>3
<1>6. /\ flight' \in Seq(Requests) /\ Len(flight') = Len(flight)
      /\ flight'[n] = [flight[n] EXCEPT !.kind = "failed"]
      /\ \A k \in 1 .. Len(flight) : k # n => flight'[k] = flight[k]
  BY <1>1, <1>5
<1>7. stray' \in Cursors
  BY <1>1, <1>3, <1>5, DeletionType
<1>8. KernelTyped' /\ CollectTyped' /\ StoreTyped'
  BY <1>1, <1>2, <1>4, <1>6, <1>7 DEF KernelTyped, CollectTyped, StoreTyped
<1>9. flight # <<>> /\ (flight' = <<>>) <=> (flight = <<>>)
  BY <1>1, <1>3, <1>6
<1>10. StoreInv' /\ NewestInv'
  BY <1>1, <1>2, StoreKept, NewestKept
<1>11. PlaceInv' /\ GoneInv' /\ BatchInv'
  BY <1>1, <1>2, <1>9
     DEF PlaceInv, GoneInv, BatchInv, Place, Reached, NotTrusted, Sorted, Follows, Genuine
<1>12. ASSUME NEW k \in 1 .. Len(flight)
       PROVE  /\ flight'[k].after = flight[k].after /\ flight'[k].size = flight[k].size
              /\ flight'[k].full = flight[k].full
              /\ k < Len(flight') => flight'[k].full
              /\ AskInv(flight[k])' /\ (Answered(flight[k]) => PageInv(flight[k], flight[k].page))'
  <2>1. /\ k < Len(flight) => flight[k].full
        /\ AskInv(flight[k])
        /\ Answered(flight[k]) => PageInv(flight[k], flight[k].page)
    BY <1>1, Zenon DEF FlightInv
  <2>2. CASE k # n
    <3>1. flight'[k] = flight[k]
      BY <2>2, <1>6
    <3>2. AskInv(flight[k])'
      BY <2>1, <3>1, <1>2 DEF AskInv
    <3>3. (Answered(flight[k]) => PageInv(flight[k], flight[k].page))'
      BY <2>1, <3>1, <1>2 DEF Answered, PageInv
    <3> QED
      BY <2>1, <3>1, <3>2, <3>3, <1>6
  <2>3. CASE k = n
    <3>1. /\ flight'[k].kind = "failed" /\ flight'[k].full = flight[k].full
          /\ flight'[k].after = flight[k].after /\ flight'[k].size = flight[k].size
      BY <2>3, <1>5, <1>6 DEF Requests
    <3>2. AskInv(flight[k])' /\ ~Answered(flight[k])'
      BY <2>1, <3>1, <1>2 DEF AskInv, Answered
    <3> QED
      BY <2>1, <3>1, <3>2, <1>6
  <2> QED
    BY <2>2, <2>3
<1>13. FlightInv'
  <2>1. pc' = "walk" /\ flight' # <<>> =>
          /\ Len(flight') = 1 /\ ~First'.full
          /\ First'.after = at'.seq /\ First'.size = round'.size
          /\ round'.pages < PagesPerTick
    <3> SUFFICES ASSUME pc = "walk"
                 PROVE  /\ Len(flight') = 1 /\ ~First'.full
                        /\ First'.after = at'.seq /\ First'.size = round'.size
                        /\ round'.pages < PagesPerTick
      BY <1>2
    <3>1. /\ Len(flight) = 1 /\ ~First.full /\ First.after = at.seq /\ First.size = round.size
          /\ round.pages < PagesPerTick
      BY <1>1, <1>9 DEF FlightInv
    <3>2. /\ flight'[1].after = flight[1].after /\ flight'[1].size = flight[1].size
          /\ flight'[1].full = flight[1].full
      BY <3>1, <1>12
    <3> QED
      BY <3>1, <3>2, <1>2, <1>6 DEF First
  <2> QED
    BY <2>1, <1>6, <1>12 DEF FlightInv, First
<1> QED
  BY <1>8, <1>10, <1>11, <1>13, TypePartsAfter DEF OrderInv

\* The cursor moves within its process while requests are under way.
LEMMA FlightForward ==
  ASSUME OrderInv, UNCHANGED <<kernel, flight>>, pc' = "walk" => flight = <<>>,
         flight # <<>> => /\ cursor'.instance = cursor.instance
                          /\ cursor'.seq \in Nat /\ cursor.seq <= cursor'.seq
  PROVE  FlightInv'
<1>1. TypeOK /\ FlightInv /\ cursor.seq \in Nat /\ Len(flight) \in Nat
  BY OrderFacts, StateFacts
<1>2. ASSUME NEW k \in 1 .. Len(flight)
      PROVE  /\ k < Len(flight') => flight'[k].full
             /\ AskInv(flight[k])' /\ (Answered(flight[k]) => PageInv(flight[k], flight[k].page))'
  <2>1. /\ k < Len(flight) => flight[k].full
        /\ AskInv(flight[k])
        /\ Answered(flight[k]) => PageInv(flight[k], flight[k].page)
    BY <1>1, Zenon DEF FlightInv
  <2>2. /\ cursor'.instance = cursor.instance /\ cursor'.seq \in Nat
        /\ cursor.seq <= cursor'.seq
    BY <1>1
  <2>3. AskInv(flight[k])'
    BY <2>1, <2>2, <1>1 DEF AskInv
  <2>4. (Answered(flight[k]) => PageInv(flight[k], flight[k].page))'
    BY <2>1, <2>2, <1>1 DEF Answered, PageInv
  <2> QED
    BY <2>1, <2>3, <2>4
<1> QED
  BY <1>2 DEF FlightInv

\* The first rows of a batch are appended.
LEMMA RowsAppended ==
  ASSUME OrderInv, pc = "write", NEW n \in 0 .. Len(batch.rows),
         log' = log \o SubSeq(batch.rows, 1, n), UNCHANGED <<kernel, cleared, saved>>
  PROVE  /\ log' \in Seq(Rows) /\ Sorted(log)' /\ Genuine(log)'
         /\ Len(log') = Len(log) + n /\ \A k \in 1 .. Len(log) : log'[k] = log[k]
         /\ \A k \in 1 .. n : log'[Len(log) + k] = batch.rows[k]
         /\ FirstUpTo(log, saved.rows, saved.cursor)' /\ (cleared <= saved.rows)'
         /\ cleared \in 0 .. Len(log') /\ saved.rows \in 0 .. Len(log')
<1> DEFINE part == SubSeq(batch.rows, 1, n)
<1>1. /\ TypeOK /\ StoreInv /\ BatchInv /\ log \in Seq(Rows) /\ batch.rows \in Seq(Rows)
      /\ cursor \in Points /\ Len(log) \in Nat
      /\ saved.rows \in 0 .. Len(log) /\ cleared \in 0 .. Len(log)
  BY OrderFacts, StateFacts, PointFacts
<1>2. Sorted(batch.rows) /\ Genuine(batch.rows)
      /\ \A k \in 1 .. Len(batch.rows) :
           /\ UpTo(cursor, CursorOf(batch.rows[k]))
           /\ ~IsGap(batch.rows[k]) => cursor # CursorOf(batch.rows[k])
  BY <1>1 DEF BatchInv
<1>3. /\ part \in Seq(Rows) /\ Len(part) = n /\ n \in Nat
      /\ \A k \in 1 .. n : part[k] = batch.rows[k] /\ k \in 1 .. Len(batch.rows)
      /\ Sorted(part) /\ Genuine(part)
  BY <1>1, <1>2, FirstRows
<1> HIDE DEF part
<1>4. \A k \in 1 .. Len(part) : /\ UpTo(cursor, CursorOf(part[k]))
                                /\ ~IsGap(part[k]) => cursor # CursorOf(part[k])
  BY <1>2, <1>3
<1>5. log' = log \o part
  BY DEF part
<1>6. Sorted(log \o part)
  BY <1>1, <1>3, <1>4, SortedConcat DEF StoreInv
<1>7. Genuine(log \o part)
  BY <1>1, <1>3, GenuineConcat DEF StoreInv
<1>8. /\ log' \in Seq(Rows) /\ Len(log') = Len(log) + n
      /\ \A k \in 1 .. Len(log) : log'[k] = log[k]
      /\ \A k \in 1 .. n : log'[Len(log) + k] = batch.rows[k]
  BY <1>1, <1>3, <1>5, ConcatRows
<1>9. Sorted(log)' /\ Genuine(log)'
  BY <1>5, <1>6, <1>7 DEF Sorted, Follows, Genuine, Reached
<1>10. FirstUpTo(log, saved.rows, saved.cursor)'
  <2> SUFFICES ASSUME NEW k \in 1 .. saved.rows
               PROVE  UpTo(CursorOf(log'[k]), saved.cursor)
    BY DEF FirstUpTo, UpTo
  <2>1. k \in 1 .. Len(log) /\ UpTo(CursorOf(log[k]), saved.cursor)
    BY <1>1 DEF StoreInv, FirstUpTo
  <2> QED
    BY <2>1, <1>8
<1>11. (cleared <= saved.rows)' /\ cleared \in 0 .. Len(log') /\ saved.rows \in 0 .. Len(log')
  BY <1>1, <1>3, <1>8 DEF StoreInv
<1> QED
  BY <1>8, <1>9, <1>10, <1>11

LEMMA AppendRowsKeepsOrder ==
  ASSUME OrderInv, AppendRows
  PROVE  OrderInv'
<1> DEFINE rows == batch.rows
           n == Len(rows)
<1>1. /\ TypeOK /\ StoreInv /\ NewestInv /\ PlaceInv /\ BatchInv
      /\ KernelTyped /\ CollectTyped /\ StoreTyped
      /\ cursor \in Cursors /\ cursor \in Points /\ cursor.instance \in Nat /\ cursor.seq \in Nat
      /\ rows \in Seq(Rows) /\ log \in Seq(Rows) /\ saved \in [rows: 0 .. Len(log), cursor: Cursors]
      /\ Len(log) \in Nat /\ n \in Nat /\ n \in 0 .. n /\ batch.next \in Cursors
  <2>1. TypeOK /\ StoreInv /\ NewestInv /\ PlaceInv /\ BatchInv
    BY OrderFacts
  <2>2. /\ KernelTyped /\ CollectTyped /\ StoreTyped /\ cursor \in Cursors
        /\ rows \in Seq(Rows) /\ log \in Seq(Rows) /\ batch.next \in Cursors
    BY <2>1, StateFacts
  <2>3. cursor \in Points /\ cursor.instance \in Nat /\ cursor.seq \in Nat
    BY <2>2, PointFacts
  <2>4. saved \in [rows: 0 .. Len(log), cursor: Cursors]
    BY <2>2 DEF StoreTyped
  <2>5. Len(log) \in Nat /\ n \in Nat /\ n \in 0 .. n
    BY <2>2
  <2> QED
    BY <2>1, <2>2, <2>3, <2>4, <2>5
<1>2. /\ pc = "write" /\ pc' = "advance" /\ log' = log \o rows
      /\ cursor' = IF rows = <<>> THEN cursor ELSE CursorOf(rows[n])
      /\ UNCHANGED <<kernel, flight, stray, at, mem, round, batch, cleared, saved, since, faults>>
  BY DEF AppendRows
<1>3. log' = log \o SubSeq(rows, 1, n)
  <2>1. SubSeq(rows, 1, n) = rows
    BY <1>1, AllRows
  <2> QED
    BY <1>2, <2>1
<1>4. /\ log' \in Seq(Rows) /\ Sorted(log)' /\ Genuine(log)'
      /\ FirstUpTo(log, saved.rows, saved.cursor)' /\ (cleared <= saved.rows)'
      /\ cleared \in 0 .. Len(log') /\ saved.rows \in 0 .. Len(log')
  BY <1>1, <1>2, <1>3, RowsAppended
<1>5. /\ batch.next.instance # 0 /\ Reached(batch.next) /\ UpTo(cursor, batch.next)
      /\ Sorted(rows) /\ Genuine(rows)
      /\ \A k \in 1 .. n :
           /\ rows[k].instance = batch.next.instance /\ rows[k].seq <= batch.next.seq
           /\ UpTo(cursor, CursorOf(rows[k]))
      /\ batch.next.instance # cursor.instance =>
           cursor.seq = 0 /\ (cursor.instance = 0 \/ batch.next.instance = kernel.instance)
      /\ flight # <<>> => batch.next.instance = cursor.instance /\ batch.back = "parallel"
      /\ batch.back = "parallel" => ~round.gone.found
      /\ NotTrusted(batch.next)
  BY <1>1, <1>2 DEF BatchInv
<1> HIDE DEF rows, n
\* The last row's cursor: of the batch's process, no further than the next cursor.
<1>6. rows # <<>> =>
        /\ n \in 1 .. n /\ rows[n] \in Rows /\ cursor' = CursorOf(rows[n])
        /\ cursor'.instance = batch.next.instance /\ cursor'.seq <= batch.next.seq
        /\ UpTo(cursor, cursor') /\ Reached(cursor') /\ FirstUpTo(rows, n, cursor')
  <2> SUFFICES ASSUME rows # <<>>
               PROVE  /\ n \in 1 .. n /\ rows[n] \in Rows /\ cursor' = CursorOf(rows[n])
                      /\ cursor'.instance = batch.next.instance /\ cursor'.seq <= batch.next.seq
                      /\ UpTo(cursor, cursor') /\ Reached(cursor') /\ FirstUpTo(rows, n, cursor')
    OBVIOUS
  <2>1. n \in 1 .. n /\ rows[n] \in Rows /\ FirstUpTo(rows, n, CursorOf(rows[n]))
    BY <1>1, <1>5, LastIsFurthest DEF n
  <2>2. cursor' = CursorOf(rows[n])
    BY <1>2
  <2>3. Reached(CursorOf(rows[n]))
    BY <2>1, <1>5 DEF Genuine, n
  <2>4. rows[n].instance = batch.next.instance /\ rows[n].seq <= batch.next.seq
        /\ UpTo(cursor, CursorOf(rows[n]))
    BY <2>1, <1>5
  <2> QED
    BY <2>1, <2>2, <2>3, <2>4, PointsOfRows
<1>7. rows = <<>> => cursor' = cursor /\ log' = log
  <2>1. rows = <<>> => log \o rows = log
    BY <1>1
  <2> QED
    BY <2>1, <1>2
<1>8. /\ cursor' \in Cursors /\ cursor' \in Points /\ cursor'.instance \in Nat /\ cursor'.seq \in Nat
  BY <1>1, <1>6, <1>7, PointsOfRows, PointFacts
<1>9. KernelTyped' /\ CollectTyped' /\ StoreTyped'
  <2>1. saved \in [rows: 0 .. Len(log'), cursor: Cursors]
    BY <1>1, <1>4
  <2> QED
    BY <1>1, <1>2, <1>4, <1>8, <2>1 DEF KernelTyped, CollectTyped, StoreTyped, Pcs
<1>10. StoreInv'
  <2>1. FirstUpTo(log, Len(log), cursor)'
    <3>1. CASE rows = <<>>
      BY <3>1, <1>1, <1>2, <1>7 DEF StoreInv, FirstUpTo
    <3>2. CASE rows # <<>>
      <4>1. FirstUpTo(log \o rows, Len(log \o rows), cursor')
        BY <3>2, <1>1, <1>2, <1>6, <1>8, FirstUpToConcat DEF StoreInv, n
      <4> QED
        BY <4>1, <1>2 DEF FirstUpTo, UpTo
    <3> QED
      BY <3>1, <3>2
  <2>2. Place(cursor)' /\ Place(saved.cursor)'
    BY <1>1, <1>2, <1>5, <1>6, <1>7 DEF StoreInv, Place, Reached
  <2> QED
    BY <1>4, <2>1, <2>2 DEF StoreInv
<1>11. NewestInv'
  <2>1. NotTrusted(cursor)'
    <3>1. CASE rows = <<>>
      BY <3>1, <1>1, <1>2, <1>7 DEF NewestInv, NotTrusted
    <3>2. CASE rows # <<>> /\ cursor'.seq # 0
      BY <3>2 DEF NotTrusted
    <3>3. CASE rows # <<>> /\ cursor'.seq = 0
      <4>1. cursor'.instance = batch.next.instance /\ UpTo(cursor, cursor')
        BY <3>3, <1>6
      <4>2. CASE cursor.instance = batch.next.instance
        <5>1. cursor.seq = 0
          BY <3>3, <4>1, <4>2, <1>1 DEF UpTo
        <5> QED
          BY <4>1, <4>2, <5>1, <1>1, <1>2 DEF NewestInv, NotTrusted
      <4>3. CASE cursor.instance # batch.next.instance
        BY <4>1, <4>3, <1>1, <1>2, <1>5 DEF NewestInv, NotTrusted
      <4> QED
        BY <4>2, <4>3
    <3> QED
      BY <3>1, <3>2, <3>3
  <2> QED
    BY <2>1, <1>1, <1>2, <1>5, <1>6, <1>7 DEF NewestInv
<1>12. PlaceInv' /\ GoneInv'
  BY <1>2 DEF PlaceInv, GoneInv
<1>13. BatchInv'
  <2>1. UpTo(cursor, batch.next)'
    <3>1. CASE rows = <<>>
      BY <3>1, <1>2, <1>5, <1>7 DEF UpTo
    <3>2. CASE rows # <<>>
      BY <3>2, <1>2, <1>6 DEF UpTo
    <3> QED
      BY <3>1, <3>2
  <2>2. Sorted(batch.rows)' /\ Genuine(batch.rows)' /\ Reached(batch.next)' /\ NotTrusted(batch.next)'
    BY <1>2, <1>5 DEF Sorted, Follows, Genuine, Reached, NotTrusted, rows
  <2>3. \A k \in 1 .. Len(batch'.rows) :
          batch'.rows[k].instance = batch'.next.instance /\ batch'.rows[k].seq <= batch'.next.seq
    BY <1>2, <1>5 DEF rows, n
  <2>4. batch.next.instance # cursor'.instance =>
          cursor'.seq = 0 /\ (cursor'.instance = 0 \/ batch.next.instance = kernel.instance)
    BY <1>5, <1>6, <1>7
  <2>5. flight # <<>> => batch.next.instance = cursor'.instance
    BY <1>5, <1>6, <1>7
  <2> QED
    BY <1>2, <1>5, <2>1, <2>2, <2>3, <2>4, <2>5 DEF BatchInv
<1>14. FlightInv'
  <2>1. flight # <<>> => /\ cursor'.instance = cursor.instance
                         /\ cursor'.seq \in Nat /\ cursor.seq <= cursor'.seq
    BY <1>1, <1>5, <1>6, <1>7, <1>8 DEF UpTo
  <2> QED
    BY <1>2, <2>1, FlightForward
<1> QED
  BY <1>9, <1>10, <1>11, <1>12, <1>13, <1>14, TypePartsAfter DEF OrderInv

LEMMA AdvanceKeepsOrder ==
  ASSUME OrderInv, Advance
  PROVE  OrderInv'
<1>1. /\ TypeOK /\ StoreInv /\ NewestInv /\ PlaceInv /\ BatchInv
      /\ KernelTyped /\ CollectTyped /\ StoreTyped
      /\ cursor \in Cursors /\ cursor.instance \in Nat /\ cursor.seq \in Nat
      /\ batch \in BatchType /\ batch.next \in Cursors /\ mem \in MemType /\ round \in RoundType
      /\ kernel.instance \in Nat /\ kernel.newest \in Nat
  BY OrderFacts, StateFacts DEF CollectTyped
<1>2. /\ pc = "advance" /\ cursor' = batch.next /\ mem' = [mem EXCEPT !.counted = batch.counted]
      /\ batch' = NoBatch
      /\ IF batch.back = "idle" THEN EndRound
         ELSE pc' = batch.back /\ at' = batch.next /\ UNCHANGED round
      /\ UNCHANGED <<kernel, flight, stray, log, cleared, saved, since, faults>>
  BY DEF Advance
<1>3. /\ batch.next.instance # 0 /\ Reached(batch.next) /\ UpTo(cursor, batch.next)
      /\ flight # <<>> => batch.next.instance = cursor.instance /\ batch.back = "parallel"
      /\ batch.back = "parallel" => ~round.gone.found
      /\ NotTrusted(batch.next)
  BY <1>1, <1>2 DEF BatchInv
<1>4. batch.back \in {"idle", "parallel", "walk"} /\ batch.counted \in Counts
  BY <1>1 DEF BatchType
<1>5. /\ pc' = batch.back /\ at' \in Cursors /\ round' \in RoundType
      /\ pc' # "idle" => at' = batch.next /\ round' = round
  <2>1. CASE batch.back = "idle"
    BY <2>1, <1>2, FixedRecords DEF EndRound
  <2>2. CASE batch.back # "idle"
    BY <2>2, <1>1, <1>2
  <2> QED
    BY <2>1, <2>2
<1>6. mem' \in MemType /\ mem'.newest = mem.newest
  BY <1>1, <1>2, <1>4 DEF MemType
<1>7. KernelTyped' /\ CollectTyped' /\ StoreTyped'
  BY <1>1, <1>2, <1>4, <1>5, <1>6, FixedRecords DEF KernelTyped, CollectTyped, StoreTyped, Pcs
<1>8. Place(batch.next)
  BY <1>3 DEF Place
<1>9. StoreInv'
  BY <1>1, <1>2, <1>3, <1>8, CursorMoves
<1>10. NewestInv'
  BY <1>1, <1>2, <1>3, <1>6 DEF NewestInv, NotTrusted
<1>11. flight # <<>> => pc' = "parallel"
  BY <1>3, <1>5
<1>12. PlaceInv'
  <2>1. batch.next.seq <= batch.next.seq
    BY <1>1, PointFacts
  <2> QED
    BY <1>2, <1>3, <1>4, <1>5, <1>8, <1>11, <2>1 DEF PlaceInv, Place, Reached
<1>13. GoneInv' /\ BatchInv'
  BY <1>3, <1>4, <1>5, Elsewhere DEF GoneInv
<1>14. FlightInv'
  <2>1. batch.next.seq \in Nat
    BY <1>1, PointFacts
  <2>2. flight # <<>> => cursor'.instance = cursor.instance /\ cursor.seq <= cursor'.seq
    BY <1>1, <1>2, <1>3 DEF UpTo
  <2>3. pc' = "walk" => flight = <<>>
    BY <1>11
  <2> QED
    BY <1>2, <2>1, <2>2, <2>3, FlightForward
<1> QED
  BY <1>7, <1>9, <1>10, <1>12, <1>13, <1>14, TypePartsAfter DEF OrderInv

\* The state file is written while the panel runs.
LEMMA StateSaved ==
  ASSUME OrderInv, pc # "down", saved' = StateNow, cleared' \in 0 .. Len(log),
         faults' \in 0 .. MaxFaults,
         UNCHANGED <<kernel, flight, stray, collector, cursor, log, since>>
  PROVE  OrderInv'
<1>1. /\ TypeOK /\ StoreInv /\ NewestInv /\ PlaceInv /\ GoneInv /\ BatchInv /\ FlightInv
      /\ KernelTyped /\ CollectTyped /\ StoreTyped
      /\ cursor \in Cursors /\ Len(log) \in Nat /\ flight \in Seq(Requests)
  BY OrderFacts, StateFacts
<1>2. saved' = [rows |-> Len(log), cursor |-> cursor]
      /\ UNCHANGED <<pc, at, mem, round, batch>>
  BY DEF StateNow, collector
<1>3. KernelTyped' /\ CollectTyped' /\ StoreTyped'
  BY <1>1, <1>2 DEF KernelTyped, CollectTyped, StoreTyped
<1>4. StoreInv'
  BY <1>1, <1>2 DEF StoreInv, Sorted, Follows, Genuine, FirstUpTo, Place, Reached
<1>5. NewestInv'
  BY <1>1, <1>2, NewestKept
<1>6. PlaceInv' /\ GoneInv' /\ BatchInv'
  BY <1>1, <1>2
     DEF PlaceInv, GoneInv, BatchInv, Place, Reached, NotTrusted, Sorted, Follows, Genuine
<1>7. FlightInv'
  BY <1>1, <1>2 DEF FlightInv, AskInv, PageInv, Answered, First
<1> QED
  BY <1>3, <1>4, <1>5, <1>6, <1>7, TypePartsAfter DEF OrderInv

LEMMA SavingKeepsOrder ==
  ASSUME OrderInv, SaveState \/ DropRows
  PROVE  OrderInv'
<1>1. /\ TypeOK /\ Len(log) \in Nat /\ cleared \in 0 .. Len(log) /\ faults \in 0 .. MaxFaults
  BY OrderFacts, StateFacts DEF StoreTyped
<1>2. CASE SaveState
  BY <1>1, <1>2, StateSaved DEF SaveState
<1>3. CASE DropRows
  <2>1. /\ pc # "down" /\ saved' = StateNow /\ cleared' \in cleared + 1 .. Len(log)
        /\ faults < MaxFaults /\ faults' = faults + 1
        /\ UNCHANGED <<kernel, flight, stray, collector, cursor, log, since>>
    BY <1>3 DEF DropRows
  <2>2. cleared' \in 0 .. Len(log) /\ faults' \in 0 .. MaxFaults
    BY <1>1, <2>1, Bounds
  <2> QED
    BY <2>1, <2>2, StateSaved
<1> QED
  BY <1>2, <1>3

LEMMA PanelEndsKeepsOrder ==
  ASSUME OrderInv, PanelEnds
  PROVE  OrderInv'
<1>1. /\ TypeOK /\ StoreInv /\ NewestInv /\ KernelTyped /\ CollectTyped /\ StoreTyped
      /\ flight \in Seq(Requests) /\ stray \in Cursors /\ log \in Seq(Rows)
      /\ saved \in [rows: 0 .. Len(log), cursor: Cursors] /\ saved.rows \in 0 .. Len(log)
      /\ cleared \in 0 .. Len(log) /\ faults \in 0 .. MaxFaults
  BY OrderFacts, StateFacts DEF KernelTyped, StoreTyped
<1>2. /\ faults < MaxFaults /\ faults' = faults + 1 /\ AbandonAll(flight)
      /\ pc' = "down" /\ at' = NoCursor /\ mem' = Fresh /\ round' = NewRound /\ batch' = NoBatch
      /\ cursor' = NoCursor /\ UNCHANGED <<kernel, cleared, saved, since>>
  BY DEF PanelEnds
<1>3. PICK n \in 0 .. (IF pc = "write" THEN Len(batch.rows) ELSE 0) :
        log' = log \o SubSeq(batch.rows, 1, n)
  BY DEF PanelEnds
<1>4. /\ log' \in Seq(Rows) /\ Sorted(log)' /\ Genuine(log)'
      /\ FirstUpTo(log, saved.rows, saved.cursor)' /\ (cleared <= saved.rows)'
      /\ cleared \in 0 .. Len(log') /\ saved.rows \in 0 .. Len(log')
  <2>1. CASE pc = "write"
    <3>1. n \in 0 .. Len(batch.rows)
      BY <2>1
    <3> QED
      BY <2>1, <3>1, <1>2, <1>3, RowsAppended
  <2>2. CASE pc # "write"
    <3>1. n = 0
      BY <2>2
    <3>2. SubSeq(batch.rows, 1, 0) = <<>>
      BY OrderFacts, StateFacts
    <3>3. log' = log
      BY <3>1, <3>2, <1>1, <1>3
    <3> QED
      BY <3>3, <1>1, <1>2 DEF StoreInv, Sorted, Follows, Genuine, FirstUpTo, Reached
  <2> QED
    BY <2>1, <2>2
<1>5. flight' = <<>> /\ flight' \in Seq(Requests) /\ stray' \in Cursors
  BY <1>1, <1>2, AbandonFacts
<1>6. faults' \in 0 .. MaxFaults
  BY <1>1, <1>2, Bounds
<1>7. KernelTyped' /\ CollectTyped' /\ StoreTyped'
  <2>1. saved \in [rows: 0 .. Len(log'), cursor: Cursors]
    BY <1>1, <1>4
  <2> QED
    BY <1>1, <1>2, <1>4, <1>5, <1>6, <2>1, FixedRecords DEF KernelTyped, CollectTyped, StoreTyped, Pcs
<1>8. StoreInv'
  <2>1. Place(cursor)' /\ Place(saved.cursor)'
    BY <1>1, <1>2, OrderFacts DEF StoreInv, Place, Reached, NoCursor
  <2> QED
    BY <1>2, <1>4, <2>1 DEF StoreInv
<1>9. NewestInv'
  BY <1>1, <1>2, OrderFacts, Bounds DEF NewestInv, NotTrusted, Fresh, NoCount, NoCursor
<1>10. PlaceInv' /\ GoneInv' /\ BatchInv' /\ FlightInv'
  BY <1>2, <1>5, NoFlight, Elsewhere DEF PlaceInv
<1> QED
  BY <1>7, <1>8, <1>9, <1>10, TypePartsAfter DEF OrderInv

\* The cursor the store opens with: as far as every row there is.
LEMMA ReopenedFacts ==
  ASSUME OrderInv
  PROVE  Reopened \in Cursors /\ Place(Reopened) /\ FirstUpTo(log, Len(log), Reopened)
         /\ (Reopened = saved.cursor
             \/ \E k \in 1 .. Len(log) : Reopened = CursorOf(log[k]))
<1>1. /\ StoreInv /\ log \in Seq(Rows) /\ Len(log) \in Nat /\ saved.cursor \in Cursors
      /\ saved.rows \in 0 .. Len(log) /\ cleared \in 0 .. Len(log)
  BY OrderFacts, StateFacts
<1> DEFINE lastId == IF Len(log) > cleared THEN Len(log) ELSE 0
<1>2. CASE saved.rows >= lastId
  <2>1. Reopened = saved.cursor
    BY <1>2 DEF Reopened
  <2>2. saved.rows = Len(log)
    BY <1>1, <1>2 DEF StoreInv
  <2> QED
    BY <2>1, <2>2, <1>1 DEF StoreInv
<1>3. CASE ~(saved.rows >= lastId)
  <2>1. Reopened = CursorOf(log[Len(log)])
    BY <1>3 DEF Reopened
  <2>2. Len(log) > 0 /\ log # <<>>
    BY <1>1, <1>3
  <2>3. Len(log) \in 1 .. Len(log) /\ log[Len(log)] \in Rows
        /\ FirstUpTo(log, Len(log), CursorOf(log[Len(log)]))
    BY <2>2, <1>1, LastIsFurthest DEF StoreInv
  <2>4. Place(CursorOf(log[Len(log)])) /\ CursorOf(log[Len(log)]) \in Cursors
    BY <2>3, <1>1, PointsOfRows DEF StoreInv, Genuine, Place
  <2> QED
    BY <2>1, <2>3, <2>4
<1> QED
  BY <1>2, <1>3

LEMMA PanelStartsKeepsOrder ==
  ASSUME OrderInv, PanelStarts
  PROVE  OrderInv'
<1>1. /\ TypeOK /\ StoreInv /\ NewestInv /\ PlaceInv /\ KernelTyped /\ CollectTyped /\ StoreTyped
  BY OrderFacts, StateFacts
<1>2. /\ pc = "down" /\ cursor' = Reopened /\ pc' = "idle"
      /\ UNCHANGED <<kernel, flight, stray, at, mem, round, batch, log, cleared, saved, since, faults>>
  BY DEF PanelStarts
<1>3. Reopened \in Cursors /\ Place(Reopened) /\ FirstUpTo(log, Len(log), Reopened)
  BY ReopenedFacts
<1>4. flight = <<>> /\ mem.newest.instance = 0
  BY <1>1, <1>2 DEF PlaceInv, NewestInv, NoCursor
<1> HIDE DEF Reopened
<1>5. KernelTyped' /\ CollectTyped' /\ StoreTyped'
  BY <1>1, <1>2, <1>3 DEF KernelTyped, CollectTyped, StoreTyped, Pcs
<1>6. StoreInv'
  BY <1>1, <1>2, <1>3 DEF StoreInv, Sorted, Follows, Genuine, FirstUpTo, Place, Reached, UpTo
<1>7. NewestInv'
  BY <1>1, <1>2, <1>4 DEF NewestInv, NotTrusted
<1>8. PlaceInv' /\ GoneInv' /\ BatchInv' /\ FlightInv'
  BY <1>2, <1>4, NoFlight, Elsewhere DEF PlaceInv
<1> QED
  BY <1>5, <1>6, <1>7, <1>8, TypePartsAfter DEF OrderInv

---------------------------------------------------------------------------
(* The order of the log.                                                   *)

\* It starts in order: an empty log, and nothing asked for.
LEMMA InitOrder ==
  ASSUME Init
  PROVE  OrderInv
<1>1. /\ flight = <<>> /\ log = <<>> /\ pc = "idle" /\ cursor = NoCursor /\ cleared = 0
      /\ at = NoCursor /\ round = NewRound /\ batch = NoBatch /\ mem = Fresh /\ stray = NoCursor
      /\ kernel = [instance |-> 1, newest |-> 0, low |-> 0, untracked |-> 0]
      /\ saved = [rows |-> 0, cursor |-> NoCursor] /\ faults = 0
      /\ since = [i \in 1 .. MaxInstance |-> 0]
  BY DEF Init
<1>2. /\ flight \in Seq(Requests) /\ log \in Seq(Rows) /\ Len(log) = 0 /\ Len(flight) = 0
  BY <1>1
<1>3. /\ 1 \in Instances \ {0} /\ 0 \in 0 .. MaxSeq /\ 0 \in 0 .. MaxUntracked
      /\ 0 \in 0 .. MaxFaults /\ 0 \in Seqs /\ 0 \in 0 .. 0
  BY SeqsAreNumbers, Bounds
<1>4. kernel \in KernelType
  BY <1>1, <1>3 DEF KernelType
<1>5. saved \in [rows: 0 .. Len(log), cursor: Cursors] /\ since \in [1 .. MaxInstance -> Seqs]
  BY <1>1, <1>2, <1>3, FixedRecords
<1>6. TypeOK
  BY <1>1, <1>2, <1>3, <1>4, <1>5, FixedRecords, TypeParts
     DEF KernelTyped, CollectTyped, StoreTyped, Pcs
<1>7. Place(NoCursor)
  BY <1>1 DEF Place, Reached, NoCursor
<1>8. StoreInv
  BY <1>1, <1>2, <1>7 DEF StoreInv, Sorted, Genuine, FirstUpTo
<1>9. NewestInv
  BY <1>1, Bounds DEF NewestInv, NotTrusted, Fresh, NoCount, NoCursor
<1>10. PlaceInv /\ GoneInv /\ BatchInv /\ FlightInv
  BY <1>1 DEF PlaceInv, GoneInv, BatchInv, FlightInv
<1> QED
  BY <1>6, <1>8, <1>9, <1>10 DEF OrderInv

LEMMA NextKeepsOrder ==
  ASSUME OrderInv, EarlyRestarts = FALSE, [Next]_vars
  PROVE  OrderInv'
<1>1. CASE Kernel
  BY <1>1, KernelMoves, AnswerKeepsOrder DEF Kernel
<1>2. CASE Parallel
  BY <1>2, AskAheadKeepsOrder, TakeTooLargeKeepsOrder, TakeOverlapKeepsOrder,
     TakeRestartedKeepsOrder, TakeGoneKeepsOrder, TakePageKeepsOrder, EndParallelKeepsOrder
     DEF Parallel
<1>3. CASE Walk
  BY <1>3, AskNextKeepsOrder, WalkRestartedKeepsOrder, WalkPageKeepsOrder, WalkHalveKeepsOrder,
     SkipFindsRestartKeepsOrder, SkipOversizedKeepsOrder, EndWalkKeepsOrder
     DEF Walk
<1>4. CASE BeginRound \/ TakeFailure \/ AppendRows \/ Advance
  BY <1>4, BeginRoundKeepsOrder, TakeFailureKeepsOrder, AppendRowsKeepsOrder, AdvanceKeepsOrder
<1>5. CASE SaveState \/ PanelStarts
  BY <1>5, SavingKeepsOrder, PanelStartsKeepsOrder
<1>6. CASE Fault
  BY <1>6, RequestFailsKeepsOrder, AppendFailsKeepsOrder, SavingKeepsOrder, PanelEndsKeepsOrder
     DEF Fault
<1>7. CASE UNCHANGED vars
  <2>1. UNCHANGED <<kernel, flight, stray, collector, store, faults>>
    BY <1>7 DEF vars, collector, store
  <2>2. UNCHANGED <<pc, at, mem, round, batch, cursor, log, cleared, saved, since>>
    BY <1>7 DEF vars
  <2>3. /\ TypeOK /\ StoreInv /\ NewestInv /\ PlaceInv /\ GoneInv /\ BatchInv /\ FlightInv
        /\ KernelTyped /\ CollectTyped /\ StoreTyped
    BY OrderFacts, StateFacts
  <2>4. KernelTyped' /\ CollectTyped' /\ StoreTyped'
    BY <2>1, <2>2, <2>3 DEF KernelTyped, CollectTyped, StoreTyped
  <2>5. StoreInv' /\ NewestInv'
    BY <2>1, <2>2, <2>3, NewestKept DEF StoreInv, Sorted, Follows, Genuine, FirstUpTo, Place, Reached
  <2>6. PlaceInv' /\ GoneInv' /\ BatchInv'
    BY <2>1, <2>2, <2>3
       DEF PlaceInv, GoneInv, BatchInv, Place, Reached, NotTrusted, Sorted, Follows, Genuine
  <2>7. FlightInv'
    BY <2>1, <2>2, <2>3 DEF FlightInv, AskInv, PageInv, Answered, First
  <2> QED
    BY <2>4, <2>5, <2>6, <2>7, TypePartsAfter DEF OrderInv
<1> QED
  BY <1>1, <1>2, <1>3, <1>4, <1>5, <1>6, <1>7 DEF Next, Collect

\* Where KixDNS is not restarted before a first record of it is taken, rows stay in order
\* behind the cursor, and every page under way is of a process and a range that can be
\* told apart from what was written: over pages asked for ahead and answered in any order
\* (collect_parallel), restarts, retries and writes that are cut.
THEOREM OrderInvariant ==
  ASSUME EarlyRestarts = FALSE
  PROVE  Spec => []OrderInv
<1>1. Init => OrderInv
  BY InitOrder
<1>2. OrderInv /\ [Next]_vars => OrderInv'
  BY NextKeepsOrder
<1> QED
  BY <1>1, <1>2, PTL DEF Spec

\* Every variable has its type; cursors, pages and counts stay within their bounds.
THEOREM TypeCorrect ==
  ASSUME EarlyRestarts = FALSE
  PROVE  Spec => []TypeOK
<1>1. OrderInv => TypeOK
  BY DEF OrderInv
<1> QED
  BY <1>1, OrderInvariant, PTL

\* No record is written twice and a process's records are written in the order of their
\* numbers (append with the records of collect_parallel and collect_paged).
THEOREM WrittenOnce ==
  ASSUME EarlyRestarts = FALSE
  PROVE  Spec => []NeverTwice
<1>1. OrderInv => NeverTwice
  <2> SUFFICES ASSUME OrderInv, NEW j \in 1 .. Len(log), NEW k \in 1 .. Len(log), j < k,
                      ~IsGap(log[j]), ~IsGap(log[k])
               PROVE  \/ log[j].instance < log[k].instance
                      \/ log[j].instance = log[k].instance /\ log[j].seq < log[k].seq
    BY DEF NeverTwice
  <2>1. Follows(log[k], log[j])
    BY OrderFacts DEF StoreInv, Sorted
  <2>2. log[j] \in Rows /\ log[k] \in Rows
    BY OrderFacts, StateFacts
  <2> QED
    BY <2>1, <2>2, PointsOfRows DEF Follows, UpTo, CursorOf
<1> QED
  BY <1>1, OrderInvariant, PTL

---------------------------------------------------------------------------
(* What is covered stays covered.                                          *)

LEMMA CoveredLess ==
  ASSUME NEW c \in Cursors, NEW d \in Cursors, c.instance = d.instance, c.seq <= d.seq,
         NEW process \in KernelType, NEW rows, CoveredBy(d, process, rows)
  PROVE  CoveredBy(c, process, rows)
<1> SUFFICES ASSUME c.instance = process.instance, NEW s \in process.low + 1 .. c.seq
             PROVE  \/ \E k \in 1 .. Len(rows) : rows[k] = Entry(c.instance, s)
                    \/ s \in Ignored \/ s \in Oversized
  BY DEF CoveredBy
<1>1. process.low \in Nat /\ c.seq \in Nat /\ d.seq \in Nat
  BY PointFacts, Bounds DEF KernelType
<1>2. s \in process.low + 1 .. d.seq
  BY <1>1
<1> QED
  BY <1>2 DEF CoveredBy

LEMMA CoveredMore ==
  ASSUME NEW c, NEW process, NEW rows, NEW more, CoveredBy(c, process, rows),
         \A k \in 1 .. Len(rows) : \E n \in 1 .. Len(more) : more[n] = rows[k]
  PROVE  CoveredBy(c, process, more)
<1> SUFFICES ASSUME c.instance = process.instance, NEW s \in process.low + 1 .. c.seq
             PROVE  \/ \E k \in 1 .. Len(more) : more[k] = Entry(c.instance, s)
                    \/ s \in Ignored \/ s \in Oversized
  BY DEF CoveredBy
<1>1. CASE \E k \in 1 .. Len(rows) : rows[k] = Entry(c.instance, s)
  <2>1. PICK k \in 1 .. Len(rows) : rows[k] = Entry(c.instance, s)
    BY <1>1
  <2>2. PICK n \in 1 .. Len(more) : more[n] = rows[k]
    BY Zenon
  <2> QED
    BY <2>1, <2>2
<1>2. CASE s \in Ignored \/ s \in Oversized
  BY <1>2
<1> QED
  BY <1>1, <1>2 DEF CoveredBy

LEMMA CoveredAppended ==
  ASSUME NEW c, NEW process, NEW a \in Seq(Rows), NEW b \in Seq(Rows), CoveredBy(c, process, a)
  PROVE  CoveredBy(c, process, a \o b)
<1>1. \A k \in 1 .. Len(a) : k \in 1 .. Len(a \o b) /\ (a \o b)[k] = a[k]
  BY ConcatRows
<1> QED
  BY <1>1, CoveredMore

\* The first rows of a batch are among more of its first rows.
LEMMA CoveredFirst ==
  ASSUME NEW c, NEW process, NEW a \in Seq(Rows), NEW b \in Seq(Rows),
         NEW m \in 0 .. Len(b), NEW n \in 0 .. Len(b), m <= n,
         CoveredBy(c, process, a \o SubSeq(b, 1, m))
  PROVE  CoveredBy(c, process, a \o SubSeq(b, 1, n))
<1> DEFINE x == SubSeq(b, 1, m)
           y == SubSeq(b, 1, n)
<1>1. /\ x \in Seq(Rows) /\ Len(x) = m /\ \A k \in 1 .. m : x[k] = b[k]
      /\ y \in Seq(Rows) /\ Len(y) = n /\ \A k \in 1 .. n : y[k] = b[k]
      /\ m \in Nat /\ n \in Nat
  BY FirstRows
<1> HIDE DEF x, y
<1>2. \A k \in 1 .. Len(a \o x) : k \in 1 .. Len(a \o y) /\ (a \o y)[k] = (a \o x)[k]
  <2> TAKE k \in 1 .. Len(a \o x)
  <2>1. CASE k \in 1 .. Len(a)
    BY <2>1, <1>1, ConcatRows
  <2>2. CASE \E i \in 1 .. Len(x) : k = Len(a) + i
    <3>1. PICK i \in 1 .. Len(x) : k = Len(a) + i
      BY <2>2
    <3>2. i \in 1 .. Len(y) /\ y[i] = x[i]
      BY <3>1, <1>1
    <3>3. (a \o x)[k] = x[i] /\ (a \o y)[k] = y[i]
      BY <3>1, <3>2, <1>1, ConcatRows
    <3>4. k \in 1 .. Len(a \o y)
      BY <3>1, <3>2, <1>1, ConcatRows
    <3> QED
      BY <3>2, <3>3, <3>4
  <2> QED
    BY <2>1, <2>2, <1>1, ConcatRows
<1> QED
  BY <1>2, CoveredMore DEF x, y

\* KixDNS deletes only what it may, and numbers of an ended process need no cover.
LEMMA CoveredForward ==
  ASSUME kernel \in KernelType, KernelForward, NEW c \in Cursors, Reached(c), NEW rows,
         CoveredBy(c, kernel, rows)
  PROVE  CoveredBy(c, kernel', rows)
<1>1. c.instance \in Nat /\ c.seq \in Nat /\ c.instance <= kernel.instance
  BY PointFacts DEF Reached
<1> SUFFICES ASSUME c.instance = kernel'.instance, NEW s \in kernel'.low + 1 .. c.seq
             PROVE  \/ \E k \in 1 .. Len(rows) : rows[k] = Entry(c.instance, s)
                    \/ s \in Ignored \/ s \in Oversized
  BY DEF CoveredBy
<1>2. kernel'.instance = kernel.instance
  BY <1>1, ForwardFacts
<1>3. s \in kernel.low + 1 .. c.seq
  BY <1>1, <1>2, ForwardFacts
<1> QED
  BY <1>2, <1>3 DEF CoveredBy

LEMMA DeletionFacts ==
  ASSUME DeletionInv
  PROVE  /\ OrderInv /\ AtPassed /\ GonePassed /\ RepliesPassed
         /\ FilesCovered /\ RowsCovered /\ NextCovered /\ AsksCovered
BY DEF DeletionInv

\* KixDNS moves on: only replies are added, and they begin past what is gone.
LEMMA DeletionForward ==
  ASSUME DeletionInv, KernelForward, OrderInv', UNCHANGED <<stray, collector, store, faults>>,
         Len(flight') = Len(flight),
         \A k \in 1 .. Len(flight) :
           flight'[k] = flight[k]
           \/ (/\ flight'[k].kind # "asked" /\ kernel'.instance = kernel.instance
               /\ flight'[k].page.missed = 0
                  \/ flight'[k].after + flight'[k].page.missed <= kernel'.low
               /\ flight'[k].kind = "large" /\ flight'[k].size = 1 =>
                    flight'[k].after + flight'[k].page.missed + 1 \in Oversized)
  PROVE  DeletionInv'
<1>1. UNCHANGED <<pc, at, mem, round, batch, cursor, log, cleared, saved, since, faults>>
  BY DEF collector, store
<1>2. /\ OrderInv /\ AtPassed /\ GonePassed /\ RepliesPassed
      /\ FilesCovered /\ RowsCovered /\ NextCovered /\ AsksCovered
  BY DeletionFacts
<1>3. /\ TypeOK /\ StoreInv /\ PlaceInv /\ GoneInv /\ BatchInv /\ FlightInv
      /\ kernel.instance \in Nat /\ kernel \in KernelType
      /\ cursor \in Cursors /\ saved.cursor \in Cursors /\ stray \in Cursors /\ at \in Cursors
      /\ batch.next \in Cursors /\ log \in Seq(Rows) /\ batch.rows \in Seq(Rows)
      /\ round.gone.page \in Pages /\ Len(flight) \in Nat
      /\ \A k \in 1 .. Len(flight) : flight[k] \in Requests
  BY <1>2, OrderFacts, StateFacts DEF KernelTyped
<1>4. /\ kernel'.instance \in Nat /\ kernel'.instance >= kernel.instance
      /\ kernel'.low \in Nat /\ kernel.low \in Nat
      /\ kernel'.instance = kernel.instance => kernel.low <= kernel'.low
  BY <1>3, ForwardFacts
<1>5. AtPassed' /\ GonePassed'
  <2>1. pc = "parallel" => at.instance = cursor.instance
    BY <1>3 DEF PlaceInv
  <2>2. cursor.instance \in Nat /\ cursor.instance <= kernel.instance /\ at.seq \in Nat
    BY <1>2, OrderFacts
  <2>3. pc = "parallel" /\ round.gone.found => round.gone.page.instance \in 1 .. kernel.instance
    BY <1>3 DEF GoneInv
  <2>4. round.gone.page.last \in Nat
    BY <1>3, PageFacts
  <2>5. AtPassed'
    <3> SUFFICES ASSUME pc = "parallel", at.instance = kernel'.instance
                 PROVE  at.seq = cursor.seq \/ at.seq <= kernel'.low
      BY <1>1 DEF AtPassed
    <3>1. kernel'.instance = kernel.instance
      BY <1>3, <1>4, <2>1, <2>2
    <3>2. at.seq = cursor.seq \/ at.seq <= kernel.low
      BY <3>1, <1>2 DEF AtPassed
    <3> QED
      BY <3>1, <3>2, <1>4, <2>2
  <2>6. pc = "parallel" /\ round.gone.found /\ round.gone.page.instance = kernel'.instance =>
          kernel'.instance = kernel.instance
    BY <1>3, <1>4, <2>3
  <2>7. GonePassed'
    BY <1>1, <1>2, <1>4, <2>4, <2>6 DEF GonePassed
  <2> QED
    BY <2>5, <2>7
<1>6. RepliesPassed'
  <2> SUFFICES ASSUME NEW k \in 1 .. Len(flight), Answered(flight'[k])
               PROVE  /\ flight'[k].page.instance = kernel'.instance =>
                           flight'[k].page.missed = 0
                           \/ flight'[k].after + flight'[k].page.missed <= kernel'.low
                      /\ flight'[k].kind = "large" /\ flight'[k].size = 1 =>
                           flight'[k].after + flight'[k].page.missed + 1 \in Oversized
    BY DEF RepliesPassed, ReplyPassed, Answered
  <2>1. CASE flight'[k] # flight[k]
    BY <2>1
  <2>2. CASE flight'[k] = flight[k]
    <3> DEFINE req == flight[k]
               page == flight[k].page
    <3>1. req \in Requests /\ Answered(req) /\ ReplyPassed(req, page) /\ PageInv(req, page)
      BY <2>2, <1>2, <1>3 DEF RepliesPassed, FlightInv
    <3>2. page.instance \in 1 .. kernel.instance /\ page.missed \in Nat /\ req.after \in Nat
      BY <3>1, RequestFacts, PageFacts DEF PageInv
    <3> HIDE DEF req, page
    <3>3. page.instance = kernel'.instance => kernel'.instance = kernel.instance
      BY <3>2, <1>3, <1>4
    <3>4. page.instance = kernel'.instance =>
            page.missed = 0 \/ req.after + page.missed <= kernel'.low
      BY <3>1, <3>2, <3>3, <1>4 DEF ReplyPassed
    <3> QED
      BY <2>2, <3>1, <3>4 DEF ReplyPassed, req, page
  <2> QED
    BY <2>1, <2>2
<1>7. \A c \in Cursors : Reached(c) /\ Covered(c) => CoveredBy(c, kernel', log)
  BY <1>3, CoveredForward DEF Covered
<1>8. FilesCovered'
  <2>1. Reached(cursor) /\ Reached(saved.cursor)
    BY <1>3 DEF StoreInv, Place
  <2>2. CoveredBy(cursor, kernel', log) /\ CoveredBy(saved.cursor, kernel', log)
    BY <2>1, <1>2, <1>3, <1>7 DEF FilesCovered
  <2>3. \A k \in 1 .. Len(log) : CoveredBy(CursorOf(log[k]), kernel', log)
    <3> TAKE k \in 1 .. Len(log)
    <3>1. log[k] \in Rows /\ Reached(CursorOf(log[k])) /\ Covered(CursorOf(log[k]))
      BY <1>2, <1>3 DEF StoreInv, Genuine, FilesCovered
    <3> QED
      BY <3>1, <1>7, PointsOfRows
  <2> QED
    BY <2>2, <2>3, <1>1 DEF FilesCovered, Covered
<1>9. RowsCovered'
  <2> SUFFICES ASSUME pc = "write"
               PROVE  /\ CoveredBy(batch.next, kernel', log \o batch.rows)
                      /\ \A k \in 1 .. Len(batch.rows) :
                           CoveredBy(CursorOf(batch.rows[k]), kernel', log \o SubSeq(batch.rows, 1, k))
    BY <1>1 DEF RowsCovered
  <2>1. Reached(batch.next) /\ Genuine(batch.rows)
    BY <1>3 DEF BatchInv
  <2>2. CoveredBy(batch.next, kernel', log \o batch.rows)
    BY <2>1, <1>2, <1>3, CoveredForward DEF RowsCovered
  <2>3. ASSUME NEW k \in 1 .. Len(batch.rows)
        PROVE  CoveredBy(CursorOf(batch.rows[k]), kernel', log \o SubSeq(batch.rows, 1, k))
    <3>1. batch.rows[k] \in Rows /\ Reached(CursorOf(batch.rows[k]))
      BY <2>1, <1>3 DEF Genuine
    <3>2. CoveredBy(CursorOf(batch.rows[k]), kernel, log \o SubSeq(batch.rows, 1, k))
      BY <1>2 DEF RowsCovered
    <3> QED
      BY <3>1, <3>2, <1>3, PointsOfRows, CoveredForward
  <2> QED
    BY <2>2, <2>3
<1>10. NextCovered'
  <2>1. pc = "advance" => Reached(batch.next) /\ Covered(batch.next)
    BY <1>2, <1>3 DEF BatchInv, NextCovered
  <2> QED
    BY <2>1, <1>1, <1>3, <1>7 DEF NextCovered, Covered
<1>11. AsksCovered'
  <2>1. \A c \in Cursors : Reached(c) => Reached(c)'
    BY <1>3, ReachedStays, PointFacts DEF Reached
  <2>2. Reached(stray)' /\ Covered(stray)'
    BY <2>1, <1>1, <1>2, <1>3, <1>7 DEF AsksCovered, Reached, Covered
  <2>3. ASSUME NEW k \in 1 .. Len(flight), flight'[k].kind = "asked"
        PROVE  Reached(Deletion(flight[k]))' /\ Covered(Deletion(flight[k]))'
    <3>1. flight'[k] = flight[k]
      BY <2>3
    <3>2. /\ Deletion(flight[k]) \in Cursors /\ Reached(Deletion(flight[k]))
          /\ Covered(Deletion(flight[k]))
      BY <2>3, <3>1, <1>2, <1>3, DeletionType DEF AsksCovered
    <3> DEFINE c == Deletion(flight[k])
    <3>3. CoveredBy(c, kernel', log)
      BY <3>2, <1>7
    <3>4. c.instance <= kernel'.instance /\ (c.instance = kernel'.instance => c.seq <= kernel'.newest)
      BY <3>2, <1>3, ReachedStays, PointFacts
    <3>5. Deletion(flight[k])' = c
      BY <3>1 DEF Deletion
    <3> HIDE DEF c
    <3> QED
      BY <3>3, <3>4, <3>5, <1>1 DEF Covered, Reached
  <2> QED
    BY <2>2, <2>3 DEF AsksCovered
<1> QED
  BY <1>5, <1>6, <1>8, <1>9, <1>10, <1>11 DEF DeletionInv

LEMMA KernelDeletes ==
  ASSUME DeletionInv, EarlyRestarts = FALSE, Kernel
  PROVE  DeletionInv'
<1>1. OrderInv
  BY DEF DeletionInv
<1>2. CASE KernelRecord \/ KernelUntracked \/ KernelRestart \/ KernelForget \/ AnswerStray
  <2>1. KernelForward /\ UNCHANGED <<flight, stray, collector, store, faults>> /\ OrderInv'
    BY <1>1, <1>2, KernelGoesForward, KernelMoves
  <2> QED
    BY <2>1, DeletionForward
<1>3. CASE Answer
  <2>1. OrderInv'
    BY <1>1, <1>3, AnswerKeepsOrder
  <2>2. /\ KernelForward /\ UNCHANGED <<stray, collector, store, faults>>
        /\ Len(flight') = Len(flight)
    BY <1>1, <1>3, AnswerFacts
  <2>3. \A k \in 1 .. Len(flight) :
          flight'[k] = flight[k]
          \/ (/\ flight'[k].kind # "asked" /\ kernel'.instance = kernel.instance
              /\ flight'[k].page.missed = 0
                 \/ flight'[k].after + flight'[k].page.missed <= kernel'.low
              /\ flight'[k].kind = "large" /\ flight'[k].size = 1 =>
                   flight'[k].after + flight'[k].page.missed + 1 \in Oversized)
    BY <1>1, <1>3, AnswerFacts DEF Answered
  <2> QED
    BY <2>1, <2>2, <2>3, DeletionForward
<1> QED
  BY <1>2, <1>3 DEF Kernel

---------------------------------------------------------------------------
(* The collector's steps: what they leave covered.                         *)

\* No row is lost.
LogGrows == log' = log \/ \E more \in Seq(Rows) : log' = log \o more

LEMMA CoverStays ==
  ASSUME OrderInv, UNCHANGED kernel, LogGrows, NEW c, Covered(c)
  PROVE  CoveredBy(c, kernel', log')
<1>1. CoveredBy(c, kernel, log) /\ log \in Seq(Rows)
  BY OrderFacts, StateFacts DEF Covered
<1> QED
  BY <1>1, CoveredAppended DEF LogGrows

\* Requests that ask for the deletion of no more than is covered.
Modest(req) == Reached(Deletion(req)) /\ Covered(Deletion(req))

LEMMA AsksKept ==
  ASSUME DeletionInv, UNCHANGED kernel, LogGrows,
         \A k \in 1 .. Len(flight') :
           \/ \E j \in 1 .. Len(flight) : flight'[k] = flight[j]
           \/ flight'[k].kind = "failed"
           \/ flight'[k].kind = "asked" /\ Modest(flight'[k]),
         stray' = stray
         \/ \E k \in 1 .. Len(flight) : flight[k].kind = "asked" /\ stray' = Deletion(flight[k])
  PROVE  AsksCovered' /\ RepliesPassed'
<1>1. OrderInv /\ AsksCovered /\ RepliesPassed
  BY DEF DeletionInv
<1>2. Reached(stray') /\ Covered(stray')
  BY <1>1 DEF AsksCovered
<1>3. Reached(stray)' /\ CoveredBy(stray', kernel', log')
  BY <1>1, <1>2, CoverStays DEF Reached
<1>4. ASSUME NEW k \in 1 .. Len(flight'), flight'[k].kind = "asked"
      PROVE  Reached(Deletion(flight'[k])) /\ CoveredBy(Deletion(flight'[k]), kernel', log')
  <2>1. Modest(flight'[k])
    <3>1. CASE \E j \in 1 .. Len(flight) : flight'[k] = flight[j]
      BY <3>1, <1>1, <1>4 DEF AsksCovered, Modest
    <3>2. CASE flight'[k].kind = "failed"
      BY <3>2, <1>4
    <3> QED
      BY <3>1, <3>2
  <2> QED
    BY <2>1, <1>1, CoverStays DEF Modest
<1>5. AsksCovered'
  BY <1>3, <1>4 DEF AsksCovered, Reached, Covered, Deletion
<1>6. \A k \in 1 .. Len(flight') : Answered(flight'[k]) => ReplyPassed(flight'[k], flight'[k].page)
  <2> SUFFICES ASSUME NEW k \in 1 .. Len(flight'), Answered(flight'[k])
               PROVE  ReplyPassed(flight'[k], flight'[k].page)
    OBVIOUS
  <2>1. PICK j \in 1 .. Len(flight) : flight'[k] = flight[j]
    BY DEF Answered
  <2> QED
    BY <2>1, <1>1 DEF RepliesPassed
<1>7. RepliesPassed'
  BY <1>6 DEF RepliesPassed, Answered, ReplyPassed
<1> QED
  BY <1>5, <1>7

\* The requests under way are abandoned or answered and gone.
LEMMA AsksDropped ==
  ASSUME DeletionInv, UNCHANGED kernel, LogGrows,
         \/ AbandonAll(flight)
         \/ flight # <<>> /\ AbandonAll(Tail(flight))
         \/ flight' = <<>> /\ stray' = stray
  PROVE  AsksCovered' /\ RepliesPassed'
<1>1. OrderInv /\ flight \in Seq(Requests) /\ Len(flight) \in Nat /\ stray \in Cursors
  BY OrderFacts, StateFacts DEF DeletionInv, KernelTyped
<1>2. /\ flight' = <<>>
      /\ stray' = stray
         \/ \E k \in 1 .. Len(flight) : flight[k].kind = "asked" /\ stray' = Deletion(flight[k])
  <2>1. CASE AbandonAll(flight)
    BY <2>1, <1>1, AbandonFacts
  <2>2. CASE flight # <<>> /\ AbandonAll(Tail(flight))
    <3>1. /\ Tail(flight) \in Seq(Requests)
          /\ \A k \in 1 .. Len(Tail(flight)) :
               k + 1 \in 1 .. Len(flight) /\ Tail(flight)[k] = flight[k + 1]
      BY <2>2, <1>1
    <3>2. /\ flight' = <<>>
          /\ stray' = stray
             \/ \E k \in 1 .. Len(Tail(flight)) :
                  Tail(flight)[k].kind = "asked" /\ stray' = Deletion(Tail(flight)[k])
      BY <2>2, <3>1, <1>1, AbandonFacts
    <3> QED
      BY <3>1, <3>2
  <2>3. CASE flight' = <<>> /\ stray' = stray
    BY <2>3
  <2> QED
    BY <2>1, <2>2, <2>3
<1>3. Len(flight') = 0
  BY <1>2
<1> QED
  BY <1>2, <1>3, AsksKept

\* The cursors in memory and in the state file are covered ones.
LEMMA FilesKept ==
  ASSUME DeletionInv, UNCHANGED <<kernel, log>>, Covered(cursor'),
         saved'.cursor = saved.cursor \/ saved'.cursor = cursor
  PROVE  FilesCovered'
<1>1. FilesCovered
  BY DEF DeletionInv
<1>2. Covered(saved'.cursor)
  BY <1>1 DEF FilesCovered
<1> QED
  BY <1>1, <1>2 DEF FilesCovered, Covered

\* What is said of a part of the collector's program holds everywhere else.
LEMMA NotThere ==
  /\ pc' # "parallel" => AtPassed' /\ GonePassed'
  /\ pc' # "write" => RowsCovered'
  /\ pc' # "advance" => NextCovered'
BY DEF AtPassed, GonePassed, RowsCovered, NextCovered

\* The collector's own cursor is the one in the files.
LEMMA AtCursor ==
  ASSUME at'.seq = cursor'.seq
  PROVE  AtPassed'
BY DEF AtPassed

\* The rows of a page: its numbers, after numbers that are covered or gone.
LEMMA RowsOfPage ==
  ASSUME OrderInv, NEW page \in Pages, NEW c \in Cursors, NEW after \in Seqs,
         NEW oversized \in Nat, NEW back \in {"idle", "parallel", "walk"},
         Takeable(page, after), batch' = BatchOf(page, c, after, oversized, back),
         UNCHANGED <<kernel, log>>,
         page.instance = kernel.instance =>
           page.missed = 0 \/ after + page.missed <= kernel.low,
         page.instance = kernel.instance =>
           after <= kernel.low \/ Covered([instance |-> page.instance, seq |-> after])
  PROVE  RowsCovered'
<1> DEFINE b == BatchOf(page, c, after, oversized, back)
           i == page.instance
           from == after + page.missed
           Has(rows, s) == \E k \in 1 .. Len(rows) : rows[k] = Entry(i, s)
<1>1. /\ TypeOK /\ log \in Seq(Rows) /\ kernel.low \in Nat
      /\ page.missed \in Nat /\ page.last \in Nat /\ after \in Nat
  BY OrderFacts, StateFacts, KernelFacts, PageFacts, SeqsAreNumbers
<1>2. /\ b.next.instance = i /\ b.next.seq = page.last /\ b.rows \in Seq(Rows)
      /\ Between(b.rows, b.next)
      /\ \A s \in (from + 1 .. page.last) \ Ignored : Has(b.rows, s)
      /\ \A k \in 1 .. Len(b.rows) :
           \/ b.rows[k].seq <= from
           \/ /\ b.rows[k].seq <= page.last
              /\ \A s \in (from + 1 .. b.rows[k].seq) \ Ignored :
                   \E n \in 1 .. k : b.rows[n] = Entry(i, s)
  <2>1. TypeOK
    BY <1>1
  <2>2. /\ b.next.instance = i /\ b.next.seq = page.last /\ b.rows \in Seq(Rows)
        /\ Between(b.rows, b.next) /\ InFull(b.rows, page, from)
    BY <2>1, BatchOfPage
  <2> HIDE DEF b, from
  <2> QED
    BY <2>2 DEF InFull
<1>3. batch'.next = b.next /\ batch'.rows = b.rows
  OBVIOUS
<1>4. from \in Nat
  BY <1>1
<1>5. ASSUME i = kernel.instance, NEW s \in Nat, s > kernel.low, s <= from
      PROVE  Has(log, s) \/ s \in Ignored \/ s \in Oversized
  <2>1. s <= after /\ ~(after <= kernel.low)
    BY <1>5, <1>1
  <2>2. Covered([instance |-> i, seq |-> after])
    BY <2>1, <1>5
  <2>3. s \in kernel.low + 1 .. after
    BY <2>1, <1>1, <1>5
  <2> QED
    BY <2>2, <2>3, <1>5 DEF Covered, CoveredBy
<1> HIDE DEF b, from
<1>6. \A s : Has(log, s) => \A more \in Seq(Rows) : Has(log \o more, s)
  <2> SUFFICES ASSUME NEW s, NEW k \in 1 .. Len(log), log[k] = Entry(i, s),
                      NEW more \in Seq(Rows)
               PROVE  Has(log \o more, s)
    OBVIOUS
  <2>1. k \in 1 .. Len(log \o more) /\ (log \o more)[k] = log[k]
    BY <1>1, ConcatRows
  <2> QED
    BY <2>1
<1>7. \A s : \A more \in Seq(Rows) : Has(more, s) => Has(log \o more, s)
  <2> SUFFICES ASSUME NEW s, NEW more \in Seq(Rows), NEW k \in 1 .. Len(more), more[k] = Entry(i, s)
               PROVE  Has(log \o more, s)
    OBVIOUS
  <2>1. /\ Len(log) + k \in 1 .. Len(log \o more) /\ (log \o more)[Len(log) + k] = more[k]
    BY <1>1, ConcatRows
  <2> QED
    BY <2>1
<1>8. CoveredBy(b.next, kernel, log \o b.rows)
  <2> SUFFICES ASSUME i = kernel.instance, NEW s \in kernel.low + 1 .. page.last
               PROVE  Has(log \o b.rows, s) \/ s \in Ignored \/ s \in Oversized
    BY <1>2 DEF CoveredBy
  <2>1. s \in Nat /\ s > kernel.low /\ (s <= from \/ s \in from + 1 .. page.last)
    BY <1>1, <1>4
  <2>2. CASE s <= from
    BY <2>1, <2>2, <1>2, <1>5, <1>6, Zenon
  <2>3. CASE s \in from + 1 .. page.last
    BY <2>3, <1>2, <1>7, Zenon
  <2> QED
    BY <2>1, <2>2, <2>3
<1>9. ASSUME NEW k \in 1 .. Len(b.rows)
      PROVE  CoveredBy(CursorOf(b.rows[k]), kernel, log \o SubSeq(b.rows, 1, k))
  <2> DEFINE first == SubSeq(b.rows, 1, k)
  <2>1. b.rows[k] \in Rows /\ k \in 0 .. Len(b.rows) /\ b.rows[k].instance = i
    BY <1>2 DEF Between
  <2>2. first \in Seq(Rows) /\ Len(first) = k /\ \A n \in 1 .. k : first[n] = b.rows[n]
    BY <1>2, <2>1, FirstRows
  <2>3. /\ CursorOf(b.rows[k]).instance = i /\ CursorOf(b.rows[k]).seq = b.rows[k].seq
        /\ b.rows[k].seq \in Nat
    BY <2>1, PointsOfRows
  <2> HIDE DEF first
  <2> SUFFICES ASSUME i = kernel.instance, NEW s \in kernel.low + 1 .. b.rows[k].seq
               PROVE  Has(log \o first, s) \/ s \in Ignored \/ s \in Oversized
    BY <2>3 DEF CoveredBy, first
  <2>4. s \in Nat /\ s > kernel.low /\ (s <= from \/ (s \in from + 1 .. b.rows[k].seq /\ ~(b.rows[k].seq <= from)))
    <3>1. kernel.low \in Nat /\ from \in Nat /\ b.rows[k].seq \in Nat
      BY <1>1, <1>4, <2>3
    <3> DEFINE last == b.rows[k].seq
               low == kernel.low
    <3>2. low \in Nat /\ last \in Nat /\ s \in low + 1 .. last
      BY <3>1
    <3> HIDE DEF last, low
    <3>3. s \in Nat /\ s > low /\ (s <= from \/ (s \in from + 1 .. last /\ ~(last <= from)))
      BY <3>1, <3>2
    <3> QED
      BY <3>3 DEF last, low
  <2>5. CASE s <= from
    BY <2>2, <2>4, <2>5, <1>5, <1>6, Zenon
  <2>6. CASE s \in from + 1 .. b.rows[k].seq /\ ~(b.rows[k].seq <= from)
    <3>1. s \notin Ignored => Has(first, s)
      BY <2>2, <2>6, <1>2
    <3> QED
      BY <3>1, <2>2, <1>7, Zenon
  <2> QED
    BY <2>4, <2>5, <2>6
<1> QED
  BY <1>3, <1>8, <1>9 DEF RowsCovered

\* A number that is gone, or none, is covered.
LEMMA CoveredGone ==
  ASSUME OrderInv, NEW c, c.instance = kernel.instance => c.seq \in Nat /\ c.seq <= kernel.low
  PROVE  Covered(c)
<1>1. kernel.low \in Nat
  BY OrderFacts, StateFacts, KernelFacts
<1> QED
  BY <1>1 DEF Covered, CoveredBy

\* A step into the page-by-page way or out of a round, with nothing asked for.
LEMMA CoverLeft ==
  ASSUME DeletionInv, OrderInv', UNCHANGED <<kernel, log>>, Covered(cursor'),
         saved'.cursor = saved.cursor \/ saved'.cursor = cursor,
         pc' \notin {"parallel", "write", "advance"},
         \/ AbandonAll(flight)
         \/ flight # <<>> /\ AbandonAll(Tail(flight))
         \/ flight' = <<>> /\ stray' = stray
  PROVE  DeletionInv'
<1>1. AtPassed' /\ GonePassed' /\ RowsCovered' /\ NextCovered'
  BY NotThere
<1>2. FilesCovered'
  BY FilesKept
<1>3. AsksCovered' /\ RepliesPassed'
  BY AsksDropped DEF LogGrows
<1> QED
  BY <1>1, <1>2, <1>3 DEF DeletionInv

LEMMA EndsKeepCover ==
  ASSUME DeletionInv, TakeFailure \/ TakeTooLarge \/ AppendFails \/ WalkHalve
  PROVE  DeletionInv'
<1>1. OrderInv /\ Covered(cursor)
  BY DEF DeletionInv, FilesCovered
<1>2. OrderInv'
  BY <1>1, TakeFailureKeepsOrder, TakeTooLargeKeepsOrder, AppendFailsKeepsOrder, WalkHalveKeepsOrder
<1>3. UNCHANGED <<kernel, log, cursor>>
  BY DEF TakeFailure, TakeTooLarge, AppendFails, WalkHalve, store
<1>4. saved'.cursor = saved.cursor \/ saved'.cursor = cursor
  BY DEF TakeFailure, TakeTooLarge, AppendFails, WalkHalve, store, StateNow
<1>5. pc' \in {"idle", "walk"}
  BY DEF TakeFailure, TakeTooLarge, AppendFails, WalkHalve, EndRound
<1>6. \/ AbandonAll(flight)
      \/ flight' = <<>> /\ stray' = stray
  BY DEF TakeFailure, TakeTooLarge, AppendFails, WalkHalve
<1> QED
  BY <1>1, <1>2, <1>3, <1>4, <1>5, <1>6, CoverLeft

LEMMA BeginRoundKeepsCover ==
  ASSUME DeletionInv, BeginRound
  PROVE  DeletionInv'
<1>1. OrderInv /\ Covered(cursor) /\ flight = <<>>
  BY OrderFacts DEF DeletionInv, FilesCovered, BeginRound, PlaceInv
<1>2. OrderInv'
  BY <1>1, BeginRoundKeepsOrder
<1>3. /\ UNCHANGED <<kernel, flight, stray, mem, batch, cursor, log, saved>>
      /\ at' = cursor /\ round' = NewRound /\ pc' \in {"parallel", "walk"}
  BY DEF BeginRound, store
<1>4. AtPassed'
  BY <1>3, AtCursor
<1>5. GonePassed'
  BY <1>3 DEF GonePassed, NewRound, NoGone
<1>6. RowsCovered' /\ NextCovered'
  BY <1>3, NotThere
<1>7. FilesCovered'
  BY <1>1, <1>3, FilesKept
<1>8. AsksCovered' /\ RepliesPassed'
  BY <1>1, <1>3, AsksDropped DEF LogGrows
<1> QED
  BY <1>2, <1>4, <1>5, <1>6, <1>7, <1>8 DEF DeletionInv

\* The collector starts over: before the first number of a process nothing needs cover.
LEMMA StartsOverKeepCover ==
  ASSUME DeletionInv, TakeRestarted \/ WalkRestarted \/ SkipFindsRestart
  PROVE  DeletionInv'
<1>1. OrderInv
  BY DEF DeletionInv
<1>2. OrderInv'
  BY <1>1, TakeRestartedKeepsOrder, WalkRestartedKeepsOrder, SkipFindsRestartKeepsOrder
<1>3. /\ at'.seq = 0 /\ cursor'.seq = 0 /\ UNCHANGED <<kernel, log, saved>>
      /\ pc' = pc /\ pc \in {"parallel", "walk"} /\ flight # <<>>
      /\ (flight' = <<>> /\ stray' = stray) \/ AbandonAll(Tail(flight))
      /\ pc = "parallel" => ~round'.gone.found
  <2>1. CASE TakeRestarted
    <3>1. round' = [round EXCEPT !.gone = NoGone] /\ round \in RoundType
      BY <1>1, <2>1, OrderFacts, StateFacts DEF TakeRestarted
    <3>2. ~round'.gone.found
      BY <3>1 DEF RoundType, NoGone
    <3> QED
      BY <2>1, <3>2 DEF TakeRestarted, Arrived, StartOver
  <2>2. CASE WalkRestarted
    BY <2>2 DEF WalkRestarted, Arrived, StartOver
  <2>3. CASE SkipFindsRestart
    BY <2>3 DEF SkipFindsRestart, TooLargeAlone, Arrived, StartOver
  <2> QED
    BY <2>1, <2>2, <2>3
<1>4. Covered(cursor')
  <2>1. kernel.low \in Nat
    BY <1>1, OrderFacts, StateFacts, KernelFacts
  <2> QED
    BY <2>1, <1>1, <1>3, CoveredGone
<1>5. AtPassed' /\ GonePassed'
  BY <1>3, AtCursor DEF GonePassed
<1>6. RowsCovered' /\ NextCovered'
  BY <1>3, NotThere
<1>7. FilesCovered'
  BY <1>3, <1>4, FilesKept
<1>8. AsksCovered' /\ RepliesPassed'
  BY <1>3, AsksDropped DEF LogGrows
<1> QED
  BY <1>2, <1>5, <1>6, <1>7, <1>8 DEF DeletionInv

LEMMA TakeOverlapKeepsCover ==
  ASSUME DeletionInv, TakeOverlap
  PROVE  DeletionInv'
<1>1. /\ OrderInv /\ Covered(cursor) /\ AtPassed /\ GonePassed
  BY DEF DeletionInv, FilesCovered
<1>2. OrderInv'
  BY <1>1, TakeOverlapKeepsOrder
<1>3. /\ UNCHANGED <<kernel, pc, at, round, batch, cursor, log, saved>> /\ pc = "parallel"
      /\ flight # <<>> /\ AbandonAll(Tail(flight))
  BY DEF TakeOverlap, store, Arrived
<1>4. AtPassed' /\ GonePassed'
  BY <1>1, <1>3 DEF AtPassed, GonePassed
<1>5. RowsCovered' /\ NextCovered'
  BY <1>3, NotThere
<1>6. FilesCovered'
  BY <1>1, <1>3, FilesKept
<1>7. AsksCovered' /\ RepliesPassed'
  BY <1>3, AsksDropped DEF LogGrows
<1> QED
  BY <1>2, <1>4, <1>5, <1>6, <1>7 DEF DeletionInv

\* The request in front is taken and the others stay.
LEMMA AsksBehind ==
  ASSUME DeletionInv, UNCHANGED <<kernel, log, stray>>, flight # <<>>, flight' = Tail(flight)
  PROVE  AsksCovered' /\ RepliesPassed'
<1>1. flight \in Seq(Requests) /\ Len(flight) \in Nat
  BY OrderFacts, StateFacts DEF DeletionInv
<1>2. \A k \in 1 .. Len(flight') : \E j \in 1 .. Len(flight) : flight'[k] = flight[j]
  <2> TAKE k \in 1 .. Len(flight')
  <2>1. k + 1 \in 1 .. Len(flight) /\ flight'[k] = flight[k + 1]
    BY <1>1
  <2> QED
    BY <2>1
<1> QED
  BY <1>2, AsksKept DEF LogGrows

\* What a page in front begins after is covered or gone, as is what it missed.
LEMMA FrontPassed ==
  ASSUME DeletionInv, InOrder
  PROVE  LET page == First.page
         IN  /\ page.instance = kernel.instance =>
                  page.missed = 0 \/ First.after + page.missed <= kernel.low
             /\ page.instance = kernel.instance =>
                  First.after <= kernel.low
                  \/ Covered([instance |-> page.instance, seq |-> First.after])
<1> DEFINE page == First.page
<1>1. OrderInv /\ AtPassed /\ RepliesPassed /\ Covered(cursor)
  BY DEF DeletionInv, FilesCovered
<1>2. /\ pc = "parallel" /\ flight # <<>> /\ First.kind = "page" /\ First.after = at.seq
      /\ at.seq = 0 \/ ~Restarted(page)
      /\ Takeable(page, First.after)
  BY <1>1, InOrderTakeable DEF InOrder
<1>3. page.instance = kernel.instance => page.missed = 0 \/ First.after + page.missed <= kernel.low
  <2>1. 1 \in 1 .. Len(flight)
    BY <1>1, <1>2, FrontFacts
  <2>2. ReplyPassed(First, page)
    BY <1>1, <1>2, <2>1 DEF RepliesPassed, First, Answered
  <2> QED
    BY <2>2 DEF ReplyPassed
<1>4. ASSUME page.instance = kernel.instance
      PROVE  First.after <= kernel.low
             \/ Covered([instance |-> page.instance, seq |-> First.after])
  <2>1. at.instance = cursor.instance /\ cursor \in Cursors /\ at.seq \in Nat
        /\ kernel.low \in Nat
    BY <1>1, <1>2, OrderFacts, StateFacts, KernelFacts DEF PlaceInv
  <2>2. CASE at.seq = 0
    BY <2>1, <2>2, <1>2
  <2>3. CASE at.instance = page.instance
    <3>1. at.seq = cursor.seq \/ at.seq <= kernel.low
      BY <2>3, <1>1, <1>2, <1>4 DEF AtPassed
    <3>2. at.seq = cursor.seq => [instance |-> page.instance, seq |-> First.after] = cursor
      BY <2>1, <2>3, <1>2, PointFacts
    <3> QED
      BY <3>1, <3>2, <1>1, <1>2
  <2> QED
    BY <2>2, <2>3, <1>2 DEF Restarted
<1> QED
  BY <1>3, <1>4

LEMMA TakeGoneKeepsCover ==
  ASSUME DeletionInv, TakeGone
  PROVE  DeletionInv'
<1> DEFINE page == First.page
           gone == [found |-> TRUE, page |-> page, after |-> First.after, earlier |-> EarlierGone]
<1>1. /\ OrderInv /\ Covered(cursor) /\ at \in Cursors /\ round \in RoundType
  BY OrderFacts, StateFacts DEF DeletionInv, FilesCovered
<1>2. OrderInv'
  BY <1>1, TakeGoneKeepsOrder
<1>3. /\ page.missed > 0 /\ page.last = First.after + page.missed
      /\ round' = [round EXCEPT !.caught = CaughtUp(page), !.gone = gone]
      /\ at' = [at EXCEPT !.seq = First.after + page.missed] /\ flight' = Tail(flight)
      /\ InOrder /\ UNCHANGED <<kernel, stray, pc, batch, cursor, log, saved>>
  BY DEF TakeGone, store
<1>4. /\ pc = "parallel" /\ flight # <<>> /\ Takeable(page, First.after)
  BY <1>1, <1>3, InOrderTakeable
<1>5. page.instance = kernel.instance => page.last <= kernel.low
  <2>1. page.instance = kernel.instance =>
          page.missed = 0 \/ First.after + page.missed <= kernel.low
    BY <1>3, FrontPassed
  <2>2. page.missed \in Nat
    BY <1>1, <1>4, FrontFacts, PageFacts
  <2> QED
    BY <2>1, <2>2, <1>3
<1>6. at'.instance = at.instance /\ at'.seq = page.last
  BY <1>1, <1>3 DEF Cursors
<1>7. round'.gone.page = page
  BY <1>1, <1>3 DEF RoundType
<1> HIDE DEF gone
<1>8. AtPassed'
  <2>1. at.instance = cursor.instance
    BY <1>1, <1>4, OrderFacts DEF PlaceInv
  <2>2. /\ cursor.instance <= page.instance /\ page.instance \in 1 .. kernel.instance
        /\ cursor.instance \in Nat /\ kernel.instance \in Nat
    BY <1>1, <1>4, OrderFacts DEF Takeable
  <2>3. at.instance = kernel.instance => page.instance = kernel.instance
    BY <2>1, <2>2
  <2> QED
    BY <2>3, <1>3, <1>5, <1>6 DEF AtPassed
<1>9. GonePassed'
  BY <1>3, <1>5, <1>7 DEF GonePassed
<1>10. RowsCovered' /\ NextCovered'
  BY <1>3, <1>4, NotThere
<1>11. FilesCovered'
  BY <1>1, <1>3, FilesKept
<1>12. AsksCovered' /\ RepliesPassed'
  BY <1>3, <1>4, AsksBehind
<1> QED
  BY <1>2, <1>8, <1>9, <1>10, <1>11, <1>12 DEF DeletionInv

LEMMA TakePageKeepsCover ==
  ASSUME DeletionInv, TakePage
  PROVE  DeletionInv'
<1> DEFINE page == First.page
<1>1. /\ OrderInv /\ TypeOK /\ Covered(cursor) /\ at \in Cursors
  BY OrderFacts, StateFacts DEF DeletionInv, FilesCovered
<1>2. OrderInv'
  BY <1>1, TakePageKeepsOrder
<1>3. /\ batch' = BatchOf(page, at, First.after, EarlierGone, "parallel")
      /\ pc' = "write" /\ flight' = Tail(flight) /\ InOrder
      /\ UNCHANGED <<kernel, stray, cursor, log, saved>>
  BY DEF TakePage
<1>4. flight # <<>> /\ Takeable(page, First.after)
  BY <1>1, <1>3, InOrderTakeable
<1>5. page \in Pages /\ First.after \in Seqs
  BY <1>1, <1>4, FrontFacts
<1>6. /\ page.instance = kernel.instance =>
           page.missed = 0 \/ First.after + page.missed <= kernel.low
      /\ page.instance = kernel.instance =>
           First.after <= kernel.low \/ Covered([instance |-> page.instance, seq |-> First.after])
  BY <1>3, FrontPassed
<1> HIDE DEF page
<1>7. RowsCovered'
  BY <1>1, <1>3, <1>4, <1>5, <1>6, EarlierGoneType, RowsOfPage
<1>8. AtPassed' /\ GonePassed' /\ NextCovered'
  BY <1>3, NotThere
<1>9. FilesCovered'
  BY <1>1, <1>3, FilesKept
<1>10. AsksCovered' /\ RepliesPassed'
  BY <1>3, <1>4, AsksBehind
<1> QED
  BY <1>2, <1>7, <1>8, <1>9, <1>10 DEF DeletionInv

LEMMA EndParallelKeepsCover ==
  ASSUME DeletionInv, EndParallel
  PROVE  DeletionInv'
<1> DEFINE gone == round.gone
           page == round.gone.page
           c == [at EXCEPT !.seq = gone.after]
<1>1. /\ OrderInv /\ TypeOK /\ Covered(cursor) /\ GonePassed /\ GoneInv
      /\ at \in Cursors /\ page \in Pages /\ gone.after \in Seqs /\ gone.earlier \in Nat
      /\ kernel.low \in Nat
  BY OrderFacts, StateFacts, KernelFacts DEF DeletionInv, FilesCovered
<1>2. OrderInv'
  BY <1>1, EndParallelKeepsOrder
<1>3. pc = "parallel" /\ flight = <<>> /\ UNCHANGED <<kernel, flight, stray, cursor, log, saved>>
  BY DEF EndParallel
<1>4. CASE ~gone.found
  <2>1. pc' = "idle"
    BY <1>4 DEF EndParallel, EndRound
  <2> QED
    BY <2>1, <1>1, <1>2, <1>3, CoverLeft
<1>5. CASE gone.found
  <2>1. /\ batch' = BatchOf(page, c, gone.after, gone.earlier, "idle") /\ pc' = "write"
    BY <1>5 DEF EndParallel
  <2>2. /\ page.instance \in 1 .. kernel.instance /\ cursor.instance <= page.instance
        /\ page.missed > 0 /\ page.last = gone.after + page.missed
        /\ page.instance = kernel.instance => page.last <= kernel.newest
        /\ page.instance = cursor.instance => cursor.seq <= gone.after
        /\ page.instance # cursor.instance => cursor.seq = 0 /\ page.instance = kernel.instance
    BY <1>1, <1>3, <1>5 DEF GoneInv
  <2>3. page.missed \in Nat /\ gone.after \in Nat /\ page.last \in Nat
    BY <1>1, PageFacts, SeqsAreNumbers
  <2>4. Takeable(page, gone.after)
    BY <2>2, <2>3 DEF Takeable
  <2>5. page.instance = kernel.instance =>
          gone.after + page.missed <= kernel.low /\ gone.after <= kernel.low
    BY <1>1, <1>3, <1>5, <2>2, <2>3 DEF GonePassed
  <2>6. c \in Cursors
    BY <1>1 DEF Cursors
  <2> HIDE DEF gone, page, c
  <2>7. RowsCovered'
    BY <1>1, <1>3, <2>1, <2>4, <2>5, <2>6, RowsOfPage
  <2>8. AtPassed' /\ GonePassed' /\ NextCovered'
    BY <2>1, NotThere
  <2>9. FilesCovered'
    BY <1>1, <1>3, FilesKept
  <2>10. AsksCovered' /\ RepliesPassed'
    BY <1>3, AsksDropped DEF LogGrows
  <2> QED
    BY <1>2, <2>7, <2>8, <2>9, <2>10 DEF DeletionInv
<1> QED
  BY <1>4, <1>5

LEMMA WalkPageKeepsCover ==
  ASSUME DeletionInv, WalkPage
  PROVE  DeletionInv'
<1> DEFINE page == First.page
           oversized == IF round.counts THEN round.skipped ELSE 0
<1>1. /\ OrderInv /\ TypeOK /\ Covered(cursor) /\ RepliesPassed /\ PlaceInv
      /\ at \in Cursors /\ cursor \in Cursors /\ kernel.low \in Nat /\ round \in RoundType
      /\ (cursor.instance = 0 => cursor.seq = 0)
  BY OrderFacts, StateFacts, KernelFacts DEF DeletionInv, FilesCovered
<1>2. OrderInv'
  BY <1>1, WalkPageKeepsOrder
<1>3. /\ pc = "walk" /\ flight # <<>> /\ First.kind = "page"
      /\ at.instance # 0 /\ First.after # 0 => ~Restarted(page)
      /\ batch' = BatchOf(page, at, First.after, oversized, "walk")
      /\ pc' = "write" /\ flight' = <<>> /\ UNCHANGED <<kernel, stray, cursor, log, saved>>
  BY DEF WalkPage, Arrived
<1>4. at = cursor /\ First.after = at.seq
  BY <1>1, <1>3, NextPages DEF PlaceInv
<1>5. at.instance = page.instance \/ First.after = 0
  BY <1>1, <1>3, <1>4 DEF Restarted
<1>6. Takeable(page, First.after)
  BY <1>1, <1>3, <1>4, <1>5, FrontTakeable
<1>7. page \in Pages /\ First.after \in Seqs
  BY <1>1, <1>3, FrontFacts
<1>8. oversized \in Nat
  BY <1>1 DEF RoundType
<1>9. page.instance = kernel.instance =>
        page.missed = 0 \/ First.after + page.missed <= kernel.low
  <2>1. 1 \in 1 .. Len(flight)
    BY <1>1, <1>3, FrontFacts
  <2> QED
    BY <2>1, <1>1, <1>3 DEF RepliesPassed, ReplyPassed, First, Answered
<1>10. First.after <= kernel.low \/ Covered([instance |-> page.instance, seq |-> First.after])
  <2>1. CASE First.after = 0
    BY <2>1, <1>1
  <2>2. CASE at.instance = page.instance
    <3>1. [instance |-> page.instance, seq |-> First.after] = cursor
      BY <2>2, <1>1, <1>4, PointFacts
    <3> QED
      BY <3>1, <1>1
  <2> QED
    BY <2>1, <2>2, <1>5
<1> HIDE DEF page, oversized
<1>11. RowsCovered'
  BY <1>1, <1>3, <1>6, <1>7, <1>8, <1>9, <1>10, RowsOfPage
<1>12. AtPassed' /\ GonePassed' /\ NextCovered'
  BY <1>3, NotThere
<1>13. FilesCovered'
  BY <1>1, <1>3, FilesKept
<1>14. AsksCovered' /\ RepliesPassed'
  BY <1>3, AsksDropped DEF LogGrows
<1> QED
  BY <1>2, <1>11, <1>12, <1>13, <1>14 DEF DeletionInv

\* The record that is skipped is the oversized one, or one that is gone.
LEMMA SkipOversizedKeepsCover ==
  ASSUME DeletionInv, SkipOversized
  PROVE  DeletionInv'
<1> DEFINE i == IF round.skipped = 0 THEN kernel.instance ELSE at.instance
           c == [instance |-> i, seq |-> First.after + 1]
           page == First.page
<1>1. /\ OrderInv /\ Covered(cursor) /\ RepliesPassed
      /\ kernel.low \in Nat /\ (cursor.instance = 0 => cursor.seq = 0)
  BY OrderFacts, StateFacts, KernelFacts DEF DeletionInv, FilesCovered
<1>2. OrderInv'
  BY <1>1, SkipOversizedKeepsOrder
<1>3. /\ TooLargeAlone /\ pc = "walk" /\ pc' = pc /\ flight # <<>>
      /\ First.kind = "large" /\ round.size = 1
      /\ round.skipped = 0 /\ at.instance # 0 => at.instance = kernel.instance
      /\ cursor' = c /\ flight' = <<>> /\ UNCHANGED <<kernel, stray, log, saved>>
  BY DEF SkipOversized, TooLargeAlone, Arrived
<1>4. /\ at = cursor /\ First.after = at.seq
      /\ cursor.instance # 0 => i = cursor.instance
      /\ i = kernel.instance =>
           page.instance = kernel.instance /\ page \in Pages
  BY <1>1, <1>3, SkippedRecord
<1>5. First.after \in Nat /\ First.size = 1 /\ 1 \in 1 .. Len(flight)
  BY <1>1, <1>3, FrontFacts, NextPages
<1> HIDE DEF i
<1>6. Covered(c)
  <2> SUFFICES ASSUME i = kernel.instance, NEW s \in kernel.low + 1 .. First.after + 1
               PROVE  \/ \E k \in 1 .. Len(log) : log[k] = Entry(i, s)
                      \/ s \in Ignored \/ s \in Oversized
    BY DEF Covered, CoveredBy
  <2>1. /\ page.missed = 0 \/ First.after + page.missed <= kernel.low
        /\ First.after + page.missed + 1 \in Oversized
    BY <1>1, <1>3, <1>4, <1>5 DEF RepliesPassed, ReplyPassed, Answered, First
  <2>2. page.missed \in Nat
    BY <1>4, PageFacts
  <2> HIDE DEF page
  <2>3. s \in kernel.low + 1 .. First.after \/ s = First.after + 1
    BY <1>1, <1>5
  <2>4. CASE s \in kernel.low + 1 .. First.after
    <3>1. cursor.instance = kernel.instance
      BY <2>4, <1>1, <1>4, <1>5
    <3> QED
      BY <2>4, <3>1, <1>1, <1>4 DEF Covered, CoveredBy
  <2>5. CASE s = First.after + 1
    BY <2>1, <2>2, <2>5, <1>1, <1>5
  <2> QED
    BY <2>3, <2>4, <2>5
<1> HIDE DEF c
<1> QED
  BY <1>2, <1>3, <1>6, CoverLeft

LEMMA EndWalkKeepsCover ==
  ASSUME DeletionInv, EndWalk
  PROVE  DeletionInv'
<1> DEFINE row == Gap(at.instance, at.seq, round.skipped, 0)
<1>1. /\ OrderInv /\ Covered(cursor) /\ log \in Seq(Rows) /\ cursor \in Cursors
      /\ at \in Cursors /\ round \in RoundType
  BY OrderFacts, StateFacts DEF DeletionInv, FilesCovered
<1>2. OrderInv'
  BY <1>1, EndWalkKeepsOrder
<1>3. pc = "walk" /\ flight = <<>> /\ UNCHANGED <<kernel, flight, stray, cursor, log, saved>>
  BY DEF EndWalk, store
<1>4. CASE ~(round.skipped > 0 /\ round.counts)
  <2>1. pc' = "idle"
    BY <1>4 DEF EndWalk, EndRound
  <2> QED
    BY <2>1, <1>1, <1>2, <1>3, CoverLeft
<1>5. CASE round.skipped > 0 /\ round.counts
  <2>1. batch'.rows = <<row>> /\ batch'.next = at /\ pc' = "write"
    BY <1>5 DEF EndWalk
  <2>2. at = cursor
    BY <1>1, <1>3, OrderFacts DEF PlaceInv
  <2>3. row \in Rows /\ CursorOf(row) = cursor
    <3>1. round.skipped \in Nat /\ at.instance \in Instances /\ at.seq \in Seqs
      BY <1>1, PointFacts DEF RoundType
    <3>2. row \in Rows /\ row.instance = at.instance /\ row.seq = at.seq
      BY <3>1, GapRow
    <3> QED
      BY <3>2, <2>2, <1>1, PointFacts DEF CursorOf
  <2> HIDE DEF row
  <2>4. CoveredBy(cursor, kernel, log \o <<row>>)
    <3>1. CoveredBy(cursor, kernel, log) /\ log \in Seq(Rows) /\ <<row>> \in Seq(Rows)
      BY <1>1, <2>3, OneRow DEF Covered
    <3> QED
      BY <3>1, CoveredAppended
  <2>5. \A k \in 1 .. Len(<<row>>) : <<row>>[k] = row /\ SubSeq(<<row>>, 1, k) = <<row>>
    BY <2>3, OneRow
  <2>6. RowsCovered'
    BY <2>1, <2>2, <2>3, <2>4, <2>5, <1>3 DEF RowsCovered
  <2>7. AtPassed' /\ GonePassed' /\ NextCovered'
    BY <2>1, NotThere
  <2>8. FilesCovered'
    BY <1>1, <1>3, FilesKept
  <2>9. AsksCovered' /\ RepliesPassed'
    BY <1>3, AsksDropped DEF LogGrows
  <2> QED
    BY <1>2, <2>6, <2>7, <2>8, <2>9 DEF DeletionInv
<1> QED
  BY <1>4, <1>5

\* The rows being written, what was passed and what is gone are as they were.
LEMMA PlaceKept ==
  ASSUME DeletionInv, UNCHANGED <<kernel, log, pc, at, batch, cursor>>, round'.gone = round.gone
  PROVE  AtPassed' /\ GonePassed' /\ RowsCovered' /\ NextCovered'
<1>1. AtPassed /\ GonePassed /\ RowsCovered /\ NextCovered
  BY DEF DeletionInv
<1>2. AtPassed' /\ GonePassed'
  BY <1>1 DEF AtPassed, GonePassed
<1>3. RowsCovered' /\ NextCovered'
  BY <1>1 DEF RowsCovered, NextCovered, Covered
<1> QED
  BY <1>2, <1>3

\* A request of the process at the cursor lets KixDNS delete up to the cursor at most.
LEMMA AskIsModest ==
  ASSUME DeletionInv, NEW req, Deletion(req).instance = 0 \/ Deletion(req).instance = cursor.instance,
         Deletion(req) \in Cursors, Deletion(req).seq <= cursor.seq
  PROVE  Modest(req)
<1> DEFINE d == Deletion(req)
<1>1. /\ OrderInv /\ Covered(cursor) /\ Place(cursor) /\ cursor \in Cursors /\ kernel \in KernelType
      /\ kernel.instance \in Nat /\ kernel.instance >= 1 /\ kernel.newest \in Nat
  BY OrderFacts, StateFacts DEF DeletionInv, FilesCovered, StoreInv
<1>2. d.seq \in Nat /\ cursor.seq \in Nat
  BY <1>1, PointFacts
<1> HIDE DEF d
<1>3. CASE d.instance = 0
  <2>1. Covered(d)
    BY <1>1, <1>3, CoveredGone
  <2>2. Reached(d)
    BY <1>1, <1>3 DEF Reached
  <2> QED
    BY <2>1, <2>2 DEF Modest, d
<1>4. CASE d.instance = cursor.instance
  <2>1. Covered(d)
    BY <1>1, <1>4, CoveredLess DEF Covered, d
  <2>2. Reached(d)
    BY <1>1, <1>2, <1>4 DEF Place, Reached, d
  <2> QED
    BY <2>1, <2>2 DEF Modest, d
<1> QED
  BY <1>3, <1>4 DEF d

LEMMA AskNextKeepsCover ==
  ASSUME DeletionInv, AskNext
  PROVE  DeletionInv'
<1> DEFINE i == IF Handover = "cursor" THEN 0 ELSE at.instance
           req == Request(at.seq, round.size, i, at.seq, FALSE)
           d == Deletion(req)
<1>1. /\ OrderInv /\ Covered(cursor) /\ at = cursor /\ at \in Cursors
      /\ at.instance \in Instances /\ at.seq \in Seqs /\ at.seq \in Nat /\ 0 \in Instances
  BY OrderFacts, StateFacts, PointFacts, SeqsAreNumbers
     DEF DeletionInv, FilesCovered, AskNext, PlaceInv
<1>2. OrderInv'
  BY <1>1, AskNextKeepsOrder
<1>3. /\ flight' = <<req>> /\ UNCHANGED <<kernel, stray, pc, at, round, batch, cursor, log, saved>>
  BY DEF AskNext, collector, store
<1>4. i \in Instances /\ (i = 0 \/ i = cursor.instance)
  BY <1>1
<1>5. d = [instance |-> i, seq |-> at.seq] /\ req.kind = "asked"
  BY <1>1 DEF Request, Deletion, Smaller
<1> HIDE DEF i, req
<1>6. d \in Cursors /\ (d.instance = 0 \/ d.instance = cursor.instance) /\ d.seq <= cursor.seq
  BY <1>1, <1>4, <1>5 DEF Cursors
<1>7. Modest(req)
  BY <1>6, AskIsModest
<1>8. \A k \in 1 .. Len(flight') : flight'[k] = req
  BY <1>3
<1>9. AsksCovered' /\ RepliesPassed'
  BY <1>3, <1>5, <1>7, <1>8, AsksKept DEF LogGrows
<1>10. AtPassed' /\ GonePassed' /\ RowsCovered' /\ NextCovered'
  BY <1>3, PlaceKept
<1>11. FilesCovered'
  BY <1>1, <1>3, FilesKept
<1> QED
  BY <1>2, <1>9, <1>10, <1>11 DEF DeletionInv

LEMMA AskAheadKeepsCover ==
  ASSUME DeletionInv, AskAhead
  PROVE  DeletionInv'
<1> DEFINE full == mem.newest.instance = at.instance /\ mem.newest.count >= NextAfter + PageSize
           req == Request(NextAfter, PageSize, at.instance, cursor.seq, full)
           d == Deletion(req)
<1>1. /\ OrderInv /\ Covered(cursor) /\ cursor \in Cursors
      /\ flight \in Seq(Requests) /\ round \in RoundType
      /\ cursor.instance \in Instances /\ cursor.seq \in Seqs /\ cursor.seq \in Nat
  BY OrderFacts, StateFacts, PointFacts DEF DeletionInv, FilesCovered
<1>2. OrderInv'
  BY <1>1, AskAheadKeepsOrder
<1>3. /\ pc = "parallel" /\ CanAsk /\ flight' = Append(flight, req)
      /\ round' = [round EXCEPT !.asked = @ + 1]
      /\ UNCHANGED <<kernel, stray, pc, at, batch, cursor, log, saved>>
  BY DEF AskAhead, store
<1>4. at.instance = cursor.instance
  BY <1>1, <1>3, OrderFacts DEF PlaceInv
<1>5. NextAfter \in Seqs /\ NextAfter \in Nat
  <2>1. flight # <<>> => flight[Len(flight)].full
    BY <1>3 DEF CanAsk
  <2> QED
    BY <2>1, <1>1, <1>3, NextAfterFacts, SeqsAreNumbers
<1>6. d = [instance |-> cursor.instance, seq |-> Smaller(cursor.seq, NextAfter)]
      /\ req.kind = "asked"
  BY <1>4 DEF Request, Deletion
<1>7. Smaller(cursor.seq, NextAfter) \in Seqs /\ Smaller(cursor.seq, NextAfter) <= cursor.seq
  BY <1>1, <1>5 DEF Smaller
<1> HIDE DEF req
<1>8. Modest(req)
  <2>1. d \in Cursors /\ d.instance = cursor.instance /\ d.seq <= cursor.seq
    BY <1>1, <1>6, <1>7 DEF Cursors
  <2> QED
    BY <2>1, AskIsModest
<1>9. \A k \in 1 .. Len(flight') :
        flight'[k] = req \/ \E j \in 1 .. Len(flight) : flight'[k] = flight[j]
  <2> TAKE k \in 1 .. Len(flight')
  <2>1. k \in 1 .. Len(flight) \/ k = Len(flight) + 1
    BY <1>1, <1>3
  <2>2. CASE k \in 1 .. Len(flight)
    BY <2>2, <1>1, <1>3
  <2>3. CASE k = Len(flight) + 1
    BY <2>3, <1>1, <1>3
  <2> QED
    BY <2>1, <2>2, <2>3
<1>10. AsksCovered' /\ RepliesPassed'
  BY <1>3, <1>6, <1>8, <1>9, AsksKept DEF LogGrows
<1>11. AtPassed' /\ GonePassed' /\ RowsCovered' /\ NextCovered'
  <2>1. round'.gone = round.gone
    BY <1>1, <1>3 DEF RoundType
  <2> QED
    BY <2>1, <1>3, PlaceKept
<1>12. FilesCovered'
  BY <1>1, <1>3, FilesKept
<1> QED
  BY <1>2, <1>10, <1>11, <1>12 DEF DeletionInv

LEMMA RequestFailsKeepsCover ==
  ASSUME DeletionInv, RequestFails
  PROVE  DeletionInv'
<1>1. OrderInv /\ Covered(cursor) /\ flight \in Seq(Requests)
  BY OrderFacts, StateFacts DEF DeletionInv, FilesCovered
<1>2. OrderInv'
  BY <1>1, RequestFailsKeepsOrder
<1>3. UNCHANGED <<kernel, pc, at, round, batch, cursor, log, saved>>
  BY DEF RequestFails, collector, store
<1>4. PICK n \in 1 .. Len(flight) :
        /\ flight[n].kind = "asked" /\ flight' = [flight EXCEPT ![n].kind = "failed"]
        /\ stray' = IF UpTo(Deletion(flight[n]), stray) THEN stray ELSE Deletion(flight[n])
  BY DEF RequestFails
<1>5. \A k \in 1 .. Len(flight') :
        flight'[k].kind = "failed" \/ \E j \in 1 .. Len(flight) : flight'[k] = flight[j]
  <2> TAKE k \in 1 .. Len(flight')
  <2>1. k \in 1 .. Len(flight) /\ flight[n] \in Requests
    BY <1>1, <1>4
  <2>2. CASE k = n
    <3>1. flight'[k] = [flight[n] EXCEPT !.kind = "failed"]
      BY <2>1, <2>2, <1>1, <1>4
    <3> QED
      BY <3>1, <2>1 DEF Requests
  <2>3. CASE k # n
    BY <2>1, <2>3, <1>1, <1>4
  <2> QED
    BY <2>2, <2>3
<1>6. stray' = stray
      \/ \E k \in 1 .. Len(flight) : flight[k].kind = "asked" /\ stray' = Deletion(flight[k])
  BY <1>4
<1>7. AsksCovered' /\ RepliesPassed'
  BY <1>3, <1>5, <1>6, AsksKept DEF LogGrows
<1>8. AtPassed' /\ GonePassed' /\ RowsCovered' /\ NextCovered'
  BY <1>3, PlaceKept
<1>9. FilesCovered'
  BY <1>1, <1>3, FilesKept
<1> QED
  BY <1>2, <1>7, <1>8, <1>9 DEF DeletionInv

\* The requests under way are as they were, whatever is written.
LEMMA AsksStay ==
  ASSUME DeletionInv, UNCHANGED <<kernel, flight, stray>>, LogGrows
  PROVE  AsksCovered' /\ RepliesPassed'
<1>1. \A k \in 1 .. Len(flight') : \E j \in 1 .. Len(flight) : flight'[k] = flight[j]
  OBVIOUS
<1> QED
  BY <1>1, AsksKept

LEMMA SavingKeepsCover ==
  ASSUME DeletionInv, SaveState \/ DropRows
  PROVE  DeletionInv'
<1>1. OrderInv /\ Covered(cursor)
  BY DEF DeletionInv, FilesCovered
<1>2. OrderInv'
  BY <1>1, SavingKeepsOrder
<1>3. /\ UNCHANGED <<kernel, flight, stray, pc, at, round, batch, cursor, log>>
      /\ saved'.cursor = cursor
  BY DEF SaveState, DropRows, collector, StateNow
<1>4. AtPassed' /\ GonePassed' /\ RowsCovered' /\ NextCovered'
  BY <1>3, PlaceKept
<1>5. FilesCovered' /\ AsksCovered' /\ RepliesPassed'
  BY <1>1, <1>3, FilesKept, AsksStay DEF LogGrows
<1> QED
  BY <1>2, <1>4, <1>5 DEF DeletionInv

\* A first part of the rows is in the files: each of their cursors is covered by it.
LEMMA RowsLand ==
  ASSUME DeletionInv, pc = "write", NEW n \in 0 .. Len(batch.rows),
         log' = log \o SubSeq(batch.rows, 1, n), UNCHANGED <<kernel, cleared, saved>>
  PROVE  /\ LogGrows
         /\ \A k \in 1 .. Len(log') : CoveredBy(CursorOf(log'[k]), kernel', log')
<1> DEFINE part == SubSeq(batch.rows, 1, n)
<1>1. /\ OrderInv /\ FilesCovered /\ RowsCovered /\ log \in Seq(Rows) /\ batch.rows \in Seq(Rows)
      /\ Len(log) \in Nat /\ n \in Nat
  BY OrderFacts, StateFacts DEF DeletionInv
<1>2. /\ part \in Seq(Rows) /\ log' = log \o part
  BY <1>1, FirstRows
<1>3. LogGrows
  BY <1>2 DEF LogGrows
<1>4. /\ Len(log') = Len(log) + n /\ \A k \in 1 .. Len(log) : log'[k] = log[k]
      /\ \A k \in 1 .. n : log'[Len(log) + k] = batch.rows[k]
  BY <1>1, RowsAppended
<1>5. ASSUME NEW k \in 1 .. Len(log')
      PROVE  CoveredBy(CursorOf(log'[k]), kernel', log')
  <2>1. k \in 1 .. Len(log) \/ \E j \in 1 .. n : k = Len(log) + j
    <3>1. k \in 1 .. Len(log) + n /\ Len(log) \in Nat /\ n \in Nat
      BY <1>1, <1>4
    <3> QED
      BY <3>1, PlaceOfTwo
  <2>2. CASE k \in 1 .. Len(log)
    <3>1. Covered(CursorOf(log[k]))
      BY <2>2, <1>1 DEF FilesCovered
    <3> QED
      BY <2>2, <3>1, <1>1, <1>3, <1>4, CoverStays
  <2>3. CASE \E j \in 1 .. n : k = Len(log) + j
    <3>1. PICK j \in 1 .. n : k = Len(log) + j
      BY <2>3
    <3>2. log'[k] = batch.rows[j] /\ j \in 1 .. Len(batch.rows) /\ j \in 0 .. Len(batch.rows)
          /\ j <= n
      BY <3>1, <1>1, <1>4
    <3>3. CoveredBy(CursorOf(batch.rows[j]), kernel, log \o SubSeq(batch.rows, 1, j))
      BY <3>2, <1>1 DEF RowsCovered
    <3>4. CoveredBy(CursorOf(batch.rows[j]), kernel, log \o part)
      BY <3>2, <3>3, <1>1, CoveredFirst
    <3> QED
      BY <3>2, <3>4, <1>2
  <2> QED
    BY <2>1, <2>2, <2>3
<1> QED
  BY <1>3, <1>5

LEMMA AppendRowsKeepsCover ==
  ASSUME DeletionInv, AppendRows
  PROVE  DeletionInv'
<1> DEFINE rows == batch.rows
           n == Len(rows)
<1>1. /\ OrderInv /\ FilesCovered /\ RowsCovered /\ rows \in Seq(Rows) /\ log \in Seq(Rows)
      /\ n \in Nat /\ n \in 0 .. n
  BY OrderFacts, StateFacts DEF DeletionInv
<1>2. OrderInv'
  BY <1>1, AppendRowsKeepsOrder
<1>3. /\ pc = "write" /\ pc' = "advance" /\ log' = log \o rows
      /\ cursor' = IF rows = <<>> THEN cursor ELSE CursorOf(rows[n])
      /\ UNCHANGED <<kernel, flight, stray, at, round, batch, cleared, saved>>
  BY DEF AppendRows
<1>4. log' = log \o SubSeq(rows, 1, n)
  <2>1. SubSeq(rows, 1, n) = rows
    BY <1>1, AllRows
  <2> QED
    BY <1>3, <2>1
<1>5. LogGrows /\ \A k \in 1 .. Len(log') : CoveredBy(CursorOf(log'[k]), kernel', log')
  BY <1>1, <1>3, <1>4, RowsLand
<1>6. CoveredBy(cursor', kernel', log')
  <2>1. CASE rows = <<>>
    BY <2>1, <1>1, <1>3, <1>5, CoverStays DEF FilesCovered
  <2>2. CASE rows # <<>>
    <3>1. n \in 1 .. n
      BY <2>2, <1>1
    <3>2. Len(log) + n \in 1 .. Len(log') /\ log'[Len(log) + n] = rows[n]
      BY <3>1, <1>1, <1>3, ConcatRows
    <3> QED
      BY <2>2, <3>2, <1>3, <1>5
  <2> QED
    BY <2>1, <2>2
<1>7. CoveredBy(saved'.cursor, kernel', log')
  BY <1>1, <1>3, <1>5, CoverStays DEF FilesCovered
<1>8. FilesCovered'
  BY <1>5, <1>6, <1>7 DEF FilesCovered, Covered
<1>9. NextCovered'
  BY <1>1, <1>3 DEF RowsCovered, NextCovered, Covered
<1>10. AtPassed' /\ GonePassed' /\ RowsCovered'
  BY <1>3, NotThere
<1>11. AsksCovered' /\ RepliesPassed'
  BY <1>3, <1>5, AsksStay
<1> QED
  BY <1>2, <1>8, <1>9, <1>10, <1>11 DEF DeletionInv

LEMMA AdvanceKeepsCover ==
  ASSUME DeletionInv, Advance
  PROVE  DeletionInv'
<1>1. /\ OrderInv /\ NextCovered /\ batch \in BatchType /\ BatchInv
  BY OrderFacts, StateFacts DEF DeletionInv, CollectTyped
<1>2. OrderInv'
  BY <1>1, AdvanceKeepsOrder
<1>3. /\ pc = "advance" /\ cursor' = batch.next
      /\ IF batch.back = "idle" THEN EndRound
         ELSE pc' = batch.back /\ at' = batch.next /\ UNCHANGED round
      /\ UNCHANGED <<kernel, flight, stray, log, saved>>
  BY DEF Advance
<1>4. batch.back \in {"idle", "parallel", "walk"} /\ (batch.back = "parallel" => ~round.gone.found)
  BY <1>1, <1>3 DEF BatchType, BatchInv
<1>5. pc' = batch.back /\ (pc' # "idle" => at' = cursor' /\ round' = round)
  BY <1>3, <1>4 DEF EndRound
<1>6. AtPassed' /\ GonePassed'
  BY <1>4, <1>5 DEF AtPassed, GonePassed
<1>7. RowsCovered' /\ NextCovered'
  BY <1>4, <1>5, NotThere
<1>8. FilesCovered'
  BY <1>1, <1>3, FilesKept DEF NextCovered
<1>9. AsksCovered' /\ RepliesPassed'
  BY <1>3, AsksStay DEF LogGrows
<1> QED
  BY <1>2, <1>6, <1>7, <1>8, <1>9 DEF DeletionInv

LEMMA PanelEndsKeepsCover ==
  ASSUME DeletionInv, PanelEnds
  PROVE  DeletionInv'
<1>1. /\ OrderInv /\ FilesCovered /\ log \in Seq(Rows) /\ kernel.instance \in Nat
      /\ kernel.instance >= 1 /\ batch.rows \in Seq(Rows)
  BY OrderFacts, StateFacts DEF DeletionInv
<1>2. OrderInv'
  BY <1>1, PanelEndsKeepsOrder
<1>3. /\ AbandonAll(flight) /\ pc' = "down" /\ cursor' = NoCursor
      /\ UNCHANGED <<kernel, cleared, saved>>
  BY DEF PanelEnds
<1>4. PICK n \in 0 .. (IF pc = "write" THEN Len(batch.rows) ELSE 0) :
        log' = log \o SubSeq(batch.rows, 1, n)
  BY DEF PanelEnds
<1>5. LogGrows /\ \A k \in 1 .. Len(log') : CoveredBy(CursorOf(log'[k]), kernel', log')
  <2>1. CASE pc = "write"
    <3>1. n \in 0 .. Len(batch.rows)
      BY <2>1
    <3> QED
      BY <2>1, <3>1, <1>3, <1>4, RowsLand
  <2>2. CASE pc # "write"
    <3>1. n = 0
      BY <2>2
    <3>2. log' = log
      BY <3>1, <1>1, <1>4, NoMoreRows
    <3> QED
      BY <3>2, <1>1, <1>3 DEF LogGrows, FilesCovered, Covered
  <2> QED
    BY <2>1, <2>2
<1>6. CoveredBy(cursor', kernel', log')
  BY <1>1, <1>3 DEF CoveredBy, NoCursor
<1>7. CoveredBy(saved'.cursor, kernel', log')
  BY <1>1, <1>3, <1>5, CoverStays DEF FilesCovered
<1>8. FilesCovered'
  BY <1>5, <1>6, <1>7 DEF FilesCovered, Covered
<1>9. AtPassed' /\ GonePassed' /\ RowsCovered' /\ NextCovered'
  BY <1>3, NotThere
<1>10. AsksCovered' /\ RepliesPassed'
  BY <1>3, <1>5, AsksDropped
<1> QED
  BY <1>2, <1>8, <1>9, <1>10 DEF DeletionInv

LEMMA PanelStartsKeepsCover ==
  ASSUME DeletionInv, PanelStarts
  PROVE  DeletionInv'
<1>1. /\ OrderInv /\ FilesCovered
  BY DEF DeletionInv
<1>2. OrderInv'
  BY <1>1, PanelStartsKeepsOrder
<1>3. /\ cursor' = Reopened /\ pc' = "idle"
      /\ UNCHANGED <<kernel, flight, stray, log, saved>>
  BY DEF PanelStarts
<1>4. Covered(cursor')
  <2>1. Reopened = saved.cursor \/ \E k \in 1 .. Len(log) : Reopened = CursorOf(log[k])
    BY <1>1, ReopenedFacts
  <2> HIDE DEF Reopened
  <2> QED
    BY <2>1, <1>1, <1>3 DEF FilesCovered
<1>5. AtPassed' /\ GonePassed' /\ RowsCovered' /\ NextCovered'
  BY <1>3, NotThere
<1>6. FilesCovered'
  BY <1>3, <1>4, FilesKept
<1>7. AsksCovered' /\ RepliesPassed'
  BY <1>3, AsksStay DEF LogGrows
<1> QED
  BY <1>2, <1>5, <1>6, <1>7 DEF DeletionInv

---------------------------------------------------------------------------
(* Deletion.                                                               *)

LEMMA InitCovered ==
  ASSUME Init
  PROVE  DeletionInv
<1>1. OrderInv
  BY InitOrder
<1>2. /\ flight = <<>> /\ log = <<>> /\ pc = "idle" /\ cursor = NoCursor /\ stray = NoCursor
      /\ kernel = [instance |-> 1, newest |-> 0, low |-> 0, untracked |-> 0]
      /\ saved = [rows |-> 0, cursor |-> NoCursor]
  BY DEF Init
<1>3. Covered(NoCursor) /\ Reached(NoCursor)
  BY <1>2 DEF Covered, CoveredBy, Reached, NoCursor
<1>4. FilesCovered /\ AsksCovered /\ RepliesPassed
  BY <1>2, <1>3 DEF FilesCovered, AsksCovered, RepliesPassed
<1>5. AtPassed /\ GonePassed /\ RowsCovered /\ NextCovered
  BY <1>2 DEF AtPassed, GonePassed, RowsCovered, NextCovered
<1> QED
  BY <1>1, <1>4, <1>5 DEF DeletionInv

LEMMA NextKeepsCover ==
  ASSUME DeletionInv, EarlyRestarts = FALSE, [Next]_vars
  PROVE  DeletionInv'
<1>1. CASE Kernel
  BY <1>1, KernelDeletes
<1>2. CASE Parallel
  BY <1>2, AskAheadKeepsCover, EndsKeepCover, TakeOverlapKeepsCover, StartsOverKeepCover,
     TakeGoneKeepsCover, TakePageKeepsCover, EndParallelKeepsCover
     DEF Parallel
<1>3. CASE Walk
  BY <1>3, AskNextKeepsCover, StartsOverKeepCover, WalkPageKeepsCover, EndsKeepCover,
     SkipOversizedKeepsCover, EndWalkKeepsCover
     DEF Walk
<1>4. CASE BeginRound \/ TakeFailure \/ AppendRows \/ Advance
  BY <1>4, BeginRoundKeepsCover, EndsKeepCover, AppendRowsKeepsCover, AdvanceKeepsCover
<1>5. CASE SaveState \/ PanelStarts
  BY <1>5, SavingKeepsCover, PanelStartsKeepsCover
<1>6. CASE Fault
  BY <1>6, RequestFailsKeepsCover, EndsKeepCover, SavingKeepsCover, PanelEndsKeepsCover DEF Fault
<1>7. CASE UNCHANGED vars
  <2>1. /\ UNCHANGED <<kernel, flight, stray, log, pc, at, batch, cursor, saved>>
        /\ round' = round
    BY <1>7 DEF vars
  <2>2. OrderInv'
    BY NextKeepsOrder DEF DeletionInv
  <2>3. Covered(cursor)
    BY DEF DeletionInv, FilesCovered
  <2>4. AtPassed' /\ GonePassed' /\ RowsCovered' /\ NextCovered'
    BY <2>1, PlaceKept
  <2>5. FilesCovered' /\ AsksCovered' /\ RepliesPassed'
    BY <2>1, <2>3, FilesKept, AsksStay DEF LogGrows
  <2> QED
    BY <2>2, <2>4, <2>5 DEF DeletionInv
<1> QED
  BY <1>1, <1>2, <1>3, <1>4, <1>5, <1>6, <1>7 DEF Next, Collect

\* What KixDNS may still delete, what the cursors of the files have passed and what the
\* rows being written will cover is stored, of an ignored domain, or beyond any reply:
\* over writes that are cut, pages asked for ahead, and either side starting over.
THEOREM DeletionInvariant ==
  ASSUME EarlyRestarts = FALSE
  PROVE  Spec => []DeletionInv
<1>1. Init => DeletionInv
  BY InitCovered
<1>2. DeletionInv /\ [Next]_vars => DeletionInv'
  BY NextKeepsCover
<1> QED
  BY <1>1, <1>2, PTL DEF Spec

\* No request, under way or abandoned, lets KixDNS delete a record that is not yet in
\* the panel's files (QueryLogWait::stored, filled from the cursor by collect_parallel
\* and collect_paged).
THEOREM OnlyStoredIsDeleted ==
  ASSUME EarlyRestarts = FALSE
  PROVE  Spec => []DeletedIsStored
<1>1. DeletionInv => DeletedIsStored
  <2> SUFFICES ASSUME DeletionInv PROVE DeletedIsStored
    OBVIOUS
  <2>1. /\ AsksCovered /\ kernel.newest \in Nat /\ kernel.low \in Nat /\ stray \in Cursors
        /\ \A k \in 1 .. Len(flight) : flight[k] \in Requests
    BY OrderFacts, StateFacts, KernelFacts DEF DeletionInv, KernelTyped
  <2>2. ASSUME NEW c \in Cursors, Covered(c)
        PROVE  MayDelete(c.instance, c.seq)
    <3>1. c.seq \in Nat
      BY PointFacts
    <3> SUFFICES ASSUME c.instance = kernel.instance,
                        NEW s \in kernel.low + 1 .. Smaller(c.seq, kernel.newest)
                 PROVE  IsStored(c.instance, s) \/ s \in Ignored \/ s \in Oversized
      BY DEF MayDelete
    <3>2. s \in kernel.low + 1 .. c.seq
      BY <3>1, <2>1 DEF Smaller
    <3> QED
      BY <3>2, <2>2 DEF Covered, CoveredBy, IsStored
  <2>3. MayDelete(stray.instance, stray.seq)
    BY <2>1, <2>2 DEF AsksCovered
  <2>4. ASSUME NEW k \in 1 .. Len(flight), flight[k].kind = "asked"
        PROVE  MayDelete(flight[k].instance, Smaller(flight[k].stored, flight[k].after))
    <3>1. Deletion(flight[k]) \in Cursors /\ Covered(Deletion(flight[k]))
      BY <2>1, <2>4, DeletionType DEF AsksCovered
    <3> QED
      BY <3>1, <2>2 DEF Deletion
  <2> QED
    BY <2>3, <2>4 DEF DeletedIsStored
<1> QED
  BY <1>1, DeletionInvariant, PTL
=============================================================================
