------------------------ MODULE QueryLogCountProofs ------------------------
(***************************************************************************)
(* What the gap rows of the query log count, for pages, rings and rounds   *)
(* of any size, any number of processes and records and pages in flight,   *)
(* where KixDNS is not restarted before a first record of it was taken:    *)
(* losses only (GapsCountOnlyLosses), no fewer than there were             *)
(* (NothingLostSilently), exactly those (GapsCountExactly), and requests   *)
(* KixDNS did not record at most once (BusyIsToldOnce).                    *)
(***************************************************************************)
EXTENDS QueryLogProofs

---------------------------------------------------------------------------
(* The numbers a gap row counts are its own.                               *)

\* They end at its own number and follow the rows before it.
Apart(rows) ==
  /\ \A k \in 1 .. Len(rows) : rows[k].lost <= rows[k].seq
  /\ \A j, k \in 1 .. Len(rows) :
       j < k /\ rows[j].instance = rows[k].instance => rows[j].seq <= rows[k].seq - rows[k].lost
RowsApart == Apart(log) /\ (pc = "write" => Apart(log \o batch.rows))

\* Records are skipped page by page only.
SkipsWalking == pc # "walk" => round.skipped = 0

\* Pages pushed out whole follow each other from the cursor on.
GoneTold ==
  pc = "parallel" =>
    IF ~round.gone.found THEN at.seq = cursor.seq
    ELSE LET gone == round.gone
         IN  /\ at.seq = gone.after + gone.page.missed
             /\ IF gone.page.instance = cursor.instance
                THEN gone.after = cursor.seq + gone.earlier
                ELSE gone.earlier = 0 /\ gone.after = 0

\* So do the records skipped, up to the cursor, where they are counted.
Clear(i, s) == \A k \in 1 .. Len(log) : log[k].instance = i => log[k].seq <= s
SkipsTold ==
  pc = "walk" /\ round.skipped > 0 =>
    IF round.counts THEN round.skipped <= at.seq /\ Clear(at.instance, at.seq - round.skipped)
    ELSE log = <<>>

GapInv == OrderInv /\ RowsApart /\ SkipsWalking /\ GoneTold /\ SkipsTold

LEMMA GapFacts ==
  ASSUME GapInv
  PROVE  OrderInv /\ RowsApart /\ SkipsWalking /\ GoneTold /\ SkipsTold /\ Apart(log)
BY DEF GapInv, RowsApart

LEMMA ApartConcat ==
  ASSUME NEW a \in Seq(Rows), NEW b \in Seq(Rows), Apart(a), Apart(b),
         \A j \in 1 .. Len(a), k \in 1 .. Len(b) :
           a[j].instance = b[k].instance => a[j].seq <= b[k].seq - b[k].lost
  PROVE  Apart(a \o b)
<1> DEFINE x == a \o b
<1>1. /\ Len(x) = Len(a) + Len(b) /\ Len(a) \in Nat /\ Len(b) \in Nat
      /\ \A k \in 1 .. Len(a) : x[k] = a[k]
      /\ \A k \in 1 .. Len(b) : x[Len(a) + k] = b[k]
      /\ \A k \in 1 .. Len(x) : k \in 1 .. Len(a) \/ \E n \in 1 .. Len(b) : k = Len(a) + n
  BY ConcatRows
<1> HIDE DEF x
<1>2. ASSUME NEW k \in 1 .. Len(x) PROVE x[k].lost <= x[k].seq
  <2>1. CASE k \in 1 .. Len(a)
    BY <2>1, <1>1 DEF Apart
  <2>2. CASE \E n \in 1 .. Len(b) : k = Len(a) + n
    BY <2>2, <1>1 DEF Apart
  <2> QED
    BY <2>1, <2>2, <1>1
<1>3. ASSUME NEW j \in 1 .. Len(x), NEW k \in 1 .. Len(x), j < k, x[j].instance = x[k].instance
      PROVE  x[j].seq <= x[k].seq - x[k].lost
  <2>1. CASE k \in 1 .. Len(a)
    <3>1. j \in 1 .. Len(a)
      BY <2>1, <1>1, <1>3
    <3> QED
      BY <2>1, <3>1, <1>1, <1>3 DEF Apart
  <2>2. CASE \E n \in 1 .. Len(b) : k = Len(a) + n
    <3>1. PICK n \in 1 .. Len(b) : k = Len(a) + n
      BY <2>2
    <3>2. CASE j \in 1 .. Len(a)
      BY <3>1, <3>2, <1>1, <1>3
    <3>3. CASE \E m \in 1 .. Len(b) : j = Len(a) + m
      <4>1. PICK m \in 1 .. Len(b) : j = Len(a) + m
        BY <3>3
      <4>2. m < n
        BY <3>1, <4>1, <1>1, <1>3
      <4> QED
        BY <3>1, <4>1, <4>2, <1>1, <1>3 DEF Apart
    <3> QED
      BY <3>2, <3>3, <1>1
  <2> QED
    BY <2>1, <2>2, <1>1
<1> QED
  BY <1>2, <1>3 DEF Apart, x

\* The first rows of a longer sequence.
LEMMA ApartFirst ==
  ASSUME NEW more, NEW rows, Len(rows) \in Nat, Len(more) \in Nat, Len(rows) <= Len(more),
         \A k \in 1 .. Len(rows) : rows[k] = more[k], Apart(more)
  PROVE  Apart(rows)
<1>1. \A k \in 1 .. Len(rows) : k \in 1 .. Len(more)
  OBVIOUS
<1> QED
  BY <1>1 DEF Apart

\* The rows of a page: its gap row, if there is something to tell, and its records.
MissedOf(page, c) == IF c.instance = page.instance THEN page.missed ELSE 0
BusyIn(page)      == Larger(0, page.untracked - BaseOf(page))
GapOf(page, c, after, oversized) ==
  Gap(page.instance, after + MissedOf(page, c), MissedOf(page, c) + oversized, BusyIn(page))

RowsAre(rows, page, c, after, oversized) ==
  /\ MissedOf(page, c) \in Nat /\ MissedOf(page, c) <= page.missed
  /\ BusyIn(page) \in Nat /\ rows \in Seq(Rows)
  /\ \A k \in 1 .. Len(rows) :
       \/ k = 1 /\ rows[k] = GapOf(page, c, after, oversized)
       \/ /\ rows[k] = Entry(page.instance, rows[k].seq)
          /\ rows[k].seq \in after + page.missed + 1 .. page.last
  /\ \A j, k \in 1 .. Len(rows) : j < k => rows[j].seq < rows[k].seq
  /\ MissedOf(page, c) + oversized + BusyIn(page) > 0 =>
       1 \in 1 .. Len(rows) /\ rows[1] = GapOf(page, c, after, oversized)
  /\ MissedOf(page, c) + oversized + BusyIn(page) = 0 =>
       \A k \in 1 .. Len(rows) : rows[k] = Entry(page.instance, rows[k].seq)

LEMMA RowsOfBatch ==
  ASSUME TypeOK, NEW page \in Pages, NEW c \in Cursors, NEW after \in Seqs,
         NEW oversized \in Nat, NEW back \in {"idle", "parallel", "walk"},
         Takeable(page, after)
  PROVE  RowsAre(BatchOf(page, c, after, oversized, back).rows, page, c, after, oversized)
<1> DEFINE missed == IF c.instance = page.instance THEN page.missed ELSE 0
           busy == Larger(0, page.untracked - BaseOf(page))
           row == Gap(page.instance, after + missed, missed + oversized, busy)
           gap == IF missed + busy + oversized > 0 THEN <<row>> ELSE <<>>
           entries == EntriesOf(page, after)
           rows == gap \o entries
           b == BatchOf(page, c, after, oversized, back)
<1>1. /\ page.instance \in Instances /\ page.missed \in Nat /\ page.untracked \in Nat
      /\ page.last \in Nat /\ page.last <= MaxSeq + PageSize /\ after \in Nat
      /\ after + page.missed <= page.last
  BY SeqsAreNumbers DEF Pages, Takeable
<1>2. BaseOf(page) \in Nat
  BY <1>1 DEF TypeOK, Counts, BaseOf
<1>3. missed \in Nat /\ missed <= page.missed /\ busy \in Nat
  BY <1>1, <1>2 DEF Larger
<1>4. b.rows = rows
  BY DEF BatchOf
<1>5. missed = MissedOf(page, c) /\ busy = BusyIn(page) /\ row = GapOf(page, c, after, oversized)
  BY DEF MissedOf, BusyIn, GapOf
<1> HIDE DEF missed, busy, b
<1>6. row.seq = after + missed /\ row.instance = page.instance
  BY DEF Gap
<1>7. row \in Rows
  <2>1. after + missed \in Nat /\ after + missed <= MaxSeq + PageSize
    BY <1>1, <1>3, Bounds
  <2>2. after + missed \in Seqs
    BY <2>1, SeqsAreNumbers
  <2>3. missed + oversized \in Nat
    BY <1>3
  <2> QED
    BY <2>2, <2>3, <1>1, <1>3, GapRow
<1> HIDE DEF row
<1>8. /\ gap \in Seq(Rows) /\ Len(gap) \in 0 .. 1
      /\ \A k \in 1 .. Len(gap) : k = 1 /\ gap[k] = row
      /\ missed + oversized + busy > 0 => Len(gap) = 1
      /\ missed + oversized + busy = 0 => Len(gap) = 0
  <2>1. missed + busy + oversized > 0 <=> missed + oversized + busy > 0
    BY <1>3
  <2>2. missed + oversized + busy = 0 => ~(missed + busy + oversized > 0)
    BY <1>3
  <2> QED
    BY <2>1, <2>2, <1>7
<1> HIDE DEF gap
<1>9. /\ entries \in Seq(Rows)
      /\ \A k \in 1 .. Len(entries) :
           /\ entries[k] = Entry(page.instance, entries[k].seq)
           /\ entries[k].seq \in after + page.missed + 1 .. page.last
      /\ \A j, k \in 1 .. Len(entries) : j < k => entries[j].seq < entries[k].seq
  BY EntriesOfPage
<1> HIDE DEF entries
<1>10. /\ rows \in Seq(Rows) /\ Len(rows) = Len(gap) + Len(entries)
       /\ Len(gap) \in Nat /\ Len(entries) \in Nat
       /\ \A k \in 1 .. Len(gap) : rows[k] = gap[k]
       /\ \A k \in 1 .. Len(entries) : rows[Len(gap) + k] = entries[k]
       /\ \A k \in 1 .. Len(rows) :
            k \in 1 .. Len(gap) \/ \E n \in 1 .. Len(entries) : k = Len(gap) + n
  BY <1>8, <1>9, ConcatRows
<1> HIDE DEF rows
<1>11. \A k \in 1 .. Len(rows) :
         \/ k = 1 /\ rows[k] = row
         \/ /\ rows[k] = Entry(page.instance, rows[k].seq)
            /\ rows[k].seq \in after + page.missed + 1 .. page.last
  <2> TAKE k \in 1 .. Len(rows)
  <2>1. CASE k \in 1 .. Len(gap)
    BY <2>1, <1>8, <1>10
  <2>2. CASE \E n \in 1 .. Len(entries) : k = Len(gap) + n
    <3>1. PICK n \in 1 .. Len(entries) : k = Len(gap) + n
      BY <2>2
    <3>2. rows[k] = entries[n]
      BY <3>1, <1>10
    <3> QED
      BY <3>2, <1>9
  <2> QED
    BY <2>1, <2>2, <1>10
<1>12. ASSUME NEW j \in 1 .. Len(rows), NEW k \in 1 .. Len(rows), j < k
       PROVE  rows[j].seq < rows[k].seq
  <2>1. PICK n \in 1 .. Len(entries) : k = Len(gap) + n
    <3>1. k \notin 1 .. Len(gap)
      BY <1>8, <1>12
    <3> QED
      BY <3>1, <1>10
  <2>2. rows[k] = entries[n] /\ rows[k].seq \in after + page.missed + 1 .. page.last
    BY <2>1, <1>9, <1>10
  <2>3. CASE j \in 1 .. Len(gap)
    <3>1. rows[j].seq = after + missed
      BY <2>3, <1>6, <1>8, <1>10
    <3>2. after + missed < rows[k].seq
      BY <2>2, <1>1, <1>3, Beyond
    <3> QED
      BY <3>1, <3>2
  <2>4. CASE \E m \in 1 .. Len(entries) : j = Len(gap) + m
    <3>1. PICK m \in 1 .. Len(entries) : j = Len(gap) + m
      BY <2>4
    <3>2. m < n
      BY <3>1, <2>1, <1>10, <1>12
    <3> QED
      BY <3>1, <3>2, <2>2, <1>9, <1>10
  <2> QED
    BY <2>3, <2>4, <1>10
<1>13. missed + oversized + busy > 0 => 1 \in 1 .. Len(rows) /\ rows[1] = row
  <2> SUFFICES ASSUME missed + oversized + busy > 0 PROVE 1 \in 1 .. Len(rows) /\ rows[1] = row
    OBVIOUS
  <2>0. Len(gap) = 1
    BY <1>8, Zenon
  <2>1. Len(gap) = 1 /\ 1 \in 1 .. Len(gap)
    BY <2>0
  <2>2. 1 \in 1 .. Len(rows)
    BY <2>1, <1>10
  <2> QED
    BY <2>1, <2>2, <1>8, <1>10
<1>14. missed + oversized + busy = 0 =>
         \A k \in 1 .. Len(rows) : rows[k] = Entry(page.instance, rows[k].seq)
  <2> SUFFICES ASSUME missed + oversized + busy = 0, NEW k \in 1 .. Len(rows)
               PROVE  rows[k] = Entry(page.instance, rows[k].seq)
    OBVIOUS
  <2>1. Len(gap) = 0
    BY <1>8
  <2>2. PICK n \in 1 .. Len(entries) : k = Len(gap) + n
    BY <2>1, <1>10
  <2>3. rows[k] = entries[n]
    BY <2>2, <1>10
  <2> QED
    BY <2>3, <1>9
<1> QED
  BY <1>3, <1>4, <1>5, <1>10, <1>11, <1>12, <1>13, <1>14 DEF RowsAre, b

\* A page's rows follow those of its process in the log, where the records counted with
\* them do.
LEMMA BatchApart ==
  ASSUME OrderInv, Apart(log), NEW page \in Pages, NEW c \in Cursors, NEW after \in Seqs,
         NEW oversized \in Nat, NEW back \in {"idle", "parallel", "walk"},
         Takeable(page, after), oversized <= after, Clear(page.instance, after - oversized),
         batch' = BatchOf(page, c, after, oversized, back), log' = log
  PROVE  RowsApart'
<1> DEFINE rows == BatchOf(page, c, after, oversized, back).rows
           missed == MissedOf(page, c)
           i == page.instance
<1>1. /\ TypeOK /\ log \in Seq(Rows) /\ after \in Nat /\ page.missed \in Nat /\ page.last \in Nat
      /\ \A k \in 1 .. Len(log) : log[k] \in Rows
  BY OrderFacts, StateFacts, PageFacts, SeqsAreNumbers
<1>0. RowsAre(rows, page, c, after, oversized)
  BY <1>1, RowsOfBatch
<1> HIDE DEF rows
<1>2. /\ missed \in Nat /\ rows \in Seq(Rows)
      /\ \A k \in 1 .. Len(rows) :
           \/ k = 1 /\ rows[k] = GapOf(page, c, after, oversized)
           \/ /\ rows[k] = Entry(i, rows[k].seq)
              /\ rows[k].seq \in after + page.missed + 1 .. page.last
      /\ \A j, k \in 1 .. Len(rows) : j < k => rows[j].seq < rows[k].seq
  BY <1>0 DEF RowsAre
<1> HIDE DEF missed
<1>3. ASSUME NEW k \in 1 .. Len(rows)
      PROVE  /\ rows[k].instance = i /\ rows[k].lost <= rows[k].seq
             /\ after - oversized <= rows[k].seq - rows[k].lost
             /\ rows[k].seq \in Nat /\ rows[k].lost \in Nat
             /\ k # 1 => rows[k].lost = 0
  <2>1. CASE k = 1 /\ rows[k] = GapOf(page, c, after, oversized)
    <3>1. rows[k].seq = after + missed /\ rows[k].lost = missed + oversized /\ rows[k].instance = i
      BY <2>1 DEF Gap, GapOf, missed
    <3> QED
      BY <2>1, <3>1, <1>1, <1>2
  <2>2. CASE rows[k] = Entry(i, rows[k].seq) /\ rows[k].seq \in after + page.missed + 1 .. page.last
    <3>1. rows[k].lost = 0 /\ rows[k].instance = i
      BY <2>2 DEF Entry
    <3> QED
      BY <2>2, <3>1, <1>1, <1>2
  <2> QED
    BY <2>1, <2>2, <1>2
<1>4. Apart(rows)
  <2>1. ASSUME NEW j \in 1 .. Len(rows), NEW k \in 1 .. Len(rows), j < k
        PROVE  rows[j].seq <= rows[k].seq - rows[k].lost
    <3>1. k # 1 /\ rows[j].seq < rows[k].seq
      BY <2>1, <1>2
    <3>2. rows[k].lost = 0 /\ rows[k].seq \in Nat /\ rows[j].seq \in Nat
      BY <3>1, <1>3
    <3> QED
      BY <3>1, <3>2
  <2> QED
    BY <2>1, <1>3 DEF Apart
<1>5. ASSUME NEW j \in 1 .. Len(log), NEW k \in 1 .. Len(rows), log[j].instance = rows[k].instance
      PROVE  log[j].seq <= rows[k].seq - rows[k].lost
  <2>1. log[j].seq <= after - oversized
    BY <1>3, <1>5 DEF Clear
  <2>2. log[j].seq \in Nat
    BY <1>1, PointsOfRows
  <2> QED
    BY <2>1, <2>2, <1>1, <1>3
<1>6. Apart(log \o rows)
  BY <1>1, <1>2, <1>4, <1>5, ApartConcat
<1> QED
  BY <1>6 DEF RowsApart, rows

\* Rows of the cursor's process are up to the cursor, and there are none of a later one.
LEMMA ClearFromCursor ==
  ASSUME OrderInv, pc # "down", NEW i \in Nat, NEW s \in Nat, cursor.instance <= i,
         i = cursor.instance => cursor.seq <= s
  PROVE  Clear(i, s)
<1>1. /\ FirstUpTo(log, Len(log), cursor) /\ log \in Seq(Rows) /\ cursor \in Cursors
      /\ \A k \in 1 .. Len(log) : log[k] \in Rows
  BY OrderFacts, StateFacts DEF StoreInv
<1> SUFFICES ASSUME NEW k \in 1 .. Len(log), log[k].instance = i
             PROVE  log[k].seq <= s
  BY DEF Clear
<1>2. UpTo(CursorOf(log[k]), cursor)
  BY <1>1 DEF FirstUpTo
<1>3. /\ CursorOf(log[k]).instance = i /\ CursorOf(log[k]).seq = log[k].seq /\ log[k].seq \in Nat
      /\ cursor.instance \in Nat /\ cursor.seq \in Nat
  BY <1>1, PointsOfRows, PointFacts
<1> QED
  BY <1>2, <1>3 DEF UpTo

\* A page in order continues what was pushed out before it, from the cursor on; the first
\* of a process is the first of the round.
LEMMA InOrderCount ==
  ASSUME GapInv, InOrder
  PROVE  /\ First.page.instance = cursor.instance => at.seq = cursor.seq + EarlierGone
         /\ First.page.instance # cursor.instance =>
              at.seq = 0 /\ EarlierGone = 0 /\ ~round.gone.found
<1> DEFINE page == First.page
<1>1. /\ OrderInv /\ GoneTold /\ GoneInv /\ PlaceInv /\ TypeOK
      /\ cursor.instance \in Nat /\ cursor.seq \in Nat /\ at.seq \in Nat
  BY GapFacts, OrderFacts
<1>2. /\ pc = "parallel" /\ flight # <<>> /\ First.kind = "page" /\ First.after = at.seq
      /\ at.seq = 0 \/ ~Restarted(page)
  BY DEF InOrder, Arrived
<1>3. /\ page \in Pages /\ page.missed \in Nat /\ page.instance \in Nat
      /\ page.instance = kernel.instance \/ (page.instance = cursor.instance /\ cursor.seq > 0)
  BY <1>1, <1>2, FrontFacts, PageFacts DEF Answered, PageInv
<1>4. /\ round.gone.page \in Pages /\ round.gone.page.missed \in Nat
      /\ round.gone.after \in Nat /\ round.gone.earlier \in Nat
  BY <1>1, StateFacts, PageFacts, SeqsAreNumbers
<1>5. at.instance = cursor.instance
  BY <1>1, <1>2 DEF PlaceInv
<1> HIDE DEF page
<1>6. CASE page.instance # cursor.instance
  <2>1. at.seq = 0
    BY <1>2, <1>5, <1>6 DEF Restarted
  <2>2. ~round.gone.found
    BY <2>1, <1>1, <1>2, <1>4 DEF GoneTold, GoneInv
  <2> QED
    BY <2>1, <2>2, <1>6 DEF EarlierGone, page
<1>7. CASE page.instance = cursor.instance
  <2>1. CASE ~round.gone.found
    <3>1. at.seq = cursor.seq /\ EarlierGone = 0
      BY <2>1, <1>1, <1>2 DEF GoneTold, EarlierGone
    <3> QED
      BY <3>1, <1>1, <1>7 DEF page
  <2>2. CASE round.gone.found
    <3>1. round.gone.page.instance = cursor.instance
      <4> SUFFICES ASSUME round.gone.page.instance # cursor.instance PROVE FALSE
        OBVIOUS
      <4>1. cursor.seq = 0 /\ round.gone.page.instance = kernel.instance
        BY <2>2, <1>1, <1>2 DEF GoneInv
      <4> QED
        BY <4>1, <1>3, <1>7
    <3>2. at.seq = round.gone.after + round.gone.page.missed
          /\ round.gone.after = cursor.seq + round.gone.earlier
      BY <2>2, <3>1, <1>1, <1>2 DEF GoneTold
    <3>3. EarlierGone = round.gone.earlier + round.gone.page.missed
      BY <2>2 DEF EarlierGone
    <3>4. at.seq = cursor.seq + EarlierGone
      BY <3>2, <3>3, <1>1, <1>4
    <3> QED
      BY <3>4, <1>7 DEF page
  <2> QED
    BY <2>1, <2>2
<1> QED
  BY <1>6, <1>7 DEF page

---------------------------------------------------------------------------
(* The steps.                                                              *)

\* Nothing the counts depend on changes.
LEMMA GapKept ==
  ASSUME GapInv, OrderInv', UNCHANGED <<pc, at, batch, cursor, log>>,
         round'.gone = round.gone, round'.skipped = round.skipped, round'.counts = round.counts
  PROVE  GapInv'
<1>1. RowsApart /\ SkipsWalking /\ GoneTold /\ SkipsTold
  BY GapFacts
<1>2. RowsApart' /\ SkipsWalking'
  <2>1. log' = log /\ log' \o batch'.rows = log \o batch.rows /\ pc' = pc
    OBVIOUS
  <2>2. Apart(log')
    BY <1>1, <2>1 DEF RowsApart
  <2>3. pc' = "write" => Apart(log' \o batch'.rows)
    BY <1>1, <2>1 DEF RowsApart
  <2>4. RowsApart'
    BY <2>2, <2>3 DEF RowsApart, Apart
  <2> QED
    BY <1>1, <2>4 DEF SkipsWalking
<1>3. GoneTold'
  BY <1>1 DEF GoneTold
<1>4. SkipsTold'
  BY <1>1 DEF SkipsTold, Clear
<1> QED
  BY <1>2, <1>3, <1>4 DEF GapInv

\* The collector is elsewhere, with nothing pushed out or skipped yet.
LEMMA GapStarts ==
  ASSUME GapInv, OrderInv', log' = log, pc' # "write", round'.skipped = 0,
         pc' = "parallel" => ~round'.gone.found /\ at'.seq = cursor'.seq
  PROVE  GapInv'
<1>1. Apart(log)'
  BY GapFacts DEF Apart
<1> QED
  BY <1>1 DEF GapInv, RowsApart, SkipsWalking, GoneTold, SkipsTold

\* Rows are to be written.
LEMMA GapTaken ==
  ASSUME OrderInv', RowsApart', pc' = "write", round'.skipped = 0
  PROVE  GapInv'
BY DEF GapInv, SkipsWalking, GoneTold, SkipsTold

\* A round begins and ends with nothing skipped.
LEMMA RoundFacts ==
  /\ NewRound.skipped = 0 /\ ~NewRound.gone.found
  /\ ~NoGone.found /\ NewRound.gone = NoGone
BY DEF NewRound, NoGone

LEMMA KernelKeepsGaps ==
  ASSUME GapInv, EarlyRestarts = FALSE, Kernel \/ RequestFails \/ SaveState \/ DropRows
  PROVE  GapInv'
<1>1. OrderInv
  BY GapFacts
<1>2. UNCHANGED <<pc, at, batch, cursor, log, round>>
  BY DEF Kernel, KernelRecord, KernelUntracked, KernelRestart, KernelForget, Answer,
     AnswerStray,
         RequestFails, SaveState, DropRows, collector, store
<1>3. OrderInv'
  <2>1. [Next]_vars
    BY DEF Next, Fault
  <2> QED
    BY <1>1, <2>1, NextKeepsOrder
<1> QED
  BY <1>2, <1>3, GapKept

LEMMA AsksKeepGaps ==
  ASSUME GapInv, AskAhead \/ AskNext \/ TakeOverlap \/ WalkHalve
  PROVE  GapInv'
<1>1. OrderInv /\ round \in RoundType
  BY GapFacts, OrderFacts, StateFacts
<1>2. OrderInv'
  BY <1>1, AskAheadKeepsOrder, AskNextKeepsOrder, TakeOverlapKeepsOrder, WalkHalveKeepsOrder
<1>3. UNCHANGED <<pc, at, batch, cursor, log>>
  BY DEF AskAhead, AskNext, TakeOverlap, WalkHalve, collector, store
<1>4. \/ round' = round
      \/ round' = [round EXCEPT !.asked = @ + 1]
      \/ round' = [round EXCEPT !.size = @ \div 2]
  BY DEF AskAhead, AskNext, TakeOverlap, WalkHalve, collector
<1>5. round'.gone = round.gone /\ round'.skipped = round.skipped /\ round'.counts = round.counts
  BY <1>1, <1>4 DEF RoundType
<1> QED
  BY <1>2, <1>3, <1>5, GapKept

LEMMA EndsKeepGaps ==
  ASSUME GapInv, TakeFailure \/ AppendFails \/ TakeTooLarge \/ BeginRound \/ PanelEnds \/ PanelStarts
         \/ TakeRestarted \/ WalkRestarted \/ SkipFindsRestart,
         log' = log
  PROVE  GapInv'
<1>1. OrderInv /\ round \in RoundType /\ SkipsWalking /\ pc \in Pcs
  BY GapFacts, OrderFacts, StateFacts DEF CollectTyped
<1>2. OrderInv'
  BY <1>1, TakeFailureKeepsOrder, AppendFailsKeepsOrder, TakeTooLargeKeepsOrder,
     BeginRoundKeepsOrder, PanelEndsKeepsOrder, PanelStartsKeepsOrder, TakeRestartedKeepsOrder,
     WalkRestartedKeepsOrder, SkipFindsRestartKeepsOrder
<1>3. CASE TakeFailure \/ AppendFails \/ TakeTooLarge \/ PanelEnds
  <2>1. pc' \in {"idle", "walk", "down"} /\ round' = NewRound
    BY <1>3 DEF TakeFailure, AppendFails, TakeTooLarge, PanelEnds, EndRound
  <2> QED
    BY <2>1, <1>2, GapStarts, RoundFacts
<1>4. CASE BeginRound
  <2>1. pc' \in {"parallel", "walk"} /\ round' = NewRound /\ at' = cursor /\ cursor' = cursor
    BY <1>4 DEF BeginRound, store
  <2> QED
    BY <2>1, <1>2, GapStarts, RoundFacts
<1>5. CASE PanelStarts
  <2>1. pc = "down" /\ pc' = "idle" /\ round' = round
    BY <1>5 DEF PanelStarts
  <2>2. round'.skipped = 0
    BY <2>1, <1>1 DEF SkipsWalking
  <2> QED
    BY <2>1, <2>2, <1>2, GapStarts
<1>6. CASE TakeRestarted
  <2>1. /\ pc = "parallel" /\ pc' = pc /\ round' = [round EXCEPT !.gone = NoGone]
        /\ StartOver(First.page.instance)
    BY <1>6 DEF TakeRestarted
  <2>2. round'.gone = NoGone /\ round'.skipped = 0
    BY <2>1, <1>1 DEF SkipsWalking, RoundType
  <2>3. at'.seq = cursor'.seq
    BY <2>1 DEF StartOver
  <2> QED
    BY <2>1, <2>2, <2>3, <1>2, GapStarts, RoundFacts
<1>7. CASE WalkRestarted \/ SkipFindsRestart
  <2>1. pc = "walk" /\ pc' = pc /\ round' = [round EXCEPT !.pages = @ + 1, !.size = PageSize, !.skipped = 0]
    BY <1>7 DEF WalkRestarted, SkipFindsRestart, TooLargeAlone
  <2>2. round'.skipped = 0
    BY <2>1, <1>1 DEF RoundType
  <2> QED
    BY <2>1, <2>2, <1>2, GapStarts
<1> QED
  BY <1>3, <1>4, <1>5, <1>6, <1>7

LEMMA TakeGoneKeepsGaps ==
  ASSUME GapInv, TakeGone
  PROVE  GapInv'
<1> DEFINE page == First.page
           gone == [found |-> TRUE, page |-> page, after |-> First.after, earlier |-> EarlierGone]
<1>1. /\ OrderInv /\ GoneTold /\ SkipsWalking /\ RowsApart /\ round \in RoundType /\ at \in Cursors
      /\ flight # <<>> /\ InOrder /\ pc = "parallel" /\ First.after = at.seq /\ page \in Pages
      /\ at.seq \in Nat /\ cursor.seq \in Nat
  <2>1. InOrder
    BY DEF TakeGone
  <2>2. OrderInv
    BY GapFacts
  <2> QED
    BY <2>1, <2>2, GapFacts, OrderFacts, StateFacts, InOrderTakeable, FrontFacts
<1>2. OrderInv'
  BY <1>1, TakeGoneKeepsOrder
<1>3. /\ page.missed > 0 /\ round' = [round EXCEPT !.caught = CaughtUp(page), !.gone = gone]
      /\ at' = [at EXCEPT !.seq = First.after + page.missed]
      /\ UNCHANGED <<pc, batch, cursor, log>>
  BY DEF TakeGone, store
<1>4. /\ page.instance = cursor.instance => at.seq = cursor.seq + EarlierGone
      /\ page.instance # cursor.instance => at.seq = 0 /\ EarlierGone = 0
  BY <1>1, InOrderCount
<1>5. round'.gone = gone /\ round'.skipped = round.skipped /\ at'.seq = at.seq + page.missed
  BY <1>1, <1>3 DEF RoundType, Cursors
<1>6. GoneTold'
  <2>1. /\ gone.found /\ gone.page = page /\ gone.after = at.seq /\ gone.earlier = EarlierGone
    BY <1>1
  <2> HIDE DEF gone, page
  <2> QED
    BY <2>1, <1>3, <1>4, <1>5 DEF GoneTold
<1>7. RowsApart' /\ SkipsWalking' /\ SkipsTold'
  <2>1. Apart(log)'
    BY <1>1, <1>3 DEF RowsApart, Apart
  <2> QED
    BY <2>1, <1>1, <1>3, <1>5 DEF RowsApart, SkipsWalking, SkipsTold
<1> QED
  BY <1>2, <1>6, <1>7 DEF GapInv

\* A page is taken: its rows follow what is told of its process, up to the cursor but for
\* the skips not yet written.
Skips == IF pc = "walk" /\ round.counts THEN round.skipped ELSE 0
Taken(page, c, after, oversized, back) ==
  /\ Takeable(page, after) /\ batch' = BatchOf(page, c, after, oversized, back)
  /\ c.instance = cursor.instance /\ NoteSince(page, c)
  /\ oversized <= after /\ Clear(page.instance, after - oversized)
  /\ page.instance = cursor.instance => after - oversized = cursor.seq - Skips
  /\ page.instance # cursor.instance => after = 0 /\ oversized = 0
  /\ pc \in {"parallel", "walk"} /\ pc' = "write" /\ round'.skipped = 0
  /\ UNCHANGED <<kernel, mem.counted, cursor, log, cleared, saved, faults>>

LEMMA TakePageTakes ==
  ASSUME GapInv, TakePage
  PROVE  Taken(First.page, at, First.after, EarlierGone, "parallel") /\ First.page \in Pages
         /\ First.after \in Seqs /\ EarlierGone \in Nat /\ at \in Cursors /\ Answered(First)
         /\ flight # <<>>
<1> DEFINE page == First.page
<1>1. /\ OrderInv /\ SkipsWalking /\ round \in RoundType /\ at \in Cursors /\ mem \in MemType
      /\ cursor.seq \in Nat /\ cursor.instance \in Nat /\ PlaceInv /\ TypeOK
  BY GapFacts, OrderFacts, StateFacts
<1>2. /\ InOrder /\ batch' = BatchOf(page, at, First.after, EarlierGone, "parallel")
      /\ NoteSince(page, at) /\ pc' = "write" /\ UNCHANGED <<kernel, cursor, log, cleared, saved, faults>>
      /\ mem' = [mem EXCEPT !.newest = SeenNewest(page)]
      /\ round' = [round EXCEPT !.caught = CaughtUp(page), !.gone = NoGone]
  BY DEF TakePage
<1>3. /\ pc = "parallel" /\ flight # <<>> /\ First.after = at.seq /\ Takeable(page, First.after)
      /\ First.kind = "page"
  BY <1>1, <1>2, InOrderTakeable
<1>4. page \in Pages /\ First.after \in Seqs /\ First.after \in Nat
  BY <1>1, <1>3, FrontFacts
<1>5. /\ page.instance = cursor.instance => at.seq = cursor.seq + EarlierGone
      /\ page.instance # cursor.instance => at.seq = 0 /\ EarlierGone = 0
  BY <1>2, InOrderCount
<1>6. round'.skipped = 0 /\ Skips = 0 /\ mem'.counted = mem.counted
  BY <1>1, <1>2, <1>3 DEF RoundType, MemType, SkipsWalking, Skips
<1>7. EarlierGone \in Nat /\ at.instance = cursor.instance /\ page.instance \in Nat
      /\ cursor.instance <= page.instance
  BY <1>1, <1>3, <1>4, EarlierGoneType, PageFacts DEF PlaceInv, Takeable
<1> HIDE DEF page
<1>8. EarlierGone <= First.after /\ First.after - EarlierGone \in Nat
      /\ (page.instance = cursor.instance => First.after - EarlierGone = cursor.seq)
  BY <1>1, <1>3, <1>4, <1>5, <1>7
<1>9. Clear(page.instance, First.after - EarlierGone)
  BY <1>1, <1>3, <1>7, <1>8, ClearFromCursor
<1>10. page.instance # cursor.instance => First.after = 0 /\ EarlierGone = 0
  BY <1>3, <1>5
<1>11. page.instance = cursor.instance => First.after - EarlierGone = cursor.seq - Skips
  BY <1>1, <1>6, <1>8
<1> QED
  BY <1>1, <1>2, <1>3, <1>4, <1>6, <1>7, <1>8, <1>9, <1>10, <1>11 DEF Taken, page, Answered

LEMMA EndParallelTakes ==
  ASSUME GapInv, EndParallel, round.gone.found
  PROVE  Taken(round.gone.page, [at EXCEPT !.seq = round.gone.after], round.gone.after,
               round.gone.earlier, "idle")
         /\ round.gone.page \in Pages /\ round.gone.after \in Seqs /\ round.gone.earlier \in Nat
         /\ [at EXCEPT !.seq = round.gone.after] \in Cursors
<1> DEFINE gone == round.gone
           page == round.gone.page
           c == [at EXCEPT !.seq = gone.after]
<1>1. /\ OrderInv /\ SkipsWalking /\ round \in RoundType /\ at \in Cursors /\ mem \in MemType
      /\ cursor.seq \in Nat /\ cursor.instance \in Nat /\ PlaceInv /\ TypeOK /\ GoneInv /\ GoneTold
      /\ page \in Pages /\ gone.after \in Seqs /\ gone.earlier \in Nat
  BY GapFacts, OrderFacts, StateFacts
<1>2. /\ pc = "parallel" /\ flight = <<>> /\ UNCHANGED <<kernel, mem, cursor, log, cleared, saved, faults>>
      /\ batch' = BatchOf(page, c, gone.after, gone.earlier, "idle")
      /\ NoteSince(page, at) /\ pc' = "write" /\ round' = [round EXCEPT !.gone = NoGone]
  BY DEF EndParallel
<1>3. /\ page.instance \in 1 .. kernel.instance /\ cursor.instance <= page.instance
      /\ page.missed > 0 /\ page.last = gone.after + page.missed
      /\ page.instance = kernel.instance => page.last <= kernel.newest
      /\ page.instance = cursor.instance => cursor.seq <= gone.after
      /\ page.instance # cursor.instance => cursor.seq = 0 /\ page.instance = kernel.instance
  BY <1>1, <1>2 DEF GoneInv
<1>4. page.missed \in Nat /\ gone.after \in Nat /\ page.last \in Nat /\ page.instance \in Nat
  BY <1>1, PageFacts, SeqsAreNumbers
<1>5. IF page.instance = cursor.instance THEN gone.after = cursor.seq + gone.earlier
      ELSE gone.earlier = 0 /\ gone.after = 0
  BY <1>1, <1>2 DEF GoneTold
<1>6. c \in Cursors /\ c.instance = cursor.instance /\ at.instance = cursor.instance
  BY <1>1, <1>2 DEF Cursors, PlaceInv
<1>7. round'.skipped = 0 /\ Skips = 0 /\ mem'.counted = mem.counted
  BY <1>1, <1>2 DEF RoundType, SkipsWalking, Skips
<1> HIDE DEF gone, page, c
<1>8. Takeable(page, gone.after)
  BY <1>3, <1>4 DEF Takeable
<1>9. gone.earlier <= gone.after /\ gone.after - gone.earlier \in Nat
      /\ (page.instance = cursor.instance => gone.after - gone.earlier = cursor.seq)
  BY <1>1, <1>4, <1>5
<1>10. Clear(page.instance, gone.after - gone.earlier)
  BY <1>1, <1>2, <1>3, <1>4, <1>9, ClearFromCursor
<1>11. NoteSince(page, c)
  BY <1>2, <1>6 DEF NoteSince
<1>12. page.instance = cursor.instance => gone.after - gone.earlier = cursor.seq - Skips
  BY <1>1, <1>7, <1>9
<1>13. Taken(page, c, gone.after, gone.earlier, "idle")
  BY <1>2, <1>5, <1>6, <1>7, <1>8, <1>9, <1>10, <1>11, <1>12 DEF Taken
<1> QED
  BY <1>13, <1>1, <1>6 DEF gone, page, c

LEMMA WalkPageTakes ==
  ASSUME GapInv, WalkPage
  PROVE  Taken(First.page, at, First.after, Skips, "walk") /\ First.page \in Pages
         /\ First.after \in Seqs /\ Skips \in Nat /\ at \in Cursors /\ Answered(First)
         /\ flight # <<>>
<1> DEFINE page == First.page
<1>1. /\ OrderInv /\ SkipsTold /\ round \in RoundType /\ at \in Cursors /\ mem \in MemType
      /\ cursor.seq \in Nat /\ cursor.instance \in Nat /\ PlaceInv /\ TypeOK
      /\ cursor.instance = 0 => cursor.seq = 0
  BY GapFacts, OrderFacts, StateFacts
<1>2. /\ pc = "walk" /\ flight # <<>> /\ First.kind = "page"
      /\ at.instance # 0 /\ First.after # 0 => ~Restarted(page)
      /\ batch' = BatchOf(page, at, First.after, IF round.counts THEN round.skipped ELSE 0, "walk")
      /\ NoteSince(page, at) /\ pc' = "write"
      /\ round' = [round EXCEPT !.pages = @ + 1, !.size = PageSize, !.skipped = 0,
                            !.more = ~CaughtUp(page)]
      /\ UNCHANGED <<kernel, mem, cursor, log, cleared, saved, faults>>
  BY DEF WalkPage, Arrived
<1>3. (IF round.counts THEN round.skipped ELSE 0) = Skips /\ Skips \in Nat
  BY <1>1, <1>2 DEF Skips, RoundType
<1>4. at = cursor /\ First.after = at.seq
  BY <1>1, <1>2, NextPages DEF PlaceInv
<1>5. at.instance = page.instance \/ First.after = 0
  BY <1>1, <1>2, <1>4 DEF Restarted
<1>6. Takeable(page, First.after)
  BY <1>1, <1>2, <1>4, <1>5, FrontTakeable
<1>7. page \in Pages /\ First.after \in Seqs /\ First.after \in Nat /\ page.instance \in Nat
      /\ cursor.instance <= page.instance
  BY <1>1, <1>2, <1>6, FrontFacts, PageFacts DEF Takeable
<1>8. round'.skipped = 0 /\ mem'.counted = mem.counted
  BY <1>1, <1>2 DEF RoundType
<1> HIDE DEF page
<1>9. Skips <= First.after
  BY <1>1, <1>2, <1>3, <1>4, <1>7 DEF SkipsTold, Skips, RoundType
<1>10. First.after - Skips \in Nat
  BY <1>3, <1>7, <1>9
<1>11. Clear(page.instance, First.after - Skips)
  <2>1. CASE Skips > 0
    <3>1. round.skipped > 0 /\ round.counts /\ Skips = round.skipped
      BY <2>1, <1>2 DEF Skips
    <3>2. Clear(at.instance, at.seq - round.skipped)
      BY <3>1, <1>1, <1>2 DEF SkipsTold
    <3>3. at.instance = page.instance
      BY <2>1, <1>3, <1>5, <1>7, <1>9
    <3> QED
      BY <3>1, <3>2, <3>3, <1>4
  <2>2. CASE Skips = 0
    <3>1. page.instance = cursor.instance => cursor.seq <= First.after - Skips
      BY <2>2, <1>1, <1>4
    <3> QED
      BY <3>1, <1>1, <1>2, <1>7, <1>10, ClearFromCursor
  <2> QED
    BY <2>1, <2>2, <1>3
<1>12. page.instance # cursor.instance => First.after = 0 /\ Skips = 0
  BY <1>3, <1>4, <1>5, <1>7, <1>9
<1> QED
  BY <1>1, <1>2, <1>3, <1>4, <1>6, <1>7, <1>8, <1>9, <1>11, <1>12 DEF Taken, page, Answered

\* ... and they are its own.
LEMMA TakenIsApart ==
  ASSUME GapInv, NEW page \in Pages, NEW c \in Cursors, NEW after \in Seqs,
         NEW oversized \in Nat, NEW back \in {"idle", "parallel", "walk"},
         Taken(page, c, after, oversized, back), OrderInv'
  PROVE  GapInv'
<1>1. OrderInv /\ Apart(log)
  BY GapFacts
<1>2. RowsApart'
  BY <1>1, BatchApart DEF Taken
<1> QED
  BY <1>2, GapTaken DEF Taken

LEMMA TakesKeepGaps ==
  ASSUME GapInv, TakePage \/ EndParallel \/ WalkPage
  PROVE  GapInv'
<1>1. OrderInv
  BY GapFacts
<1>2. OrderInv'
  BY <1>1, TakePageKeepsOrder, EndParallelKeepsOrder, WalkPageKeepsOrder
<1>3. CASE TakePage
  BY <1>2, <1>3, TakePageTakes, TakenIsApart
<1>4. CASE EndParallel /\ round.gone.found
  BY <1>2, <1>4, EndParallelTakes, TakenIsApart
<1>5. CASE EndParallel /\ ~round.gone.found
  <2>1. pc' = "idle" /\ round' = NewRound /\ log' = log
    BY <1>5 DEF EndParallel, EndRound
  <2> QED
    BY <2>1, <1>2, GapStarts, RoundFacts
<1>6. CASE WalkPage
  BY <1>2, <1>6, WalkPageTakes, TakenIsApart
<1> QED
  BY <1>3, <1>4, <1>5, <1>6

\* Before a first process the log is empty.
LEMMA NoRowsYet ==
  ASSUME OrderInv, pc # "down", cursor.instance = 0
  PROVE  log = <<>>
<1>1. Genuine(log) /\ FirstUpTo(log, Len(log), cursor) /\ log \in Seq(Rows)
  BY OrderFacts, StateFacts DEF StoreInv
<1>2. ~\E k \in 1 .. Len(log) : TRUE
  <2> SUFFICES ASSUME NEW k \in 1 .. Len(log) PROVE FALSE
    OBVIOUS
  <2>1. log[k] \in Rows /\ log[k].instance # 0 /\ UpTo(CursorOf(log[k]), cursor)
    BY <1>1 DEF Genuine, FirstUpTo
  <2>2. log[k].instance \in Nat /\ CursorOf(log[k]).instance = log[k].instance
    BY <2>1, PointsOfRows
  <2> QED
    BY <2>1, <2>2 DEF UpTo
<1>3. Len(log) \in Nat /\ ~(Len(log) >= 1)
  BY <1>1, <1>2
<1> QED
  BY <1>1, <1>3

LEMMA SkipOversizedKeepsGaps ==
  ASSUME GapInv, SkipOversized
  PROVE  GapInv'
<1> DEFINE i == IF round.skipped = 0 THEN kernel.instance ELSE at.instance
           counts == IF round.skipped = 0 THEN at.instance # 0 ELSE round.counts
           c == [instance |-> i, seq |-> First.after + 1]
<1>1. /\ OrderInv /\ SkipsTold /\ Apart(log) /\ round \in RoundType /\ round.skipped \in Nat
      /\ cursor.seq \in Nat /\ cursor.instance \in Nat
  BY GapFacts, OrderFacts, StateFacts DEF RoundType
<1>2. OrderInv'
  BY <1>1, SkipOversizedKeepsOrder
<1>3. /\ TooLargeAlone /\ pc = "walk" /\ flight # <<>> /\ pc' = pc
      /\ round.skipped = 0 /\ at.instance # 0 => at.instance = kernel.instance
      /\ at' = c /\ cursor' = c /\ log' = log
      /\ round' = [round EXCEPT !.pages = @ + 1, !.skipped = @ + 1, !.counts = counts]
  BY DEF SkipOversized, TooLargeAlone, Arrived
<1>4. at = cursor /\ First.after = at.seq /\ (cursor.instance # 0 => i = cursor.instance)
  BY <1>1, <1>3, SkippedRecord
<1>5. c.instance = i /\ c.seq = at.seq + 1
  BY <1>4
<1>6. (round.skipped = 0 => counts = (cursor.instance # 0)) /\ (round.skipped # 0 => counts = round.counts)
  BY <1>4
<1> HIDE DEF i, counts, c
<1>7. round'.skipped = round.skipped + 1 /\ round'.counts = counts
  BY <1>1, <1>3 DEF RoundType
<1>8. ASSUME counts
      PROVE  round.skipped + 1 <= c.seq /\ Clear(c.instance, c.seq - (round.skipped + 1))
  <2>1. c.seq - (round.skipped + 1) = at.seq - round.skipped
    BY <1>1, <1>4, <1>5
  <2>2. CASE round.skipped = 0
    <3>1. cursor.instance # 0 /\ i = cursor.instance
      BY <2>2, <1>4, <1>6, <1>8
    <3>2. Clear(cursor.instance, cursor.seq)
      BY <1>1, <1>3, ClearFromCursor
    <3>3. at.seq - round.skipped = cursor.seq
      BY <2>2, <1>1, <1>4
    <3>4. round.skipped + 1 <= c.seq
      BY <2>2, <1>1, <1>4, <1>5
    <3> QED
      BY <2>1, <3>1, <3>2, <3>3, <3>4, <1>5
  <2>3. CASE round.skipped # 0
    <3>0. round.counts
      BY <2>3, <1>6, <1>8, Zenon
    <3>1. round.skipped > 0 /\ round.counts
      BY <2>3, <3>0, <1>1
    <3>2. round.skipped <= at.seq /\ Clear(at.instance, at.seq - round.skipped)
      BY <3>1, <1>1, <1>3 DEF SkipsTold
    <3>3. i = at.instance
      BY <2>3 DEF i
    <3>4. round.skipped + 1 <= c.seq
      BY <3>2, <1>1, <1>4, <1>5
    <3> QED
      BY <2>1, <3>2, <3>3, <3>4, <1>5
  <2> QED
    BY <2>2, <2>3
<1>9. ~counts => log = <<>>
  <2> SUFFICES ASSUME ~counts PROVE log = <<>>
    OBVIOUS
  <2>1. CASE round.skipped = 0
    BY <2>1, <1>1, <1>3, <1>6, NoRowsYet
  <2>2. CASE round.skipped # 0
    <3>1. round.skipped > 0 /\ ~round.counts
      BY <2>2, <1>1, <1>6
    <3> QED
      BY <3>1, <1>1, <1>3 DEF SkipsTold
  <2> QED
    BY <2>1, <2>2
<1>10. SkipsTold'
  BY <1>3, <1>7, <1>8, <1>9 DEF SkipsTold, Clear
<1>11. RowsApart'
  BY <1>1, <1>3 DEF RowsApart, Apart
<1> QED
  BY <1>2, <1>3, <1>10, <1>11 DEF GapInv, SkipsWalking, GoneTold

LEMMA EndWalkKeepsGaps ==
  ASSUME GapInv, EndWalk
  PROVE  GapInv'
<1> DEFINE row == Gap(at.instance, at.seq, round.skipped, 0)
<1>1. /\ OrderInv /\ SkipsTold /\ Apart(log) /\ round \in RoundType /\ round.skipped \in Nat
      /\ log \in Seq(Rows) /\ at.instance \in Instances /\ at.seq \in Seqs /\ at.seq \in Nat
  BY GapFacts, OrderFacts, StateFacts, PointFacts DEF RoundType
<1>2. OrderInv'
  BY <1>1, EndWalkKeepsOrder
<1>3. pc = "walk" /\ log' = log
  BY DEF EndWalk, store
<1>4. CASE ~(round.skipped > 0 /\ round.counts)
  <2>1. pc' = "idle" /\ round' = NewRound
    BY <1>4 DEF EndWalk, EndRound
  <2> QED
    BY <2>1, <1>2, <1>3, GapStarts, RoundFacts
<1>5. CASE round.skipped > 0 /\ round.counts
  <2>1. batch'.rows = <<row>> /\ pc' = "write" /\ round' = [round EXCEPT !.skipped = 0]
    BY <1>5 DEF EndWalk
  <2>2. round.skipped <= at.seq /\ Clear(at.instance, at.seq - round.skipped)
    BY <1>1, <1>3, <1>5 DEF SkipsTold
  <2>3. row \in Rows /\ row.instance = at.instance /\ row.seq = at.seq /\ row.lost = round.skipped
    BY <1>1, GapRow DEF Gap
  <2> HIDE DEF row
  <2>4. <<row>> \in Seq(Rows) /\ Len(<<row>>) = 1 /\ \A k \in 1 .. Len(<<row>>) : k = 1 /\ <<row>>[k] = row
    BY <2>3, OneRow
  <2>5. Apart(<<row>>)
    BY <2>2, <2>3, <2>4 DEF Apart
  <2>6. \A j \in 1 .. Len(log), k \in 1 .. Len(<<row>>) :
          log[j].instance = <<row>>[k].instance => log[j].seq <= <<row>>[k].seq - <<row>>[k].lost
    BY <2>2, <2>3, <2>4 DEF Clear
  <2>7. Apart(log \o <<row>>)
    BY <1>1, <2>4, <2>5, <2>6, ApartConcat
  <2>8. RowsApart'
    BY <1>1, <1>3, <2>1, <2>7 DEF RowsApart, Apart
  <2>9. round'.skipped = 0
    BY <1>1, <2>1 DEF RoundType
  <2> QED
    BY <1>2, <2>1, <2>8, <2>9, GapTaken
<1> QED
  BY <1>4, <1>5

\* What is written is what was to be written, or a first part of it.
LEMMA WritingKeepsGaps ==
  ASSUME GapInv, AppendRows \/ PanelEnds \/ Advance
  PROVE  GapInv'
<1>1. /\ OrderInv /\ RowsApart /\ SkipsWalking /\ log \in Seq(Rows) /\ batch.rows \in Seq(Rows)
      /\ batch \in BatchType /\ BatchInv
  BY GapFacts, OrderFacts, StateFacts DEF CollectTyped
<1>2. OrderInv'
  BY <1>1, AppendRowsKeepsOrder, PanelEndsKeepsOrder, AdvanceKeepsOrder
<1>3. CASE AppendRows
  <2>1. pc = "write" /\ pc' = "advance" /\ log' = log \o batch.rows /\ round' = round
    BY <1>3 DEF AppendRows
  <2>2. Apart(log')
    BY <2>1, <1>1 DEF RowsApart
  <2>3. RowsApart'
    BY <2>1, <2>2 DEF RowsApart, Apart
  <2> QED
    BY <2>1, <2>3, <1>1, <1>2 DEF GapInv, SkipsWalking, GoneTold, SkipsTold
<1>4. CASE PanelEnds
  <2>1. pc' = "down" /\ round' = NewRound
    BY <1>4 DEF PanelEnds
  <2>2. Apart(log')
    <3>1. PICK n \in 0 .. (IF pc = "write" THEN Len(batch.rows) ELSE 0) :
            log' = log \o SubSeq(batch.rows, 1, n)
      BY <1>4 DEF PanelEnds
    <3>2. CASE pc # "write"
      <4>1. n = 0
        BY <3>2
      <4>2. log' = log
        BY <3>1, <4>1, <1>1, NoMoreRows
      <4> QED
        BY <4>2, <1>1 DEF RowsApart
    <3>3. CASE pc = "write"
      <4> DEFINE part == SubSeq(batch.rows, 1, n)
                 more == log \o batch.rows
      <4>1. /\ part \in Seq(Rows) /\ Len(part) = n /\ n \in Nat /\ n <= Len(batch.rows)
            /\ \A k \in 1 .. n : part[k] = batch.rows[k]
        BY <3>3, <1>1, FirstRows
      <4>2. /\ log' = log \o part /\ Apart(more)
        BY <3>1, <3>3, <1>1 DEF RowsApart
      <4> HIDE DEF part
      <4>3. /\ Len(log') = Len(log) + n /\ Len(more) = Len(log) + Len(batch.rows)
            /\ Len(log) \in Nat /\ Len(batch.rows) \in Nat
            /\ \A k \in 1 .. Len(log) : log'[k] = log[k] /\ more[k] = log[k]
            /\ \A k \in 1 .. n : log'[Len(log) + k] = part[k]
            /\ \A k \in 1 .. Len(batch.rows) : more[Len(log) + k] = batch.rows[k]
        BY <4>1, <4>2, <1>1, ConcatRows
      <4>4. \A k \in 1 .. Len(log') : k \in 1 .. Len(log) \/ \E j \in 1 .. n : k = Len(log) + j
        <5> TAKE k \in 1 .. Len(log')
        <5>1. k \in 1 .. Len(log) + n /\ Len(log) \in Nat /\ n \in Nat
          BY <4>1, <4>3
        <5> QED
          BY <5>1, PlaceOfTwo
      <4> HIDE DEF more
      <4>5. \A k \in 1 .. Len(log') : log'[k] = more[k]
        <5> TAKE k \in 1 .. Len(log')
        <5>1. CASE k \in 1 .. Len(log)
          BY <5>1, <4>3
        <5>2. CASE \E j \in 1 .. n : k = Len(log) + j
          <6>1. PICK j \in 1 .. n : k = Len(log) + j
            BY <5>2
          <6>2. j \in 1 .. Len(batch.rows)
            BY <4>1, <4>3
          <6> QED
            BY <6>1, <6>2, <4>1, <4>3
        <5> QED
          BY <5>1, <5>2, <4>4
      <4>6. Len(log') \in Nat /\ Len(more) \in Nat /\ Len(log') <= Len(more)
        BY <4>1, <4>3
      <4> QED
        BY <4>2, <4>5, <4>6, ApartFirst
    <3> QED
      BY <3>2, <3>3
  <2>3. RowsApart'
    BY <2>1, <2>2 DEF RowsApart, Apart
  <2> QED
    BY <2>1, <2>3, <1>2, RoundFacts DEF GapInv, SkipsWalking, GoneTold, SkipsTold
<1>5. CASE Advance
  <2>1. /\ pc = "advance" /\ cursor' = batch.next /\ log' = log
        /\ IF batch.back = "idle" THEN EndRound
           ELSE pc' = batch.back /\ at' = batch.next /\ UNCHANGED round
    BY <1>5 DEF Advance
  <2>2. batch.back \in {"idle", "parallel", "walk"} /\ (batch.back = "parallel" => ~round.gone.found)
    BY <1>1, <2>1 DEF BatchType, BatchInv
  <2>3. pc' = batch.back /\ (pc' # "idle" => at' = cursor' /\ round' = round)
        /\ (pc' = "idle" => round' = NewRound)
    BY <2>1, <2>2 DEF EndRound
  <2>4. round'.skipped = 0
    BY <2>1, <2>3, <1>1, RoundFacts DEF SkipsWalking
  <2> QED
    BY <2>1, <2>2, <2>3, <2>4, <1>2, GapStarts
<1> QED
  BY <1>3, <1>4, <1>5

LEMMA InitGaps ==
  ASSUME Init
  PROVE  GapInv
<1>1. OrderInv
  BY InitOrder
<1>2. log = <<>> /\ pc = "idle" /\ round = NewRound
  BY DEF Init
<1>3. Apart(<<>>)
  BY DEF Apart
<1> QED
  BY <1>1, <1>2, <1>3, RoundFacts DEF GapInv, RowsApart, SkipsWalking, GoneTold, SkipsTold

LEMMA NextKeepsGaps ==
  ASSUME GapInv, EarlyRestarts = FALSE, [Next]_vars
  PROVE  GapInv'
<1>1. CASE Kernel \/ RequestFails \/ SaveState \/ DropRows
  BY <1>1, KernelKeepsGaps
<1>2. CASE AskAhead \/ AskNext \/ TakeOverlap \/ WalkHalve
  BY <1>2, AsksKeepGaps
<1>3. CASE TakeFailure \/ AppendFails \/ TakeTooLarge \/ BeginRound \/ PanelStarts
           \/ TakeRestarted \/ WalkRestarted \/ SkipFindsRestart
  <2>1. log' = log
    BY <1>3 DEF TakeFailure, AppendFails, TakeTooLarge, BeginRound, PanelStarts, TakeRestarted,
                WalkRestarted, SkipFindsRestart, StartOver, store
  <2> QED
    BY <2>1, <1>3, EndsKeepGaps
<1>4. CASE TakeGone \/ TakePage \/ EndParallel \/ WalkPage \/ SkipOversized \/ EndWalk
  BY <1>4, TakeGoneKeepsGaps, TakesKeepGaps, SkipOversizedKeepsGaps, EndWalkKeepsGaps
<1>5. CASE AppendRows \/ PanelEnds \/ Advance
  BY <1>5, WritingKeepsGaps
<1>6. CASE UNCHANGED vars
  <2>1. UNCHANGED <<pc, at, batch, cursor, log, round>>
    BY <1>6 DEF vars
  <2>2. OrderInv'
    BY GapFacts, NextKeepsOrder
  <2> QED
    BY <2>1, <2>2, GapKept
<1> QED
  BY <1>1, <1>2, <1>3, <1>4, <1>5, <1>6 DEF Next, Collect, Parallel, Walk, Fault

\* Every number a gap row counts follows the rows before it, over pages pushed out whole,
\* skipped records, cut writes and either side starting over.
THEOREM GapInvariant ==
  ASSUME EarlyRestarts = FALSE
  PROVE  Spec => []GapInv
<1>1. Init => GapInv
  BY InitGaps
<1>2. GapInv /\ [Next]_vars => GapInv'
  BY NextKeepsGaps
<1> QED
  BY <1>1, <1>2, PTL DEF Spec

---------------------------------------------------------------------------
(* Each mark of a lost record stands for a number of its own.              *)

NumberOf(m) == log[m[1]].seq - log[m[1]].lost + m[2]

LEMMA LostMark ==
  ASSUME GapInv, NEW i, NEW m \in LostMarks(i)
  PROVE  /\ m[1] \in 1 .. Len(log) /\ log[m[1]].instance = i /\ m[2] \in 1 .. log[m[1]].lost
         /\ m = <<m[1], m[2]>> /\ NumberOf(m) \in Nat /\ NumberOf(m) >= 1
         /\ log[m[1]].seq - log[m[1]].lost < NumberOf(m) /\ NumberOf(m) <= log[m[1]].seq
         /\ log[m[1]].lost \in Nat /\ log[m[1]].seq \in Nat /\ log[m[1]].busy \in Nat
<1>1. PICK k \in RowsOf(i) : m \in {k} \X (1 .. log[k].lost)
  BY DEF LostMarks
<1>2. m[1] = k /\ m[2] \in 1 .. log[k].lost /\ m = <<m[1], m[2]>>
  BY <1>1
<1>3. k \in 1 .. Len(log) /\ log[k].instance = i
  BY DEF RowsOf
<1>4. log[k] \in Rows /\ log[k].lost <= log[k].seq
  BY <1>3, GapFacts, OrderFacts, StateFacts DEF Apart
<1>5. log[k].seq \in Nat /\ log[k].lost \in Nat /\ log[k].busy \in Nat
  BY <1>4, PointsOfRows DEF Rows
<1>6. NumberOf(m) = log[k].seq - log[k].lost + m[2]
  BY <1>2 DEF NumberOf
<1> QED
  BY <1>2, <1>3, <1>4, <1>5, <1>6

\* No record with that number is in the log.
LEMMA MarkNotStored ==
  ASSUME GapInv, NEW i, NEW m \in LostMarks(i)
  PROVE  ~IsStored(i, NumberOf(m))
<1> DEFINE k == m[1]
           s == NumberOf(m)
<1>1. /\ k \in 1 .. Len(log) /\ log[k].instance = i /\ log[k].lost \in Nat /\ log[k].seq \in Nat
      /\ s \in Nat /\ log[k].seq - log[k].lost < s /\ s <= log[k].seq
  BY LostMark
<1>2. Apart(log) /\ Sorted(log) /\ log \in Seq(Rows)
  BY GapFacts, OrderFacts, StateFacts DEF StoreInv
<1> HIDE DEF k, s
<1> SUFFICES ASSUME NEW j \in 1 .. Len(log), log[j] = Entry(i, s)
             PROVE  FALSE
  BY DEF IsStored, s
<1>3. log[j].instance = i /\ log[j].seq = s /\ log[j].lost = 0 /\ ~IsGap(log[j])
  BY DEF Entry, IsGap
<1>4. CASE j = k
  BY <1>1, <1>3, <1>4
<1>5. CASE j < k
  <2>1. log[j].seq <= log[k].seq - log[k].lost
    BY <1>1, <1>2, <1>3, <1>5 DEF Apart
  <2> QED
    BY <2>1, <1>1, <1>3
<1>6. CASE k < j
  <2>1. log[k].seq <= log[j].seq - log[j].lost
    BY <1>1, <1>2, <1>3, <1>6 DEF Apart
  <2>2. log[k].seq = s
    BY <2>1, <1>1, <1>3
  <2>3. CursorOf(log[k]) # CursorOf(log[j])
    BY <1>1, <1>2, <1>3, <1>6 DEF Sorted, Follows
  <2> QED
    BY <2>2, <2>3, <1>1, <1>3 DEF CursorOf
<1> QED
  BY <1>1, <1>4, <1>5, <1>6

LEMMA MarksDiffer ==
  ASSUME GapInv, NEW i, NEW m \in LostMarks(i), NEW n \in LostMarks(i), NumberOf(m) = NumberOf(n)
  PROVE  m = n
<1>1. /\ m[1] \in 1 .. Len(log) /\ log[m[1]].instance = i /\ m = <<m[1], m[2]>>
      /\ m[2] \in 1 .. log[m[1]].lost /\ log[m[1]].lost \in Nat /\ log[m[1]].seq \in Nat
      /\ log[m[1]].seq - log[m[1]].lost < NumberOf(m) /\ NumberOf(m) <= log[m[1]].seq
  BY LostMark
<1>2. /\ n[1] \in 1 .. Len(log) /\ log[n[1]].instance = i /\ n = <<n[1], n[2]>>
      /\ n[2] \in 1 .. log[n[1]].lost /\ log[n[1]].lost \in Nat /\ log[n[1]].seq \in Nat
      /\ log[n[1]].seq - log[n[1]].lost < NumberOf(n) /\ NumberOf(n) <= log[n[1]].seq
      /\ NumberOf(n) \in Nat
  BY LostMark
<1>3. Apart(log)
  BY GapFacts
<1>4. ~(m[1] < n[1])
  <2>1. m[1] < n[1] => log[m[1]].seq <= log[n[1]].seq - log[n[1]].lost
    BY <1>1, <1>2, <1>3 DEF Apart
  <2> QED
    BY <2>1, <1>1, <1>2
<1>5. ~(n[1] < m[1])
  <2>1. n[1] < m[1] => log[n[1]].seq <= log[m[1]].seq - log[m[1]].lost
    BY <1>1, <1>2, <1>3 DEF Apart
  <2> QED
    BY <2>1, <1>1, <1>2
<1>6. m[1] = n[1]
  BY <1>1, <1>2, <1>4, <1>5
<1>7. m[2] = n[2]
  BY <1>1, <1>2, <1>6 DEF NumberOf
<1> QED
  BY <1>1, <1>2, <1>6, <1>7

\* There are no more marks than numbers they may stand for.
LEMMA MarksCounted ==
  ASSUME GapInv, NEW i, NEW T, IsFiniteSet(T), \A m \in LostMarks(i) : NumberOf(m) \in T
  PROVE  IsFiniteSet(LostMarks(i)) /\ Cardinality(LostMarks(i)) <= Cardinality(T)
<1> DEFINE S == LostMarks(i)
           f == [m \in S |-> NumberOf(m)]
<1>1. \A m, n \in S : NumberOf(m) = NumberOf(n) => m = n
  BY MarksDiffer
<1>2. f \in Injection(S, T)
  <2>1. \A m \in S : f[m] = NumberOf(m) /\ f[m] \in T
    OBVIOUS
  <2>2. f \in [S -> T]
    BY <2>1
  <2>3. \A m, n \in S : f[m] = f[n] => m = n
    BY <2>1, <1>1
  <2> HIDE DEF f, S
  <2> QED
    BY <2>2, <2>3 DEF Injection, IsInjective
<1> QED
  BY <1>2, FS_Injection

LEMMA MarksUpTo ==
  ASSUME GapInv, pc # "down", NEW m \in LostMarks(cursor.instance)
  PROVE  NumberOf(m) <= cursor.seq
<1>1. /\ m[1] \in 1 .. Len(log) /\ log[m[1]].instance = cursor.instance
      /\ NumberOf(m) \in Nat /\ NumberOf(m) <= log[m[1]].seq
  BY LostMark
<1>2. FirstUpTo(log, Len(log), cursor) /\ log[m[1]] \in Rows /\ cursor.instance \in Nat /\ cursor.seq \in Nat
  BY <1>1, GapFacts, OrderFacts, StateFacts DEF StoreInv
<1>3. UpTo(CursorOf(log[m[1]]), cursor)
  BY <1>1, <1>2 DEF FirstUpTo
<1>4. log[m[1]].seq <= cursor.seq /\ log[m[1]].seq \in Nat
  BY <1>1, <1>2, <1>3, PointsOfRows DEF UpTo
<1> QED
  BY <1>1, <1>2, <1>4

LEMMA CountsReal ==
  ASSUME GapInv
  PROVE  GapsAreReal
<1> SUFFICES ASSUME pc = "idle", cursor.instance # 0
             PROVE  LostTold(cursor.instance)
                      <= Cardinality({s \in 1 .. cursor.seq : ~IsStored(cursor.instance, s)})
  BY DEF GapsAreReal
<1> DEFINE T == {s \in 1 .. cursor.seq : ~IsStored(cursor.instance, s)}
<1>1. cursor.seq \in Nat
  BY GapFacts, OrderFacts
<1>2. IsFiniteSet(T)
  <2>1. IsFiniteSet(1 .. cursor.seq) /\ T \in SUBSET (1 .. cursor.seq)
    BY <1>1, FS_Interval
  <2> HIDE DEF T
  <2> QED
    BY <2>1, FS_Subset
<1>3. ASSUME NEW m \in LostMarks(cursor.instance) PROVE NumberOf(m) \in T
  <2>1. NumberOf(m) \in Nat /\ NumberOf(m) >= 1 /\ NumberOf(m) <= cursor.seq
    BY LostMark, MarksUpTo
  <2>2. ~IsStored(cursor.instance, NumberOf(m))
    BY MarkNotStored
  <2> QED
    BY <2>1, <2>2, <1>1
<1> HIDE DEF T
<1>4. Cardinality(LostMarks(cursor.instance)) <= Cardinality(T)
  BY <1>2, <1>3, MarksCounted
<1> QED
  BY <1>4 DEF LostTold, T

\* Gap rows never count a record that is in the log, nor one record twice (store_page and
\* records of app/querylog.rs and the rows of pages pushed out whole).
THEOREM GapsCountOnlyLosses ==
  ASSUME EarlyRestarts = FALSE
  PROVE  Spec => []GapsAreReal
<1>1. GapInv => GapsAreReal
  BY CountsReal
<1> QED
  BY <1>1, GapInvariant, PTL

---------------------------------------------------------------------------
(* What the constants rule out never happens.                              *)

\* Nothing is too large, nothing fails.
Quiet ==
  /\ Oversized = {} => round.skipped = 0 /\ \A k \in 1 .. Len(flight) : flight[k].kind # "large"
  /\ MaxFaults = 0 => pc # "down" /\ \A k \in 1 .. Len(flight) : flight[k].kind # "failed"

\* Requests answered meanwhile are large only with an oversized record.
LEMMA AnswerIsQuiet ==
  ASSUME OrderInv, Answer, Oversized = {}, NEW n \in 1 .. Len(flight'), flight'[n].kind = "large"
  PROVE  n \in 1 .. Len(flight) /\ flight[n].kind = "large"
<1>1. flight \in Seq(Requests)
  BY OrderFacts, StateFacts
<1>2. PICK k \in 1 .. Len(flight), limited \in BOOLEAN :
        flight' = [flight EXCEPT ![k] =
          ReplyOf(flight[k], PageOf(flight[k], LowAfter(flight[k].instance,
            Smaller(flight[k].stored, flight[k].after)), limited))]
  BY DEF Answer
<1> DEFINE page == PageOf(flight[k], LowAfter(flight[k].instance,
                     Smaller(flight[k].stored, flight[k].after)), limited)
<1>3. ReplyOf(flight[k], page).kind = "page"
  <2>1. flight[k] \in Requests
    BY <1>1
  <2>2. DOMAIN flight[k] = {"after", "size", "instance", "stored", "full", "kind", "page"}
    BY <2>1 DEF Requests
  <2> HIDE DEF page
  <2> QED
    BY <2>2 DEF ReplyOf
<1> HIDE DEF page
<1>4. /\ Len(flight') = Len(flight) /\ n \in 1 .. Len(flight)
      /\ n # k => flight'[n] = flight[n]
      /\ n = k => flight'[n] = ReplyOf(flight[k], page)
  BY <1>1, <1>2 DEF page
<1> QED
  BY <1>3, <1>4

LEMMA NextKeepsQuiet ==
  ASSUME OrderInv, Quiet, [Next]_vars
  PROVE  Quiet'
<1>1. /\ flight \in Seq(Requests) /\ faults \in Nat /\ MaxFaults \in Nat /\ pc \in Pcs
      /\ round \in RoundType /\ stray \in Cursors /\ Len(flight) \in Nat /\ faults <= MaxFaults
      /\ batch \in BatchType
  BY OrderFacts, StateFacts, Bounds DEF CollectTyped, StoreTyped, KernelTyped
<1>2. flight' = <<>> \/ flight' = flight \/ flight' = Tail(flight) \/ AskAhead \/ AskNext
      \/ Answer \/ RequestFails
  <2>1. \A reqs \in Seq(Requests) : AbandonAll(reqs) => flight' = <<>>
    BY DEF AbandonAll
  <2>2. flight # <<>> => Tail(flight) \in Seq(Requests)
    BY <1>1
  <2>3. TakeTooLarge \/ TakeFailure \/ AppendFails \/ PanelEnds => flight' = <<>>
    BY <2>1, <1>1 DEF TakeTooLarge, TakeFailure, AppendFails, PanelEnds
  <2>4. TakeOverlap \/ TakeRestarted => flight' = <<>>
    BY <2>1, <2>2 DEF TakeOverlap, TakeRestarted, Arrived
  <2>5. WalkRestarted \/ WalkPage \/ WalkHalve \/ SkipFindsRestart \/ SkipOversized =>
          flight' = <<>>
    BY DEF WalkRestarted, WalkPage, WalkHalve, SkipFindsRestart, SkipOversized
  <2>6. TakeGone \/ TakePage => flight' = Tail(flight)
    BY DEF TakeGone, TakePage
  <2>7. BeginRound \/ EndParallel \/ EndWalk \/ AppendRows \/ Advance \/ SaveState \/ DropRows
        \/ PanelStarts \/ KernelRecord \/ KernelUntracked \/ KernelRestart \/ KernelForget
        \/ AnswerStray \/ UNCHANGED vars => flight' = flight
    BY DEF BeginRound, EndParallel, EndWalk, AppendRows, Advance, SaveState, DropRows,
       PanelStarts,
           KernelRecord, KernelUntracked, KernelRestart, KernelForget, AnswerStray, vars
  <2> QED
    BY <2>3, <2>4, <2>5, <2>6, <2>7 DEF Next, Collect, Parallel, Walk, Kernel, Fault
<1>3. ASSUME NEW n \in 1 .. Len(flight')
      PROVE  /\ Oversized = {} => flight'[n].kind # "large"
             /\ MaxFaults = 0 => flight'[n].kind # "failed"
  <2>1. CASE flight' = <<>> \/ flight' = flight
    BY <2>1 DEF Quiet
  <2>2. CASE flight' = Tail(flight)
    <3>1. n + 1 \in 1 .. Len(flight) /\ flight'[n] = flight[n + 1]
      BY <2>2, <1>1
    <3> QED
      BY <3>1 DEF Quiet
  <2>3. CASE AskAhead \/ AskNext
    <3>1. flight'[n].kind = "asked" \/ (n \in 1 .. Len(flight) /\ flight'[n] = flight[n])
      <4>1. CASE AskAhead
        <5>1. PICK full : flight' = Append(flight, Request(NextAfter, PageSize, at.instance, cursor.seq, full))
          BY <4>1 DEF AskAhead
        <5> DEFINE req == Request(NextAfter, PageSize, at.instance, cursor.seq, full)
        <5>2. req.kind = "asked"
          BY DEF Request
        <5> HIDE DEF req
        <5>3. CASE n = Len(flight) + 1
          BY <5>1, <5>2, <5>3, <1>1 DEF req
        <5>4. CASE n # Len(flight) + 1
          BY <5>1, <5>4, <1>1
        <5> QED
          BY <5>3, <5>4
      <4>2. CASE AskNext
        BY <4>2 DEF AskNext, Request
      <4> QED
        BY <2>3, <4>1, <4>2
    <3> QED
      BY <3>1 DEF Quiet
  <2>4. CASE Answer
    <3>1. Oversized = {} => flight'[n].kind # "large"
      BY <2>4, AnswerIsQuiet DEF Quiet
    <3>2. MaxFaults = 0 => flight'[n].kind # "failed"
      <4>1. n \in 1 .. Len(flight) /\ (flight'[n] = flight[n] \/ Answered(flight'[n]))
        BY <2>4, AnswerFacts
      <4> QED
        BY <4>1 DEF Answered, Quiet
    <3> QED
      BY <3>1, <3>2
  <2>5. CASE RequestFails
    <3>1. MaxFaults # 0
      BY <2>5, <1>1 DEF RequestFails
    <3>2. PICK k \in 1 .. Len(flight) : flight' = [flight EXCEPT ![k].kind = "failed"]
      BY <2>5 DEF RequestFails
    <3>3. n \in 1 .. Len(flight) /\ (n # k => flight'[n] = flight[n])
          /\ (n = k => flight'[n] = [flight[k] EXCEPT !.kind = "failed"])
      BY <3>2, <1>1
    <3>4. [flight[k] EXCEPT !.kind = "failed"].kind = "failed"
      BY <1>1 DEF Requests
    <3> QED
      BY <3>1, <3>3, <3>4 DEF Quiet
  <2> QED
    BY <1>2, <2>1, <2>2, <2>3, <2>4, <2>5
<1>4. MaxFaults = 0 => pc' # "down"
  <2> SUFFICES ASSUME MaxFaults = 0 PROVE pc' # "down"
    OBVIOUS
  <2>1. pc # "down" /\ ~PanelEnds
    BY <1>1 DEF Quiet, PanelEnds
  <2>2. Advance => pc' # "down"
    BY <1>1 DEF Advance, EndRound, BatchType
  <2>3. Kernel \/ SaveState \/ RequestFails \/ DropRows \/ AppendFails \/ UNCHANGED vars => pc' # "down"
    BY <2>1 DEF Kernel, KernelRecord, KernelUntracked, KernelRestart, KernelForget, Answer,
                AnswerStray, SaveState, RequestFails, DropRows, AppendFails, EndRound, collector, vars
  <2>4. Parallel => pc' # "down"
    BY <2>1 DEF Parallel, AskAhead, TakeTooLarge, TakeOverlap, TakeRestarted, TakeGone,
       TakePage,
                EndParallel, EndRound, collector
  <2>5. Walk => pc' # "down"
    BY <2>1 DEF Walk, AskNext, WalkRestarted, WalkPage, WalkHalve, SkipFindsRestart,
       SkipOversized,
                EndWalk, EndRound, collector
  <2>6. BeginRound \/ TakeFailure \/ AppendRows \/ PanelStarts => pc' # "down"
    BY DEF BeginRound, TakeFailure, AppendRows, PanelStarts, EndRound
  <2> QED
    BY <2>1, <2>2, <2>3, <2>4, <2>5, <2>6 DEF Next, Collect, Fault
<1>5. Oversized = {} => round'.skipped = 0
  <2> SUFFICES ASSUME Oversized = {} PROVE round'.skipped = 0
    OBVIOUS
  <2>1. round.skipped = 0 /\ ~SkipOversized
    <3>1. SkipOversized => flight # <<>> /\ First.kind = "large"
      BY DEF SkipOversized, TooLargeAlone, Arrived
    <3>2. flight # <<>> => 1 \in 1 .. Len(flight)
      BY <1>1
    <3> QED
      BY <3>1, <3>2 DEF Quiet, First
  <2>2. round \in RoundType /\ NewRound.skipped = 0
    BY <1>1, RoundFacts
  <2>3. CASE Kernel \/ SaveState \/ RequestFails \/ DropRows \/ UNCHANGED vars \/ AppendRows
             \/ PanelStarts \/ AskNext \/ TakeOverlap
    <3>1. round' = round
      BY <2>3 DEF Kernel, KernelRecord, KernelUntracked, KernelRestart, KernelForget, Answer,
                  AskNext, TakeOverlap, AnswerStray, SaveState, RequestFails, DropRows,
                  AppendRows, PanelStarts, collector, vars
    <3> QED
      BY <3>1, <2>1
  <2>4. CASE AppendFails \/ PanelEnds \/ BeginRound \/ TakeFailure \/ TakeTooLarge
    <3>1. round' = NewRound
      BY <2>4 DEF AppendFails, PanelEnds, BeginRound, TakeFailure, TakeTooLarge, EndRound
    <3> QED
      BY <3>1, <2>2
  <2>5. CASE Advance
    <3>1. round' = round \/ round' = NewRound
      BY <2>5 DEF Advance, EndRound
    <3> QED
      BY <3>1, <2>1, <2>2
  <2>6. CASE AskAhead \/ WalkHalve \/ TakeGone \/ TakeRestarted
    BY <2>1, <2>2, <2>6 DEF AskAhead, WalkHalve, TakeGone, TakeRestarted, RoundType
  <2>7. CASE TakePage
    BY <2>1, <2>2, <2>7 DEF TakePage, RoundType
  <2>8. CASE EndParallel \/ EndWalk
    BY <2>1, <2>2, <2>8 DEF EndParallel, EndWalk, EndRound, RoundType
  <2>9. CASE WalkRestarted \/ SkipFindsRestart
    BY <2>1, <2>2, <2>9 DEF WalkRestarted, SkipFindsRestart, RoundType
  <2>10. CASE WalkPage
    BY <2>1, <2>2, <2>10 DEF WalkPage, RoundType
  <2> QED
    BY <2>1, <2>3, <2>4, <2>5, <2>6, <2>7, <2>8, <2>9, <2>10
       DEF Next, Collect, Parallel, Walk, Fault
<1> QED
  BY <1>3, <1>4, <1>5 DEF Quiet

---------------------------------------------------------------------------
(* Nothing is passed silently.                                             *)

\* The state file's cursor is behind the cursor and behind the rows written after it.
SavedBehind ==
  /\ pc # "down" => UpTo(saved.cursor, cursor)
  /\ \A k \in saved.rows + 1 .. Len(log) : UpTo(saved.cursor, CursorOf(log[k]))

\* What a number a cursor has passed may be: stored, of an ignored domain, or one of those
\* a gap row counts, which end at its own number.
InGap(row, i, s) == row.instance = i /\ row.seq - row.lost < s /\ s <= row.seq
Found(rows, i, s) ==
  \/ s \in Ignored
  \/ \E k \in 1 .. Len(rows) : rows[k] = Entry(i, s) \/ InGap(rows[k], i, s)

\* Every number after `from` and up to `upto` is one of these.
Known(from, rows, i, upto) == i # 0 => \A s \in from + 1 .. upto : Found(rows, i, s)

\* What the cursors, the rows and the rows being written have passed since the panel began.
\* A row tells of the records skipped before it only when it is written.
CursorTold ==
  pc # "write" \/ Oversized = {} =>
    Known(since[cursor.instance], log, cursor.instance, cursor.seq - Skips)
SavedTold ==
  Oversized = {} =>
    Known(since[saved.cursor.instance], log, saved.cursor.instance, saved.cursor.seq)
RowsTold ==
  \A k \in 1 .. Len(log) : Known(since[log[k].instance], log, log[k].instance, log[k].seq)
WriteTold ==
  pc = "write" =>
    /\ \A k \in 1 .. Len(batch.rows) :
         Known(since[batch.next.instance], log \o SubSeq(batch.rows, 1, k),
               batch.next.instance, batch.rows[k].seq)
    /\ Known(since[batch.next.instance], log \o batch.rows, batch.next.instance, batch.next.seq)
NextTold ==
  pc = "advance" =>
    Known(since[batch.next.instance], log, batch.next.instance, batch.next.seq)

AllTold   == CursorTold /\ SavedTold /\ RowsTold /\ WriteTold /\ NextTold
GroundInv == GapInv /\ Quiet /\ SavedBehind
LossInv   == GroundInv /\ AllTold

LEMMA LossFacts ==
  ASSUME LossInv
  PROVE  /\ GapInv /\ Quiet /\ SavedBehind /\ OrderInv /\ TypeOK
         /\ CursorTold /\ SavedTold /\ RowsTold /\ WriteTold /\ NextTold
         /\ cursor \in Points /\ saved.cursor \in Points /\ log \in Seq(Rows) /\ pc \in Pcs
         /\ batch.rows \in Seq(Rows)
BY GapFacts, OrderFacts, StateFacts, CursorsArePoints
   DEF LossInv, GroundInv, AllTold, CollectTyped

LEMMA KnownLess ==
  ASSUME NEW from \in Int, NEW rows, NEW i, NEW upto \in Int, NEW less \in Int, less <= upto,
         Known(from, rows, i, upto)
  PROVE  Known(from, rows, i, less)
<1> SUFFICES ASSUME i # 0, NEW s \in from + 1 .. less PROVE Found(rows, i, s)
  BY DEF Known
<1>1. s \in from + 1 .. upto
  OBVIOUS
<1> QED
  BY <1>1 DEF Known

LEMMA KnownMore ==
  ASSUME NEW from, NEW rows, NEW more, NEW i, NEW upto, Known(from, rows, i, upto),
         \A k \in 1 .. Len(rows) : \E n \in 1 .. Len(more) : more[n] = rows[k]
  PROVE  Known(from, more, i, upto)
BY DEF Known, Found

LEMMA KnownAppended ==
  ASSUME NEW from, NEW a \in Seq(Rows), NEW b \in Seq(Rows), NEW i, NEW upto,
         Known(from, a, i, upto)
  PROVE  Known(from, a \o b, i, upto)
<1>1. \A k \in 1 .. Len(a) : k \in 1 .. Len(a \o b) /\ (a \o b)[k] = a[k]
  BY ConcatRows
<1> QED
  BY <1>1, KnownMore

\* The rows before are among those of a longer first part.
LEMMA KnownFirst ==
  ASSUME NEW from, NEW a \in Seq(Rows), NEW b \in Seq(Rows), NEW i, NEW upto,
         NEW m \in 0 .. Len(b), NEW n \in 0 .. Len(b), m <= n,
         Known(from, a \o SubSeq(b, 1, m), i, upto)
  PROVE  Known(from, a \o SubSeq(b, 1, n), i, upto)
<1> DEFINE p == SubSeq(b, 1, m)  q == SubSeq(b, 1, n)  x == a \o p  y == a \o q
<1>1. /\ p \in Seq(Rows) /\ Len(p) = m /\ \A k \in 1 .. m : p[k] = b[k]
      /\ q \in Seq(Rows) /\ Len(q) = n /\ \A k \in 1 .. n : q[k] = b[k]
  BY FirstRows
<1> HIDE DEF p, q
<1>2. /\ Len(a) \in Nat /\ Len(x) = Len(a) + m /\ Len(y) = Len(a) + n
      /\ \A k \in 1 .. Len(a) : x[k] = a[k] /\ y[k] = a[k]
      /\ \A k \in 1 .. m : x[Len(a) + k] = p[k]
      /\ \A k \in 1 .. n : y[Len(a) + k] = q[k]
      /\ \A k \in 1 .. Len(x) : k \in 1 .. Len(a) \/ \E j \in 1 .. m : k = Len(a) + j
  BY <1>1, ConcatRows
<1> HIDE DEF x, y
<1>3. ASSUME NEW k \in 1 .. Len(x) PROVE \E j \in 1 .. Len(y) : y[j] = x[k]
  <2>1. CASE k \in 1 .. Len(a)
    BY <2>1, <1>2
  <2>2. CASE \E j \in 1 .. m : k = Len(a) + j
    <3>1. PICK j \in 1 .. m : k = Len(a) + j
      BY <2>2
    <3>2. j \in 1 .. n /\ Len(a) + j \in 1 .. Len(y)
      BY <1>2
    <3>3. x[k] = b[j]
      BY <3>1, <1>1, <1>2
    <3>4. y[Len(a) + j] = b[j]
      BY <3>2, <1>1, <1>2
    <3> QED
      BY <3>2, <3>3, <3>4
  <2> QED
    BY <2>1, <2>2, <1>2
<1>4. Known(from, x, i, upto)
  BY DEF x, p
<1>5. Known(from, y, i, upto)
  BY <1>3, <1>4, KnownMore
<1> QED
  BY <1>5 DEF y, q

\* The state file stays behind.
LEMMA SavedKept ==
  ASSUME OrderInv, OrderInv', SavedBehind, UNCHANGED <<log, saved>>, pc # "down",
         UpTo(cursor, cursor')
  PROVE  SavedBehind'
<1>1. saved.cursor \in Points /\ cursor \in Points /\ cursor' \in Points
  <2>1. TypeOK /\ TypeOK'
    BY DEF OrderInv
  <2>2. cursor' \in Cursors
    BY <2>1, TypePartsAfter DEF StoreTyped, TypeOK
  <2> QED
    BY <2>1, <2>2, StateFacts, CursorsArePoints
<1>2. UpTo(saved.cursor, cursor')
  BY <1>1, UpToChain DEF SavedBehind
<1> QED
  BY <1>2 DEF SavedBehind

\* A round that starts over does so for a process after the cursor's.
LEMMA StartedOver ==
  ASSUME OrderInv, TakeRestarted \/ WalkRestarted \/ SkipFindsRestart
  PROVE  /\ StartOver(kernel.instance) /\ cursor.instance < kernel.instance
         /\ kernel.instance \in 1 .. MaxInstance /\ pc \in {"parallel", "walk"} /\ pc' = pc
         /\ UNCHANGED <<kernel, log, cleared, saved>>
<1>1. /\ TypeOK /\ PlaceInv /\ kernel.instance \in Nat /\ cursor.instance \in Nat
      /\ kernel.instance \in 1 .. MaxInstance /\ cursor.instance <= kernel.instance
  BY OrderFacts
<1>2. CASE TakeRestarted
  <2>1. pc = "parallel" /\ flight # <<>> /\ First.kind = "page" /\ First.after = at.seq
        /\ Restarted(First.page) /\ at.seq # 0 /\ pc' = pc /\ StartOver(First.page.instance)
        /\ kernel' = kernel
    BY <1>2 DEF TakeRestarted, Arrived
  <2>2. First.page.instance = kernel.instance /\ cursor.instance < First.page.instance
    BY <2>1, RestartIsNew
  <2>3. UNCHANGED <<log, cleared, saved>>
    BY <2>1 DEF StartOver
  <2> QED
    BY <2>1, <2>2, <2>3, <1>1
<1>3. CASE WalkRestarted
  <2>1. pc = "walk" /\ flight # <<>> /\ First.kind = "page" /\ First.after # 0
        /\ Restarted(First.page) /\ pc' = pc /\ StartOver(First.page.instance) /\ kernel' = kernel
    BY <1>3 DEF WalkRestarted, Arrived
  <2>2. First.page.instance = kernel.instance /\ cursor.instance < First.page.instance
    BY <2>1, NextPages, RestartIsNew
  <2>3. UNCHANGED <<log, cleared, saved>>
    BY <2>1 DEF StartOver
  <2> QED
    BY <2>1, <2>2, <2>3, <1>1
<1>4. CASE SkipFindsRestart
  <2>1. pc = "walk" /\ at.instance # kernel.instance /\ pc' = pc /\ StartOver(kernel.instance)
        /\ kernel' = kernel
    BY <1>4 DEF SkipFindsRestart, TooLargeAlone
  <2>2. at = cursor
    BY <2>1, <1>1 DEF PlaceInv
  <2>3. UNCHANGED <<log, cleared, saved>>
    BY <2>1 DEF StartOver
  <2> QED
    BY <2>1, <2>2, <2>3, <1>1
<1> QED
  BY <1>2, <1>3, <1>4

\* The rows are in the log and the cursor is the last one's.
LEMMA Appended ==
  ASSUME OrderInv, AppendRows
  PROVE  /\ pc = "write" /\ pc' = "advance" /\ log' = log \o batch.rows
         /\ UNCHANGED <<kernel, round, batch, saved, since>> /\ batch.rows \in Seq(Rows)
         /\ UpTo(cursor, cursor') /\ UpTo(cursor, batch.next) /\ Len(batch.rows) \in Nat
         /\ batch.rows = <<>> => cursor' = cursor
         /\ batch.rows # <<>> =>
              Len(batch.rows) \in 1 .. Len(batch.rows)
              /\ cursor' = CursorOf(batch.rows[Len(batch.rows)])
         /\ \A k \in 1 .. Len(batch.rows) :
              /\ batch.rows[k] \in Rows /\ batch.rows[k].instance = batch.next.instance
              /\ UpTo(cursor, CursorOf(batch.rows[k]))
         /\ batch.next.instance # cursor.instance => cursor.seq = 0
<1> DEFINE n == Len(batch.rows)
<1>1. TypeOK /\ BatchInv /\ batch.rows \in Seq(Rows) /\ cursor \in Cursors /\ n \in Nat
  BY OrderFacts, StateFacts
<1>2. /\ pc = "write" /\ pc' = "advance" /\ log' = log \o batch.rows
      /\ cursor' = IF batch.rows = <<>> THEN cursor ELSE CursorOf(batch.rows[n])
      /\ UNCHANGED <<kernel, round, batch, saved, since>>
  BY DEF AppendRows
<1>3. /\ UpTo(cursor, batch.next)
      /\ \A k \in 1 .. n :
           /\ batch.rows[k].instance = batch.next.instance
           /\ UpTo(cursor, CursorOf(batch.rows[k]))
      /\ batch.next.instance # cursor.instance => cursor.seq = 0
  BY <1>1, <1>2 DEF BatchInv
<1>4. batch.rows # <<>> => n \in 1 .. n
  BY <1>1
<1>5. \A k \in 1 .. n : batch.rows[k] \in Rows
  BY <1>1
<1>6. UpTo(cursor, cursor')
  <2>1. CASE batch.rows = <<>>
    BY <2>1, <1>1, <1>2, PointFacts DEF UpTo
  <2>2. CASE batch.rows # <<>>
    BY <2>2, <1>2, <1>3, <1>4
  <2> QED
    BY <2>1, <2>2
<1> QED
  BY <1>1, <1>2, <1>3, <1>4, <1>5, <1>6

LEMMA Advanced ==
  ASSUME OrderInv, Advance
  PROVE  /\ pc = "advance" /\ cursor' = batch.next /\ pc' \in {"idle", "parallel", "walk"}
         /\ UNCHANGED <<kernel, log, saved, since>> /\ UpTo(cursor, batch.next)
         /\ (round' = round \/ round' = NewRound)
<1>1. TypeOK /\ BatchInv /\ batch \in BatchType
  BY OrderFacts, StateFacts DEF CollectTyped
<1>2. /\ pc = "advance" /\ cursor' = batch.next /\ UNCHANGED <<kernel, log, saved, since>>
      /\ IF batch.back = "idle" THEN EndRound
         ELSE pc' = batch.back /\ at' = batch.next /\ UNCHANGED round
  BY DEF Advance
<1>3. batch.back \in {"idle", "parallel", "walk"} /\ UpTo(cursor, batch.next)
  BY <1>1, <1>2 DEF BatchInv, BatchType
<1> QED
  BY <1>2, <1>3 DEF EndRound

\* The rows of a write that is cut, or of one that is not.
LEMMA RowsCut ==
  ASSUME OrderInv, PanelEnds
  PROVE  /\ MaxFaults # 0 /\ pc # "down" /\ pc' = "down" /\ cursor' = NoCursor
         /\ UNCHANGED <<kernel, saved, since>>
         /\ \/ log' = log
            \/ pc = "write" /\ \E n \in 0 .. Len(batch.rows) : log' = log \o SubSeq(batch.rows, 1, n)
<1>1. faults \in Nat /\ MaxFaults \in Nat /\ log \in Seq(Rows) /\ batch.rows \in Seq(Rows)
  BY OrderFacts, StateFacts, Bounds DEF StoreTyped
<1>2. /\ faults < MaxFaults /\ pc # "down" /\ pc' = "down" /\ cursor' = NoCursor
      /\ UNCHANGED <<kernel, saved, since>>
  BY DEF PanelEnds
<1>3. PICK n \in 0 .. (IF pc = "write" THEN Len(batch.rows) ELSE 0) :
        log' = log \o SubSeq(batch.rows, 1, n)
  BY DEF PanelEnds
<1>4. pc # "write" => log' = log
  <2>1. pc # "write" => n = 0
    OBVIOUS
  <2> QED
    BY <2>1, <1>1, <1>3, NoMoreRows
<1>5. pc = "write" => \E k \in 0 .. Len(batch.rows) : log' = log \o SubSeq(batch.rows, 1, k)
  BY <1>3
<1>6. MaxFaults # 0
  BY <1>1, <1>2
<1> QED
  BY <1>2, <1>4, <1>5, <1>6

\* What a restart finds is no further back than the state file.
LEMMA Reopening ==
  ASSUME OrderInv, SavedBehind
  PROVE  /\ Reopened \in Points /\ UpTo(saved.cursor, Reopened)
         /\ Reopened = saved.cursor \/ \E k \in 1 .. Len(log) : Reopened = CursorOf(log[k])
<1>1. /\ Reopened \in Cursors
      /\ Reopened = saved.cursor \/ \E k \in 1 .. Len(log) : Reopened = CursorOf(log[k])
  BY ReopenedFacts
<1>2. /\ saved.cursor \in Cursors /\ saved.rows \in 0 .. Len(log) /\ Len(log) \in Nat
      /\ cleared \in Nat /\ cleared <= saved.rows
  BY OrderFacts, StateFacts DEF StoreInv
<1>3. CASE saved.rows < Len(log)
  <2>1. Len(log) \in saved.rows + 1 .. Len(log) /\ Len(log) > cleared
    BY <1>2, <1>3
  <2>2. Reopened = CursorOf(log[Len(log)])
    BY <2>1, <1>2, <1>3 DEF Reopened
  <2> QED
    BY <2>1, <2>2, <1>1, CursorsArePoints DEF SavedBehind
<1>4. CASE ~(saved.rows < Len(log))
  <2>1. Reopened = saved.cursor
    BY <1>2, <1>4 DEF Reopened
  <2>2. UpTo(saved.cursor, saved.cursor)
    BY <1>2, PointFacts DEF UpTo
  <2> QED
    BY <2>1, <2>2, <1>1, CursorsArePoints
<1> QED
  BY <1>3, <1>4

LEMMA SaveMoves ==
  ASSUME OrderInv, SaveState \/ DropRows
  PROVE  /\ pc # "down" /\ saved' = StateNow
         /\ UNCHANGED <<kernel, flight, pc, at, round, batch, cursor, log, since>>
BY DEF SaveState, DropRows, collector

\* ... over every step.
LEMMA NextKeepsSaved ==
  ASSUME OrderInv, OrderInv', SavedBehind, [Next]_vars
  PROVE  SavedBehind'
<1>1. /\ TypeOK /\ cursor \in Cursors /\ saved.cursor \in Cursors /\ log \in Seq(Rows)
      /\ cursor \in Points /\ saved.cursor \in Points /\ Len(log) \in Nat
      /\ UpTo(cursor, cursor) /\ saved.rows \in 0 .. Len(log)
  <2>1. TypeOK /\ cursor \in Cursors /\ saved.cursor \in Cursors /\ log \in Seq(Rows)
        /\ saved.rows \in 0 .. Len(log) /\ Len(log) \in Nat
    BY OrderFacts, StateFacts
  <2>2. UpTo(cursor, cursor)
    BY <2>1, PointFacts DEF UpTo
  <2> QED
    BY <2>1, <2>2, CursorsArePoints
<1>2. CASE UNCHANGED <<pc, cursor, log, saved>>
  BY <1>2 DEF SavedBehind
<1>3. CASE SaveState \/ DropRows
  <2>1. saved'.cursor = cursor /\ saved'.rows = Len(log) /\ UNCHANGED <<cursor, log>>
    BY <1>3, SaveMoves DEF StateNow
  <2> QED
    BY <2>1, <1>1 DEF SavedBehind
<1>4. CASE AppendFails
  <2>1. pc = "write" /\ saved' \in {saved, StateNow} /\ UNCHANGED <<cursor, log>>
    BY <1>4 DEF AppendFails
  <2>2. CASE saved' = saved
    BY <2>1, <2>2 DEF SavedBehind
  <2>3. CASE saved' = StateNow
    <3>1. saved'.cursor = cursor /\ saved'.rows = Len(log)
      BY <2>3 DEF StateNow
    <3> QED
      BY <3>1, <2>1, <1>1 DEF SavedBehind
  <2> QED
    BY <2>1, <2>2, <2>3
<1>5. CASE \/ BeginRound \/ TakeFailure
           \/ Parallel /\ ~TakeRestarted
           \/ Walk /\ ~WalkRestarted /\ ~SkipFindsRestart /\ ~SkipOversized
  <2>1. UNCHANGED <<cursor, log, saved>> /\ pc # "down"
    BY <1>5 DEF BeginRound, TakeFailure, Parallel, AskAhead, TakeTooLarge, TakeOverlap, TakeGone,
                TakePage, InOrder, EndParallel, Walk, AskNext, WalkPage, WalkHalve, EndWalk, store
  <2> QED
    BY <2>1, <1>1, SavedKept
<1>6. CASE TakeRestarted \/ WalkRestarted \/ SkipFindsRestart
  <2>1. StartOver(kernel.instance) /\ cursor.instance < kernel.instance /\ pc # "down"
        /\ UNCHANGED <<log, saved>>
    BY <1>6, StartedOver
  <2>2. UpTo(cursor, cursor')
    BY <2>1 DEF StartOver, UpTo
  <2> QED
    BY <2>1, <2>2, SavedKept
<1>7. CASE SkipOversized
  <2>1. TooLargeAlone /\ pc = "walk" /\ UNCHANGED <<log, saved>>
        /\ (round.skipped = 0 /\ at.instance # 0 => at.instance = kernel.instance)
    BY <1>7 DEF SkipOversized, TooLargeAlone
  <2>2. UpTo(cursor, cursor')
    BY <2>1, <1>7, SkippedRecord DEF SkipOversized
  <2> QED
    BY <2>1, <2>2, SavedKept
<1>8. CASE Advance
  <2>1. UpTo(cursor, cursor') /\ pc # "down" /\ UNCHANGED <<log, saved>>
    BY <1>8, Advanced
  <2> QED
    BY <2>1, SavedKept
<1>9. ASSUME NEW n \in 0 .. Len(batch.rows), pc = "write", saved' = saved,
             log' = log \o SubSeq(batch.rows, 1, n)
      PROVE  \A k \in saved.rows + 1 .. Len(log') : UpTo(saved.cursor, CursorOf(log'[k]))
  <2> DEFINE part == SubSeq(batch.rows, 1, n)
  <2>1. /\ part \in Seq(Rows) /\ Len(part) = n /\ BatchInv
        /\ \A k \in 1 .. n : part[k] = batch.rows[k] /\ k \in 1 .. Len(batch.rows)
    <3>1. batch.rows \in Seq(Rows) /\ BatchInv
      BY OrderFacts, StateFacts
    <3> QED
      BY <3>1, FirstRows
  <2> HIDE DEF part
  <2>2. log' = log \o part
    BY <1>9 DEF part
  <2>3. /\ \A k \in 1 .. Len(log) : log'[k] = log[k]
        /\ \A k \in 1 .. n : log'[Len(log) + k] = part[k]
        /\ \A k \in 1 .. Len(log') : k \in 1 .. Len(log) \/ \E j \in 1 .. n : k = Len(log) + j
        /\ Len(log') \in Nat
    BY <2>1, <2>2, <1>1, ConcatRows
  <2> TAKE k \in saved.rows + 1 .. Len(log')
  <2>4. k \in 1 .. Len(log')
    BY <1>1, <2>3
  <2>5. CASE k \in 1 .. Len(log)
    <3>1. k \in saved.rows + 1 .. Len(log)
      BY <2>5, <1>1
    <3> QED
      BY <3>1, <2>3, <2>5 DEF SavedBehind
  <2>6. CASE \E j \in 1 .. n : k = Len(log) + j
    <3>1. PICK j \in 1 .. n : k = Len(log) + j
      BY <2>6
    <3>2. log'[k] = batch.rows[j] /\ j \in 1 .. Len(batch.rows)
      BY <3>1, <2>1, <2>3
    <3>3. UpTo(cursor, CursorOf(batch.rows[j])) /\ CursorOf(batch.rows[j]) \in Points
      <4>1. batch.rows[j] \in Rows
        BY <3>2, OrderFacts, StateFacts
      <4> QED
        BY <4>1, <3>2, <1>9, <2>1, PointsOfRows DEF BatchInv
    <3>4. UpTo(saved.cursor, cursor)
      BY <1>9 DEF SavedBehind
    <3> QED
      BY <3>2, <3>3, <3>4, <1>1, UpToChain
  <2> QED
    BY <2>4, <2>5, <2>6, <2>3
<1>10. CASE AppendRows
  <2>1. /\ pc = "write" /\ log' = log \o batch.rows /\ saved' = saved /\ UpTo(cursor, cursor')
        /\ batch.rows \in Seq(Rows) /\ Len(batch.rows) \in 0 .. Len(batch.rows)
    BY <1>10, Appended
  <2>2. log' = log \o SubSeq(batch.rows, 1, Len(batch.rows))
    BY <2>1, AllRows
  <2>3. cursor' \in Points
    <3>1. TypeOK'
      BY DEF OrderInv
    <3>2. cursor' \in Cursors
      BY <3>1 DEF TypeOK
    <3> QED
      BY <3>2, CursorsArePoints
  <2>4. UpTo(saved.cursor, cursor')
    BY <2>1, <2>3, <1>1, UpToChain DEF SavedBehind
  <2>5. \A k \in saved.rows + 1 .. Len(log') : UpTo(saved.cursor, CursorOf(log'[k]))
    BY <2>1, <2>2, <1>9
  <2> QED
    BY <2>1, <2>4, <2>5 DEF SavedBehind
<1>11. CASE PanelEnds
  <2>1. pc' = "down" /\ saved' = saved
        /\ \/ log' = log
           \/ pc = "write" /\ \E n \in 0 .. Len(batch.rows) : log' = log \o SubSeq(batch.rows, 1, n)
    BY <1>11, RowsCut
  <2> QED
    BY <2>1, <1>9 DEF SavedBehind
<1>12. CASE PanelStarts
  <2>1. cursor' = Reopened /\ UNCHANGED <<log, saved>>
    BY <1>12 DEF PanelStarts
  <2> QED
    BY <2>1, Reopening DEF SavedBehind
<1>13. Kernel \/ RequestFails \/ UNCHANGED vars => UNCHANGED <<pc, cursor, log, saved>>
  BY DEF Kernel, KernelRecord, KernelUntracked, KernelRestart, KernelForget, Answer, AnswerStray,
         RequestFails, collector, store, vars
<1> QED
  BY <1>2, <1>3, <1>4, <1>5, <1>6, <1>7, <1>8, <1>10, <1>11, <1>12, <1>13
     DEF Next, Collect, Parallel, Walk, Fault

---------------------------------------------------------------------------
(* What was told stays told.                                               *)

LEMMA Skipped ==
  ASSUME GroundInv
  PROVE  /\ Skips \in Nat /\ (Oversized = {} => Skips = 0) /\ (pc # "walk" => Skips = 0)
         /\ (round.skipped = 0 => Skips = 0) /\ (pc = "walk" /\ round.counts => Skips = round.skipped)
         /\ (~round.counts => Skips = 0)
<1>1. round.skipped \in Nat /\ Quiet
  <2>1. round \in RoundType
    BY GapFacts, OrderFacts, StateFacts DEF GroundInv
  <2> QED
    BY <2>1 DEF RoundType, GroundInv
<1> QED
  BY <1>1 DEF Skips, Quiet

\* What the panel began after changes only for a process after the cursor's.
SinceGoesOn ==
  \/ since' = since
  \/ pc # "down" /\ \E i \in Nat, n \in Nat : cursor.instance < i /\ since' = [since EXCEPT ![i] = n]

LEMMA SinceKept ==
  ASSUME LossInv, SinceGoesOn
  PROVE  /\ cursor.instance # 0 => since'[cursor.instance] = since[cursor.instance]
         /\ saved.cursor.instance # 0 => since'[saved.cursor.instance] = since[saved.cursor.instance]
         /\ \A k \in 1 .. Len(log) : since'[log[k].instance] = since[log[k].instance]
<1>1. /\ since \in [1 .. MaxInstance -> Seqs] /\ MaxInstance \in Nat /\ cursor \in Cursors
      /\ saved.cursor \in Cursors /\ StoreInv /\ SavedBehind
      /\ \A k \in 1 .. Len(log) : log[k] \in Rows
  BY LossFacts, OrderFacts, StateFacts, Bounds DEF StoreTyped
<1>2. CASE since' = since
  BY <1>2
<1>3. CASE since' # since
  <2>1. PICK i \in Nat, n \in Nat : cursor.instance < i /\ since' = [since EXCEPT ![i] = n]
    BY <1>3 DEF SinceGoesOn
  <2>2. pc # "down"
    BY <1>3 DEF SinceGoesOn
  <2>3. /\ cursor.instance \in 0 .. MaxInstance /\ saved.cursor.instance \in 0 .. MaxInstance
        /\ cursor.instance # i /\ saved.cursor.instance # i
    <3>1. /\ cursor.instance \in Nat /\ cursor.instance <= MaxInstance
          /\ saved.cursor.instance \in Nat /\ saved.cursor.instance <= MaxInstance
      BY <1>1, PointFacts
    <3>2. saved.cursor.instance <= cursor.instance
      BY <3>1, <2>2, <1>1 DEF SavedBehind, UpTo
    <3> QED
      BY <3>1, <3>2, <2>1, <1>1
  <2>4. ASSUME NEW k \in 1 .. Len(log)
        PROVE  log[k].instance \in 1 .. MaxInstance /\ log[k].instance # i
    <3>1. /\ log[k] \in Rows /\ log[k].instance # 0 /\ UpTo(CursorOf(log[k]), cursor)
      BY <2>2, <1>1 DEF StoreInv, Genuine, FirstUpTo
    <3>2. log[k].instance \in Nat /\ CursorOf(log[k]).instance = log[k].instance
          /\ cursor.instance \in Nat /\ cursor.instance <= MaxInstance
      BY <3>1, <1>1, PointsOfRows, PointFacts
    <3>3. log[k].instance <= cursor.instance
      BY <3>1, <3>2 DEF UpTo
    <3> QED
      BY <3>1, <3>2, <3>3, <2>1, <1>1
  <2>5. \A j \in 1 .. MaxInstance : j # i => since'[j] = since[j]
    BY <2>1, <1>1
  <2> QED
    BY <2>3, <2>4, <2>5, <1>1
<1> QED
  BY <1>2, <1>3

\* Known up to a number, known up to a smaller one.
LEMMA KnownSince ==
  ASSUME TypeOK, NEW rows, NEW i \in Instances, NEW upto \in Int, NEW less \in Int, less <= upto,
         Known(since[i], rows, i, upto)
  PROVE  Known(since[i], rows, i, less)
<1>1. CASE i = 0
  BY <1>1 DEF Known
<1>2. CASE i # 0
  <2>1. since[i] \in Int
    BY <1>2, StateFacts, SeqsAreNumbers DEF StoreTyped
  <2> QED
    BY <2>1, KnownLess
<1> QED
  BY <1>1, <1>2

\* The cursor is told in full while nothing skipped waits for its row.
LEMMA ToldInFull ==
  ASSUME LossInv, pc # "write" \/ Oversized = {}, Skips = 0 \/ Oversized = {}
  PROVE  Known(since[cursor.instance], log, cursor.instance, cursor.seq)
<1>1. Skips = 0 /\ cursor.seq \in Nat
  BY LossFacts, Skipped, OrderFacts DEF LossInv
<1>2. cursor.seq - Skips = cursor.seq
  BY <1>1
<1>3. Known(since[cursor.instance], log, cursor.instance, cursor.seq - Skips)
  BY LossFacts DEF CursorTold
<1> QED
  BY <1>2, <1>3

LEMMA StoreTold ==
  ASSUME LossInv, log' = log, SinceGoesOn,
         \/ saved'.cursor = saved.cursor
         \/ saved'.cursor = cursor
  PROVE  SavedTold' /\ RowsTold'
<1>1. RowsTold'
  <2>1. \A k \in 1 .. Len(log) : Known(since[log[k].instance], log, log[k].instance, log[k].seq)
    BY LossFacts DEF RowsTold
  <2>2. \A k \in 1 .. Len(log) : since'[log[k].instance] = since[log[k].instance]
    BY SinceKept
  <2> QED
    BY <2>1, <2>2 DEF RowsTold, Known, Found
<1>2. SavedTold'
  <2> SUFFICES ASSUME Oversized = {}
               PROVE  Known(since'[saved'.cursor.instance], log', saved'.cursor.instance, saved'.cursor.seq)
    BY DEF SavedTold, Known, Found
  <2>1. CASE saved'.cursor = saved.cursor
    <3>1. Known(since[saved.cursor.instance], log, saved.cursor.instance, saved.cursor.seq)
      BY LossFacts DEF SavedTold
    <3>2. saved.cursor.instance # 0 => since'[saved.cursor.instance] = since[saved.cursor.instance]
      BY SinceKept
    <3> QED
      BY <2>1, <3>1, <3>2 DEF Known
  <2>2. CASE saved'.cursor = cursor
    <3>1. Known(since[cursor.instance], log, cursor.instance, cursor.seq)
      BY ToldInFull
    <3>2. cursor.instance # 0 => since'[cursor.instance] = since[cursor.instance]
      BY SinceKept
    <3> QED
      BY <2>2, <3>1, <3>2 DEF Known
  <2> QED
    BY <2>1, <2>2
<1> QED
  BY <1>1, <1>2

LEMMA CursorStays ==
  ASSUME LossInv, GroundInv', log' = log, cursor' = cursor, SinceGoesOn,
         pc # "write" \/ Oversized = {}, Skips = 0 \/ Skips' = Skips \/ Oversized = {}
  PROVE  CursorTold'
<1>1. Skips \in Nat /\ Skips' \in Nat /\ cursor.seq \in Nat /\ cursor.instance \in Instances /\ TypeOK
  <2>1. Skips' \in Nat
    <3>1. round' \in RoundType
      BY TypePartsAfter DEF GroundInv, GapInv, OrderInv, CollectTyped
    <3> QED
      BY <3>1 DEF Skips, RoundType
  <2> QED
    BY <2>1, LossFacts, Skipped, OrderFacts, StateFacts, PointFacts DEF LossInv
<1>2. Known(since[cursor.instance], log, cursor.instance, cursor.seq - Skips')
  <2>1. CASE Skips' = Skips
    BY <2>1, LossFacts DEF CursorTold
  <2>2. CASE Skips' # Skips
    <3>1. Known(since[cursor.instance], log, cursor.instance, cursor.seq)
      BY <2>2, ToldInFull
    <3>2. cursor.seq - Skips' <= cursor.seq /\ cursor.seq - Skips' \in Int /\ cursor.seq \in Int
      BY <1>1
    <3> QED
      BY <3>1, <3>2, <1>1, KnownSince
  <2> QED
    BY <2>1, <2>2
<1>3. cursor.instance # 0 => since'[cursor.instance] = since[cursor.instance]
  BY SinceKept
<1>4. cursor'.seq - Skips' = cursor.seq - Skips' /\ cursor'.instance = cursor.instance
  OBVIOUS
<1>5. Known(since'[cursor.instance], log', cursor.instance, cursor.seq - Skips')
  BY <1>2, <1>3 DEF Known
<1> QED
  BY <1>4, <1>5 DEF CursorTold, Known, Found

LEMMA NotWriting ==
  ASSUME pc' \notin {"write", "advance"}
  PROVE  WriteTold' /\ NextTold'
BY DEF WriteTold, NextTold

\* Nothing that is told changes.
LEMMA AllStays ==
  ASSUME LossInv, UNCHANGED <<pc, batch, cursor, log, since>>, Skips' = Skips,
         saved'.cursor = saved.cursor \/ saved'.cursor = cursor
  PROVE  AllTold'
<1>1. SavedTold' /\ RowsTold'
  <2>1. SinceGoesOn /\ log' = log
    BY DEF SinceGoesOn
  <2> QED
    BY <2>1, StoreTold
<1>2. CursorTold'
  <2>1. cursor'.seq - Skips' = cursor.seq - Skips
    OBVIOUS
  <2> HIDE DEF Skips
  <2> QED
    BY <2>1, LossFacts DEF CursorTold, Known, Found
<1>3. WriteTold' /\ NextTold'
  BY LossFacts DEF WriteTold, NextTold, Known, Found
<1> QED
  BY <1>1, <1>2, <1>3 DEF AllTold

---------------------------------------------------------------------------
(* ... over every step.                                                    *)

LEMMA AsksKeepTold ==
  ASSUME LossInv, Kernel \/ RequestFails \/ AskAhead \/ AskNext \/ TakeOverlap \/ WalkHalve
         \/ UNCHANGED vars
  PROVE  AllTold'
<1>1. round \in RoundType
  BY LossFacts, StateFacts
<1>2. UNCHANGED <<pc, batch, cursor, log, saved, since>>
  BY DEF Kernel, KernelRecord, KernelUntracked, KernelRestart, KernelForget, Answer, AnswerStray,
         RequestFails, AskAhead, AskNext, TakeOverlap, WalkHalve, collector, store, vars
<1>3. \/ round' = round
      \/ round' = [round EXCEPT !.asked = @ + 1]
      \/ round' = [round EXCEPT !.size = @ \div 2]
  BY DEF Kernel, KernelRecord, KernelUntracked, KernelRestart, KernelForget, Answer, AnswerStray,
         RequestFails, AskAhead, AskNext, TakeOverlap, WalkHalve, collector, vars
<1>4. round'.skipped = round.skipped /\ round'.counts = round.counts
  BY <1>1, <1>3 DEF RoundType
<1>5. Skips' = Skips
  BY <1>2, <1>4 DEF Skips
<1> QED
  BY <1>2, <1>5, AllStays

LEMMA SavingKeepsTold ==
  ASSUME LossInv, SaveState \/ DropRows
  PROVE  AllTold'
<1>1. saved' = StateNow /\ UNCHANGED <<pc, round, batch, cursor, log, since>>
  BY LossFacts, SaveMoves
<1>2. saved'.cursor = cursor
  BY <1>1 DEF StateNow
<1>3. Skips' = Skips
  BY <1>1 DEF Skips
<1> QED
  BY <1>1, <1>2, <1>3, AllStays

\* The round goes on or ends with nothing to write.
LEMMA NothingToTell ==
  ASSUME LossInv, GroundInv', UNCHANGED <<log, cursor, since>>, pc' \notin {"write", "advance"},
         saved'.cursor = saved.cursor \/ saved'.cursor = cursor,
         pc # "write" \/ Oversized = {}, Skips = 0 \/ Oversized = {}
  PROVE  AllTold'
<1>1. SinceGoesOn
  BY DEF SinceGoesOn
<1>2. CursorTold'
  BY <1>1, CursorStays
<1>3. SavedTold' /\ RowsTold'
  BY <1>1, StoreTold
<1> QED
  BY <1>2, <1>3, NotWriting DEF AllTold

LEMMA RoundsKeepTold ==
  ASSUME LossInv, GroundInv', Oversized = {} \/ MaxFaults = 0,
         \/ TakeFailure \/ AppendFails \/ TakeTooLarge \/ BeginRound \/ TakeGone
         \/ EndParallel /\ ~round.gone.found
         \/ EndWalk /\ ~(round.skipped > 0 /\ round.counts)
  PROVE  AllTold'
<1>1. /\ GroundInv /\ Quiet /\ flight \in Seq(Requests) /\ faults \in Nat /\ MaxFaults \in Nat
      /\ round.skipped \in Nat /\ TypeOK
  <2>1. TypeOK
    BY LossFacts
  <2>2. flight \in Seq(Requests) /\ round \in RoundType /\ faults \in 0 .. MaxFaults
    BY <2>1, StateFacts DEF StoreTyped
  <2> QED
    BY <2>1, <2>2, LossFacts, Bounds DEF LossInv, RoundType
<1>2. CASE TakeFailure
  <2>1. /\ pc \in {"parallel", "walk"} /\ flight # <<>> /\ First.kind = "failed" /\ pc' = "idle"
        /\ UNCHANGED <<log, cursor, since, saved>>
    BY <1>2 DEF TakeFailure, Arrived, EndRound, store
  <2>2. 1 \in 1 .. Len(flight) /\ flight[1].kind = "failed"
    BY <2>1, <1>1 DEF First
  <2>3. Oversized = {}
    BY <2>2, <1>1 DEF Quiet
  <2> QED
    BY <2>1, <2>3, NothingToTell
<1>3. CASE AppendFails
  <2>1. faults < MaxFaults /\ pc' = "idle" /\ UNCHANGED <<log, cursor, since>>
        /\ saved' \in {saved, StateNow}
    BY <1>3 DEF AppendFails, EndRound
  <2>2. Oversized = {} /\ (saved'.cursor = saved.cursor \/ saved'.cursor = cursor)
    BY <2>1, <1>1 DEF StateNow
  <2> QED
    BY <2>1, <2>2, NothingToTell
<1>4. CASE TakeTooLarge \/ BeginRound \/ TakeGone
  <2>1. /\ pc \in {"parallel", "idle"} /\ pc' \in {"walk", "parallel"}
        /\ UNCHANGED <<log, cursor, since, saved>>
    BY <1>4 DEF TakeTooLarge, BeginRound, TakeGone, InOrder, store
  <2>2. Skips = 0
    BY <2>1, <1>1, Skipped
  <2> QED
    BY <2>1, <2>2, NothingToTell
<1>5. CASE EndParallel /\ ~round.gone.found
  <2>1. pc = "parallel" /\ pc' = "idle" /\ UNCHANGED <<log, cursor, since, saved>>
    BY <1>5 DEF EndParallel, EndRound
  <2>2. Skips = 0
    BY <2>1, <1>1, Skipped
  <2> QED
    BY <2>1, <2>2, NothingToTell
<1>6. CASE EndWalk /\ ~(round.skipped > 0 /\ round.counts)
  <2>1. pc = "walk" /\ pc' = "idle" /\ UNCHANGED <<log, cursor, since, saved>>
    BY <1>6 DEF EndWalk, EndRound, store
  <2>2. Skips = 0
    <3>1. round.skipped = 0 \/ ~round.counts
      BY <1>1, <1>6
    <3> QED
      BY <3>1, <1>1, Skipped
  <2> QED
    BY <2>1, <2>2, NothingToTell
<1> QED
  BY <1>2, <1>3, <1>4, <1>5, <1>6

LEMMA RowsLandTold ==
  ASSUME LossInv, pc = "write", NEW n \in 0 .. Len(batch.rows),
         log' = log \o SubSeq(batch.rows, 1, n), UNCHANGED <<saved, since>>
  PROVE  SavedTold' /\ RowsTold'
<1> DEFINE rows == batch.rows
           part == SubSeq(rows, 1, n)
           i == batch.next.instance
<1>1. /\ log \in Seq(Rows) /\ rows \in Seq(Rows) /\ part \in Seq(Rows) /\ Len(part) = n
      /\ n \in Nat /\ BatchInv
      /\ \A k \in 1 .. n : part[k] = rows[k] /\ k \in 1 .. Len(rows)
  BY LossFacts, OrderFacts, FirstRows
<1>2. \A k \in 1 .. Len(rows) : rows[k].instance = i
  BY <1>1 DEF BatchInv
<1>3. \A k \in 1 .. Len(rows) : Known(since[i], log \o SubSeq(rows, 1, k), i, rows[k].seq)
  BY LossFacts DEF WriteTold
<1>4. SavedTold'
  <2>1. Oversized = {} =>
          Known(since[saved.cursor.instance], log', saved.cursor.instance, saved.cursor.seq)
    <3>1. Oversized = {} =>
            Known(since[saved.cursor.instance], log, saved.cursor.instance, saved.cursor.seq)
      BY LossFacts DEF SavedTold
    <3> QED
      BY <3>1, <1>1, KnownAppended
  <2> QED
    BY <2>1 DEF SavedTold, Known, Found
<1>5. log' = log \o part
  OBVIOUS
<1> HIDE DEF part
<1>6. /\ \A k \in 1 .. Len(log) : log'[k] = log[k]
      /\ \A k \in 1 .. n : log'[Len(log) + k] = part[k]
      /\ \A k \in 1 .. Len(log') : k \in 1 .. Len(log) \/ \E j \in 1 .. n : k = Len(log) + j
  <2> DEFINE more == log \o part
  <2>1. /\ Len(more) = Len(log) + n /\ \A k \in 1 .. Len(log) : more[k] = log[k]
        /\ \A k \in 1 .. n : more[Len(log) + k] = part[k]
        /\ \A k \in 1 .. Len(more) : k \in 1 .. Len(log) \/ \E j \in 1 .. n : k = Len(log) + j
    BY <1>1, ConcatRows
  <2>2. log' = more
    BY <1>5
  <2> HIDE DEF more
  <2> QED
    BY <2>1, <2>2
<1>7. ASSUME NEW k \in 1 .. Len(log')
      PROVE  Known(since[log'[k].instance], log', log'[k].instance, log'[k].seq)
  <2>1. CASE k \in 1 .. Len(log)
    <3>1. Known(since[log[k].instance], log, log[k].instance, log[k].seq)
      BY <2>1, LossFacts DEF RowsTold
    <3>2. Known(since[log[k].instance], log', log[k].instance, log[k].seq)
      BY <3>1, <1>1, <1>5, KnownAppended
    <3> QED
      BY <2>1, <3>2, <1>6
  <2>2. CASE \E j \in 1 .. n : k = Len(log) + j
    <3>1. PICK j \in 1 .. n : k = Len(log) + j
      BY <2>2
    <3>2. log'[k] = rows[j] /\ j \in 1 .. Len(rows)
      BY <3>1, <1>1, <1>6
    <3>3. Known(since[i], log \o SubSeq(rows, 1, j), i, rows[j].seq)
      BY <3>2, <1>3
    <3>4. j \in 0 .. Len(rows) /\ j <= n
      BY <3>2
    <3>5. Known(since[i], log', i, rows[j].seq)
      BY <3>3, <3>4, <1>1, KnownFirst
    <3> QED
      BY <3>2, <3>5, <1>2
  <2> QED
    BY <2>1, <2>2, <1>6
<1>8. RowsTold'
  BY <1>7 DEF RowsTold, Known, Found
<1> QED
  BY <1>4, <1>8

LEMMA PanelEndsKeepsTold ==
  ASSUME LossInv, PanelEnds
  PROVE  AllTold'
<1>1. /\ pc' = "down" /\ cursor' = NoCursor /\ UNCHANGED <<saved, since>>
      /\ \/ log' = log
         \/ pc = "write" /\ \E n \in 0 .. Len(batch.rows) : log' = log \o SubSeq(batch.rows, 1, n)
  BY LossFacts, RowsCut
<1>2. CursorTold'
  BY <1>1 DEF CursorTold, Known, NoCursor
<1>3. SavedTold' /\ RowsTold'
  <2>1. CASE log' = log
    BY <2>1, <1>1, StoreTold DEF SinceGoesOn
  <2>2. CASE pc = "write" /\ \E n \in 0 .. Len(batch.rows) : log' = log \o SubSeq(batch.rows, 1, n)
    BY <2>2, <1>1, RowsLandTold
  <2> QED
    BY <2>1, <2>2, <1>1
<1> QED
  BY <1>1, <1>2, <1>3, NotWriting DEF AllTold

LEMMA PanelStartsKeepsTold ==
  ASSUME LossInv, GroundInv', PanelStarts, Oversized = {} \/ MaxFaults = 0
  PROVE  AllTold'
<1>1. /\ pc = "down" /\ pc' = "idle" /\ cursor' = Reopened /\ UNCHANGED <<round, log, saved, since>>
  BY DEF PanelStarts
<1>2. Oversized = {}
  BY <1>1, LossFacts DEF Quiet
<1>3. Reopened \in Points
      /\ (Reopened = saved.cursor \/ \E k \in 1 .. Len(log) : Reopened = CursorOf(log[k]))
  BY LossFacts, Reopening
<1>4. Known(since[Reopened.instance], log, Reopened.instance, Reopened.seq)
  <2>1. CASE Reopened = saved.cursor
    BY <2>1, <1>2, LossFacts DEF SavedTold
  <2>2. CASE \E k \in 1 .. Len(log) : Reopened = CursorOf(log[k])
    <3>1. PICK k \in 1 .. Len(log) : Reopened = CursorOf(log[k])
      BY <2>2
    <3>2. Reopened.instance = log[k].instance /\ Reopened.seq = log[k].seq
      BY <3>1 DEF CursorOf
    <3> QED
      BY <3>2, LossFacts DEF RowsTold
  <2> QED
    BY <2>1, <2>2, <1>3
<1>5. CursorTold'
  <2>1. Skips' = 0
    BY <1>1 DEF Skips
  <2>2. cursor'.seq - Skips' = cursor'.seq
    BY <2>1, <1>1, <1>3 DEF Points
  <2> HIDE DEF Skips
  <2>3. Known(since[cursor'.instance], log, cursor'.instance, cursor'.seq - Skips')
    BY <2>2, <1>1, <1>4
  <2> QED
    BY <2>3, <1>1 DEF CursorTold, Known, Found
<1>6. SavedTold' /\ RowsTold'
  BY <1>1, StoreTold DEF SinceGoesOn
<1> QED
  BY <1>1, <1>5, <1>6, NotWriting DEF AllTold

LEMMA StartsOverKeepTold ==
  ASSUME LossInv, TakeRestarted \/ WalkRestarted \/ SkipFindsRestart
  PROVE  AllTold'
<1> DEFINE i == kernel.instance
<1>1. /\ StartOver(i) /\ cursor.instance < i /\ i \in 1 .. MaxInstance
      /\ pc \in {"parallel", "walk"} /\ pc' = pc /\ UNCHANGED <<log, saved>>
      /\ since \in [1 .. MaxInstance -> Seqs] /\ MaxInstance \in Nat
  BY LossFacts, StartedOver, StateFacts, Bounds DEF StoreTyped
<1>2. cursor' = [instance |-> i, seq |-> 0] /\ since' = [since EXCEPT ![i] = 0]
  BY <1>1 DEF StartOver
<1> HIDE DEF i
<1>3. SinceGoesOn
  <2>1. i \in Nat /\ pc # "down"
    BY <1>1
  <2> QED
    BY <2>1, <1>1, <1>2 DEF SinceGoesOn
<1>4. round'.skipped = 0
  <2>1. round \in RoundType /\ SkipsWalking
    BY LossFacts, GapFacts, StateFacts
  <2>2. CASE TakeRestarted
    <3>1. pc = "parallel" /\ round' = [round EXCEPT !.gone = NoGone]
      BY <2>2 DEF TakeRestarted
    <3> QED
      BY <3>1, <2>1 DEF SkipsWalking, RoundType
  <2>3. CASE WalkRestarted \/ SkipFindsRestart
    BY <2>1, <2>3 DEF WalkRestarted, SkipFindsRestart, RoundType
  <2> QED
    BY <2>2, <2>3
<1>5. CursorTold'
  <2>1. Skips' = 0
    BY <1>4 DEF Skips
  <2>2. cursor'.instance = i /\ cursor'.seq = 0 /\ since'[i] = 0
    BY <1>1, <1>2
  <2>3. cursor'.seq - Skips' = 0
    BY <2>1, <2>2
  <2> HIDE DEF Skips
  <2>4. Known(0, log', i, 0)
    BY DEF Known
  <2>5. Known(since'[cursor'.instance], log', cursor'.instance, cursor'.seq - Skips')
    BY <2>2, <2>3, <2>4
  <2> QED
    BY <2>5 DEF CursorTold, Known, Found
<1>6. SavedTold' /\ RowsTold'
  BY <1>1, <1>3, StoreTold
<1> QED
  BY <1>1, <1>5, <1>6, NotWriting DEF AllTold

\* A record is skipped: it waits for its row, or the panel begins after it.
LEMMA SkipOversizedKeepsTold ==
  ASSUME LossInv, GroundInv', SkipOversized, Oversized = {} \/ MaxFaults = 0
  PROVE  AllTold'
<1> DEFINE i == IF round.skipped = 0 THEN kernel.instance ELSE at.instance
           counts == IF round.skipped = 0 THEN at.instance # 0 ELSE round.counts
           c == [instance |-> i, seq |-> First.after + 1]
<1>1. /\ GroundInv /\ OrderInv /\ Quiet /\ round \in RoundType /\ round.skipped \in Nat
      /\ cursor.seq \in Nat /\ cursor.instance \in Nat /\ TypeOK /\ PlaceInv
      /\ since \in [1 .. MaxInstance -> Seqs] /\ SkipsTold'
  <2>1. SkipsTold'
    BY DEF GroundInv, GapInv
  <2>2. round \in RoundType /\ since \in [1 .. MaxInstance -> Seqs]
    BY LossFacts, StateFacts DEF StoreTyped
  <2> QED
    BY <2>1, <2>2, LossFacts, OrderFacts DEF RoundType, LossInv
<1>2. /\ TooLargeAlone /\ pc = "walk" /\ pc' = pc /\ flight # <<>> /\ First.kind = "large"
      /\ round.skipped = 0 /\ at.instance # 0 => at.instance = kernel.instance
      /\ at' = c /\ cursor' = c /\ UNCHANGED <<log, saved>>
      /\ round' = [round EXCEPT !.pages = @ + 1, !.skipped = @ + 1, !.counts = counts]
      /\ since' = IF counts THEN since ELSE [since EXCEPT ![i] = First.after + 1]
  BY DEF SkipOversized, TooLargeAlone, Arrived
<1>3. Oversized # {}
  <2>1. flight \in Seq(Requests)
    BY <1>1, StateFacts
  <2>2. 1 \in 1 .. Len(flight) /\ flight[1].kind = "large"
    BY <2>1, <1>2 DEF First
  <2> QED
    BY <2>2, <1>1 DEF Quiet
<1>4. /\ at = cursor /\ First.after = at.seq /\ (cursor.instance # 0 => i = cursor.instance)
      /\ i \in 1 .. MaxInstance
  BY <1>1, <1>2, SkippedRecord
<1>5. /\ c.instance = i /\ c.seq = at.seq + 1
      /\ round.skipped = 0 => counts = (cursor.instance # 0)
      /\ round.skipped # 0 => counts = round.counts /\ at.instance # 0
  <2>1. round.skipped # 0 => round.skipped > 0
    BY <1>1
  <2> QED
    BY <2>1, <1>1, <1>2, <1>4 DEF PlaceInv
<1> HIDE DEF i, counts, c
<1>6. round'.skipped = round.skipped + 1 /\ round'.counts = counts
  BY <1>1, <1>2 DEF RoundType
<1>7. CASE counts
  <2>1. cursor.instance # 0 /\ since' = since /\ c.instance = cursor.instance
    BY <1>2, <1>4, <1>5, <1>7
  <2>2. Skips' = round.skipped + 1
    BY <1>2, <1>6, <1>7 DEF Skips
  <2>3. Skips = round.skipped
    <3>1. CASE round.skipped = 0
      BY <3>1, <1>1, Skipped
    <3>2. CASE round.skipped # 0
      <4>1. round.counts
        BY <3>2, <1>5, <1>7, Zenon
      <4> QED
        BY <4>1, <1>1, <1>2, Skipped
    <3> QED
      BY <3>1, <3>2
  <2> HIDE DEF Skips
  <2>4. c.seq - Skips' = cursor.seq - Skips
    BY <2>2, <2>3, <1>1, <1>4, <1>5
  <2>5. Known(since[cursor.instance], log, cursor.instance, cursor.seq - Skips)
    BY <1>2, LossFacts DEF CursorTold
  <2>6. cursor'.instance = cursor.instance /\ cursor'.seq - Skips' = cursor.seq - Skips
    BY <2>1, <2>4, <1>2
  <2>7. CursorTold'
    BY <2>1, <2>5, <2>6, <1>2 DEF CursorTold, Known, Found
  <2>8. SavedTold' /\ RowsTold'
    BY <2>1, <1>2, StoreTold DEF SinceGoesOn
  <2> QED
    BY <2>7, <2>8, <1>2, NotWriting DEF AllTold
<1>8. CASE ~counts
  <2>1. ~round'.counts /\ round'.skipped > 0
    BY <1>1, <1>6, <1>8
  <2>2. log' = <<>>
    BY <2>1, <1>1, <1>2 DEF SkipsTold
  <2>3. RowsTold'
    BY <2>2 DEF RowsTold
  <2>4. SavedTold'
    BY <1>3 DEF SavedTold
  <2>5. since'[i] = c.seq
    BY <1>1, <1>2, <1>4, <1>5, <1>8
  <2>6. Skips' = 0
    BY <2>1 DEF Skips
  <2> HIDE DEF Skips
  <2>7. cursor'.seq - Skips' = c.seq /\ cursor'.instance = i /\ c.seq \in Nat
    BY <2>6, <1>1, <1>2, <1>4, <1>5
  <2>8. Known(c.seq, log', i, c.seq)
    BY <2>7 DEF Known
  <2>9. Known(since'[cursor'.instance], log', cursor'.instance, cursor'.seq - Skips')
    BY <2>5, <2>7, <2>8
  <2>10. CursorTold'
    BY <2>9 DEF CursorTold, Known, Found
  <2> QED
    BY <2>3, <2>4, <2>10, <1>2, NotWriting DEF AllTold
<1> QED
  BY <1>7, <1>8

\* The skipped records become their row.
LEMMA EndWalkKeepsTold ==
  ASSUME LossInv, GroundInv', EndWalk, Oversized = {} \/ MaxFaults = 0
  PROVE  AllTold'
<1> DEFINE row == Gap(at.instance, at.seq, round.skipped, 0)
<1>1. CASE ~(round.skipped > 0 /\ round.counts)
  BY <1>1, RoundsKeepTold
<1>2. CASE round.skipped > 0 /\ round.counts
  <2>1. /\ GroundInv /\ PlaceInv /\ round \in RoundType /\ log \in Seq(Rows) /\ Quiet /\ TypeOK
        /\ at.instance \in Instances /\ at.seq \in Seqs /\ at.seq \in Nat
    BY LossFacts, OrderFacts, StateFacts, PointFacts DEF LossInv
  <2>2. /\ pc = "walk" /\ pc' = "write" /\ UNCHANGED <<cursor, log, saved, since>>
        /\ batch' = [rows |-> <<row>>, next |-> at, counted |-> mem.counted, back |-> "idle"]
    BY <1>2 DEF EndWalk, store
  <2>3. at = cursor /\ Skips = round.skipped /\ Oversized # {} /\ round.skipped \in Nat
    BY <1>2, <2>1, <2>2, Skipped DEF PlaceInv, Quiet, RoundType
  <2>4. row \in Rows /\ row.instance = at.instance /\ row.seq = at.seq /\ row.lost = round.skipped
    BY <2>1, <2>3, GapRow DEF Gap
  <2>5. batch'.rows = <<row>> /\ batch'.next = at
    BY <2>2
  <2> HIDE DEF row
  <2>6. /\ <<row>> \in Seq(Rows) /\ Len(<<row>>) = 1
        /\ \A k \in 1 .. Len(<<row>>) : k = 1 /\ <<row>>[k] = row /\ SubSeq(<<row>>, 1, k) = <<row>>
    BY <2>4, OneRow
  <2>7. Known(since[at.instance], log, at.instance, at.seq - round.skipped)
    BY <2>2, <2>3, LossFacts DEF CursorTold
  <2>8. Known(since[at.instance], log \o <<row>>, at.instance, at.seq)
    <3> DEFINE more == log \o <<row>>
    <3>1. Known(since[at.instance], more, at.instance, at.seq - round.skipped)
      BY <2>1, <2>6, <2>7, KnownAppended
    <3>2. Len(more) \in 1 .. Len(more) /\ more[Len(more)] = row
      <4>1. Len(more) = Len(log) + 1 /\ more[Len(log) + 1] = row /\ Len(log) \in Nat
        BY <2>1, <2>4
      <4> QED
        BY <4>1
    <3> HIDE DEF more
    <3>3. ASSUME at.instance # 0, NEW s \in since[at.instance] + 1 .. at.seq
          PROVE  Found(more, at.instance, s)
      <4>1. since[at.instance] \in Nat
        <5>1. at.instance \in 1 .. MaxInstance /\ since \in [1 .. MaxInstance -> Seqs]
          BY <3>3, <2>1, StateFacts, SeqsAreNumbers, Bounds DEF StoreTyped
        <5> QED
          BY <5>1, SeqsAreNumbers
      <4>2. CASE s <= at.seq - round.skipped
        <5>1. s \in since[at.instance] + 1 .. at.seq - round.skipped
          BY <4>1, <4>2, <2>1, <2>3
        <5> QED
          BY <5>1, <3>1, <3>3 DEF Known
      <4>3. CASE ~(s <= at.seq - round.skipped)
        <5>1. InGap(row, at.instance, s)
          BY <4>1, <4>3, <2>1, <2>3, <2>4 DEF InGap
        <5> QED
          BY <5>1, <3>2 DEF Found
      <4> QED
        BY <4>2, <4>3
    <3> QED
      BY <3>3 DEF Known, more
  <2>9. WriteTold'
    <3>1. \A k \in 1 .. Len(<<row>>) :
            Known(since[at.instance], log \o SubSeq(<<row>>, 1, k), at.instance, <<row>>[k].seq)
      BY <2>4, <2>6, <2>8
    <3> QED
      BY <3>1, <2>2, <2>5, <2>8 DEF WriteTold, Known, Found
  <2>10. SavedTold' /\ RowsTold'
    BY <2>2, StoreTold DEF SinceGoesOn
  <2>11. CursorTold' /\ NextTold'
    BY <2>2, <2>3 DEF CursorTold, NextTold
  <2> QED
    BY <2>9, <2>10, <2>11 DEF AllTold
<1> QED
  BY <1>1, <1>2

\* The rows of a page tell of every number up to its end: passed before, among those the
\* gap row counts, or a record of the page.
TellsUpTo(rows, page, c, after, oversized) ==
  /\ RowsAre(rows, page, c, after, oversized)
  /\ InFull(rows, page, after + page.missed)

LEMMA PageTells ==
  ASSUME NEW page \in Pages, NEW c \in Cursors, NEW after \in Nat, NEW oversized \in Nat,
         oversized <= after, page.instance # 0, NEW rows \in Seq(Rows),
         TellsUpTo(rows, page, c, after, oversized), NEW from \in Nat,
         NEW k \in 1 .. Len(rows), NEW s \in from + 1 .. rows[k].seq,
         \/ c.instance = page.instance /\ Known(from, log, page.instance, after - oversized)
         \/ after = 0 /\ from = page.missed
  PROVE  Found(log, page.instance, s)
         \/ s \in Ignored
         \/ \E n \in 1 .. k : rows[n] = Entry(page.instance, s) \/ InGap(rows[n], page.instance, s)
<1>1. /\ page.missed \in Nat /\ rows[k] \in Rows /\ rows[k].seq \in Nat /\ s \in Nat
      /\ k \in 1 .. Len(rows) /\ Len(rows) \in Nat /\ from + 1 <= s /\ s <= rows[k].seq
  BY PageFacts, PointsOfRows
<1>2. CASE s > after + page.missed
  <2>1. ~(rows[k].seq <= after + page.missed)
    BY <1>1, <1>2
  <2>2. s \in after + page.missed + 1 .. rows[k].seq
    BY <1>1, <1>2
  <2> QED
    BY <2>1, <2>2 DEF TellsUpTo, InFull
<1>3. CASE ~(s > after + page.missed)
  <2>1. c.instance = page.instance /\ Known(from, log, page.instance, after - oversized)
    BY <1>1, <1>3
  <2>2. MissedOf(page, c) = page.missed
    BY <2>1 DEF MissedOf
  <2>3. CASE s <= after - oversized
    <3>1. s \in from + 1 .. after - oversized
      BY <2>3, <1>1
    <3> QED
      BY <3>1, <2>1 DEF Known
  <2>4. CASE ~(s <= after - oversized)
    <3>1. page.missed + oversized > 0 /\ BusyIn(page) \in Nat
      BY <2>4, <1>1, <1>3 DEF TellsUpTo, RowsAre
    <3>2. MissedOf(page, c) + oversized + BusyIn(page) > 0
      BY <3>1, <2>2, <1>1
    <3>3. rows[1] = GapOf(page, c, after, oversized)
      BY <3>2 DEF TellsUpTo, RowsAre
    <3>4. rows[1].instance = page.instance /\ rows[1].seq = after + page.missed
          /\ rows[1].lost = page.missed + oversized
      BY <3>3, <2>2 DEF GapOf, Gap
    <3>5. (after + page.missed) - (page.missed + oversized) < s /\ s <= after + page.missed
      BY <2>4, <1>1, <1>3
    <3>6. InGap(rows[1], page.instance, s)
      BY <3>4, <3>5 DEF InGap
    <3>7. 1 \in 1 .. k
      BY <1>1
    <3> QED
      BY <3>6, <3>7
  <2> QED
    BY <2>3, <2>4
<1> QED
  BY <1>2, <1>3

\* ... and so does the page's end.
LEMMA PageTellsAll ==
  ASSUME NEW page \in Pages, NEW c \in Cursors, NEW after \in Nat, NEW oversized \in Nat,
         oversized <= after, page.instance # 0, NEW rows \in Seq(Rows),
         TellsUpTo(rows, page, c, after, oversized), NEW from \in Nat,
         NEW s \in from + 1 .. page.last,
         \/ c.instance = page.instance /\ Known(from, log, page.instance, after - oversized)
         \/ after = 0 /\ from = page.missed
  PROVE  Found(log, page.instance, s)
         \/ s \in Ignored
         \/ \E n \in 1 .. Len(rows) : rows[n] = Entry(page.instance, s) \/ InGap(rows[n], page.instance, s)
<1>1. /\ page.missed \in Nat /\ page.last \in Nat /\ s \in Nat /\ Len(rows) \in Nat
      /\ from + 1 <= s /\ s <= page.last
  BY PageFacts
<1>2. CASE s > after + page.missed
  <2>1. s \in after + page.missed + 1 .. page.last
    BY <1>1, <1>2
  <2> QED
    BY <2>1 DEF TellsUpTo, InFull
<1>3. CASE ~(s > after + page.missed)
  <2>1. c.instance = page.instance /\ Known(from, log, page.instance, after - oversized)
    BY <1>1, <1>3
  <2>2. CASE s <= after - oversized
    <3>1. s \in from + 1 .. after - oversized
      BY <2>2, <1>1
    <3> QED
      BY <3>1, <2>1 DEF Known
  <2>3. CASE ~(s <= after - oversized)
    <3>1. page.missed + oversized > 0 /\ BusyIn(page) \in Nat /\ MissedOf(page, c) = page.missed
      BY <2>1, <2>3, <1>1, <1>3 DEF TellsUpTo, RowsAre, MissedOf
    <3>2. MissedOf(page, c) + oversized + BusyIn(page) > 0
      BY <3>1, <1>1
    <3>3. 1 \in 1 .. Len(rows) /\ rows[1] = GapOf(page, c, after, oversized)
      BY <3>2 DEF TellsUpTo, RowsAre
    <3>4. rows[1].instance = page.instance /\ rows[1].seq = after + page.missed
          /\ rows[1].lost = page.missed + oversized
      BY <3>1, <3>3 DEF GapOf, Gap
    <3>5. (after + page.missed) - (page.missed + oversized) < s /\ s <= after + page.missed
      BY <2>3, <1>1, <1>3
    <3>6. InGap(rows[1], page.instance, s)
      BY <3>4, <3>5 DEF InGap
    <3> QED
      BY <3>3, <3>6
  <2> QED
    BY <2>2, <2>3
<1> QED
  BY <1>2, <1>3

\* Found among a first part of the rows, found in the log with that part.
LEMMA FoundInPart ==
  ASSUME NEW a \in Seq(Rows), NEW b \in Seq(Rows), NEW m \in 0 .. Len(b), NEW i, NEW s,
         \/ Found(a, i, s) \/ s \in Ignored
         \/ \E n \in 1 .. m : b[n] = Entry(i, s) \/ InGap(b[n], i, s)
  PROVE  Found(a \o SubSeq(b, 1, m), i, s)
<1> DEFINE part == SubSeq(b, 1, m)
           more == a \o part
<1>1. part \in Seq(Rows) /\ Len(part) = m /\ \A n \in 1 .. m : part[n] = b[n]
  BY FirstRows
<1> HIDE DEF part
<1>2. /\ \A n \in 1 .. Len(a) : more[n] = a[n] /\ n \in 1 .. Len(more)
      /\ \A n \in 1 .. m : more[Len(a) + n] = part[n] /\ Len(a) + n \in 1 .. Len(more)
  <2>1. /\ Len(more) = Len(a) + m /\ Len(a) \in Nat /\ m \in Nat
        /\ \A n \in 1 .. Len(a) : more[n] = a[n]
        /\ \A n \in 1 .. m : more[Len(a) + n] = part[n]
    BY <1>1, ConcatRows
  <2> HIDE DEF more
  <2> QED
    BY <2>1
<1> HIDE DEF more
<1>3. CASE Found(a, i, s) \/ s \in Ignored
  <2>1. Found(more, i, s)
    BY <1>2, <1>3 DEF Found
  <2> QED
    BY <2>1 DEF more, part
<1>4. CASE \E n \in 1 .. m : b[n] = Entry(i, s) \/ InGap(b[n], i, s)
  <2>1. PICK n \in 1 .. m : b[n] = Entry(i, s) \/ InGap(b[n], i, s)
    BY <1>4
  <2>2. more[Len(a) + n] = b[n] /\ Len(a) + n \in 1 .. Len(more)
    BY <1>1, <1>2
  <2>3. Found(more, i, s)
    BY <2>1, <2>2 DEF Found
  <2> QED
    BY <2>3 DEF more, part
<1> QED
  BY <1>3, <1>4

LEMMA TakenKeepsTold ==
  ASSUME LossInv, NEW page \in Pages, NEW c \in Cursors, NEW after \in Seqs,
         NEW oversized \in Nat, NEW back \in {"idle", "parallel", "walk"},
         Taken(page, c, after, oversized, back), GroundInv'
  PROVE  AllTold'
<1> DEFINE rows == BatchOf(page, c, after, oversized, back).rows
           i == page.instance
<1>1. /\ GroundInv /\ TypeOK /\ log \in Seq(Rows) /\ after \in Nat /\ page.missed \in Nat
      /\ page.last \in Nat /\ page.instance \in Nat /\ cursor.instance \in Nat
      /\ since \in [1 .. MaxInstance -> Seqs] /\ kernel.instance <= MaxInstance
      /\ kernel.instance \in Nat /\ MaxInstance \in Nat
  BY LossFacts, OrderFacts, StateFacts, PageFacts, SeqsAreNumbers, Bounds DEF StoreTyped, LossInv
<1>2. /\ Takeable(page, after) /\ batch' = BatchOf(page, c, after, oversized, back)
      /\ c.instance = cursor.instance /\ NoteSince(page, c) /\ oversized <= after
      /\ page.instance = cursor.instance => after - oversized = cursor.seq - Skips
      /\ page.instance # cursor.instance => after = 0 /\ oversized = 0
      /\ pc \in {"parallel", "walk"} /\ pc' = "write"
      /\ UNCHANGED <<cursor, log, saved>>
  BY DEF Taken
<1>3. i \in 1 .. MaxInstance /\ i # 0 /\ cursor.instance <= i
  BY <1>1, <1>2 DEF Takeable
<1>4. /\ TellsUpTo(rows, page, c, after, oversized) /\ rows \in Seq(Rows)
      /\ batch'.rows = rows /\ batch'.next.instance = i /\ batch'.next.seq = page.last
  <2>1. RowsAre(rows, page, c, after, oversized)
    BY <1>1, <1>2, RowsOfBatch
  <2>2. /\ batch'.next.instance = i /\ batch'.next.seq = page.last
        /\ batch'.rows \in Seq(Rows) /\ InFull(batch'.rows, page, after + page.missed)
    BY <1>1, <1>2, BatchOfPage
  <2>3. batch'.rows = rows
    BY <1>2
  <2> QED
    BY <2>1, <2>2, <2>3 DEF TellsUpTo
<1> HIDE DEF rows
<1>5. /\ since'[i] \in Nat /\ SinceGoesOn
      /\ \/ c.instance = i /\ Known(since'[i], log, i, after - oversized)
         \/ after = 0 /\ since'[i] = page.missed
  <2>1. CASE i = cursor.instance
    <3>1. since' = since /\ c.instance = i
      BY <2>1, <1>2 DEF NoteSince
    <3>2. Known(since[i], log, i, after - oversized)
      <4>1. Known(since[cursor.instance], log, cursor.instance, cursor.seq - Skips)
        BY <1>2, LossFacts DEF CursorTold
      <4> QED
        BY <4>1, <2>1, <1>2
    <3>3. since[i] \in Nat
      BY <1>1, <1>3, SeqsAreNumbers
    <3> QED
      BY <3>1, <3>2, <3>3 DEF SinceGoesOn
  <2>2. CASE i # cursor.instance
    <3>1. since' = [since EXCEPT ![i] = page.missed] /\ after = 0
      BY <2>2, <1>2 DEF NoteSince
    <3>2. since'[i] = page.missed
      BY <3>1, <1>1, <1>3
    <3>3. cursor.instance < i /\ pc # "down" /\ i \in Nat
      BY <2>2, <1>1, <1>2, <1>3
    <3>4. SinceGoesOn
      BY <3>1, <3>3, <1>1 DEF SinceGoesOn
    <3> QED
      BY <3>1, <3>2, <3>4, <1>1
  <2> QED
    BY <2>1, <2>2
<1>6. ASSUME NEW k \in 1 .. Len(rows)
      PROVE  Known(since'[i], log \o SubSeq(rows, 1, k), i, rows[k].seq)
  <2> SUFFICES ASSUME NEW s \in since'[i] + 1 .. rows[k].seq
               PROVE  Found(log \o SubSeq(rows, 1, k), i, s)
    BY DEF Known
  <2>1. \/ Found(log, i, s) \/ s \in Ignored
        \/ \E n \in 1 .. k : rows[n] = Entry(i, s) \/ InGap(rows[n], i, s)
    <3>1. /\ oversized <= after /\ after \in Nat /\ page.instance # 0 /\ rows \in Seq(Rows)
          /\ TellsUpTo(rows, page, c, after, oversized) /\ since'[i] \in Nat
          /\ \/ c.instance = i /\ Known(since'[i], log, i, after - oversized)
             \/ after = 0 /\ since'[i] = page.missed
      BY <1>1, <1>2, <1>3, <1>4, <1>5
    <3> DEFINE from == since'[i]
    <3> HIDE DEF from
    <3>2. s \in from + 1 .. rows[k].seq /\ from \in Nat
      BY <3>1 DEF from
    <3>3. \/ c.instance = i /\ Known(from, log, i, after - oversized)
          \/ after = 0 /\ from = page.missed
      BY <3>1 DEF from
    <3> QED
      BY <3>1, <3>2, <3>3, PageTells
  <2>2. k \in 0 .. Len(rows)
    OBVIOUS
  <2> QED
    BY <2>1, <2>2, <1>1, <1>4, FoundInPart
<1>7. Known(since'[i], log \o rows, i, page.last)
  <2> SUFFICES ASSUME NEW s \in since'[i] + 1 .. page.last
               PROVE  Found(log \o rows, i, s)
    BY DEF Known
  <2>1. \/ Found(log, i, s) \/ s \in Ignored
        \/ \E n \in 1 .. Len(rows) : rows[n] = Entry(i, s) \/ InGap(rows[n], i, s)
    BY <1>1, <1>2, <1>3, <1>4, <1>5, PageTellsAll
  <2>2. Len(rows) \in 0 .. Len(rows) /\ SubSeq(rows, 1, Len(rows)) = rows
    BY <1>4, AllRows
  <2>3. Found(log \o SubSeq(rows, 1, Len(rows)), i, s)
    BY <2>1, <2>2, <1>1, <1>4, FoundInPart
  <2> QED
    BY <2>2, <2>3
<1>8. WriteTold'
  <2>1. \A k \in 1 .. Len(batch'.rows) :
          Known(since'[batch'.next.instance], log' \o SubSeq(batch'.rows, 1, k),
                batch'.next.instance, batch'.rows[k].seq)
    BY <1>2, <1>4, <1>6
  <2>2. Known(since'[batch'.next.instance], log' \o batch'.rows, batch'.next.instance,
              batch'.next.seq)
    BY <1>2, <1>4, <1>7
  <2> QED
    BY <2>1, <2>2 DEF WriteTold, Known, Found
<1>9. SavedTold' /\ RowsTold'
  BY <1>2, <1>5, StoreTold
<1>10. CursorTold'
  <2>1. CASE Oversized = {}
    BY <2>1, <1>2, <1>5, CursorStays
  <2>2. CASE Oversized # {}
    BY <2>2, <1>2 DEF CursorTold
  <2> QED
    BY <2>1, <2>2
<1>11. NextTold'
  BY <1>2 DEF NextTold
<1> QED
  BY <1>8, <1>9, <1>10, <1>11 DEF AllTold

LEMMA TakesKeepTold ==
  ASSUME LossInv, GroundInv', Oversized = {} \/ MaxFaults = 0, TakePage \/ EndParallel \/ WalkPage
  PROVE  AllTold'
<1>1. GapInv
  BY LossFacts
<1>2. CASE TakePage
  BY <1>1, <1>2, TakePageTakes, TakenKeepsTold
<1>3. CASE EndParallel /\ round.gone.found
  BY <1>1, <1>3, EndParallelTakes, TakenKeepsTold
<1>4. CASE EndParallel /\ ~round.gone.found
  BY <1>4, RoundsKeepTold
<1>5. CASE WalkPage
  BY <1>1, <1>5, WalkPageTakes, TakenKeepsTold
<1> QED
  BY <1>2, <1>3, <1>4, <1>5

LEMMA AppendRowsKeepsTold ==
  ASSUME LossInv, AppendRows
  PROVE  AllTold'
<1> DEFINE n == Len(batch.rows)
           i == batch.next.instance
<1>1. OrderInv
  BY LossFacts
<1>2. /\ pc = "write" /\ pc' = "advance" /\ log' = log \o batch.rows
      /\ UNCHANGED <<batch, saved, since>> /\ batch.rows \in Seq(Rows)
      /\ UpTo(cursor, batch.next) /\ n \in Nat
      /\ batch.rows = <<>> => cursor' = cursor
      /\ batch.rows # <<>> => n \in 1 .. n /\ cursor' = CursorOf(batch.rows[n])
      /\ \A k \in 1 .. n : batch.rows[k] \in Rows /\ batch.rows[k].instance = i
      /\ i # cursor.instance => cursor.seq = 0
  BY <1>1, Appended
<1>3. /\ \A k \in 1 .. n : Known(since[i], log \o SubSeq(batch.rows, 1, k), i, batch.rows[k].seq)
      /\ Known(since[i], log \o batch.rows, i, batch.next.seq)
  BY <1>2, LossFacts DEF WriteTold
<1>4. SubSeq(batch.rows, 1, n) = batch.rows /\ n \in 0 .. Len(batch.rows)
  BY <1>2, AllRows
<1>5. SavedTold' /\ RowsTold'
  <2>1. log' = log \o SubSeq(batch.rows, 1, n)
    BY <1>2, <1>4
  <2> QED
    BY <2>1, <1>2, <1>4, RowsLandTold
<1>6. NextTold' /\ WriteTold'
  BY <1>2, <1>3 DEF NextTold, WriteTold, Known, Found
<1>7. /\ cursor.instance \in Instances /\ cursor.seq \in Int /\ batch.next.seq \in Int /\ TypeOK
      /\ cursor.instance \in Nat /\ cursor'.seq \in Int
  <2>1. TypeOK /\ cursor \in Cursors /\ batch.next \in Cursors
    BY <1>1, OrderFacts, StateFacts
  <2>2. cursor'.seq \in Int
    BY <2>1, <1>2, PointFacts, PointsOfRows
  <2> QED
    BY <2>1, <2>2, PointFacts
<1> HIDE DEF n, i
<1>8. Known(since[cursor'.instance], log', cursor'.instance, cursor'.seq)
  <2>1. CASE batch.rows # <<>>
    <3>1. Known(since[i], log', i, batch.rows[n].seq) /\ n \in 1 .. n
      BY <2>1, <1>2, <1>3, <1>4
    <3>2. cursor'.instance = i /\ cursor'.seq = batch.rows[n].seq
      BY <2>1, <3>1, <1>2, PointsOfRows
    <3> QED
      BY <3>1, <3>2
  <2>2. CASE batch.rows = <<>> /\ i = cursor.instance
    <3>1. cursor.seq <= batch.next.seq
      BY <2>2, <1>2, <1>7 DEF UpTo, i
    <3>2. Known(since[cursor.instance], log', cursor.instance, batch.next.seq)
      BY <2>2, <1>2, <1>3
    <3>3. Known(since[cursor.instance], log', cursor.instance, cursor.seq)
      BY <3>1, <3>2, <1>7, KnownSince
    <3> QED
      BY <3>3, <2>2, <1>2
  <2>3. CASE batch.rows = <<>> /\ i # cursor.instance
    <3>1. cursor' = cursor /\ cursor.seq = 0
      BY <2>3, <1>2
    <3>2. CASE cursor.instance = 0
      BY <3>1, <3>2 DEF Known
    <3>3. CASE cursor.instance # 0
      <4>1. since[cursor.instance] \in Nat
        BY <3>3, <1>7, StateFacts, SeqsAreNumbers DEF StoreTyped
      <4>2. Known(since[cursor.instance], log', cursor.instance, 0)
        BY <4>1 DEF Known
      <4> QED
        BY <3>1, <4>2
    <3> QED
      BY <3>2, <3>3
  <2> QED
    BY <2>1, <2>2, <2>3
<1>9. CursorTold'
  <2>1. Skips' = 0
    BY <1>2 DEF Skips
  <2> HIDE DEF Skips
  <2>2. cursor'.seq - Skips' = cursor'.seq
    BY <2>1, <1>7
  <2>3. Known(since'[cursor'.instance], log', cursor'.instance, cursor'.seq - Skips')
    BY <2>2, <1>2, <1>8
  <2> QED
    BY <2>3 DEF CursorTold, Known, Found
<1> QED
  BY <1>5, <1>6, <1>9 DEF AllTold

LEMMA AdvanceKeepsTold ==
  ASSUME LossInv, Advance
  PROVE  AllTold'
<1>1. /\ pc = "advance" /\ cursor' = batch.next /\ pc' \in {"idle", "parallel", "walk"}
      /\ UNCHANGED <<log, saved, since>> /\ (round' = round \/ round' = NewRound)
      /\ batch.next.seq \in Int /\ SkipsWalking
  <2>1. batch.next.seq \in Int
    BY LossFacts, StateFacts, PointFacts
  <2> QED
    BY <2>1, LossFacts, GapFacts, Advanced
<1>2. Skips' = 0
  <2>1. round'.skipped = 0
    BY <1>1, RoundFacts DEF SkipsWalking
  <2> QED
    BY <2>1 DEF Skips
<1>3. CursorTold'
  <2>1. Known(since[batch.next.instance], log, batch.next.instance, batch.next.seq)
    BY <1>1, LossFacts DEF NextTold
  <2>2. cursor'.seq - Skips' = batch.next.seq
    BY <1>1, <1>2
  <2> HIDE DEF Skips
  <2>3. Known(since'[cursor'.instance], log', cursor'.instance, cursor'.seq - Skips')
    BY <2>1, <2>2, <1>1
  <2> QED
    BY <2>3 DEF CursorTold, Known, Found
<1>4. SavedTold' /\ RowsTold'
  BY <1>1, StoreTold DEF SinceGoesOn
<1> QED
  BY <1>1, <1>3, <1>4, NotWriting DEF AllTold

LEMMA InitLoss ==
  ASSUME Init
  PROVE  LossInv
<1>1. /\ GapInv /\ log = <<>> /\ pc = "idle" /\ round = NewRound /\ flight = <<>>
      /\ cursor = NoCursor /\ saved = [rows |-> 0, cursor |-> NoCursor]
  BY InitGaps DEF Init
<1>2. Quiet
  BY <1>1, RoundFacts DEF Quiet
<1>3. SavedBehind
  BY <1>1 DEF SavedBehind, UpTo, NoCursor
<1>4. AllTold
  BY <1>1 DEF AllTold, CursorTold, SavedTold, RowsTold, WriteTold, NextTold, Known, NoCursor
<1> QED
  BY <1>1, <1>2, <1>3, <1>4 DEF LossInv, GroundInv

LEMMA NextKeepsLoss ==
  ASSUME LossInv, EarlyRestarts = FALSE, Oversized = {} \/ MaxFaults = 0, [Next]_vars
  PROVE  LossInv'
<1>1. GapInv'
  BY LossFacts, NextKeepsGaps
<1>2. GroundInv'
  <2>1. OrderInv'
    BY <1>1 DEF GapInv
  <2> QED
    BY <1>1, <2>1, LossFacts, NextKeepsQuiet, NextKeepsSaved DEF GroundInv
<1>3. AllTold'
  <2>1. CASE Kernel \/ RequestFails \/ AskAhead \/ AskNext \/ TakeOverlap \/ WalkHalve \/ UNCHANGED vars
    BY <2>1, AsksKeepTold
  <2>2. CASE SaveState \/ DropRows
    BY <2>2, SavingKeepsTold
  <2>3. CASE TakeFailure \/ AppendFails \/ TakeTooLarge \/ BeginRound \/ TakeGone
    BY <2>3, <1>2, RoundsKeepTold
  <2>4. CASE TakeRestarted \/ WalkRestarted \/ SkipFindsRestart
    BY <2>4, StartsOverKeepTold
  <2>5. CASE TakePage \/ EndParallel \/ WalkPage
    BY <2>5, <1>2, TakesKeepTold
  <2>6. CASE SkipOversized \/ EndWalk
    BY <2>6, <1>2, SkipOversizedKeepsTold, EndWalkKeepsTold
  <2>7. CASE AppendRows \/ Advance \/ PanelEnds \/ PanelStarts
    BY <2>7, <1>2, AppendRowsKeepsTold, AdvanceKeepsTold, PanelEndsKeepsTold, PanelStartsKeepsTold
  <2> QED
    BY <2>1, <2>2, <2>3, <2>4, <2>5, <2>6, <2>7 DEF Next, Collect, Parallel, Walk, Fault
<1> QED
  BY <1>2, <1>3 DEF LossInv

\* Where no record is too large for a reply, or nothing fails, every number a cursor may
\* go on from was stored, ignored or is one a gap row counts: of the collector's cursor,
\* the state file's, any row's and that of rows not yet written.
THEOREM LossInvariant ==
  ASSUME EarlyRestarts = FALSE, Oversized = {} \/ MaxFaults = 0
  PROVE  Spec => []LossInv
<1>1. Init => LossInv
  BY InitLoss
<1>2. LossInv /\ [Next]_vars => LossInv'
  BY NextKeepsLoss
<1> QED
  BY <1>1, <1>2, PTL DEF Spec

\* The mark of the gap row that counts a number.
MarkOf(i, s) ==
  LET k == CHOOSE k \in 1 .. Len(log) : InGap(log[k], i, s)
  IN  <<k, s - (log[k].seq - log[k].lost)>>

LEMMA MarkOfNumber ==
  ASSUME OrderInv, NEW i, NEW s \in Nat, NEW n \in 1 .. Len(log), InGap(log[n], i, s)
  PROVE  MarkOf(i, s) \in LostMarks(i) /\ NumberOf(MarkOf(i, s)) = s
<1> DEFINE k == CHOOSE k \in 1 .. Len(log) : InGap(log[k], i, s)
           m == <<k, s - (log[k].seq - log[k].lost)>>
<1>1. k \in 1 .. Len(log) /\ InGap(log[k], i, s)
  OBVIOUS
<1>2. MarkOf(i, s) = m
  BY DEF MarkOf
<1> HIDE DEF k
<1>3. log[k] \in Rows
  BY <1>1, OrderFacts, StateFacts
<1>4. log[k].seq \in Nat /\ log[k].lost \in Nat
  BY <1>3, PointsOfRows DEF Rows
<1>5. log[k].instance = i /\ log[k].seq - log[k].lost < s /\ s <= log[k].seq
  BY <1>1 DEF InGap
<1>6. s - (log[k].seq - log[k].lost) \in 1 .. log[k].lost
  BY <1>4, <1>5
<1>7. k \in RowsOf(i)
  BY <1>1, <1>5 DEF RowsOf
<1>8. m \in {k} \X (1 .. log[k].lost)
  BY <1>6
<1>9. m \in LostMarks(i)
  BY <1>7, <1>8 DEF LostMarks
<1>10. NumberOf(m) = s
  BY <1>4 DEF NumberOf
<1> QED
  BY <1>2, <1>9, <1>10

\* The marks of the cursor's process are finitely many.
LEMMA MarksEnd ==
  ASSUME GapInv, pc # "down"
  PROVE  IsFiniteSet(LostMarks(cursor.instance))
<1>1. cursor.seq \in Nat
  BY GapFacts, OrderFacts
<1>2. \A m \in LostMarks(cursor.instance) : NumberOf(m) \in 1 .. cursor.seq
  BY <1>1, LostMark, MarksUpTo
<1>3. IsFiniteSet(1 .. cursor.seq)
  BY <1>1, FS_Interval
<1> QED
  BY <1>2, <1>3, MarksCounted

Missing(i) == {s \in Passed(i) : s \notin Ignored /\ ~IsStored(i, s)}

LEMMA MissingMarked ==
  ASSUME LossInv, pc = "idle", cursor.instance # 0
  PROVE  Cardinality(Missing(cursor.instance)) <= Cardinality(LostMarks(cursor.instance))
<1> DEFINE i == cursor.instance
           S == Missing(i)
           f == [s \in S |-> MarkOf(i, s)]
<1>1. /\ GapInv /\ OrderInv /\ TypeOK /\ cursor.seq \in Nat /\ i \in 1 .. MaxInstance
      /\ since \in [1 .. MaxInstance -> Seqs] /\ since[i] \in Nat
  <2>1. OrderInv /\ TypeOK /\ cursor \in Cursors /\ since \in [1 .. MaxInstance -> Seqs] /\ GapInv
    BY LossFacts, StateFacts DEF StoreTyped
  <2>2. i \in 1 .. MaxInstance /\ cursor.seq \in Nat
    BY <2>1, PointFacts, Bounds
  <2> QED
    BY <2>1, <2>2, SeqsAreNumbers
<1>2. Known(since[i], log, i, cursor.seq)
  <2>1. Skips = 0
    BY LossFacts, Skipped DEF LossInv
  <2> QED
    BY <2>1, ToldInFull
<1>3. ASSUME NEW s \in S
      PROVE  MarkOf(i, s) \in LostMarks(i) /\ NumberOf(MarkOf(i, s)) = s
  <2>1. s \in since[i] + 1 .. cursor.seq /\ s \notin Ignored /\ ~IsStored(i, s)
    BY DEF Missing, Passed
  <2>2. Found(log, i, s) /\ s \in Nat
    BY <2>1, <1>1, <1>2 DEF Known
  <2>3. PICK n \in 1 .. Len(log) : InGap(log[n], i, s)
    BY <2>1, <2>2 DEF Found, IsStored
  <2> QED
    BY <2>2, <2>3, <1>1, MarkOfNumber
<1> HIDE DEF S, i
<1>4. f \in Injection(S, LostMarks(i))
  <2>1. \A s \in S : f[s] = MarkOf(i, s) /\ f[s] \in LostMarks(i)
    BY <1>3
  <2>2. f \in [S -> LostMarks(i)]
    BY <2>1
  <2>3. \A s, t \in S : f[s] = f[t] => s = t
    BY <2>1, <1>3
  <2> HIDE DEF f
  <2> QED
    BY <2>2, <2>3 DEF Injection, IsInjective
<1>5. IsFiniteSet(LostMarks(i))
  BY <1>1, MarksEnd DEF i
<1> HIDE DEF f
<1>6. Cardinality(S) <= Cardinality(LostMarks(i))
  BY <1>4, <1>5, FS_Injection
<1> QED
  BY <1>6 DEF S, i

LEMMA NothingLost ==
  ASSUME LossInv
  PROVE  NoSilentLoss
BY MissingMarked DEF NoSilentLoss, LostTold, Missing

\* Between rounds the gap rows count at least what the cursor has passed and the log does
\* not hold (store_page, records and the pages collect_parallel finds pushed out whole),
\* where no record is too large for a reply, or nothing fails.
THEOREM NothingLostSilently ==
  ASSUME EarlyRestarts = FALSE, Oversized = {} \/ MaxFaults = 0
  PROVE  Spec => []NoSilentLoss
<1>1. LossInv => NoSilentLoss
  BY NothingLost
<1> QED
  BY <1>1, LossInvariant, PTL

---------------------------------------------------------------------------
(* Without faults the gap rows count nothing else.                         *)

\* What a gap row counts comes after what the panel began after.
Within(rows) ==
  \A k \in 1 .. Len(rows) :
    rows[k].lost > 0 => since[rows[k].instance] <= rows[k].seq - rows[k].lost

Begun ==
  /\ Within(log) /\ (pc = "write" => Within(log \o batch.rows))
  /\ pc \notin {"write", "advance"} /\ cursor.instance # 0 =>
       since[cursor.instance] <= cursor.seq - Skips
  /\ pc \in {"write", "advance"} => since[batch.next.instance] <= batch.next.seq

ExactInv == LossInv /\ Begun

LEMMA ExactFacts ==
  ASSUME ExactInv, MaxFaults = 0
  PROVE  /\ LossInv /\ Begun /\ GroundInv /\ GapInv /\ OrderInv /\ TypeOK /\ Quiet /\ pc # "down"
         /\ log \in Seq(Rows) /\ since \in [1 .. MaxInstance -> Seqs] /\ cursor \in Cursors
         /\ cursor.instance \in 0 .. MaxInstance /\ cursor.seq \in Nat /\ MaxInstance \in Nat
         /\ round \in RoundType /\ round.skipped \in Nat
         /\ \A i \in 1 .. MaxInstance : since[i] \in Nat
<1>1. LossInv /\ Begun /\ TypeOK /\ GroundInv /\ GapInv /\ OrderInv /\ Quiet
  BY LossFacts DEF ExactInv, LossInv
<1>2. /\ since \in [1 .. MaxInstance -> Seqs] /\ cursor \in Cursors /\ log \in Seq(Rows)
      /\ round \in RoundType
  BY <1>1, StateFacts DEF StoreTyped
<1>3. cursor.instance \in 0 .. MaxInstance /\ cursor.seq \in Nat
  BY <1>2, PointFacts, Bounds
<1>4. pc # "down"
  BY <1>1 DEF Quiet
<1>5. round.skipped \in Nat
  BY <1>2 DEF RoundType
<1> QED
  BY <1>1, <1>2, <1>3, <1>4, <1>5, SeqsAreNumbers, Bounds

\* The rows there are keep what they came after.
LEMMA WithinStays ==
  ASSUME LossInv, Within(log), SinceGoesOn, log' = log
  PROVE  Within(log)'
<1>1. \A k \in 1 .. Len(log) : since'[log[k].instance] = since[log[k].instance]
  BY SinceKept
<1> QED
  BY <1>1 DEF Within

LEMMA BegunStays ==
  ASSUME ExactInv, MaxFaults = 0, UNCHANGED <<pc, batch, cursor, log, since>>, Skips' = Skips
  PROVE  Begun'
<1>1. Begun
  BY DEF ExactInv
<1>2. cursor'.seq - Skips' = cursor.seq - Skips
  OBVIOUS
<1> HIDE DEF Skips
<1> QED
  BY <1>1, <1>2 DEF Begun, Within

\* The round goes on from the cursor with no record skipped before it.
LEMMA BegunCarries ==
  ASSUME ExactInv, MaxFaults = 0, UNCHANGED <<cursor, log, since>>, Skips = 0, Skips' = 0,
         pc \notin {"write", "advance"}, pc' \notin {"write", "advance"}
  PROVE  Begun'
<1>1. Begun /\ Within(log)'
  BY DEF ExactInv, Begun, Within
<1>2. cursor'.seq - Skips' = cursor.seq - Skips
  OBVIOUS
<1> HIDE DEF Skips
<1> QED
  BY <1>1, <1>2 DEF Begun

LEMMA RoundsKeepBegun ==
  ASSUME ExactInv, MaxFaults = 0, GroundInv',
         \/ TakeTooLarge \/ BeginRound \/ TakeGone
         \/ EndParallel /\ ~round.gone.found
         \/ EndWalk /\ ~(round.skipped > 0 /\ round.counts)
  PROVE  Begun'
<1>1. GroundInv /\ round.skipped \in Nat
  BY ExactFacts
<1>2. CASE TakeTooLarge \/ BeginRound \/ TakeGone
  <2>1. /\ pc \in {"parallel", "idle"} /\ pc' \in {"walk", "parallel"}
        /\ UNCHANGED <<log, cursor, since>>
    BY <1>2 DEF TakeTooLarge, BeginRound, TakeGone, InOrder, store
  <2>2. Skips = 0
    BY <2>1, <1>1, Skipped
  <2>3. Skips' = 0
    <3>1. CASE TakeTooLarge \/ BeginRound
      <4>1. round' = NewRound
        BY <3>1 DEF TakeTooLarge, BeginRound
      <4> QED
        BY <4>1, RoundFacts DEF Skips
    <3>2. CASE TakeGone
      <4>1. pc' = "parallel"
        BY <3>2 DEF TakeGone, InOrder
      <4> QED
        BY <4>1 DEF Skips
    <3> QED
      BY <3>1, <3>2, <1>2
  <2> QED
    BY <2>1, <2>2, <2>3, BegunCarries
<1>3. CASE EndParallel /\ ~round.gone.found
  <2>1. pc = "parallel" /\ pc' = "idle" /\ UNCHANGED <<log, cursor, since>>
    BY <1>3 DEF EndParallel, EndRound
  <2>2. Skips = 0 /\ Skips' = 0
    BY <2>1, <1>1, Skipped DEF Skips
  <2> QED
    BY <2>1, <2>2, BegunCarries
<1>4. CASE EndWalk /\ ~(round.skipped > 0 /\ round.counts)
  <2>1. pc = "walk" /\ pc' = "idle" /\ UNCHANGED <<log, cursor, since>>
    BY <1>4 DEF EndWalk, EndRound, store
  <2>2. round.skipped = 0 \/ ~round.counts
    BY <1>1, <1>4
  <2>3. Skips = 0 /\ Skips' = 0
    BY <2>1, <2>2, <1>1, Skipped DEF Skips
  <2> QED
    BY <2>1, <2>3, BegunCarries
<1> QED
  BY <1>2, <1>3, <1>4

LEMMA StartsOverKeepBegun ==
  ASSUME ExactInv, MaxFaults = 0, TakeRestarted \/ WalkRestarted \/ SkipFindsRestart
  PROVE  Begun'
<1> DEFINE i == kernel.instance
<1>1. /\ StartOver(i) /\ cursor.instance < i /\ i \in 1 .. MaxInstance
      /\ pc \in {"parallel", "walk"} /\ pc' = pc /\ log' = log
      /\ since \in [1 .. MaxInstance -> Seqs] /\ round \in RoundType /\ MaxInstance \in Nat
  BY ExactFacts, StartedOver
<1>2. cursor' = [instance |-> i, seq |-> 0] /\ since' = [since EXCEPT ![i] = 0]
  BY <1>1 DEF StartOver
<1> HIDE DEF i
<1>3. SinceGoesOn
  <2>1. i \in Nat /\ pc # "down"
    BY <1>1
  <2> QED
    BY <2>1, <1>1, <1>2 DEF SinceGoesOn
<1>4. Skips' = 0
  <2>1. CASE TakeRestarted
    <3>1. pc' = "parallel"
      BY <2>1 DEF TakeRestarted
    <3> QED
      BY <3>1 DEF Skips
  <2>2. CASE WalkRestarted \/ SkipFindsRestart
    <3>1. round'.skipped = 0
      BY <2>2, <1>1 DEF WalkRestarted, SkipFindsRestart, RoundType
    <3> QED
      BY <3>1 DEF Skips
  <2> QED
    BY <2>1, <2>2
<1>5. Within(log)'
  <2>1. Within(log) /\ LossInv
    BY DEF ExactInv, Begun
  <2> QED
    BY <2>1, <1>1, <1>3, WithinStays
<1>6. cursor'.instance = i /\ since'[i] = 0 /\ cursor'.seq - Skips' = 0
  BY <1>1, <1>2, <1>4
<1> HIDE DEF Skips
<1> QED
  BY <1>1, <1>5, <1>6 DEF Begun

LEMMA SkipOversizedKeepsBegun ==
  ASSUME ExactInv, MaxFaults = 0, GroundInv', SkipOversized
  PROVE  Begun'
<1> DEFINE i == IF round.skipped = 0 THEN kernel.instance ELSE at.instance
           counts == IF round.skipped = 0 THEN at.instance # 0 ELSE round.counts
           c == [instance |-> i, seq |-> First.after + 1]
<1>1. /\ OrderInv /\ GroundInv /\ Begun /\ round \in RoundType /\ round.skipped \in Nat
      /\ cursor.seq \in Nat /\ cursor.instance \in 0 .. MaxInstance /\ SkipsTold' /\ PlaceInv
      /\ since \in [1 .. MaxInstance -> Seqs]
  <2>1. SkipsTold'
    BY DEF GroundInv, GapInv
  <2> QED
    BY <2>1, ExactFacts, OrderFacts
<1>2. /\ TooLargeAlone /\ pc = "walk" /\ pc' = pc
      /\ round.skipped = 0 /\ at.instance # 0 => at.instance = kernel.instance
      /\ cursor' = c /\ log' = log
      /\ round' = [round EXCEPT !.pages = @ + 1, !.skipped = @ + 1, !.counts = counts]
      /\ since' = IF counts THEN since ELSE [since EXCEPT ![i] = First.after + 1]
  BY DEF SkipOversized, TooLargeAlone
<1>3. /\ at = cursor /\ First.after = at.seq /\ (cursor.instance # 0 => i = cursor.instance)
      /\ i \in 1 .. MaxInstance
  BY <1>1, <1>2, SkippedRecord
<1>4. /\ c.instance = i /\ c.seq = at.seq + 1
      /\ round.skipped = 0 => counts = (cursor.instance # 0)
      /\ round.skipped # 0 => counts = round.counts /\ at.instance # 0
  <2>1. round.skipped # 0 => round.skipped > 0
    BY <1>1
  <2> QED
    BY <2>1, <1>1, <1>2, <1>3 DEF PlaceInv
<1> HIDE DEF i, counts, c
<1>5. round'.skipped = round.skipped + 1 /\ round'.counts = counts
  BY <1>1, <1>2 DEF RoundType
<1>6. CASE counts
  <2>1. cursor.instance # 0 /\ since' = since /\ c.instance = cursor.instance
    BY <1>2, <1>3, <1>4, <1>6
  <2>2. Skips' = round.skipped + 1
    BY <1>2, <1>5, <1>6 DEF Skips
  <2>3. Skips = round.skipped
    <3>1. CASE round.skipped = 0
      BY <3>1, <1>1, Skipped
    <3>2. CASE round.skipped # 0
      <4>1. round.counts
        BY <3>2, <1>4, <1>6, Zenon
      <4> QED
        BY <4>1, <1>1, <1>2, Skipped
    <3> QED
      BY <3>1, <3>2
  <2> HIDE DEF Skips
  <2>4. cursor'.instance = cursor.instance /\ cursor'.seq - Skips' = cursor.seq - Skips
    BY <2>1, <2>2, <2>3, <1>1, <1>2, <1>3, <1>4
  <2>5. since[cursor.instance] <= cursor.seq - Skips /\ Within(log)
    BY <2>1, <1>1, <1>2 DEF Begun
  <2> QED
    BY <2>1, <2>4, <2>5, <1>2 DEF Begun, Within
<1>7. CASE ~counts
  <2>1. ~round'.counts /\ round'.skipped > 0
    BY <1>1, <1>5, <1>7
  <2>2. log' = <<>>
    BY <2>1, <1>1, <1>2 DEF SkipsTold
  <2>3. Within(log)'
    BY <2>2 DEF Within
  <2>4. Skips' = 0
    BY <2>1 DEF Skips
  <2>5. since'[i] = c.seq
    BY <1>1, <1>2, <1>3, <1>4, <1>7
  <2> HIDE DEF Skips
  <2>6. cursor'.instance = i /\ cursor'.seq - Skips' = c.seq /\ c.seq \in Nat
    BY <2>4, <1>1, <1>2, <1>3, <1>4
  <2> QED
    BY <2>3, <2>5, <2>6, <1>2 DEF Begun
<1> QED
  BY <1>6, <1>7

\* Rows of which only the first may count records, all of one process, whose counts begin
\* after `from`, for the process the panel began then.
LEMMA BegunToWrite ==
  ASSUME LossInv, Within(log), SinceGoesOn, log' = log, pc' = "write",
         batch'.rows \in Seq(Rows), NEW i, batch'.next.instance = i,
         since'[i] <= batch'.next.seq,
         \A k \in 1 .. Len(batch'.rows) :
           batch'.rows[k].lost > 0 =>
             batch'.rows[k].instance = i /\ since'[i] <= batch'.rows[k].seq - batch'.rows[k].lost
  PROVE  Begun'
<1>1. Within(log)' /\ log \in Seq(Rows)
  BY WithinStays, LossFacts
<1>2. Within(batch.rows)'
  BY DEF Within
<1>3. Within(log \o batch.rows)'
  <2> DEFINE a == log  b == batch'.rows  x == a \o b
  <2>1. /\ \A k \in 1 .. Len(a) : x[k] = a[k]
        /\ \A k \in 1 .. Len(b) : x[Len(a) + k] = b[k]
        /\ \A k \in 1 .. Len(x) : k \in 1 .. Len(a) \/ \E n \in 1 .. Len(b) : k = Len(a) + n
    BY <1>1, ConcatRows
  <2> HIDE DEF x
  <2>2. ASSUME NEW k \in 1 .. Len(x), x[k].lost > 0
        PROVE  since'[x[k].instance] <= x[k].seq - x[k].lost
    <3>1. CASE k \in 1 .. Len(a)
      BY <3>1, <2>1, <2>2, <1>1 DEF Within
    <3>2. CASE \E n \in 1 .. Len(b) : k = Len(a) + n
      BY <3>2, <2>1, <2>2, <1>2 DEF Within
    <3> QED
      BY <3>1, <3>2, <2>1
  <2>3. log' \o batch'.rows = x
    BY DEF x
  <2> QED
    BY <2>2, <2>3 DEF Within
<1>4. Begun'
  BY <1>1, <1>3 DEF Begun
<1> QED
  BY <1>4

LEMMA AsksKeepBegun ==
  ASSUME ExactInv, MaxFaults = 0,
         Kernel \/ AskAhead \/ AskNext \/ TakeOverlap \/ WalkHalve \/ SaveState \/ UNCHANGED vars
  PROVE  Begun'
<1>1. round \in RoundType
  BY ExactFacts
<1>2. UNCHANGED <<pc, batch, cursor, log, since>>
  BY DEF Kernel, KernelRecord, KernelUntracked, KernelRestart, KernelForget, Answer, AnswerStray,
         AskAhead, AskNext, TakeOverlap, WalkHalve, SaveState, collector, store, vars
<1>3. \/ round' = round
      \/ round' = [round EXCEPT !.asked = @ + 1]
      \/ round' = [round EXCEPT !.size = @ \div 2]
  BY DEF Kernel, KernelRecord, KernelUntracked, KernelRestart, KernelForget, Answer, AnswerStray,
         AskAhead, AskNext, TakeOverlap, WalkHalve, SaveState, collector, vars
<1>4. round'.skipped = round.skipped /\ round'.counts = round.counts
  BY <1>1, <1>3 DEF RoundType
<1>5. Skips' = Skips
  BY <1>2, <1>4 DEF Skips
<1> QED
  BY <1>2, <1>5, BegunStays

LEMMA EndWalkKeepsBegun ==
  ASSUME ExactInv, MaxFaults = 0, GroundInv', EndWalk
  PROVE  Begun'
<1> DEFINE row == Gap(at.instance, at.seq, round.skipped, 0)
<1>1. CASE ~(round.skipped > 0 /\ round.counts)
  BY <1>1, RoundsKeepBegun
<1>2. CASE round.skipped > 0 /\ round.counts
  <2>1. /\ LossInv /\ GroundInv /\ OrderInv /\ PlaceInv /\ TypeOK /\ round.skipped \in Nat /\ Begun
        /\ cursor.instance \in 0 .. MaxInstance /\ cursor.seq \in Nat
        /\ at.instance \in Instances /\ at.seq \in Seqs
    BY ExactFacts, OrderFacts, StateFacts, PointFacts
  <2>2. /\ pc = "walk" /\ pc' = "write" /\ UNCHANGED <<log, since>>
        /\ batch' = [rows |-> <<row>>, next |-> at, counted |-> mem.counted, back |-> "idle"]
    BY <1>2 DEF EndWalk, store
  <2>3. at = cursor /\ at.instance # 0
    <3>1. at = cursor
      BY <1>2, <2>1, <2>2 DEF PlaceInv
    <3>2. at.instance # 0
      BY <1>2, <2>1, <2>2 DEF PlaceInv
    <3> QED
      BY <3>1, <3>2
  <2>4. Skips = round.skipped
    BY <1>2, <2>1, <2>2, Skipped
  <2>5. since[at.instance] <= at.seq - round.skipped
    <3> HIDE DEF Skips
    <3>1. since[cursor.instance] <= cursor.seq - Skips
      BY <2>1, <2>2, <2>3 DEF Begun
    <3> QED
      BY <3>1, <2>3, <2>4
  <2>6. since[at.instance] <= at.seq /\ at.seq \in Nat
    <3>1. since[at.instance] \in Nat
      BY <2>1, <2>3, ExactFacts
    <3>2. at.seq \in Nat
      BY <2>1, <2>3
    <3> QED
      BY <3>1, <3>2, <2>1, <2>5
  <2>7. row \in Rows /\ row.instance = at.instance /\ row.seq = at.seq /\ row.lost = round.skipped
    BY <2>1, GapRow DEF Gap
  <2>8. batch'.rows = <<row>> /\ batch'.next = at
    BY <2>2
  <2> HIDE DEF row
  <2>9. <<row>> \in Seq(Rows) /\ \A k \in 1 .. Len(<<row>>) : <<row>>[k] = row
    BY <2>7, OneRow
  <2>10. Within(log) /\ SinceGoesOn
    BY <2>1, <2>2 DEF Begun, SinceGoesOn
  <2>11. \A k \in 1 .. Len(batch'.rows) :
           batch'.rows[k].lost > 0 =>
             batch'.rows[k].instance = at.instance
             /\ since'[at.instance] <= batch'.rows[k].seq - batch'.rows[k].lost
    BY <2>2, <2>5, <2>7, <2>8, <2>9
  <2> QED
    BY <2>1, <2>2, <2>6, <2>8, <2>9, <2>10, <2>11, BegunToWrite
<1> QED
  BY <1>1, <1>2

LEMMA TakenKeepsBegun ==
  ASSUME ExactInv, MaxFaults = 0, NEW page \in Pages, NEW c \in Cursors, NEW after \in Seqs,
         NEW oversized \in Nat, NEW back \in {"idle", "parallel", "walk"},
         Taken(page, c, after, oversized, back)
  PROVE  Begun'
<1> DEFINE rows == BatchOf(page, c, after, oversized, back).rows
           i == page.instance
<1>1. /\ LossInv /\ Begun /\ GroundInv /\ TypeOK /\ after \in Nat /\ page.missed \in Nat
      /\ page.last \in Nat /\ page.instance \in Nat /\ cursor.instance \in Nat
      /\ since \in [1 .. MaxInstance -> Seqs] /\ kernel.instance <= MaxInstance
      /\ kernel.instance \in Nat /\ MaxInstance \in Nat /\ cursor.seq \in Nat
  BY ExactFacts, OrderFacts, StateFacts, PageFacts, SeqsAreNumbers, Bounds
<1>2. /\ Takeable(page, after) /\ batch' = BatchOf(page, c, after, oversized, back)
      /\ c.instance = cursor.instance /\ NoteSince(page, c) /\ oversized <= after
      /\ page.instance = cursor.instance => after - oversized = cursor.seq - Skips
      /\ page.instance # cursor.instance => after = 0 /\ oversized = 0
      /\ pc \in {"parallel", "walk"} /\ pc' = "write" /\ log' = log
  BY DEF Taken
<1>3. i \in 1 .. MaxInstance /\ i # 0 /\ cursor.instance <= i /\ after + page.missed <= page.last
  BY <1>1, <1>2 DEF Takeable
<1>4. /\ RowsAre(rows, page, c, after, oversized) /\ rows \in Seq(Rows)
      /\ batch'.rows = rows /\ batch'.next.instance = i /\ batch'.next.seq = page.last
  <2>1. RowsAre(rows, page, c, after, oversized)
    BY <1>1, <1>2, RowsOfBatch
  <2>2. /\ batch'.next.instance = i /\ batch'.next.seq = page.last /\ batch'.rows \in Seq(Rows)
    BY <1>1, <1>2, BatchOfPage
  <2>3. batch'.rows = rows
    BY <1>2
  <2> QED
    BY <2>1, <2>2, <2>3
<1> HIDE DEF rows
<1>5. /\ since'[i] \in Nat /\ SinceGoesOn
      /\ \/ c.instance = i /\ since'[i] <= after - oversized
         \/ c.instance # i /\ oversized = 0 /\ after = 0 /\ since'[i] = page.missed
  <2>1. CASE i = cursor.instance
    <3>1. since' = since /\ c.instance = i
      BY <2>1, <1>2 DEF NoteSince
    <3>2. since[i] <= after - oversized
      <4> HIDE DEF Skips
      <4>1. since[cursor.instance] <= cursor.seq - Skips
        BY <2>1, <1>1, <1>2, <1>3 DEF Begun
      <4> QED
        BY <4>1, <2>1, <1>2
    <3>3. since[i] \in Nat
      BY <1>1, <1>3, SeqsAreNumbers
    <3> QED
      BY <3>1, <3>2, <3>3 DEF SinceGoesOn
  <2>2. CASE i # cursor.instance
    <3>1. since' = [since EXCEPT ![i] = page.missed] /\ after = 0 /\ oversized = 0 /\ c.instance # i
      BY <2>2, <1>2 DEF NoteSince
    <3>2. since'[i] = page.missed
      BY <3>1, <1>1, <1>3
    <3>3. cursor.instance < i /\ pc # "down" /\ i \in Nat
      BY <2>2, <1>1, <1>2, <1>3
    <3>4. SinceGoesOn
      BY <3>1, <3>3, <1>1 DEF SinceGoesOn
    <3> QED
      BY <3>1, <3>2, <3>4, <1>1
  <2> QED
    BY <2>1, <2>2
<1> HIDE DEF i
<1>6. since'[i] <= page.last
  BY <1>1, <1>2, <1>3, <1>5
<1>7. ASSUME NEW k \in 1 .. Len(rows), rows[k].lost > 0
      PROVE  rows[k].instance = i /\ since'[i] <= rows[k].seq - rows[k].lost
  <2>1. ~(rows[k] = Entry(page.instance, rows[k].seq))
    BY <1>7 DEF Entry
  <2>2. rows[k] = GapOf(page, c, after, oversized)
    BY <2>1, <1>4 DEF RowsAre
  <2>3. rows[k].instance = i /\ rows[k].seq = after + MissedOf(page, c)
        /\ rows[k].lost = MissedOf(page, c) + oversized
    BY <2>2 DEF GapOf, Gap, i
  <2>4. CASE c.instance = i
    <3>1. MissedOf(page, c) = page.missed
      BY <2>4 DEF MissedOf, i
    <3>2. rows[k].seq - rows[k].lost = after - oversized
      BY <3>1, <2>3, <1>1
    <3> QED
      BY <3>2, <2>3, <2>4, <1>5
  <2>5. CASE c.instance # i
    <3>1. MissedOf(page, c) = 0 /\ oversized = 0
      BY <2>5, <1>5 DEF MissedOf, i
    <3> QED
      BY <3>1, <2>3, <1>7
  <2> QED
    BY <2>4, <2>5
<1>8. Within(log)
  BY <1>1 DEF Begun
<1>9. \A k \in 1 .. Len(batch'.rows) :
        batch'.rows[k].lost > 0 =>
          batch'.rows[k].instance = i /\ since'[i] <= batch'.rows[k].seq - batch'.rows[k].lost
  BY <1>4, <1>7
<1> QED
  BY <1>1, <1>2, <1>4, <1>5, <1>6, <1>8, <1>9, BegunToWrite

LEMMA TakesKeepBegun ==
  ASSUME ExactInv, MaxFaults = 0, GroundInv', TakePage \/ EndParallel \/ WalkPage
  PROVE  Begun'
<1>1. GapInv
  BY ExactFacts
<1>2. CASE TakePage
  BY <1>1, <1>2, TakePageTakes, TakenKeepsBegun
<1>3. CASE EndParallel /\ round.gone.found
  BY <1>1, <1>3, EndParallelTakes, TakenKeepsBegun
<1>4. CASE EndParallel /\ ~round.gone.found
  BY <1>4, RoundsKeepBegun
<1>5. CASE WalkPage
  BY <1>1, <1>5, WalkPageTakes, TakenKeepsBegun
<1> QED
  BY <1>2, <1>3, <1>4, <1>5

LEMMA WritesKeepBegun ==
  ASSUME ExactInv, MaxFaults = 0, AppendRows \/ Advance
  PROVE  Begun'
<1>1. Begun /\ OrderInv /\ GapInv
  BY ExactFacts
<1>2. CASE AppendRows
  <2>1. pc = "write" /\ pc' = "advance" /\ log' = log \o batch.rows /\ UNCHANGED <<batch, since>>
    BY <1>1, <1>2, Appended
  <2>2. Within(log \o batch.rows) /\ since[batch.next.instance] <= batch.next.seq
    BY <2>1, <1>1 DEF Begun
  <2>3. Within(log)'
    BY <2>1, <2>2 DEF Within
  <2> QED
    BY <2>1, <2>2, <2>3 DEF Begun
<1>3. CASE Advance
  <2>1. /\ pc = "advance" /\ cursor' = batch.next /\ pc' \in {"idle", "parallel", "walk"}
        /\ UNCHANGED <<log, since>> /\ (round' = round \/ round' = NewRound) /\ SkipsWalking
        /\ batch.next.seq \in Int
    <3>1. UNCHANGED since /\ batch.next.seq \in Int
      BY <1>3, ExactFacts, StateFacts, PointFacts DEF Advance
    <3> QED
      BY <3>1, <1>1, <1>3, GapFacts, Advanced
  <2>2. Skips' = 0
    <3>1. round'.skipped = 0
      BY <2>1, RoundFacts DEF SkipsWalking
    <3> QED
      BY <3>1 DEF Skips
  <2>3. Within(log)'
    BY <2>1, <1>1 DEF Begun, Within
  <2> HIDE DEF Skips
  <2>4. since'[cursor'.instance] <= cursor'.seq - Skips'
    <3>1. since[batch.next.instance] <= batch.next.seq
      BY <2>1, <1>1 DEF Begun
    <3> QED
      BY <3>1, <2>1, <2>2
  <2> QED
    BY <2>1, <2>3, <2>4 DEF Begun
<1> QED
  BY <1>2, <1>3

\* Without faults none of these happens.
LEMMA NoFaults ==
  ASSUME ExactInv, MaxFaults = 0
  PROVE  ~TakeFailure /\ ~RequestFails /\ ~AppendFails /\ ~DropRows /\ ~PanelEnds /\ ~PanelStarts
<1>1. TypeOK /\ Quiet /\ flight \in Seq(Requests) /\ pc # "down"
  BY ExactFacts, StateFacts
<1>2. ~(faults < MaxFaults)
  BY <1>1 DEF TypeOK
<1>3. ~TakeFailure
  <2> SUFFICES ASSUME TakeFailure PROVE FALSE
    OBVIOUS
  <2>1. flight # <<>> /\ First.kind = "failed"
    BY DEF TakeFailure, Arrived
  <2>2. 1 \in 1 .. Len(flight) /\ flight[1].kind = "failed"
    BY <2>1, <1>1 DEF First
  <2> QED
    BY <2>2, <1>1 DEF Quiet
<1>4. ~RequestFails /\ ~AppendFails /\ ~DropRows /\ ~PanelEnds /\ ~PanelStarts
  BY <1>1, <1>2 DEF RequestFails, AppendFails, DropRows, PanelEnds, PanelStarts
<1> QED
  BY <1>3, <1>4

LEMMA InitBegun ==
  ASSUME Init, MaxFaults = 0
  PROVE  ExactInv
<1>1. LossInv /\ log = <<>> /\ pc = "idle" /\ cursor = NoCursor
  BY InitLoss DEF Init
<1>2. Begun
  BY <1>1 DEF Begun, Within, NoCursor
<1> QED
  BY <1>1, <1>2 DEF ExactInv

LEMMA NextKeepsExact ==
  ASSUME ExactInv, EarlyRestarts = FALSE, MaxFaults = 0, [Next]_vars
  PROVE  ExactInv'
<1>1. LossInv' /\ GroundInv'
  <2>1. LossInv'
    BY NextKeepsLoss DEF ExactInv
  <2> QED
    BY <2>1 DEF LossInv
<1>2. Begun'
  <2>1. CASE Kernel \/ AskAhead \/ AskNext \/ TakeOverlap \/ WalkHalve \/ SaveState \/ UNCHANGED vars
    BY <2>1, AsksKeepBegun
  <2>2. CASE TakeTooLarge \/ BeginRound \/ TakeGone
    BY <2>2, <1>1, RoundsKeepBegun
  <2>3. CASE TakeRestarted \/ WalkRestarted \/ SkipFindsRestart
    BY <2>3, StartsOverKeepBegun
  <2>4. CASE TakePage \/ EndParallel \/ WalkPage
    BY <2>4, <1>1, TakesKeepBegun
  <2>5. CASE SkipOversized \/ EndWalk
    BY <2>5, <1>1, SkipOversizedKeepsBegun, EndWalkKeepsBegun
  <2>6. CASE AppendRows \/ Advance
    BY <2>6, WritesKeepBegun
  <2>7. ~TakeFailure /\ ~RequestFails /\ ~AppendFails /\ ~DropRows /\ ~PanelEnds /\ ~PanelStarts
    BY NoFaults
  <2> QED
    BY <2>1, <2>2, <2>3, <2>4, <2>5, <2>6, <2>7 DEF Next, Collect, Parallel, Walk, Fault
<1> QED
  BY <1>1, <1>2 DEF ExactInv

\* Where nothing fails no gap row counts what came before the panel began to record a
\* process (store_page leaves the first page's missed records out, skip_oversized the
\* records skipped before there was a cursor).
THEOREM ExactInvariant ==
  ASSUME EarlyRestarts = FALSE, MaxFaults = 0
  PROVE  Spec => []ExactInv
<1>1. Init => ExactInv
  BY InitBegun
<1>2. ExactInv /\ [Next]_vars => ExactInv'
  BY NextKeepsExact
<1> QED
  BY <1>1, <1>2, PTL DEF Spec

LEMMA CountsExactly ==
  ASSUME ExactInv, MaxFaults = 0, Ignored = {}
  PROVE  GapsAreExact
<1> SUFFICES ASSUME pc = "idle", cursor.instance # 0
             PROVE  LostTold(cursor.instance) = Cardinality(Missing(cursor.instance))
  BY DEF GapsAreExact, Missing
<1> DEFINE i == cursor.instance
           S == Missing(i)
<1>1. /\ LossInv /\ GapInv /\ Within(log) /\ cursor.seq \in Nat /\ since[i] \in Nat
  <2>1. cursor.instance \in 1 .. MaxInstance
    BY ExactFacts
  <2> QED
    BY <2>1, ExactFacts DEF Begun
<1>2. IsFiniteSet(S)
  <2>1. S \in SUBSET Passed(i)
    BY DEF Missing
  <2>2. IsFiniteSet(Passed(i))
    <3> DEFINE a == since[i] + 1
    <3> HIDE DEF a, i
    <3>1. a \in Int /\ cursor.seq \in Int
      BY <1>1 DEF a
    <3>2. IsFiniteSet(a .. cursor.seq)
      BY <3>1, FS_Interval
    <3> QED
      BY <3>2 DEF Passed, a
  <2> HIDE DEF S
  <2> QED
    BY <2>1, <2>2, FS_Subset
<1>3. ASSUME NEW m \in LostMarks(i) PROVE NumberOf(m) \in S
  <2>1. /\ m[1] \in 1 .. Len(log) /\ log[m[1]].instance = i /\ m[2] \in 1 .. log[m[1]].lost
        /\ NumberOf(m) \in Nat /\ log[m[1]].seq - log[m[1]].lost < NumberOf(m)
        /\ log[m[1]].lost \in Nat /\ log[m[1]].seq \in Nat
    BY <1>1, LostMark
  <2>2. NumberOf(m) <= cursor.seq /\ ~IsStored(i, NumberOf(m))
    BY <1>1, MarksUpTo, MarkNotStored
  <2>3. since[i] <= log[m[1]].seq - log[m[1]].lost
    <3>1. log[m[1]].lost > 0
      BY <2>1
    <3> QED
      BY <3>1, <2>1, <1>1 DEF Within
  <2>4. NumberOf(m) \in since[i] + 1 .. cursor.seq
    <3> DEFINE n == NumberOf(m)
    <3> HIDE DEF n
    <3>1. n \in Nat /\ n <= cursor.seq /\ since[i] < n
      BY <2>1, <2>2, <2>3, <1>1 DEF n
    <3> QED
      BY <3>1, <1>1 DEF n
  <2> QED
    BY <2>2, <2>4 DEF Missing, Passed
<1>4. IsFiniteSet(LostMarks(i)) /\ Cardinality(LostMarks(i)) <= Cardinality(S)
  <2> HIDE DEF S, i
  <2> QED
    BY <1>1, <1>2, <1>3, MarksCounted
<1>5. Cardinality(S) <= Cardinality(LostMarks(i))
  BY <1>1, MissingMarked
<1>6. Cardinality(S) \in Nat /\ Cardinality(LostMarks(i)) \in Nat
  BY <1>2, <1>4, FS_CardinalityType
<1> QED
  BY <1>4, <1>5, <1>6 DEF LostTold

\* Between rounds the gap rows count exactly what the cursor has passed and the log does
\* not hold (store_page and skip_oversized), where nothing fails and no domain is ignored.
THEOREM GapsCountExactly ==
  ASSUME EarlyRestarts = FALSE, MaxFaults = 0, Ignored = {}
  PROVE  Spec => []GapsAreExact
<1>1. ExactInv => GapsAreExact
  BY CountsExactly
<1> QED
  BY <1>1, ExactInvariant, PTL

---------------------------------------------------------------------------
(* Unrecorded requests are told once.                                      *)

\* How many unrecorded requests of process i the rows tell.
MarksIn(rows, i) ==
  UNION {{k} \X (1 .. rows[k].busy) : k \in {n \in 1 .. Len(rows) : rows[n].instance = i}}
Told(rows, i) == Cardinality(MarksIn(rows, i))

\* Only the first row of a batch tells of any.
BusyOf(rows, i) == IF rows # <<>> /\ rows[1].instance = i THEN rows[1].busy ELSE 0
OneBusy(rows)   == \A k \in 2 .. Len(rows) : rows[k].busy = 0

LEMMA MarksInEnd ==
  ASSUME NEW rows \in Seq(Rows), NEW i
  PROVE  IsFiniteSet(MarksIn(rows, i)) /\ Told(rows, i) \in Nat
<1> DEFINE K == {n \in 1 .. Len(rows) : rows[n].instance = i}
           P == {{k} \X (1 .. rows[k].busy) : k \in K}
<1>1. Len(rows) \in Nat /\ \A k \in 1 .. Len(rows) : rows[k].busy \in Nat
  <2>1. Len(rows) \in Nat /\ \A k \in 1 .. Len(rows) : rows[k] \in Rows
    OBVIOUS
  <2> QED
    BY <2>1 DEF Rows
<1>2. IsFiniteSet(K)
  <2>1. IsFiniteSet(1 .. Len(rows)) /\ K \in SUBSET (1 .. Len(rows))
    BY <1>1, FS_Interval
  <2> HIDE DEF K
  <2> QED
    BY <2>1, FS_Subset
<1>3. ASSUME NEW k \in K PROVE IsFiniteSet({k} \X (1 .. rows[k].busy))
  <2>1. IsFiniteSet({k})
    BY FS_Singleton
  <2>2. IsFiniteSet(1 .. rows[k].busy)
    <3>1. rows[k].busy \in Int
      BY <1>1
    <3> HIDE DEF K
    <3> QED
      BY <3>1, FS_Interval
  <2> QED
    BY <2>1, <2>2, FS_Product
<1>4. IsFiniteSet(P)
  <2> DEFINE f == [k \in K |-> {k} \X (1 .. rows[k].busy)]
  <2>1. f \in Surjection(K, P)
    BY DEF Surjection
  <2> HIDE DEF f, P, K
  <2> QED
    BY <2>1, <1>2, FS_Surjection
<1>5. IsFiniteSet(UNION P)
  <2>1. \A T \in P : IsFiniteSet(T)
    BY <1>3
  <2> HIDE DEF P
  <2> QED
    BY <2>1, <1>4, FS_UNION
<1>6. MarksIn(rows, i) = UNION P
  BY DEF MarksIn
<1> QED
  BY <1>5, <1>6, FS_CardinalityType DEF Told

LEMMA NoneOfAnother ==
  ASSUME NEW rows \in Seq(Rows), NEW i, \A k \in 1 .. Len(rows) : rows[k].instance # i
  PROVE  Told(rows, i) = 0
<1>1. MarksIn(rows, i) = {}
  BY DEF MarksIn
<1> QED
  BY <1>1, FS_EmptySet DEF Told

\* Rows of which only the first tells of any add what it tells.
LEMMA BusyAppended ==
  ASSUME NEW a \in Seq(Rows), NEW b \in Seq(Rows), OneBusy(b), NEW i
  PROVE  Told(a \o b, i) <= Told(a, i) + BusyOf(b, i)
<1> DEFINE x == a \o b
           n == Len(a) + 1
           T == {n} \X (1 .. BusyOf(b, i))
<1>1. /\ x \in Seq(Rows) /\ Len(a) \in Nat /\ Len(b) \in Nat
      /\ \A k \in 1 .. Len(a) : x[k] = a[k]
      /\ \A k \in 1 .. Len(b) : x[Len(a) + k] = b[k] /\ b[k] \in Rows
      /\ \A k \in 1 .. Len(x) : k \in 1 .. Len(a) \/ \E m \in 1 .. Len(b) : k = Len(a) + m
  BY ConcatRows
<1>2. BusyOf(b, i) \in Nat
  <2>1. CASE b = <<>>
    BY <2>1 DEF BusyOf
  <2>2. CASE b # <<>>
    <3>1. b[1] \in Rows
      BY <2>2
    <3> QED
      BY <3>1 DEF BusyOf, Rows
  <2> QED
    BY <2>1, <2>2
<1> HIDE DEF x
<1>3. IsFiniteSet(T) /\ Cardinality(T) = BusyOf(b, i)
  <2> DEFINE h == BusyOf(b, i)
  <2> HIDE DEF h
  <2>1. IsFiniteSet({n}) /\ Cardinality({n}) = 1
    BY FS_Singleton
  <2>2. IsFiniteSet(1 .. h) /\ Cardinality(1 .. h) = h
    BY <1>2, FS_Interval DEF h
  <2>3. IsFiniteSet({n} \X (1 .. h)) /\ Cardinality({n} \X (1 .. h)) = 1 * h
    <3> HIDE DEF n
    <3> QED
      BY <2>1, <2>2, FS_Product
  <2>4. 1 * h = h
    BY <1>2 DEF h
  <2> QED
    BY <2>3, <2>4 DEF h
<1>4. ASSUME NEW m \in MarksIn(x, i) PROVE m \in MarksIn(a, i) \/ m \in T
  <2>1. PICK k \in 1 .. Len(x) : x[k].instance = i /\ m \in {k} \X (1 .. x[k].busy)
    BY DEF MarksIn
  <2>2. CASE k \in 1 .. Len(a)
    <3>1. a[k].instance = i /\ m \in {k} \X (1 .. a[k].busy)
      BY <2>1, <2>2, <1>1
    <3> QED
      BY <3>1, <2>2 DEF MarksIn
  <2>3. CASE \E j \in 1 .. Len(b) : k = Len(a) + j
    <3>1. PICK j \in 1 .. Len(b) : k = Len(a) + j
      BY <2>3
    <3>2. x[k] = b[j]
      BY <3>1, <1>1
    <3>3. m[2] \in 1 .. b[j].busy /\ m[1] = k /\ m = <<m[1], m[2]>>
      BY <2>1, <3>2
    <3>4. j = 1
      <4>1. b[j].busy # 0
        BY <3>3
      <4>2. j \notin 2 .. Len(b)
        BY <4>1 DEF OneBusy
      <4> QED
        BY <4>2, <1>1
    <3>5. BusyOf(b, i) = b[j].busy /\ k = n
      BY <3>1, <3>2, <3>4, <2>1 DEF BusyOf
    <3> QED
      BY <3>3, <3>5
  <2> QED
    BY <2>1, <2>2, <2>3, <1>1
<1>5. IsFiniteSet(MarksIn(a, i)) /\ Told(a, i) \in Nat
      /\ IsFiniteSet(MarksIn(x, i)) /\ Told(x, i) \in Nat
  BY <1>1, MarksInEnd
<1> HIDE DEF T
<1>6. Told(x, i) <= Told(a, i) + BusyOf(b, i)
  <2> DEFINE S == MarksIn(a, i)
             U == S \union T
  <2>1. IsFiniteSet(U) /\ Cardinality(U) = Cardinality(S) + Cardinality(T) - Cardinality(S \cap T)
    BY <1>3, <1>5, FS_Union
  <2>2. Cardinality(S \cap T) \in Nat
    BY <1>5, FS_Intersection, FS_CardinalityType
  <2>3. MarksIn(x, i) \in SUBSET U
    BY <1>4
  <2>4. Cardinality(MarksIn(x, i)) <= Cardinality(U)
    <3> HIDE DEF U
    <3> QED
      BY <2>1, <2>3, FS_Subset
  <2>5. Cardinality(U) \in Nat /\ Cardinality(S) \in Nat /\ Cardinality(MarksIn(x, i)) \in Nat
    BY <2>1, <1>5, FS_CardinalityType
  <2> HIDE DEF U, S
  <2>6. Cardinality(MarksIn(x, i)) <= Cardinality(S) + BusyOf(b, i)
    BY <2>1, <2>2, <2>4, <2>5, <1>2, <1>3
  <2> QED
    BY <2>6 DEF Told, S
<1> QED
  BY <1>6 DEF x

\* A first part of such rows tells no more.
LEMMA BusyInPart ==
  ASSUME NEW rows \in Seq(Rows), OneBusy(rows), NEW n \in 0 .. Len(rows), NEW i
  PROVE  OneBusy(SubSeq(rows, 1, n)) /\ BusyOf(SubSeq(rows, 1, n), i) <= BusyOf(rows, i)
         /\ BusyOf(rows, i) \in Nat /\ BusyOf(SubSeq(rows, 1, n), i) \in Nat
<1> DEFINE part == SubSeq(rows, 1, n)
<1>1. part \in Seq(Rows) /\ Len(part) = n /\ \A k \in 1 .. n : part[k] = rows[k] /\ k \in 1 .. Len(rows)
  BY FirstRows
<1>2. \A k \in 1 .. Len(rows) : rows[k].busy \in Nat
  <2>1. \A k \in 1 .. Len(rows) : rows[k] \in Rows
    OBVIOUS
  <2> QED
    BY <2>1 DEF Rows
<1>3. BusyOf(rows, i) \in Nat
  <2>1. CASE rows = <<>>
    BY <2>1 DEF BusyOf
  <2>2. CASE rows # <<>>
    BY <2>2, <1>2 DEF BusyOf
  <2> QED
    BY <2>1, <2>2
<1> HIDE DEF part
<1>4. CASE n = 0
  <2>1. part = <<>>
    BY <1>1, <1>4
  <2> QED
    BY <2>1, <1>3 DEF BusyOf, OneBusy, part
<1>5. CASE n # 0
  <2>1. n >= 1 /\ part # <<>> /\ rows # <<>> /\ part[1] = rows[1] /\ n \in Nat
    BY <1>1, <1>5
  <2>2. BusyOf(part, i) = BusyOf(rows, i)
    BY <2>1 DEF BusyOf
  <2>3. OneBusy(part)
    <3>1. ASSUME NEW k \in 2 .. Len(part) PROVE part[k].busy = 0
      <4>1. k \in 1 .. n /\ k \in 2 .. Len(rows)
        BY <1>1, <2>1
      <4> QED
        BY <4>1, <1>1 DEF OneBusy
    <3> QED
      BY <3>1 DEF OneBusy
  <2> QED
    BY <2>2, <2>3, <1>3 DEF part
<1> QED
  BY <1>4, <1>5

\* The count a page of KixDNS's process brings is not ahead of KixDNS's, and while the
\* collector has no count of its own, what was told of the page's process is behind it.
PageCount(page, k, counted, rows) ==
  /\ page.instance = k.instance => page.untracked <= k.untracked
  /\ counted.instance = 0 => Told(rows, page.instance) <= page.untracked

\* A count the collector has is of process i: not less than told, not more than KixDNS's.
CountHolds(counted, i, more, k, rows) ==
  counted.instance # 0 =>
    /\ counted.instance = i
    /\ Told(rows, i) + more <= counted.count
    /\ i = k.instance => counted.count <= k.untracked

KernelCount == Told(log, kernel.instance) <= kernel.untracked
PageCounts  ==
  /\ \A k \in 1 .. Len(flight) :
       Answered(flight[k]) => PageCount(flight[k].page, kernel, mem.counted, log)
  /\ pc = "parallel" /\ round.gone.found => PageCount(round.gone.page, kernel, mem.counted, log)
OwnCount    == pc # "advance" => CountHolds(mem.counted, cursor.instance, 0, kernel, log)
BatchCount  ==
  LET i == batch.next.instance
  IN  /\ pc = "write" =>
           /\ OneBusy(batch.rows)
           /\ mem.counted.instance = 0 => BusyOf(batch.rows, i) = 0
           /\ CountHolds(batch.counted, i, BusyOf(batch.rows, i), kernel, log)
      /\ pc = "advance" => CountHolds(batch.counted, i, 0, kernel, log)
      /\ pc \in {"write", "advance"} /\ batch.counted.instance = 0 => mem.counted.instance = 0

BusyInv == OrderInv /\ KernelCount /\ PageCounts /\ OwnCount /\ BatchCount

LEMMA BusyFacts ==
  ASSUME BusyInv
  PROVE  /\ OrderInv /\ TypeOK /\ KernelCount /\ PageCounts /\ OwnCount /\ BatchCount
         /\ kernel.instance \in Nat /\ kernel.instance # 0 /\ kernel.untracked \in Nat
         /\ cursor.instance \in Nat /\ cursor.instance <= kernel.instance
         /\ log \in Seq(Rows) /\ batch.rows \in Seq(Rows) /\ flight \in Seq(Requests)
         /\ mem.counted.instance \in Nat /\ mem.counted.count \in Nat /\ mem \in MemType
         /\ round \in RoundType
         /\ \A i : Told(log, i) \in Nat
<1>1. OrderInv /\ KernelCount /\ PageCounts /\ OwnCount /\ BatchCount
  BY DEF BusyInv
<1>2. /\ TypeOK /\ kernel.instance \in Nat /\ kernel.instance >= 1 /\ cursor.instance \in Nat
      /\ cursor.instance <= kernel.instance
  BY <1>1, OrderFacts
<1>3. /\ kernel \in KernelType /\ log \in Seq(Rows) /\ batch.rows \in Seq(Rows) /\ mem \in MemType
      /\ flight \in Seq(Requests) /\ mem.counted \in Counts /\ round \in RoundType
  BY <1>2, StateFacts
<1>4. kernel.untracked \in Nat
  BY <1>3, KernelFacts, Bounds
<1>5. mem.counted.instance \in Nat /\ mem.counted.count \in Nat
  BY <1>3, CountFacts
<1>6. \A i : Told(log, i) \in Nat
  BY <1>3, MarksInEnd
<1>7. kernel.instance # 0
  BY <1>2
<1> QED
  BY <1>1, <1>2, <1>3, <1>4, <1>5, <1>6, <1>7

\* Processes are those there were; KixDNS's count of one goes up, and a new one has none yet.
CountsOn(k, next) ==
  \A i \in 0 .. k.instance : i = next.instance => i = k.instance /\ k.untracked <= next.untracked

LEMMA PageGoesOn ==
  ASSUME NEW page \in Pages, NEW k, NEW next, NEW counted, NEW later, NEW rows, NEW more,
         k.instance \in Nat, k.untracked \in Nat, next.untracked \in Nat,
         CountsOn(k, next), page.instance <= k.instance, PageCount(page, k, counted, rows),
         later.instance = 0 =>
           counted.instance = 0 /\ Told(more, page.instance) <= Told(rows, page.instance)
           /\ Told(more, page.instance) \in Nat /\ Told(rows, page.instance) \in Nat
  PROVE  PageCount(page, next, later, more)
<1>1. page.instance \in 0 .. k.instance /\ page.untracked \in Nat
  BY PageFacts
<1>2. page.instance = next.instance => page.untracked <= next.untracked
  BY <1>1 DEF CountsOn, PageCount
<1>3. later.instance = 0 => Told(more, page.instance) <= page.untracked
  BY <1>1 DEF PageCount
<1> QED
  BY <1>2, <1>3 DEF PageCount

LEMMA CountGoesOn ==
  ASSUME NEW counted \in Counts, NEW i \in Nat, NEW n, NEW k, NEW next, NEW rows,
         k.instance \in Nat, k.untracked \in Nat, next.untracked \in Nat,
         CountsOn(k, next), i <= k.instance, CountHolds(counted, i, n, k, rows)
  PROVE  CountHolds(counted, i, n, next, rows)
<1>1. i \in 0 .. k.instance /\ counted.count \in Nat
  BY CountFacts
<1>2. counted.instance # 0 /\ i = next.instance => counted.count <= next.untracked
  BY <1>1 DEF CountsOn, CountHolds
<1> QED
  BY <1>2 DEF CountHolds

\* A request under way is one there was, with its page.
Among(reqs, earlier) ==
  \A k \in 1 .. Len(reqs) :
    Answered(reqs[k]) =>
      \E n \in 1 .. Len(earlier) : Answered(earlier[n]) /\ earlier[n].page = reqs[k].page

\* Pages keep their counts over every step that has none of its own.
LEMMA PagesGoOn ==
  ASSUME BusyInv, CountsOn(kernel, kernel'), kernel'.untracked \in Nat, Among(flight', flight),
         mem'.counted.instance = 0 =>
           /\ mem.counted.instance = 0
           /\ \A i : Told(log', i) \in Nat /\ Told(log', i) <= Told(log, i),
         pc' = "parallel" /\ round'.gone.found =>
           \/ pc = "parallel" /\ round.gone.found /\ round'.gone.page = round.gone.page
           \/ \E n \in 1 .. Len(flight) : Answered(flight[n]) /\ flight[n].page = round'.gone.page
  PROVE  PageCounts'
<1>1. /\ OrderInv /\ TypeOK /\ PageCounts /\ kernel.instance \in Nat /\ kernel.untracked \in Nat
      /\ \A i : Told(log, i) \in Nat
  BY BusyFacts
<1>2. ASSUME NEW n \in 1 .. Len(flight), Answered(flight[n])
      PROVE  PageCount(flight[n].page, kernel', mem'.counted, log')
  <2>1. flight[n].page \in Pages /\ flight[n].page.instance <= kernel.instance
    <3>1. PageInv(flight[n], flight[n].page) /\ flight[n] \in Requests
      BY <1>1, <1>2, OrderFacts, StateFacts DEF FlightInv
    <3> QED
      BY <3>1, <1>1, RequestFacts DEF PageInv
  <2>2. PageCount(flight[n].page, kernel, mem.counted, log)
    BY <1>1, <1>2 DEF PageCounts
  <2> QED
    BY <2>1, <2>2, <1>1, PageGoesOn
<1>3. ASSUME pc = "parallel", round.gone.found
      PROVE  PageCount(round.gone.page, kernel', mem'.counted, log')
  <2>1. round.gone.page \in Pages /\ round.gone.page.instance <= kernel.instance
    <3>1. GoneInv /\ round.gone.page \in Pages
      BY <1>1, OrderFacts, StateFacts
    <3> QED
      BY <3>1, <1>1, <1>3 DEF GoneInv
  <2>2. PageCount(round.gone.page, kernel, mem.counted, log)
    BY <1>1, <1>3 DEF PageCounts
  <2> QED
    BY <2>1, <2>2, <1>1, PageGoesOn
<1>4. \A k \in 1 .. Len(flight') :
        Answered(flight'[k]) => PageCount(flight'[k].page, kernel', mem'.counted, log')
  BY <1>2 DEF Among
<1>5. pc' = "parallel" /\ round'.gone.found =>
        PageCount(round'.gone.page, kernel', mem'.counted, log')
  BY <1>2, <1>3
<1> QED
  BY <1>4, <1>5 DEF PageCounts, Answered

\* The other counts keep while KixDNS's goes on.
LEMMA CountsStay ==
  ASSUME BusyInv, CountsOn(kernel, kernel'), kernel'.untracked \in Nat,
         UNCHANGED <<pc, batch, cursor, log, mem.counted>>
  PROVE  OwnCount' /\ BatchCount'
<1>1. /\ OrderInv /\ TypeOK /\ OwnCount /\ BatchCount /\ kernel.instance \in Nat
      /\ kernel.untracked \in Nat /\ cursor.instance \in Nat /\ cursor.instance <= kernel.instance
  BY BusyFacts
<1>2. mem.counted \in Counts /\ batch.counted \in Counts /\ batch.next \in Cursors
  BY <1>1, StateFacts DEF CollectTyped, BatchType
<1>3. OwnCount'
  <2>1. pc # "advance" => CountHolds(mem.counted, cursor.instance, 0, kernel', log)
    BY <1>1, <1>2, CountGoesOn DEF OwnCount
  <2> QED
    BY <2>1 DEF OwnCount
<1>4. pc \in {"write", "advance"} => batch.next.instance \in Nat /\ batch.next.instance <= kernel.instance
  BY <1>1, <1>2, OrderFacts, PointFacts DEF BatchInv, Reached
<1>5. BatchCount'
  <2> DEFINE i == batch.next.instance
             n == BusyOf(batch.rows, i)
  <2> HIDE DEF n
  <2>1. pc = "write" => CountHolds(batch.counted, i, n, kernel', log)
    <3>1. pc = "write" => CountHolds(batch.counted, i, n, kernel, log)
      BY <1>1 DEF BatchCount, n
    <3> QED
      BY <3>1, <1>1, <1>2, <1>4, CountGoesOn
  <2>2. pc = "advance" => CountHolds(batch.counted, i, 0, kernel', log)
    BY <1>1, <1>2, <1>4, CountGoesOn DEF BatchCount
  <2> QED
    BY <2>1, <2>2, <1>1 DEF BatchCount, n
<1> QED
  BY <1>3, <1>5

LEMMA SameKernel ==
  ASSUME BusyInv, kernel' = kernel
  PROVE  CountsOn(kernel, kernel') /\ kernel'.untracked \in Nat
BY BusyFacts DEF CountsOn

LEMMA SameLog ==
  ASSUME BusyInv, log' = log
  PROVE  \A i : Told(log', i) \in Nat /\ Told(log', i) <= Told(log, i)
BY BusyFacts

LEMMA KernelKeepsBusy ==
  ASSUME BusyInv, Kernel
  PROVE  KernelCount' /\ PageCounts' /\ OwnCount' /\ BatchCount'
<1>1. /\ OrderInv /\ TypeOK /\ KernelCount /\ kernel.instance \in Nat /\ kernel.untracked \in Nat
      /\ kernel \in KernelType /\ flight \in Seq(Requests) /\ log \in Seq(Rows) /\ Len(flight) \in Nat
  BY BusyFacts, StateFacts
<1>2. UNCHANGED <<pc, round, batch, cursor, log, mem>>
  BY DEF Kernel, KernelRecord, KernelUntracked, KernelRestart, KernelForget, Answer, AnswerStray,
         collector, store
<1>3. \/ kernel'.instance = kernel.instance /\ kernel'.untracked = kernel.untracked
      \/ kernel'.instance = kernel.instance /\ kernel'.untracked = kernel.untracked + 1
      \/ kernel'.instance = kernel.instance + 1 /\ kernel'.untracked = 0
  <2>1. CASE KernelRestart
    BY <2>1 DEF KernelRestart
  <2>2. CASE KernelUntracked
    BY <2>2, <1>1 DEF KernelUntracked, KernelType
  <2>3. CASE KernelRecord \/ KernelForget \/ Answer \/ AnswerStray
    <3>1. \/ kernel' = [kernel EXCEPT !.newest = @ + 1, !.low = Larger(@, kernel.newest + 1 - RingSize)]
          \/ \E low : kernel' = [kernel EXCEPT !.low = low]
      BY <2>3 DEF KernelRecord, KernelForget, Answer, AnswerStray
    <3> QED
      BY <3>1, <1>1 DEF KernelType
  <2> QED
    BY <2>1, <2>2, <2>3 DEF Kernel
<1>4. CountsOn(kernel, kernel') /\ kernel'.untracked \in Nat
  BY <1>1, <1>3 DEF CountsOn
<1>5. KernelCount'
  <2>1. CASE kernel'.instance = kernel.instance
    <3>1. Told(log, kernel.instance) <= kernel.untracked /\ Told(log, kernel.instance) \in Nat
      BY <1>1, BusyFacts DEF KernelCount
    <3>2. kernel.untracked <= kernel'.untracked
      BY <1>1, <1>3, <2>1
    <3>3. Told(log, kernel.instance) <= kernel'.untracked
      BY <3>1, <3>2, <1>1, <1>4
    <3> QED
      BY <3>3, <2>1, <1>2 DEF KernelCount
  <2>2. CASE kernel'.instance = kernel.instance + 1 /\ kernel'.untracked = 0
    <3>1. ASSUME NEW k \in 1 .. Len(log) PROVE log[k].instance # kernel'.instance
      <4>1. log[k] \in Rows /\ Reached(CursorOf(log[k]))
        BY <1>1, OrderFacts DEF StoreInv, Genuine
      <4>2. log[k].instance <= kernel.instance /\ log[k].instance \in Nat
        BY <4>1, PointsOfRows DEF Reached
      <4> QED
        BY <4>2, <2>2, <1>1
    <3>2. Told(log, kernel'.instance) = 0
      BY <3>1, <1>1, NoneOfAnother
    <3> QED
      BY <3>2, <2>2, <1>2 DEF KernelCount
  <2> QED
    BY <2>1, <2>2, <1>3
<1>6. PageCounts'
  <2>1. CASE Answer
    <3>1. PICK k \in 1 .. Len(flight), limited \in BOOLEAN :
            flight' = [flight EXCEPT ![k] = ReplyOf(flight[k],
                         PageOf(flight[k], LowAfter(flight[k].instance,
                                                    Smaller(flight[k].stored, flight[k].after)), limited))]
      BY <2>1 DEF Answer
    <3> DEFINE page == PageOf(flight[k], LowAfter(flight[k].instance,
                                                  Smaller(flight[k].stored, flight[k].after)), limited)
    <3>2. page.instance = kernel.instance /\ page.untracked = kernel.untracked
      BY DEF PageOf
    <3>3. ReplyOf(flight[k], page).page = page
      <4>1. flight[k] \in Requests
        BY <1>1
      <4> HIDE DEF page
      <4> QED
        BY <4>1 DEF ReplyOf, Requests
    <3> HIDE DEF page
    <3>4. kernel'.instance = kernel.instance /\ kernel'.untracked = kernel.untracked
      BY <2>1, <1>1 DEF Answer, KernelType
    <3>6. PageCount(page, kernel', mem'.counted, log')
      <4>1. Told(log, kernel.instance) <= kernel.untracked
        BY <1>1 DEF KernelCount
      <4>2. page.instance = kernel'.instance => page.untracked <= kernel'.untracked
        BY <3>2, <3>4, <1>1
      <4>3. Told(log', page.instance) <= page.untracked
        BY <4>1, <3>2, <1>2
      <4> QED
        BY <4>2, <4>3 DEF PageCount
    <3>7. ASSUME NEW n \in 1 .. Len(flight'), Answered(flight'[n])
          PROVE  PageCount(flight'[n].page, kernel', mem'.counted, log')
      <4>1. n \in 1 .. Len(flight)
        BY <3>1, <1>1
      <4>2. CASE n = k
        <5>1. flight'[n].page = page
          BY <4>1, <4>2, <3>1, <3>3, <1>1 DEF page
        <5> QED
          BY <5>1, <3>6
      <4>3. CASE n # k
        <5>1. flight'[n] = flight[n]
          BY <4>1, <4>3, <3>1, <1>1
        <5>2. PageCount(flight[n].page, kernel, mem.counted, log)
          BY <5>1, <4>1, <3>7, BusyFacts DEF PageCounts
        <5>3. PageCount(flight[n].page, kernel', mem'.counted, log')
          BY <5>2, <3>4, <1>2 DEF PageCount
        <5> QED
          BY <5>1, <5>3
      <4> QED
        BY <4>2, <4>3
    <3>8. pc' = "parallel" /\ round'.gone.found =>
            PageCount(round'.gone.page, kernel', mem'.counted, log')
      <4>1. pc = "parallel" /\ round.gone.found => PageCount(round.gone.page, kernel, mem.counted, log)
        BY BusyFacts DEF PageCounts
      <4> QED
        BY <4>1, <3>4, <1>2 DEF PageCount
    <3> QED
      BY <3>7, <3>8 DEF PageCounts, Answered
  <2>2. CASE ~Answer
    <3>1. flight' = flight
      BY <2>2 DEF Kernel, KernelRecord, KernelUntracked, KernelRestart, KernelForget, AnswerStray
    <3>2. Among(flight', flight)
      BY <3>1 DEF Among
    <3>3. \A i : Told(log', i) \in Nat /\ Told(log', i) <= Told(log, i)
      BY <1>2, SameLog
    <3> QED
      BY <3>2, <3>3, <1>2, <1>4, PagesGoOn
  <2> QED
    BY <2>1, <2>2
<1>7. OwnCount' /\ BatchCount'
  BY <1>2, <1>4, CountsStay
<1> QED
  BY <1>5, <1>6, <1>7

\* Asking and saving.
LEMMA AsksKeepBusy ==
  ASSUME BusyInv, RequestFails \/ AskAhead \/ AskNext \/ TakeOverlap \/ WalkHalve \/ SaveState
         \/ DropRows \/ UNCHANGED vars
  PROVE  KernelCount' /\ PageCounts' /\ OwnCount' /\ BatchCount'
<1>1. /\ OrderInv /\ TypeOK /\ KernelCount /\ mem \in MemType /\ round \in RoundType
      /\ flight \in Seq(Requests) /\ Len(flight) \in Nat
  BY BusyFacts, StateFacts
<1>2. /\ UNCHANGED <<kernel, pc, batch, cursor, log>>
      /\ mem' = mem \/ mem' = [mem EXCEPT !.newest = SeenNewest(First.page)]
      /\ \/ round' = round
         \/ round' = [round EXCEPT !.asked = @ + 1]
         \/ round' = [round EXCEPT !.size = @ \div 2]
  BY DEF RequestFails, AskAhead, AskNext, TakeOverlap, WalkHalve, SaveState, DropRows, collector,
         store, vars
<1>3. mem'.counted = mem.counted /\ round'.gone = round.gone
  BY <1>1, <1>2 DEF MemType, RoundType
<1>4. Among(flight', flight)
  <2>1. CASE RequestFails
    <3>1. PICK k \in 1 .. Len(flight) : flight' = [flight EXCEPT ![k].kind = "failed"]
      BY <2>1 DEF RequestFails
    <3>2. ASSUME NEW n \in 1 .. Len(flight'), Answered(flight'[n])
          PROVE  \E m \in 1 .. Len(flight) : Answered(flight[m]) /\ flight[m].page = flight'[n].page
      <4>1. n \in 1 .. Len(flight) /\ (n # k => flight'[n] = flight[n])
            /\ (n = k => flight'[n] = [flight[k] EXCEPT !.kind = "failed"])
        BY <3>1, <1>1
      <4>2. [flight[k] EXCEPT !.kind = "failed"].kind = "failed"
        BY <1>1 DEF Requests
      <4>3. n # k
        BY <4>1, <4>2, <3>2 DEF Answered
      <4> QED
        BY <4>1, <4>3, <3>2
    <3> QED
      BY <3>2 DEF Among
  <2>2. CASE AskAhead \/ AskNext
    <3>1. \E req : req.kind = "asked" /\ (flight' = Append(flight, req) \/ flight' = <<req>>)
      BY <2>2 DEF AskAhead, AskNext, Request
    <3>2. PICK req : req.kind = "asked" /\ (flight' = Append(flight, req) \/ flight' = <<req>>)
      BY <3>1
    <3>3. ASSUME NEW n \in 1 .. Len(flight'), Answered(flight'[n])
          PROVE  \E m \in 1 .. Len(flight) : Answered(flight[m]) /\ flight[m].page = flight'[n].page
      <4>1. CASE flight' = <<req>>
        BY <4>1, <3>2, <3>3 DEF Answered
      <4>2. CASE flight' = Append(flight, req)
        <5>1. n \in 1 .. Len(flight) + 1 /\ (n \in 1 .. Len(flight) => flight'[n] = flight[n])
              /\ (n = Len(flight) + 1 => flight'[n] = req)
          BY <4>2, <1>1
        <5>2. n \in 1 .. Len(flight)
          BY <5>1, <1>1, <3>2, <3>3 DEF Answered
        <5> QED
          BY <5>1, <5>2, <3>3
      <4> QED
        BY <4>1, <4>2, <3>2
    <3> QED
      BY <3>3 DEF Among
  <2>3. CASE TakeOverlap \/ WalkHalve
    <3>1. flight' = <<>>
      BY <2>3 DEF TakeOverlap, WalkHalve, AbandonAll
    <3> QED
      BY <3>1 DEF Among
  <2>4. CASE SaveState \/ DropRows \/ UNCHANGED vars
    <3>1. flight' = flight
      BY <2>4 DEF SaveState, DropRows, vars
    <3> QED
      BY <3>1 DEF Among
  <2> QED
    BY <2>1, <2>2, <2>3, <2>4
<1>5. CountsOn(kernel, kernel') /\ kernel'.untracked \in Nat
  BY <1>2, SameKernel
<1>6. \A i : Told(log', i) \in Nat /\ Told(log', i) <= Told(log, i)
  BY <1>2, SameLog
<1>7. KernelCount'
  BY <1>1, <1>2 DEF KernelCount
<1>8. PageCounts'
  BY <1>2, <1>3, <1>4, <1>5, <1>6, PagesGoOn
<1>9. OwnCount' /\ BatchCount'
  BY <1>2, <1>3, <1>5, CountsStay
<1> QED
  BY <1>7, <1>8, <1>9

\* Rounds that begin, go another way or end with nothing to write.
LEMMA RoundsKeepBusy ==
  ASSUME BusyInv,
         \/ TakeFailure \/ AppendFails \/ TakeTooLarge \/ BeginRound \/ TakeGone
         \/ EndParallel /\ ~round.gone.found
         \/ EndWalk /\ ~(round.skipped > 0 /\ round.counts)
  PROVE  KernelCount' /\ PageCounts' /\ OwnCount' /\ BatchCount'
<1>1. /\ OrderInv /\ TypeOK /\ KernelCount /\ OwnCount /\ PlaceInv /\ mem \in MemType /\ round \in RoundType
      /\ flight \in Seq(Requests) /\ Len(flight) \in Nat
  BY BusyFacts, OrderFacts, StateFacts
<1>2. /\ UNCHANGED <<kernel, cursor, log>> /\ pc # "advance" /\ pc' \notin {"write", "advance"}
      /\ mem' = mem \/ mem' = [mem EXCEPT !.newest = SeenNewest(First.page)]
  BY DEF TakeFailure, AppendFails, TakeTooLarge, BeginRound, TakeGone, EndParallel, EndWalk,
         EndRound, InOrder, store
<1>3. mem'.counted = mem.counted
  BY <1>1, <1>2 DEF MemType
<1>4. KernelCount'
  BY <1>1, <1>2 DEF KernelCount
<1>5. OwnCount'
  BY <1>1, <1>2, <1>3 DEF OwnCount
<1>6. BatchCount'
  BY <1>2 DEF BatchCount
<1>7. CountsOn(kernel, kernel') /\ kernel'.untracked \in Nat
  BY <1>2, SameKernel
<1>8. \A i : Told(log', i) \in Nat /\ Told(log', i) <= Told(log, i)
  BY <1>2, SameLog
<1>9. PageCounts'
  <2>1. CASE TakeGone
    <3>1. flight # <<>> /\ First.kind = "page" /\ flight' = Tail(flight)
          /\ round' = [round EXCEPT !.caught = CaughtUp(First.page),
                            !.gone = [found |-> TRUE, page |-> First.page,
                                      after |-> First.after, earlier |-> EarlierGone]]
      BY <2>1 DEF TakeGone, InOrder, Arrived
    <3>2. round'.gone.page = First.page
      BY <3>1, <1>1 DEF RoundType
    <3>3. 1 \in 1 .. Len(flight) /\ Answered(flight[1]) /\ flight[1].page = round'.gone.page
      BY <3>1, <3>2, <1>1 DEF First, Answered
    <3>4. Among(flight', flight)
      BY <3>1, <1>1 DEF Among
    <3> QED
      BY <3>3, <3>4, <1>3, <1>7, <1>8, PagesGoOn
  <2>2. CASE ~TakeGone
    <3>1. flight' = <<>> /\ round' = NewRound
      BY <2>2, <1>1 DEF TakeFailure, AppendFails, TakeTooLarge, BeginRound, EndParallel, EndWalk,
                        EndRound, AbandonAll, PlaceInv
    <3>2. Among(flight', flight) /\ ~round'.gone.found
      BY <3>1, RoundFacts DEF Among
    <3> QED
      BY <3>2, <1>3, <1>7, <1>8, PagesGoOn
  <2> QED
    BY <2>1, <2>2
<1> QED
  BY <1>4, <1>5, <1>6, <1>9

LEMMA StartsOverKeepBusy ==
  ASSUME BusyInv, TakeRestarted \/ WalkRestarted \/ SkipFindsRestart
  PROVE  KernelCount' /\ PageCounts' /\ OwnCount' /\ BatchCount'
<1> DEFINE i == kernel.instance
<1>1. /\ OrderInv /\ TypeOK /\ KernelCount /\ StoreInv /\ mem \in MemType /\ round \in RoundType
      /\ log \in Seq(Rows) /\ kernel.untracked \in Nat /\ i \in Nat /\ i # 0
      /\ cursor.instance \in Nat
  BY BusyFacts, OrderFacts, StateFacts
<1>2. /\ StartOver(i) /\ cursor.instance < i /\ pc \in {"parallel", "walk"} /\ pc' = pc
      /\ UNCHANGED <<kernel, log>>
  BY <1>1, StartedOver
<1>3. mem'.counted = [instance |-> i, count |-> 0] /\ flight' = <<>>
  <2>1. CASE TakeRestarted \/ WalkRestarted
    <3>1. /\ StartOver(First.page.instance) /\ flight' = <<>>
          /\ mem'.counted = [instance |-> First.page.instance, count |-> 0]
      BY <2>1, <1>1 DEF TakeRestarted, WalkRestarted, AbandonAll, MemType
    <3>2. First.page.instance = i
      <4>1. at' = [instance |-> First.page.instance, seq |-> 0] /\ at' = [instance |-> i, seq |-> 0]
        BY <3>1, <1>2 DEF StartOver
      <4> QED
        BY <4>1
    <3> QED
      BY <3>1, <3>2
  <2>2. CASE SkipFindsRestart
    BY <2>2, <1>1 DEF SkipFindsRestart, MemType
  <2> QED
    BY <2>1, <2>2
<1>4. pc' = "parallel" => ~round'.gone.found
  <2>1. pc' = "parallel" => TakeRestarted
    BY <1>2 DEF WalkRestarted, SkipFindsRestart, TooLargeAlone
  <2>2. TakeRestarted => round'.gone = NoGone
    BY <1>1 DEF TakeRestarted, RoundType
  <2> QED
    BY <2>1, <2>2, RoundFacts
<1>5. Told(log, i) = 0
  <2>1. ASSUME NEW k \in 1 .. Len(log) PROVE log[k].instance # i
    <3>1. log[k] \in Rows /\ UpTo(CursorOf(log[k]), cursor)
      BY <1>1, <1>2 DEF StoreInv, FirstUpTo
    <3>2. log[k].instance <= cursor.instance /\ log[k].instance \in Nat
      BY <3>1, <1>1, PointsOfRows DEF UpTo
    <3> QED
      BY <3>2, <1>1, <1>2
  <2> QED
    BY <2>1, <1>1, NoneOfAnother
<1>6. KernelCount'
  BY <1>1, <1>2 DEF KernelCount
<1>7. PageCounts'
  <2>1. Among(flight', flight)
    BY <1>3 DEF Among
  <2>2. CountsOn(kernel, kernel') /\ kernel'.untracked \in Nat
    BY <1>2, SameKernel
  <2>3. mem'.counted.instance # 0
    BY <1>1, <1>3
  <2> QED
    BY <2>1, <2>2, <2>3, <1>4, PagesGoOn
<1>8. OwnCount'
  <2>1. cursor'.instance = i
    BY <1>2 DEF StartOver
  <2>2. CountHolds(mem'.counted, i, 0, kernel, log)
    BY <1>1, <1>3, <1>5 DEF CountHolds
  <2> QED
    BY <2>1, <2>2, <1>2 DEF OwnCount
<1>9. BatchCount'
  BY <1>2 DEF BatchCount
<1> QED
  BY <1>6, <1>7, <1>8, <1>9

LEMMA SkipOversizedKeepsBusy ==
  ASSUME BusyInv, SkipOversized
  PROVE  KernelCount' /\ PageCounts' /\ OwnCount' /\ BatchCount'
<1> DEFINE i == IF round.skipped = 0 THEN kernel.instance ELSE at.instance
           counts == IF round.skipped = 0 THEN at.instance # 0 ELSE round.counts
<1>1. /\ OrderInv /\ KernelCount /\ OwnCount /\ round \in RoundType /\ cursor.instance \in Nat
  BY BusyFacts
<1>2. /\ TooLargeAlone /\ pc = "walk" /\ pc' = pc
      /\ round.skipped = 0 /\ at.instance # 0 => at.instance = kernel.instance
      /\ cursor' = [instance |-> i, seq |-> First.after + 1] /\ flight' = <<>>
      /\ UNCHANGED <<kernel, mem, batch, log>>
  BY DEF SkipOversized, TooLargeAlone
<1>3. cursor.instance # 0 => i = cursor.instance
  BY <1>1, <1>2, SkippedRecord
<1> HIDE DEF i
<1>4. cursor'.instance = i
  BY <1>2
<1>5. KernelCount'
  BY <1>1, <1>2 DEF KernelCount
<1>6. OwnCount'
  <2>1. mem.counted.instance # 0 => i = cursor.instance
    <3>1. mem.counted.instance # 0 => cursor.instance # 0
      BY <1>1, <1>2 DEF OwnCount, CountHolds
    <3> QED
      BY <3>1, <1>3
  <2>2. CountHolds(mem.counted, i, 0, kernel, log)
    BY <2>1, <1>1, <1>2 DEF OwnCount, CountHolds
  <2> QED
    BY <2>2, <1>2, <1>4 DEF OwnCount
<1>7. PageCounts' /\ BatchCount'
  BY <1>2 DEF PageCounts, BatchCount
<1> QED
  BY <1>5, <1>6, <1>7

\* What a page brings is counted once: what it tells and what was told is its own count, or
\* the collector's if that is higher.
LEMMA TakenKeepsBusy ==
  ASSUME BusyInv, NEW page \in Pages, NEW c \in Cursors, NEW after \in Seqs,
         NEW oversized \in Nat, NEW back \in {"idle", "parallel", "walk"},
         Taken(page, c, after, oversized, back), PageCount(page, kernel, mem.counted, log)
  PROVE  KernelCount' /\ OwnCount' /\ BatchCount'
<1> DEFINE b == BatchOf(page, c, after, oversized, back)
           i == page.instance
           rows == b.rows
           base == BaseOf(page)
<1>1. /\ OrderInv /\ TypeOK /\ KernelCount /\ OwnCount /\ StoreInv /\ log \in Seq(Rows)
      /\ kernel.instance \in Nat /\ kernel.untracked \in Nat /\ cursor.instance \in Nat
      /\ mem.counted.instance \in Nat /\ mem.counted.count \in Nat
      /\ page.instance \in Nat /\ page.untracked \in Nat /\ page.missed \in Nat
      /\ Told(log, page.instance) \in Nat
  BY BusyFacts, OrderFacts, PageFacts
<1>2. /\ Takeable(page, after) /\ batch' = b /\ c.instance = cursor.instance
      /\ pc \in {"parallel", "walk"} /\ pc' = "write" /\ mem'.counted = mem.counted
      /\ UNCHANGED <<kernel, cursor, log>>
  BY DEF Taken
<1>3. i # 0 /\ cursor.instance <= i /\ (i # cursor.instance => i = kernel.instance)
  BY <1>1, <1>2 DEF Takeable
<1>4. /\ rows \in Seq(Rows) /\ RowsAre(rows, page, c, after, oversized)
      /\ b.next.instance = i
      /\ b.counted = [instance |-> i, count |-> Larger(page.untracked, base)]
  <2>1. RowsAre(rows, page, c, after, oversized)
    BY <1>1, <1>2, RowsOfBatch
  <2>2. rows \in Seq(Rows) /\ b.next.instance = i
    BY <1>1, <1>2, BatchOfPage
  <2>3. b.counted = [instance |-> i, count |-> Larger(page.untracked, base)]
    BY DEF BatchOf
  <2> QED
    BY <2>1, <2>2, <2>3
<1>5. batch'.rows = rows /\ batch'.next.instance = i /\ batch'.counted = b.counted
  BY <1>2, <1>4
<1> HIDE DEF rows, b
<1>6. OneBusy(rows)
  <2>1. ASSUME NEW k \in 2 .. Len(rows) PROVE rows[k].busy = 0
    <3>1. k \in 1 .. Len(rows) /\ k # 1
      OBVIOUS
    <3>2. rows[k] = Entry(page.instance, rows[k].seq)
      BY <3>1, <1>4 DEF RowsAre
    <3> QED
      BY <3>2 DEF Entry
  <2> QED
    BY <2>1 DEF OneBusy
<1>7. BusyOf(rows, i) \in Nat /\ BusyOf(rows, i) <= Larger(0, page.untracked - base)
      /\ base \in Nat
  <2>1. base \in Nat
    BY <1>1 DEF BaseOf
  <2> HIDE DEF base
  <2>2. BusyIn(page) = Larger(0, page.untracked - base) /\ Larger(0, page.untracked - base) \in Nat
    BY <2>1, <1>1 DEF BusyIn, Larger, base
  <2>3. CASE rows = <<>>
    BY <2>1, <2>2, <2>3, <1>1 DEF BusyOf, Larger
  <2>4. CASE rows # <<>>
    <3>1. 1 \in 1 .. Len(rows) /\ rows[1] \in Rows
      BY <2>4, <1>4
    <3>2. rows[1] = GapOf(page, c, after, oversized) \/ rows[1] = Entry(page.instance, rows[1].seq)
      BY <3>1, <1>4 DEF RowsAre
    <3>3. rows[1].busy = BusyIn(page) \/ rows[1].busy = 0
      BY <3>2 DEF GapOf, Gap, Entry
    <3> QED
      BY <3>1, <3>3, <2>1, <2>2, <1>1 DEF BusyOf, Larger, Rows
  <2> QED
    BY <2>1, <2>3, <2>4
<1>8. /\ Told(log, i) + BusyOf(rows, i) <= Larger(page.untracked, base)
      /\ i = kernel.instance => Larger(page.untracked, base) <= kernel.untracked
      /\ mem.counted.instance = 0 => BusyOf(rows, i) = 0
  <2>1. CountHolds(mem.counted, cursor.instance, 0, kernel, log)
    BY <1>1, <1>2 DEF OwnCount
  <2>2. i = kernel.instance => page.untracked <= kernel.untracked
    BY DEF PageCount
  <2>3. CASE mem.counted.instance = 0
    <3>1. base = page.untracked
      BY <2>3, <1>3 DEF BaseOf
    <3>2. Told(log, i) <= page.untracked
      BY <2>3 DEF PageCount
    <3> HIDE DEF base, i
    <3>3. Larger(page.untracked, base) = page.untracked /\ Larger(0, page.untracked - base) = 0
      BY <3>1, <1>1 DEF Larger
    <3>4. BusyOf(rows, i) = 0
      BY <3>3, <1>7
    <3> QED
      BY <3>2, <3>3, <3>4, <2>2, <1>1 DEF i
  <2>4. CASE mem.counted.instance = i
    <3>1. base = mem.counted.count /\ i = cursor.instance
      BY <2>1, <2>4, <1>3 DEF BaseOf, CountHolds
    <3>2. Told(log, i) <= base /\ (i = kernel.instance => base <= kernel.untracked)
      BY <2>1, <2>4, <3>1, <1>1, <1>3 DEF CountHolds
    <3> HIDE DEF base, i
    <3>3. Told(log, i) \in Nat
      BY <1>1 DEF i
    <3> QED
      BY <3>2, <3>3, <2>2, <2>4, <1>1, <1>3, <1>7 DEF Larger
  <2>5. CASE mem.counted.instance # 0 /\ mem.counted.instance # i
    <3>1. base = 0 /\ mem.counted.instance = cursor.instance
      BY <2>1, <2>5 DEF BaseOf, CountHolds
    <3>2. i # cursor.instance
      BY <3>1, <2>5
    <3>3. Told(log, i) = 0
      <4>1. ASSUME NEW k \in 1 .. Len(log) PROVE log[k].instance # i
        <5>1. log[k] \in Rows /\ UpTo(CursorOf(log[k]), cursor)
          BY <1>1, <1>2 DEF StoreInv, FirstUpTo
        <5>2. log[k].instance <= cursor.instance /\ log[k].instance \in Nat
          BY <5>1, <1>1, PointsOfRows DEF UpTo
        <5> QED
          BY <5>2, <3>2, <1>1, <1>3
      <4> QED
        BY <4>1, <1>1, NoneOfAnother
    <3> HIDE DEF base, i
    <3>4. Larger(page.untracked, base) = page.untracked
          /\ Larger(0, page.untracked - base) = page.untracked
      BY <3>1, <1>1 DEF Larger
    <3> QED
      BY <3>3, <3>4, <2>2, <2>5, <1>1, <1>7
  <2> QED
    BY <2>3, <2>4, <2>5
<1>9. KernelCount' /\ OwnCount'
  BY <1>1, <1>2 DEF KernelCount, OwnCount
<1>10. BatchCount'
  <2>1. CountHolds(batch'.counted, i, BusyOf(rows, i), kernel, log)
    BY <1>4, <1>5, <1>8 DEF CountHolds
  <2>2. batch'.counted.instance # 0
    BY <1>3, <1>4, <1>5
  <2> HIDE DEF i
  <2> QED
    BY <2>1, <2>2, <1>2, <1>5, <1>6, <1>8 DEF BatchCount
<1> QED
  BY <1>9, <1>10

LEMMA TakesKeepBusy ==
  ASSUME BusyInv, GapInv, TakePage \/ EndParallel \/ WalkPage
  PROVE  KernelCount' /\ PageCounts' /\ OwnCount' /\ BatchCount'
<1>1. /\ PageCounts /\ flight \in Seq(Requests) /\ Len(flight) \in Nat
  BY BusyFacts, StateFacts
<1>2. flight # <<>> => 1 \in 1 .. Len(flight) /\ First = flight[1]
  BY <1>1 DEF First
<1>3. CASE EndParallel /\ ~round.gone.found
  BY <1>3, RoundsKeepBusy
<1>4. CASE TakePage \/ WalkPage \/ (EndParallel /\ round.gone.found)
  <2>1. KernelCount' /\ OwnCount' /\ BatchCount'
    <3>1. CASE TakePage
      <4>1. /\ Taken(First.page, at, First.after, EarlierGone, "parallel") /\ First.page \in Pages
            /\ First.after \in Seqs /\ EarlierGone \in Nat /\ at \in Cursors /\ Answered(First)
            /\ flight # <<>>
        BY <3>1, TakePageTakes
      <4>2. PageCount(First.page, kernel, mem.counted, log)
        BY <4>1, <1>1, <1>2 DEF PageCounts
      <4> QED
        BY <4>1, <4>2, TakenKeepsBusy
    <3>2. CASE WalkPage
      <4>1. /\ Taken(First.page, at, First.after, Skips, "walk") /\ First.page \in Pages
            /\ First.after \in Seqs /\ Skips \in Nat /\ at \in Cursors /\ Answered(First)
            /\ flight # <<>>
        BY <3>2, WalkPageTakes
      <4>2. PageCount(First.page, kernel, mem.counted, log)
        BY <4>1, <1>1, <1>2 DEF PageCounts
      <4> QED
        BY <4>1, <4>2, TakenKeepsBusy
    <3>3. CASE EndParallel /\ round.gone.found
      <4>1. PageCount(round.gone.page, kernel, mem.counted, log)
        BY <3>3, <1>1 DEF PageCounts, EndParallel
      <4> QED
        BY <4>1, <3>3, EndParallelTakes, TakenKeepsBusy
    <3> QED
      BY <3>1, <3>2, <3>3, <1>4
  <2>2. /\ flight' = flight \/ flight' = <<>> \/ (flight # <<>> /\ flight' = Tail(flight))
        /\ pc' = "write" /\ UNCHANGED <<kernel, log>>
        /\ mem' = mem \/ mem' = [mem EXCEPT !.newest = SeenNewest(First.page)]
    BY <1>4 DEF TakePage, WalkPage, EndParallel, InOrder, Arrived
  <2>3. mem'.counted = mem.counted
    BY <2>2, BusyFacts DEF MemType
  <2>4. Among(flight', flight)
    BY <2>2, <1>1 DEF Among
  <2>5. CountsOn(kernel, kernel') /\ kernel'.untracked \in Nat
    BY <2>2, SameKernel
  <2>6. \A i : Told(log', i) \in Nat /\ Told(log', i) <= Told(log, i)
    BY <2>2, SameLog
  <2>7. PageCounts'
    BY <2>2, <2>3, <2>4, <2>5, <2>6, PagesGoOn
  <2> QED
    BY <2>1, <2>7
<1> QED
  BY <1>3, <1>4

LEMMA EndWalkKeepsBusy ==
  ASSUME BusyInv, EndWalk
  PROVE  KernelCount' /\ PageCounts' /\ OwnCount' /\ BatchCount'
<1> DEFINE row == Gap(at.instance, at.seq, round.skipped, 0)
<1>1. CASE ~(round.skipped > 0 /\ round.counts)
  BY <1>1, RoundsKeepBusy
<1>2. CASE round.skipped > 0 /\ round.counts
  <2>1. /\ OrderInv /\ KernelCount /\ OwnCount /\ PlaceInv
    BY BusyFacts, OrderFacts
  <2>2. /\ pc = "walk" /\ pc' = "write" /\ UNCHANGED <<kernel, cursor, log, mem>>
        /\ flight = <<>> /\ flight' = flight
        /\ batch' = [rows |-> <<row>>, next |-> at, counted |-> mem.counted, back |-> "idle"]
    BY <1>2 DEF EndWalk, store
  <2>3. at = cursor
    BY <2>1, <2>2 DEF PlaceInv
  <2>4. row.busy = 0
    BY DEF Gap
  <2> HIDE DEF row
  <2>5. /\ batch'.rows = <<row>> /\ batch'.next.instance = cursor.instance
        /\ batch'.counted = mem.counted
    BY <2>2, <2>3
  <2>6. OneBusy(<<row>>) /\ BusyOf(<<row>>, cursor.instance) = 0
    BY <2>4 DEF OneBusy, BusyOf
  <2>7. CountHolds(mem.counted, cursor.instance, 0, kernel, log)
    BY <2>1, <2>2 DEF OwnCount
  <2>8. BatchCount'
    BY <2>2, <2>5, <2>6, <2>7 DEF BatchCount
  <2>9. KernelCount' /\ OwnCount'
    BY <2>1, <2>2 DEF KernelCount, OwnCount
  <2>10. PageCounts'
    BY <2>2 DEF PageCounts
  <2> QED
    BY <2>8, <2>9, <2>10
<1> QED
  BY <1>1, <1>2

\* Rows that land in the log, all of a batch or a first part, keep what was told behind.
LEMMA RowsLandCounted ==
  ASSUME BusyInv, pc = "write", NEW n \in 0 .. Len(batch.rows),
         log' = log \o SubSeq(batch.rows, 1, n), kernel' = kernel
  PROVE  /\ KernelCount'
         /\ \A i : Told(log', i) \in Nat /\ Told(log', i) <= Told(log, i) + BusyOf(batch.rows, i)
         /\ mem.counted.instance = 0 => \A i : Told(log', i) <= Told(log, i)
<1> DEFINE rows == batch.rows
           part == SubSeq(rows, 1, n)
           next == batch.next.instance
<1>1. /\ OrderInv /\ BatchInv /\ KernelCount /\ BatchCount /\ log \in Seq(Rows) /\ rows \in Seq(Rows)
      /\ kernel.instance \in Nat /\ kernel.untracked \in Nat /\ \A i : Told(log, i) \in Nat
  BY BusyFacts, OrderFacts
<1>2. /\ OneBusy(rows) /\ (mem.counted.instance = 0 => BusyOf(rows, next) = 0)
      /\ CountHolds(batch.counted, next, BusyOf(rows, next), kernel, log)
      /\ batch.counted.instance = 0 => mem.counted.instance = 0
  BY <1>1 DEF BatchCount
<1>3. part \in Seq(Rows)
  BY <1>1, FirstRows
<1>4. ASSUME NEW i
      PROVE  /\ Told(log', i) \in Nat /\ Told(log', i) <= Told(log, i) + BusyOf(rows, i)
             /\ BusyOf(rows, i) \in Nat
  <2>1. /\ OneBusy(part) /\ BusyOf(part, i) <= BusyOf(rows, i)
        /\ BusyOf(rows, i) \in Nat /\ BusyOf(part, i) \in Nat
    BY <1>1, <1>2, BusyInPart
  <2> HIDE DEF part
  <2>2. Told(log \o part, i) <= Told(log, i) + BusyOf(part, i)
    BY <1>1, <1>3, <2>1, BusyAppended
  <2>3. log \o part \in Seq(Rows)
    BY <1>1, <1>3
  <2>4. Told(log \o part, i) \in Nat
    BY <2>3, MarksInEnd
  <2>5. Told(log, i) \in Nat
    BY <1>1
  <2>6. Told(log \o part, i) <= Told(log, i) + BusyOf(rows, i)
    BY <2>1, <2>2, <2>4, <2>5
  <2> QED
    BY <2>1, <2>4, <2>6 DEF part
<1>5. ASSUME NEW i, i # next PROVE BusyOf(rows, i) = 0
  <2>1. CASE rows = <<>>
    BY <2>1 DEF BusyOf
  <2>2. CASE rows # <<>>
    <3>1. 1 \in 1 .. Len(rows)
      BY <2>2, <1>1
    <3>2. rows[1].instance = next
      BY <3>1, <1>1 DEF BatchInv
    <3> QED
      BY <3>2, <1>5 DEF BusyOf
  <2> QED
    BY <2>1, <2>2
<1> HIDE DEF rows, part, next
<1>6. mem.counted.instance = 0 => \A i : Told(log', i) <= Told(log, i)
  <2>1. ASSUME mem.counted.instance = 0, NEW i PROVE Told(log', i) <= Told(log, i)
    <3>1. BusyOf(rows, i) = 0 /\ Told(log, i) \in Nat /\ Told(log', i) \in Nat
      BY <2>1, <1>1, <1>2, <1>4, <1>5
    <3> QED
      BY <3>1, <1>4
  <2> QED
    BY <2>1
<1>7. Told(log', kernel.instance) <= kernel.untracked
  <2> DEFINE i == kernel.instance
  <2>1. Told(log, i) <= kernel.untracked
    BY <1>1 DEF KernelCount
  <2>2. Told(log, i) \in Nat /\ Told(log', i) \in Nat /\ BusyOf(rows, i) \in Nat
        /\ Told(log', i) <= Told(log, i) + BusyOf(rows, i)
    BY <1>1, <1>4
  <2>3. CASE i = next /\ batch.counted.instance # 0
    <3>1. Told(log, i) + BusyOf(rows, i) <= batch.counted.count /\ batch.counted.count <= kernel.untracked
      BY <2>3, <1>2 DEF CountHolds
    <3>2. batch.counted.count \in Nat
      BY <1>1, OrderFacts, StateFacts, CountFacts DEF CollectTyped, BatchType
    <3> DEFINE a == Told(log, i)  b == Told(log', i)  m == BusyOf(rows, i)
    <3>3. a \in Nat /\ b \in Nat /\ m \in Nat /\ b <= a + m /\ a + m <= batch.counted.count
      BY <2>2, <3>1
    <3> HIDE DEF a, b, m
    <3>4. b <= kernel.untracked
      BY <3>1, <3>2, <3>3, <1>1
    <3> QED
      BY <3>4 DEF b
  <2>4. CASE i # next \/ batch.counted.instance = 0
    <3>1. BusyOf(rows, i) = 0
      BY <2>4, <1>2, <1>5
    <3> DEFINE a == Told(log, i)  b == Told(log', i)
    <3>2. a \in Nat /\ b \in Nat /\ b <= a + 0 /\ a <= kernel.untracked
      BY <2>1, <2>2, <3>1
    <3> HIDE DEF a, b
    <3>3. b <= kernel.untracked
      BY <3>2, <1>1
    <3> QED
      BY <3>3 DEF b
  <2> QED
    BY <2>3, <2>4
<1>8. KernelCount'
  BY <1>7 DEF KernelCount
<1> QED
  BY <1>4, <1>6, <1>8 DEF rows

LEMMA WritesKeepBusy ==
  ASSUME BusyInv, AppendRows \/ Advance
  PROVE  KernelCount' /\ PageCounts' /\ OwnCount' /\ BatchCount'
<1>1. /\ OrderInv /\ BatchInv /\ KernelCount /\ BatchCount /\ PageCounts /\ mem \in MemType
      /\ batch.rows \in Seq(Rows) /\ kernel.instance \in Nat /\ \A i : Told(log, i) \in Nat
  BY BusyFacts, OrderFacts
<1>2. CASE AppendRows
  <2>1. /\ pc = "write" /\ pc' = "advance" /\ log' = log \o batch.rows
        /\ UNCHANGED <<kernel, flight, mem, round, batch>>
    BY <1>2 DEF AppendRows
  <2>2. log' = log \o SubSeq(batch.rows, 1, Len(batch.rows)) /\ Len(batch.rows) \in 0 .. Len(batch.rows)
    BY <2>1, <1>1, AllRows
  <2>3. /\ KernelCount'
        /\ \A i : Told(log', i) \in Nat /\ Told(log', i) <= Told(log, i) + BusyOf(batch.rows, i)
        /\ mem.counted.instance = 0 => \A i : Told(log', i) <= Told(log, i)
    BY <2>1, <2>2, RowsLandCounted
  <2>4. PageCounts'
    <3>1. Among(flight', flight)
      BY <2>1 DEF Among
    <3>2. CountsOn(kernel, kernel') /\ kernel'.untracked \in Nat
      BY <2>1, SameKernel
    <3> QED
      BY <3>1, <3>2, <2>1, <2>3, PagesGoOn
  <2>5. OwnCount'
    BY <2>1 DEF OwnCount
  <2>6. CountHolds(batch.counted, batch.next.instance, 0, kernel, log')
    <3> DEFINE i == batch.next.instance
               n == BusyOf(batch.rows, i)
    <3>1. CountHolds(batch.counted, i, n, kernel, log)
      BY <2>1, <1>1 DEF BatchCount
    <3>2. Told(log', i) \in Nat /\ Told(log, i) \in Nat /\ Told(log', i) <= Told(log, i) + n
      BY <2>3, <1>1
    <3>3. n \in Nat
      <4>1. OneBusy(batch.rows) /\ 0 \in 0 .. Len(batch.rows)
        BY <2>1, <1>1 DEF BatchCount
      <4> QED
        BY <4>1, <1>1, BusyInPart
    <3>4. batch.counted.count \in Nat
      BY <1>1, OrderFacts, StateFacts, CountFacts DEF CollectTyped, BatchType
    <3> HIDE DEF n, i
    <3>5. batch.counted.instance # 0 => Told(log', i) + 0 <= batch.counted.count
      BY <3>1, <3>2, <3>3, <3>4 DEF CountHolds
    <3>6. CountHolds(batch.counted, i, 0, kernel, log')
      BY <3>1, <3>5 DEF CountHolds
    <3> QED
      BY <3>6 DEF i
  <2>7. BatchCount'
    BY <2>1, <2>6, <1>1 DEF BatchCount
  <2> QED
    BY <2>3, <2>4, <2>5, <2>7
<1>3. CASE Advance
  <2>1. /\ pc = "advance" /\ pc' \in {"idle", "parallel", "walk"} /\ cursor' = batch.next
        /\ (round' = round \/ round' = NewRound) /\ UNCHANGED <<kernel, log>>
    BY <1>1, <1>3, Advanced
  <2>2. /\ mem' = [mem EXCEPT !.counted = batch.counted] /\ flight' = flight
        /\ IF batch.back = "idle" THEN EndRound
           ELSE pc' = batch.back /\ UNCHANGED round
    BY <1>3 DEF Advance
  <2>3. mem'.counted = batch.counted
    BY <2>2, <1>1 DEF MemType
  <2>4. mem'.counted.instance = 0 => mem.counted.instance = 0
    BY <2>1, <2>3, <1>1 DEF BatchCount
  <2>5. pc' = "parallel" => ~round'.gone.found
    BY <2>1, <2>2, <1>1 DEF BatchInv, EndRound
  <2>6. PageCounts'
    <3>1. Among(flight', flight)
      BY <2>2 DEF Among
    <3>2. CountsOn(kernel, kernel') /\ kernel'.untracked \in Nat
      BY <2>1, SameKernel
    <3>3. \A i : Told(log', i) \in Nat /\ Told(log', i) <= Told(log, i)
      BY <2>1, SameLog
    <3> QED
      BY <3>1, <3>2, <3>3, <2>4, <2>5, PagesGoOn
  <2>7. OwnCount'
    <3>1. CountHolds(batch.counted, batch.next.instance, 0, kernel, log)
      BY <2>1, <1>1 DEF BatchCount
    <3> QED
      BY <3>1, <2>1, <2>3 DEF OwnCount
  <2>8. KernelCount' /\ BatchCount'
    BY <2>1, <1>1 DEF KernelCount, BatchCount
  <2> QED
    BY <2>6, <2>7, <2>8
<1> QED
  BY <1>2, <1>3

LEMMA PanelKeepsBusy ==
  ASSUME BusyInv, PanelEnds \/ PanelStarts
  PROVE  KernelCount' /\ PageCounts' /\ OwnCount' /\ BatchCount'
<1>1. OrderInv /\ PlaceInv /\ KernelCount /\ OwnCount
  BY BusyFacts, OrderFacts
<1>2. CASE PanelEnds
  <2>1. /\ pc' = "down" /\ kernel' = kernel /\ flight' = <<>> /\ mem' = Fresh
    BY <1>2 DEF PanelEnds, AbandonAll
  <2>2. \/ log' = log
        \/ pc = "write" /\ \E n \in 0 .. Len(batch.rows) : log' = log \o SubSeq(batch.rows, 1, n)
    BY <1>1, <1>2, RowsCut
  <2>3. KernelCount'
    <3>1. CASE log' = log
      BY <3>1, <2>1, <1>1 DEF KernelCount
    <3>2. CASE pc = "write" /\ \E n \in 0 .. Len(batch.rows) : log' = log \o SubSeq(batch.rows, 1, n)
      BY <3>2, <2>1, RowsLandCounted
    <3> QED
      BY <3>1, <3>2, <2>2
  <2>4. OwnCount'
    <3>1. mem'.counted.instance = 0
      BY <2>1 DEF Fresh, NoCount
    <3> QED
      BY <3>1 DEF OwnCount, CountHolds
  <2>5. PageCounts' /\ BatchCount'
    BY <2>1 DEF PageCounts, BatchCount
  <2> QED
    BY <2>3, <2>4, <2>5
<1>3. CASE PanelStarts
  <2>1. pc = "down" /\ pc' = "idle" /\ UNCHANGED <<kernel, flight, mem, log>>
    BY <1>3 DEF PanelStarts
  <2>2. flight = <<>> /\ cursor.instance = 0
    BY <2>1, <1>1 DEF PlaceInv, NoCursor
  <2>3. OwnCount'
    <3>1. mem.counted.instance = 0
      BY <2>1, <2>2, <1>1 DEF OwnCount, CountHolds
    <3> QED
      BY <3>1, <2>1 DEF OwnCount, CountHolds
  <2>4. KernelCount' /\ PageCounts' /\ BatchCount'
    BY <2>1, <2>2, <1>1 DEF KernelCount, PageCounts, BatchCount
  <2> QED
    BY <2>3, <2>4
<1> QED
  BY <1>2, <1>3

LEMMA InitBusy ==
  ASSUME Init
  PROVE  BusyInv
<1>1. /\ OrderInv /\ log = <<>> /\ flight = <<>> /\ pc = "idle" /\ mem = Fresh
      /\ kernel.untracked = 0
  BY InitOrder DEF Init
<1>2. Told(log, kernel.instance) = 0
  <2> DEFINE i == kernel.instance
  <2>1. log \in Seq(Rows) /\ \A k \in 1 .. Len(log) : log[k].instance # i
    BY <1>1
  <2> HIDE DEF i
  <2>2. Told(log, i) = 0
    BY <2>1, NoneOfAnother
  <2> QED
    BY <2>2 DEF i
<1>3. mem.counted.instance = 0
  BY <1>1 DEF Fresh, NoCount
<1> QED
  BY <1>1, <1>2, <1>3 DEF BusyInv, KernelCount, PageCounts, OwnCount, BatchCount, CountHolds

LEMMA NextKeepsBusy ==
  ASSUME GapInv, BusyInv, EarlyRestarts = FALSE, [Next]_vars
  PROVE  BusyInv'
<1>1. OrderInv'
  BY NextKeepsOrder DEF BusyInv
<1>2. KernelCount' /\ PageCounts' /\ OwnCount' /\ BatchCount'
  <2>1. CASE Kernel
    BY <2>1, KernelKeepsBusy
  <2>2. CASE RequestFails \/ AskAhead \/ AskNext \/ TakeOverlap \/ WalkHalve \/ SaveState
             \/ DropRows \/ UNCHANGED vars
    BY <2>2, AsksKeepBusy
  <2>3. CASE TakeFailure \/ AppendFails \/ TakeTooLarge \/ BeginRound \/ TakeGone
    BY <2>3, RoundsKeepBusy
  <2>4. CASE TakeRestarted \/ WalkRestarted \/ SkipFindsRestart
    BY <2>4, StartsOverKeepBusy
  <2>5. CASE TakePage \/ EndParallel \/ WalkPage
    BY <2>5, TakesKeepBusy
  <2>6. CASE SkipOversized \/ EndWalk
    BY <2>6, SkipOversizedKeepsBusy, EndWalkKeepsBusy
  <2>7. CASE AppendRows \/ Advance \/ PanelEnds \/ PanelStarts
    BY <2>7, WritesKeepBusy, PanelKeepsBusy
  <2> QED
    BY <2>1, <2>2, <2>3, <2>4, <2>5, <2>6, <2>7 DEF Next, Collect, Parallel, Walk, Fault
<1> QED
  BY <1>1, <1>2 DEF BusyInv

\* What rows tell of requests KixDNS did not record, and what the collector, the pages and
\* the rows not yet written would tell, stays within KixDNS's own count.
THEOREM BusyInvariant ==
  ASSUME EarlyRestarts = FALSE
  PROVE  Spec => []BusyInv
<1>1. Init => GapInv /\ BusyInv
  BY InitGaps, InitBusy
<1>2. GapInv /\ BusyInv /\ [Next]_vars => GapInv' /\ BusyInv'
  BY NextKeepsGaps, NextKeepsBusy
<1> QED
  BY <1>1, <1>2, PTL DEF Spec

\* The requests KixDNS did not record are told at most once (Collector::records and
\* set_cursor), whatever order pages with older and newer counts are written in and
\* whatever fails or restarts.
THEOREM BusyIsToldOnce ==
  ASSUME EarlyRestarts = FALSE
  PROVE  Spec => []BusyToldOnce
<1>1. BusyInv => BusyToldOnce
  <2> SUFFICES ASSUME BusyInv PROVE BusyToldOnce
    OBVIOUS
  <2>1. BusyTold(kernel.instance) = Told(log, kernel.instance)
    BY DEF BusyTold, BusyMarks, RowsOf, Told, MarksIn
  <2> QED
    BY <2>1, BusyFacts DEF BusyToldOnce, KernelCount
<1> QED
  BY <1>1, BusyInvariant, PTL
=============================================================================
