--------------------------- MODULE RequestMetrics ---------------------------
(***************************************************************************)
(* What the overview shows of the requests: the sampler reads the counters *)
(* of KixDNS (control.rs), keeps them in memory for the last hour          *)
(* (recent_window.rs) and stores the total in the database (db.rs); a page *)
(* gets the differences (app.rs).  The start of the process and its        *)
(* counters are two requests, answered in any order.  KixDNS starts again  *)
(* from zero, also between the two, the panel ends and loses its memory,   *)
(* and samples may be far apart.                                           *)
(*                                                                         *)
(* A tick is a second; the counters are the requests, the attempts at one  *)
(* upstream, and the replies among these.                                  *)
(***************************************************************************)
EXTENDS Integers, FiniteSets, Sequences, FiniteSetsExt, TLC

CONSTANTS
  NoUpstream,               \* the upstream has not been asked
  TrendBuckets, MinBucket, MaxBucket, RecentWindow,
  ReportsReplies,           \* whether KixDNS counts the time of replies alone
  MaxSecond, MaxRequestsMade, MaxSamples, MaxMetricsEvents  \* bounds

ASSUME MetricsAssumption ==
  /\ {TrendBuckets, MinBucket, MaxBucket, RecentWindow} \subseteq Nat \ {0}
  /\ MinBucket <= MaxBucket /\ ReportsReplies \in BOOLEAN

VARIABLES
  second,
  process,    \* the KixDNS process and its counters
  reading,    \* the answers that the sampler, or a page, has by now
  recent,     \* RecentHistory
  samples,    \* metric_samples, by time
  asked,      \* history: the counts of each second
  sampled,      \* samples so far
  metricsEvents

metricsVars == <<second, process, reading, recent, samples, asked, sampled, metricsEvents>>

Zero == [requests |-> 0, attempts |-> 0, replies |-> 0]
Seconds == 0 .. MaxSecond
Widest == MaxBucket * (TrendBuckets + 1)
Least(a, b) == IF a < b THEN a ELSE b
Less(a, b) == IF a > b THEN a - b ELSE 0
Clamp(n, low, high) == IF n < low THEN low ELSE Least(n, high)
Total(S, of(_)) == MapThenSumSet(of, S)

---------------------------------------------------------------------------
(* The reply to GET /v1/metrics.                                           *)

\* The series of a process; those of an upstream are there once it was asked.
Series(counts) ==
  [requests |-> counts.requests, inflight |-> 0]
    @@ IF counts.attempts = 0 THEN <<>>
       ELSE [attempts |-> counts.attempts, settled |-> counts.attempts]
              @@ IF ReportsReplies THEN [replies |-> counts.replies] ELSE <<>>

\* MetricsBuilder: a reply without a series that is required is refused.
RequiredSeries == {"requests", "inflight"}
ParseMetrics(series) ==
  [requests |-> series["requests"],
   upstream |->
     IF "attempts" \notin DOMAIN series THEN NoUpstream
     ELSE [attempts |-> series["attempts"],
           timed |-> IF "replies" \in DOMAIN series THEN series["replies"]
                     ELSE IF "settled" \in DOMAIN series THEN series["settled"] ELSE 0]]

MetricsEvent == metricsEvents < MaxMetricsEvents /\ metricsEvents' = metricsEvents + 1

---------------------------------------------------------------------------
(* The two requests.  The sampler and a page send the same two; one of them *)
(* reads at a time, since a page shows nothing that was noted in its second. *)

\* number and counted are the processes that gave the start and the counters; now is what
\* was asked in this second by then (history).
Unread == [number |-> 0, startedAt |-> 0, counted |-> 0,
           counts |-> [requests |-> 0, upstream |-> NoUpstream], now |-> Zero]

Answered == reading.number # 0 /\ reading.counted # 0

\* Both answers are of one process.
Whole(answers) == answers.number = answers.counted

HealthAnswers ==
  /\ reading.number = 0
  /\ reading' = [reading EXCEPT !.number = process.number, !.startedAt = process.startedAt]
  /\ UNCHANGED <<second, process, recent, samples, asked, sampled, metricsEvents>>

MetricsAnswers ==
  /\ reading.counted = 0
  /\ LET series == Series(process.counts)
     IN /\ RequiredSeries \subseteq DOMAIN series
        /\ reading' = [reading EXCEPT !.counted = process.number,
                                      !.counts = ParseMetrics(series), !.now = asked[second]]
  /\ UNCHANGED <<second, process, recent, samples, asked, sampled, metricsEvents>>

\* A request fails, or it was a page, which shows the answers (CountsAreTrue).
EndReading ==
  /\ reading # Unread /\ reading' = Unread
  /\ UNCHANGED <<second, process, recent, samples, asked, sampled, metricsEvents>>

---------------------------------------------------------------------------
(* The sampler.                                                            *)

MetricsInit ==
  /\ second = 0 /\ process = [number |-> 1, startedAt |-> 0, counts |-> Zero]
  /\ reading = Unread
  /\ recent = <<>> /\ samples = <<>>
  /\ asked = [t \in Seconds |-> Zero] /\ sampled = 0 /\ metricsEvents = 0

\* RecentHistory::record.
Remember(sample) ==
  SelectSeq(Append(recent, sample), LAMBDA s : s.at >= sample.at - RecentWindow)

\* record_metric_sample: one row for a second, and those past the retention go.
WithSample(sample) ==
  Append(SelectSeq(samples, LAMBDA s : s.at \in sample.at - Widest .. sample.at - 1), sample)

\* sample_metrics: what was read goes to the memory, and then to the database, which may fail.
SampleMetrics ==
  /\ sampled < MaxSamples /\ sampled' = sampled + 1
  /\ \A i \in DOMAIN recent : recent[i].at < second
  /\ Answered /\ reading' = Unread
  /\ LET sample == [at |-> second, startedAt |-> reading.startedAt,
                    number |-> reading.number, counted |-> reading.counted]
     IN /\ recent' = Remember(sample @@ [upstream |-> reading.counts.upstream])
        /\ \/ samples' = WithSample(sample @@ [requests |-> reading.counts.requests])
              /\ UNCHANGED metricsEvents
           \/ MetricsEvent /\ UNCHANGED samples
  /\ UNCHANGED <<second, process, asked>>

---------------------------------------------------------------------------
(* The trend.                                                              *)

TrendBucketSeconds(covered) ==
  Clamp((covered + TrendBuckets - 1) \div TrendBuckets, MinBucket, MaxBucket)

\* interval_delta: after a restart, what the new process counted.
IntervalDelta(previous, current) ==
  IF current.startedAt # previous.startedAt THEN current.requests
  ELSE Less(current.requests, previous.requests)

Scaled(delta, position, span) == (delta * Clamp(position, 0, span)) \div span

\* Mutant: each bucket's part on its own.
SharesApart(delta, start, end, from, to) == Scaled(delta, to - from, end - start)

\* spread_interval: the part of a bucket is the difference of two running totals.
Share(delta, start, end, from, to) ==
  Scaled(delta, to - start, end - start) - Scaled(delta, from - start, end - start)

TrendSamples == SelectSeq(samples, LAMBDA s : s.at >= second - Widest)
Pairs(rows) == {i \in 1 .. Len(rows) - 1 : rows[i].at < rows[i + 1].at}
BucketSeconds(rows) == TrendBucketSeconds(IF rows = <<>> THEN 0 ELSE second - rows[1].at)
WindowStart(rows) == second - BucketSeconds(rows) * TrendBuckets

\* The part of an interval in a bucket.
FromIn(rows, i, b) ==
  LET start == WindowStart(rows) + BucketSeconds(rows) * (b - 1)
  IN IF rows[i].at > start THEN rows[i].at ELSE start
ToIn(rows, i, b) == Least(rows[i + 1].at, WindowStart(rows) + BucketSeconds(rows) * b)

\* build_request_trend: the points, one for a bucket that an interval reaches.
Trend(rows) ==
  LET reaching(b) == {i \in Pairs(rows) : FromIn(rows, i, b) < ToIn(rows, i, b)}
  IN [b \in {b \in 1 .. TrendBuckets : reaching(b) # {}} |->
        Total(reaching(b), LAMBDA i :
          Share(IntervalDelta(rows[i], rows[i + 1]), rows[i].at, rows[i + 1].at,
                FromIn(rows, i, b), ToIn(rows, i, b)))]

---------------------------------------------------------------------------
(* The last hour.                                                          *)

\* RecentHistory::attach: for a process that started then, where the time shown begins and
\* what had been counted by then.
Baseline(startedAt) ==
  LET window == second - RecentWindow
      same == {i \in DOMAIN recent : /\ recent[i].startedAt = startedAt
                                     /\ recent[i].at \in window .. second - 1}
      none == [attempts |-> 0, timed |-> 0]
  IN IF startedAt \in window .. second
     THEN [known |-> TRUE, start |-> startedAt, counts |-> none]
     ELSE IF same = {} THEN [known |-> FALSE, start |-> 0, counts |-> none]
     ELSE LET first == recent[Min(same)]
          IN [known |-> TRUE, start |-> first.at,
              counts |-> IF first.upstream = NoUpstream THEN none ELSE first.upstream]

\* Counters::since.
Since(counts, baseline) ==
  [attempts |-> Less(counts.attempts, baseline.attempts),
   timed |-> Less(counts.timed, baseline.timed)]

---------------------------------------------------------------------------
(* KixDNS, the clock and the panel's end.                                  *)

\* A request: answered from the cache, by the upstream, or timed out there.
KernelAnswers ==
  /\ Total(Seconds, LAMBDA t : asked[t].requests) < MaxRequestsMade
  /\ \E attempts \in {0, 1} : \E replies \in 0 .. attempts :
       LET more(counts) == [requests |-> counts.requests + 1,
                            attempts |-> counts.attempts + attempts,
                            replies |-> counts.replies + replies]
       IN /\ process' = [process EXCEPT !.counts = more(@)]
          /\ asked' = [asked EXCEPT ![second] = more(@)]
  /\ UNCHANGED <<second, reading, recent, samples, sampled, metricsEvents>>

\* No two processes start in one second.
KernelStartsAgain ==
  /\ MetricsEvent /\ process.startedAt < second
  /\ process' = [number |-> process.number + 1, startedAt |-> second, counts |-> Zero]
  /\ UNCHANGED <<second, reading, recent, samples, asked, sampled>>

\* Both requests are answered, and what is read is noted, within a second; nothing is shown
\* before the first sample.
SecondPasses ==
  /\ second < MaxSecond /\ sampled > 0 /\ second' = second + 1
  /\ reading = Unread
  /\ UNCHANGED <<process, reading, recent, samples, asked, sampled, metricsEvents>>

PanelForgets ==
  /\ MetricsEvent
  /\ recent' = <<>> /\ reading' = Unread
  /\ UNCHANGED <<second, process, samples, asked, sampled>>

MetricsNext ==
  \/ HealthAnswers \/ MetricsAnswers \/ EndReading \/ SampleMetrics \/ KernelAnswers \/ KernelStartsAgain \/ SecondPasses
  \/ PanelForgets

MetricsSpec == MetricsInit /\ [][MetricsNext]_metricsVars

---------------------------------------------------------------------------
MetricsTypeOK ==
  /\ second \in Seconds /\ metricsEvents \in 0 .. MaxMetricsEvents
  /\ process.number \in Nat /\ process.startedAt \in 0 .. second
  /\ \A i \in DOMAIN samples : samples[i].at \in 0 .. second

\* What was counted from a second on until the answers were given.
AskedFrom(t, of(_)) ==
  Total(t .. second - 1, LAMBDA s : of(asked[s])) + IF t <= second THEN of(reading.now) ELSE 0

\* No request is lost to rounding and none is invented (app.rs:1671, app.rs:1565): while the
\* oldest sample is within the window, the points add up to what each process had counted when
\* it was sampled last, less the first sample; a long gap is spread over its buckets.  What is
\* shown for the last hour is what this process counted in the time it is said to be for, not
\* more than an hour, also after a restart of either side (recent_window.rs:141).  A sample or
\* a page that has the start of one process and the counters of another (app.rs:1525,
\* app.rs:730) is not true, and nothing is claimed where one is used.
CountsAreTrue ==
  /\ MetricsTypeOK
  /\ LET rows == TrendSamples
         points == Trend(rows)
         shown == Total(DOMAIN points, LAMBDA b : points[b])
         processes == {rows[i].number : i \in DOMAIN rows}
         counted(n) == Max({rows[i].requests : i \in {i \in DOMAIN rows : rows[i].number = n}})
     IN (\A i \in DOMAIN rows : Whole(rows[i])) =>
        /\ rows # <<>> /\ rows[1].at >= WindowStart(rows) =>
             shown = Total(processes, counted) - rows[1].requests
        /\ \A b \in DOMAIN points : \A i \in Pairs(rows) :
             {j \in Pairs(rows) : FromIn(rows, j, b) < ToIn(rows, j, b)} = {i} =>
               points[b] * (rows[i + 1].at - rows[i].at)
                 <= IntervalDelta(rows[i], rows[i + 1])
                      * (ToIn(rows, i, b) - FromIn(rows, i, b))
                    + (rows[i + 1].at - rows[i].at)
  /\ LET upstream == reading.counts.upstream
         baseline == Baseline(reading.startedAt)
         shown == Since(upstream, baseline.counts)
         timed(counts) == IF ReportsReplies THEN counts.replies ELSE counts.attempts
         whole == Answered /\ Whole(reading) /\ \A i \in DOMAIN recent : Whole(recent[i])
     IN (whole /\ baseline.known /\ upstream # NoUpstream) =>
          /\ second - baseline.start \in 0 .. RecentWindow
          /\ shown.attempts \in AskedFrom(baseline.start + 1, LAMBDA c : c.attempts)
                                .. AskedFrom(baseline.start, LAMBDA c : c.attempts)
          /\ shown.timed \in AskedFrom(baseline.start + 1, timed)
                             .. AskedFrom(baseline.start, timed)
=============================================================================
