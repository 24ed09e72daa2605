--------------------------- MODULE MetricsRegistry ---------------------------
(***************************************************************************)
(* The process-wide MetricsRegistry with its FixedLatencyHistogram, updated *)
(* by PrintSink::execute on several sink threads and read by the          *)
(* statistic printer thread through snapshot().                           *)
(*                                                                         *)
(* The registry's counters are guarded by its mutex; the histogram has a   *)
(* mutex of its own.  observeLatencyMs updates latency_count and           *)
(* latency_sum_ms under the registry mutex and calls histogram.observe     *)
(* after releasing it.  snapshot() holds the registry mutex while it       *)
(* copies the counters and calls percentile three times, each of which     *)
(* takes the histogram mutex on its own.                                   *)
(*                                                                         *)
(* Counter names other than those PrintSink writes are left out; latency   *)
(* values are a small set of milliseconds.                                 *)
(***************************************************************************)
EXTENDS Naturals, Sequences, SequencesExt, FiniteSets, Functions

CONSTANTS
  SinkThreads,    \* threads running PrintSink::execute
  Latencies,      \* end-to-end latencies in ms a buffer may carry
  MaxExec,        \* PrintSink::execute calls per thread, at most
  MaxSnaps,       \* snapshots taken, at most
  NoLock          \* the registry mutex is free

ASSUME Latencies \subseteq Nat /\ MaxExec \in Nat /\ MaxSnaps \in Nat

\* FixedLatencyHistogram: bounds (inclusive upper bounds, ms) and the
\* buckets 0..Len(bounds), the last one for overflow.
HistBounds == <<0, 1, 2, 4, 8, 16, 32, 64, 128, 256, 512, 1000, 2000, 5000,
                10000, 20000, 60000>>
NB == Len(HistBounds)
Bucket == 0..NB
Bound(i) == HistBounds[i + 1]          \* bounds[i] of the 0-based code

\* The three percentiles snapshot() adds, in hundredths.
Pcts == <<50, 95, 99>>

\* A buffer reaching the sink: its tuple count is zero or not, and its
\* creation timestamp is missing, in the future of the sink's clock, or valid.
TsClass == {"missing", "future", "valid"}

Counter == {"sink_out_total", "latency_missing_count", "latency_future_count",
            "latency_count", "latency_sum_ms"}

VARIABLES
  counters,    \* [Counter -> Nat]: the registry's map
  counts,      \* [Bucket -> Nat]: histogram counts
  total,       \* histogram total
  regLock,     \* "printer" while snapshot() holds the registry mutex, else NoLock
  spc,         \* [SinkThreads -> {"idle", "missing", "future", "count", "hist"}]
  slat,        \* [SinkThreads -> Latencies \cup {0}]: the latency being observed
  execs,       \* [SinkThreads -> 0..MaxExec]: execute calls so far
  ppc,         \* printer: 0 when idle, else the index 1..3 of the next percentile
  snap,        \* the snapshot being assembled, or the last one returned
  snaps,       \* snapshots returned so far
  observed     \* history: [Latencies \cup {0} -> Nat], values histogram.observe saw

vars == <<counters, counts, total, regLock, spc, slat, execs, ppc, snap, snaps,
          observed>>

-----------------------------------------------------------------------------
(* FixedLatencyHistogram                                                   *)

\* observe(v): the first bucket whose bound is >= v, or the overflow bucket.
RECURSIVE BucketFrom(_, _)
BucketFrom(v, idx) ==
  IF idx < NB /\ v > Bound(idx) THEN BucketFrom(v, idx + 1) ELSE idx

BucketOf(v) == BucketFrom(v, 0)

\* The lower bound percentile() reports for bucket i.
LowerBound(i) ==
  IF i = 0 THEN 0 ELSE IF i < NB THEN Bound(i - 1) + 1 ELSE Bound(NB - 1) + 1

-----------------------------------------------------------------------------
(* Fault-injection variants.                                               *)

\* percentile stops at the first bucket whose cumulative count exceeds the
\* rank (> where the code has >=).
RECURSIVE PercentileScanPastRank(_, _, _, _)
PercentileScanPastRank(c, rank, i, acc) ==
  IF i > NB THEN Bound(NB - 1) + 1
  ELSE IF acc + c[i] > rank THEN LowerBound(i)
  ELSE PercentileScanPastRank(c, rank, i + 1, acc + c[i])

\* observeLatencyMs updates latency_count and latency_sum_ms without taking
\* the registry mutex.
ObserveCountUnlocked(t) ==
  /\ spc[t] = "count"
  /\ counters' = [counters EXCEPT !["latency_count"] = @ + 1,
                                  !["latency_sum_ms"] = @ + slat[t]]
  /\ spc' = [spc EXCEPT ![t] = "hist"]
  /\ UNCHANGED <<counts, total, regLock, slat, execs, ppc, snap, snaps, observed>>

-----------------------------------------------------------------------------
(* FixedLatencyHistogram::percentile                                       *)

\* percentile(p): rank = p * total truncated (1 at least), then the first
\* bucket whose cumulative count reaches the rank.  p * total is computed
\* in double precision; for p in {0.50, 0.95, 0.99} and totals below 10^5
\* its truncation equals the integer quotient used here.
RECURSIVE PercentileScan(_, _, _, _)
PercentileScan(c, rank, i, acc) ==
  IF i > NB THEN Bound(NB - 1) + 1
  ELSE IF acc + c[i] >= rank THEN LowerBound(i)
  ELSE PercentileScan(c, rank, i + 1, acc + c[i])

Percentile(c, n, p) ==
  IF n = 0 THEN 0
  ELSE LET r == (p * n) \div 100
       IN  PercentileScan(c, IF r = 0 THEN 1 ELSE r, 0, 0)

-----------------------------------------------------------------------------
(* MetricsRegistry and PrintSink::execute                                  *)

\* incCounter(name, delta) under the registry mutex.  A sink thread holds the
\* mutex only within one step, so its steps that take it require it free.
IncCounter(name, delta) == counters' = [counters EXCEPT ![name] = @ + delta]

\* PrintSink::execute: count the buffer's tuples in sink_out_total; an
\* empty buffer returns; otherwise the timestamp decides what follows.
Execute(t, tuples, ts, lat) ==
  /\ spc[t] = "idle" /\ execs[t] < MaxExec /\ regLock = NoLock
  /\ IncCounter("sink_out_total", tuples)
  /\ execs' = [execs EXCEPT ![t] = @ + 1]
  /\ spc' = [spc EXCEPT ![t] =
              IF tuples = 0 THEN "idle"
              ELSE CASE ts = "missing" -> "missing"
                     [] ts = "future"  -> "future"
                     [] ts = "valid"   -> "count"]
  \* a timestamp ahead of the clock saturates the latency at 0
  /\ slat' = [slat EXCEPT ![t] = IF ts = "valid" THEN lat ELSE 0]
  /\ UNCHANGED <<counts, total, regLock, ppc, snap, snaps, observed>>

\* incCounter("latency_missing_count"); the buffer is printed and execute
\* returns.
CountMissing(t) ==
  /\ spc[t] = "missing" /\ regLock = NoLock
  /\ IncCounter("latency_missing_count", 1)
  /\ spc' = [spc EXCEPT ![t] = "idle"]
  /\ UNCHANGED <<counts, total, regLock, slat, execs, ppc, snap, snaps, observed>>

\* incCounter("latency_future_count"), then observeLatencyMs(0).
CountFuture(t) ==
  /\ spc[t] = "future" /\ regLock = NoLock
  /\ IncCounter("latency_future_count", 1)
  /\ spc' = [spc EXCEPT ![t] = "count"]
  /\ UNCHANGED <<counts, total, regLock, slat, execs, ppc, snap, snaps, observed>>

\* observeLatencyMs, first block: latency_count and latency_sum_ms under the
\* registry mutex.
ObserveCount(t) ==
  /\ spc[t] = "count" /\ regLock = NoLock
  /\ counters' = [counters EXCEPT !["latency_count"] = @ + 1,
                                  !["latency_sum_ms"] = @ + slat[t]]
  /\ spc' = [spc EXCEPT ![t] = "hist"]
  /\ UNCHANGED <<counts, total, regLock, slat, execs, ppc, snap, snaps, observed>>

\* observeLatencyMs, then histogram.observe under the histogram mutex only;
\* the buffer is printed and execute returns.
ObserveHist(t) ==
  /\ spc[t] = "hist"
  /\ counts' = [counts EXCEPT ![BucketOf(slat[t])] = @ + 1]
  /\ total' = total + 1
  /\ spc' = [spc EXCEPT ![t] = "idle"]
  /\ observed' = [observed EXCEPT ![slat[t]] = @ + 1]
  /\ UNCHANGED <<counters, regLock, slat, execs, ppc, snap, snaps>>

\* snapshot(): take the registry mutex and copy the counters.
SnapshotBegin ==
  /\ ppc = 0 /\ regLock = NoLock /\ snaps < MaxSnaps
  /\ regLock' = "printer"
  /\ snap' = [counters |-> counters, pct |-> <<>>, seen |-> <<>>]
  /\ ppc' = 1
  /\ UNCHANGED <<counters, counts, total, spc, slat, execs, snaps, observed>>

\* snapshot(): out["latency_pXX_ms"] = histogram.percentile(p), each under
\* the histogram mutex; the registry mutex is released after the last.
SnapshotPercentile ==
  /\ ppc \in 1..Len(Pcts)
  /\ snap' = [snap EXCEPT !.pct = Append(@, Percentile(counts, total, Pcts[ppc])),
                          !.seen = Append(@, total)]
  /\ ppc' = IF ppc = Len(Pcts) THEN 0 ELSE ppc + 1
  /\ regLock' = IF ppc = Len(Pcts) THEN NoLock ELSE regLock
  /\ snaps' = IF ppc = Len(Pcts) THEN snaps + 1 ELSE snaps
  /\ UNCHANGED <<counters, counts, total, spc, slat, execs, observed>>

-----------------------------------------------------------------------------
Init ==
  /\ counters = [c \in Counter |-> 0]
  /\ counts = [i \in Bucket |-> 0]
  /\ total = 0
  /\ regLock = NoLock
  /\ spc = [t \in SinkThreads |-> "idle"]
  /\ slat = [t \in SinkThreads |-> 0]
  /\ execs = [t \in SinkThreads |-> 0]
  /\ ppc = 0
  /\ snap = [counters |-> counters, pct |-> <<>>, seen |-> <<>>]
  /\ snaps = 0
  /\ observed = [v \in Latencies \cup {0} |-> 0]

SinkStep(t) ==
  \/ \E tuples \in {0, 1}, ts \in TsClass, lat \in Latencies : Execute(t, tuples, ts, lat)
  \/ CountMissing(t) \/ CountFuture(t) \/ ObserveCount(t) \/ ObserveHist(t)

PrinterStep == SnapshotBegin \/ SnapshotPercentile

Next == (\E t \in SinkThreads : SinkStep(t)) \/ PrinterStep

\* Sink threads finish the execute call they are in; the printer finishes a
\* snapshot it has begun (it runs on its own thread).
Spec == Init /\ [][Next]_vars
        /\ \A t \in SinkThreads : WF_vars(SinkStep(t))
        /\ WF_vars(SnapshotPercentile)

-----------------------------------------------------------------------------
(* Properties                                                              *)

TypeOK ==
  /\ counters \in [Counter -> Nat]
  /\ counts \in [Bucket -> Nat] /\ total \in Nat
  /\ regLock \in {"printer", NoLock}
  /\ spc \in [SinkThreads -> {"idle", "missing", "future", "count", "hist"}]
  /\ slat \in [SinkThreads -> Latencies \cup {0}]
  /\ execs \in [SinkThreads -> 0..MaxExec]
  /\ ppc \in 0..Len(Pcts)
  /\ snaps \in 0..MaxSnaps
  /\ observed \in [Latencies \cup {0} -> Nat]

\* Sink threads between the two blocks of observeLatencyMs.
InFlight == {t \in SinkThreads : spc[t] = "hist"}

\* Each percentile of a snapshot is computed from a histogram that holds
\* no observation the snapshot's latency_count does not count, and misses
\* at most the observations of sink threads that are between the counter
\* update and histogram.observe of observeLatencyMs.
SnapshotHistogramWithinInFlight ==
  \A i \in 1..Len(snap.seen) :
    /\ snap.seen[i] <= snap.counters["latency_count"]
    /\ snap.counters["latency_count"] - snap.seen[i] <= Cardinality(SinkThreads)

\* The percentiles of one snapshot are ordered: p50 <= p95 <= p99.
SnapshotPercentilesOrdered ==
  \A i, j \in 1..Len(snap.pct) : i < j => snap.pct[i] <= snap.pct[j]

\* percentile(p) reports the lower bound of the bucket that holds the
\* rank-th smallest latency observed so far, rank = floor(p * total) and at
\* least 1, and 0 before any observation.  The reference works on the
\* observed values, not on the bucket counts.
PercentileMatchesReference ==
  \A p \in ToSet(Pcts) :
    LET vals == DOMAIN observed
        n == SumFunction(observed)
        AtMost(x) == SumFunctionOnSet(observed, {y \in vals : y <= x})
        r == Max({1, (p * n) \div 100})
        x == CHOOSE x \in vals : AtMost(x) >= r /\ \A y \in vals : y < x => AtMost(y) < r
        lb == Max({0} \cup {Bound(i) + 1 : i \in {i \in 0..NB-1 : Bound(i) < x}})
    IN  Percentile(counts, total, p) = IF n = 0 THEN 0 ELSE lb

=============================================================================
