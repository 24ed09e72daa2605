\* Two sink threads, two execute calls each, latencies 0 and 100 ms, two snapshots.
CONSTANTS
  s1 = s1
  s2 = s2
  NoLock = NoLock
  SinkThreads <- MCSinkThreads
  Latencies = {0, 3, 100, 70000}
  MaxExec = 2
  MaxSnaps = 2
SPECIFICATION Spec
INVARIANT SnapshotHistogramWithinInFlight
INVARIANT PercentileMatchesReference
CHECK_DEADLOCK FALSE
