\* Two runs, three documents, one of them a PDF; no retry, no crash.
CONSTANTS
  d1 = d1
  d2 = d2
  d3 = d3
  r1 = r1
  r2 = r2
  None = None
  Run = {r1, r2}
  Doc = {d1, d2, d3}
  RunOf <- TwoAndOne
  Pdf = {d2}
  Retry = {}
  Alike <- AllPairs
  SlowAlignment = FALSE
  MaxCrashes = 0
SPECIFICATION Spec
INVARIANTS TypeOK AtMostOneAlignment NoDuplicateAlignment DoneIsProcessed DonePairsCompared
PROPERTY FailedUntilRetry
CHECK_DEADLOCK FALSE
