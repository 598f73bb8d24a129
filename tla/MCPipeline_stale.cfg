\* One run of two documents; one of them is retried.
CONSTANTS
  d1 = d1
  d2 = d2
  d3 = d3
  r1 = r1
  r2 = r2
  None = None
  Run = {r1}
  Doc = {d1, d2}
  RunOf <- OneRun
  Pdf = {}
  Retry = {t1}
  Alike <- AllPairs
  SlowAlignment = FALSE
  MaxCrashes = 0
SPECIFICATION Spec
PROPERTY FailedUntilRetry
CHECK_DEADLOCK FALSE
