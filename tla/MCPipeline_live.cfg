\* One run of one document, retried at any time; one process dies.
CONSTANTS
  d1 = d1
  d2 = d2
  d3 = d3
  r1 = r1
  r2 = r2
  None = None
  Run = {r1}
  Doc = {d1}
  RunOf <- OneRun
  Pdf = {}
  Retry = {t1, t2}
  Alike <- AllPairs
  SlowAlignment = FALSE
  MaxCrashes = 1
SPECIFICATION FairSpec
INVARIANT AtMostOneAlignment
PROPERTIES EveryDocumentSettles EveryAlignmentGetsItsTurn
CHECK_DEADLOCK FALSE
