\* One run of two documents; removals overlap with no other work; one of them breaks off.
CONSTANTS
  d1 = d1
  d2 = d2
  o1 = o1
  o2 = o2
  a12 = a12
  a1 = a1
  a2 = a2
  l1 = l1
  l2 = l2
  n1 = n1
  t1 = t1
  t2 = t2
  t3 = t3
  t4 = t4
  t5 = t5
  r1 = r1
  None = None
  Malformed = Malformed
  Unwritable = Unwritable
  Curator = {c1}
  Doc = {d1, d2}
  Run = {r1}
  Uploads <- Batches
  Original = {o1, o2, a12, a1, a2, l1, l2}
  Version = {o1, o2, a12, a1, a2, l1, l2, n1}
  Triple = {t1, t2, t3, t4, t5}
  OriginalTriple <- Triples
  Kind <- Kinds
  Home <- Homes
  Source <- Sources
  By <- Runs
  Edits <- NoEdits
  Overlap = {}
  Repeats = FALSE
  BadEdits = FALSE
  MaxBulk = 1
  MaxFaults = 0
  MaxBreaks = 1
SYMMETRY Symmetry
SPECIFICATION Spec
INVARIANTS TypeOK NoTraceLeft MaterializedIsAccepted OthersAreSpared EveryStatementHasAnOrigin PairStatedOnce
PROPERTY WrittenOnce
CHECK_DEADLOCK FALSE
