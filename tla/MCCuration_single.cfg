\* One curator, valid edits, no request breaks off, no two statements ever share a triple.
CONSTANTS
  o1 = o1
  o2 = o2
  t1 = t1
  t2 = t2
  t3 = t3
  None = None
  Malformed = Malformed
  Unwritable = Unwritable
  Curator = {c1}
  Original = {o1, o2}
  Version = {o1, o2, n1, n2, n3, n4}
  Triple = {t1, t2, t3}
  OriginalTriple <- DistinctTriples
  Edits <- OwnEdits
  Repeats = FALSE
  BadEdits = FALSE
  MaxBulk = 2
  MaxFaults = 0
SYMMETRY FreshSymmetry
SPECIFICATION Spec
INVARIANT AcceptedIsMaterialized
PROPERTY ImplementsLedger
CHECK_DEADLOCK FALSE
