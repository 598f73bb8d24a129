\* Two curators on two statements with the same triple, any edit, ids listed twice.
CONSTANTS
  o1 = o1
  o2 = o2
  t1 = t1
  t2 = t2
  t3 = t3
  None = None
  Malformed = Malformed
  Unwritable = Unwritable
  Curator = {c1, c2}
  Original = {o1, o2}
  Version = {o1, o2, n1, n2, n3}
  Triple = {t1, t2}
  OriginalTriple <- SharedTriple
  Edits <- AnyEdit
  Repeats = TRUE
  BadEdits = TRUE
  MaxBulk = 2
  MaxFaults = 0
SYMMETRY SharedSymmetry
SPECIFICATION Spec
INVARIANTS TypeOK MaterializationInvariant NoStatementLost
PROPERTY HistoryAppendOnly
CHECK_DEADLOCK FALSE
