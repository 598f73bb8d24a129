\* One curator on two statements with the same triple, any edit; up to two requests break off.
CONSTANTS
  o1 = o1
  o2 = o2
  t1 = t1
  t2 = t2
  t3 = t3
  None = None
  Malformed = Malformed
  Unwritable = Unwritable
  Curator = {c1}
  Original = {o1, o2}
  Version = {o1, o2, n1, n2, n3, n4}
  Triple = {t1, t2}
  OriginalTriple <- SharedTriple
  Edits <- AnyEdit
  Repeats = FALSE
  BadEdits = TRUE
  MaxBulk = 2
  MaxFaults = 2
SYMMETRY FreshSymmetry
SPECIFICATION Spec
INVARIANTS LinearHistory MaterializedIsAccepted
CHECK_DEADLOCK FALSE
