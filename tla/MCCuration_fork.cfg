\* Two curators load the same current version.
CONSTANTS
  o1 = o1
  o2 = o2
  t1 = t1
  t2 = t2
  t3 = t3
  None = None
  Malformed = Malformed
  Unwritable = Unwritable
  Curator = {c1, c2}
  Original = {o1}
  Version = {o1, n1, n2}
  Triple = {t1, t2}
  OriginalTriple <- OneTriple
  Edits <- AnyEdit
  Repeats = FALSE
  BadEdits = FALSE
  MaxBulk = 1
  MaxFaults = 0
SYMMETRY FreshSymmetry
SPECIFICATION Spec
INVARIANT OneCurrentVersion
CHECK_DEADLOCK FALSE
