\* Two runs with three documents; curators touch all statements of one paper and the DOI of another.
CONSTANTS
  d1 = d1
  d2 = d2
  d3 = d3
  r1 = r1
  r2 = r2
  Unknown = Unknown
  Doc = {d1, d2, d3}
  Run = {r1, r2}
  RunOf <- Batches
  Text <- Texts
  Types <- TypeNames
  Config <- Shipped
  Alike <- Equal
  Close <- Similar
  Curated <- Touched
SPECIFICATION Spec
INVARIANTS TypeOK ConflictsStayApart MatchesAreProposed
CHECK_DEADLOCK FALSE
