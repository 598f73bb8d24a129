\* Every set of accepted pairs over a cycle of four entities, read while curators go on.
CONSTANTS
  x = x
  xa = xa
  xb = xb
  y = y
  ya = ya
  name = name
  p = p
  same = same
  l = l
  Uri = {x, xa, xb, y, ya}
  Literal = {l}
  Predicate = {name, p, same}
  SameAs = same
  Plain <- About
  Pair <- Chain
  Stripped <- Once
SPECIFICATION Spec
INVARIANTS TypeOK ComponentsMerged NamesApart LoopsAreGenuine
CHECK_DEADLOCK FALSE
