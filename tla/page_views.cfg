SPECIFICATION Spec
CONSTANTS
  Workers = {w1, w2}
  Browsers = {b1}
  Ids = {v1, v2}
  Dedup = 2
  MaxStall = 1
  MaxTime = 3
  None = None
SYMMETRY Symmetry
INVARIANT TypeOK
INVARIANT ViewsSpaced
INVARIANT VisitsCounted
