SPECIFICATION McpSpec
CONSTANTS
  s1 = s1
  s2 = s2
  t1 = t1
  t2 = t2
  d1 = d1
  d2 = d2
  d3 = d3
  Review = {r1}
  NoReview = none
  Server = {s1, s2}
  Listed = {s1}
  Tool = {t1, t2}
  Reserved = {t2}
  Declared <- Offers
  Threshold = 2
  MaxServer = 2
  MaxFailure = 3
  Admin = {d1, d2, d3}
  Run = {w1}
  Probe = {p1}
SYMMETRY Symmetric
INVARIANTS DirectoryInv
PROPERTY TripsAreKept
CHECK_DEADLOCK FALSE
