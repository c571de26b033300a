SPECIFICATION CatalogSpec
CONSTANTS
  u1 = u1
  u2 = u2
  g1 = g1
  a1 = a1
  a2 = a2
  k1 = k1
  n1 = n1
  n2 = n2
  e1 = e1
  e2 = e2
  e3 = e3
  User = {u1, u2}
  Group = {g1}
  GroupOwner <- Leaders
  MaxJoin = 0
  Review = {v1}
  NoReview = none
  Agent = {a1, a2}
  Skill = {k1}
  OwnerOf <- Owners
  Name = {n1, n2}
  Edit = {e1, e2, e3}
  NoRow = norow
  Bound <- Deep
  NoBytes = nobytes
  Submission = {s1}
  NoAgent = noagent
  FirstName <- Called
SYMMETRY Symmetric
INVARIANTS CatalogInv FilesUnlessLost ResolvedFits
PROPERTY PublishedStands
CHECK_DEADLOCK FALSE
