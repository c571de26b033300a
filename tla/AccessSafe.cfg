SPECIFICATION AccessSpec
CONSTANTS
  u1 = u1
  u2 = u2
  g1 = g1
  User = {u1, u2}
  Group = {g1}
  GroupOwner <- Leaders
  MaxJoin = 2
  Token = {k1, k2}
  RateLimit = 1
  Replica = {p1, p2}
  FirstAdmin = u1
  NoUser = nouser
  NoGroup = nogroup
  Grantable = {"teacher"}
SYMMETRY Symmetric
CONSTRAINT OnlyOthersApply
INVARIANTS AccessInv SessionMatchesUnlessChanged
PROPERTY BootstrapOnlyOnce
CHECK_DEADLOCK FALSE
