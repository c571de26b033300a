SPECIFICATION Spec
CONSTANTS
  r1 = r1
  r2 = r2
  r3 = r3
  r4 = r4
  t1 = t1
  t2 = t2
  t3 = t3
  Run = {r1, r2, r3, r4}
  Thread = {t1, t2, t3}
  Sweeper = sweeper
  ThreadOf <- Shared
  MaxContainer = 2
  MaxStray = 1
  Impatient = {r2}
  Deletable = {t1}
  Mortal = {t1}
SYMMETRY Swapped
INVARIANTS PoolTypeOK Capacity GrantsAreBacked NoOverwrite
PROPERTY BusyKept
CHECK_DEADLOCK FALSE
