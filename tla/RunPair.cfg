SPECIFICATION Spec
CONSTANTS
  Run = {r1, r2}
  Thread = {t1}
  ThreadOf <- OneThread
  Worker = {w1}
  Slot = {s1, s2}
  Client = {c1}
  MaxAsk = 0
  RecursionLimit = 0
  MaxToken = 1
  MaxCrash = 0
  MaxHiccup = 1
  MaxAge = 0
  FreshDeploy = FALSE
SYMMETRY Symmetric
INVARIANTS HeldOnce CancelledForAReason
CHECK_DEADLOCK FALSE
