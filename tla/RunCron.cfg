SPECIFICATION Spec
CONSTANTS
  Run = {r1}
  Thread = {t1}
  ThreadOf <- OneThread
  Worker = {w1}
  Slot = {s1}
  Client = {c1}
  MaxAsk = 1
  RecursionLimit = 2
  MaxToken = 1
  MaxCrash = 0
  MaxHiccup = 1
  MaxAge = 2
  FreshDeploy = FALSE
CONSTRAINT TokensMatter
SYMMETRY Symmetric
INVARIANTS OneDebtor OrphansHaveNoMessage CancelIsPrompt
CHECK_DEADLOCK FALSE
