SPECIFICATION FairSpec
CONSTANTS
  Run = {r1}
  Thread = {t1}
  ThreadOf <- OneThread
  Worker = {w1}
  Slot = {s1}
  Client = {c1}
  MaxAsk = 1
  RecursionLimit = 0
  MaxToken = 0
  MaxCrash = 0
  MaxHiccup = 1
  MaxAge = 2
  FreshDeploy = TRUE
PROPERTY EveryRunEnds
CHECK_DEADLOCK FALSE
