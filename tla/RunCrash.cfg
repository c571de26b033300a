SPECIFICATION Spec
CONSTANTS
  Run = {r1}
  Thread = {t1}
  ThreadOf <- OneThread
  Worker = {w1, w2}
  Slot = {s1}
  Client = {c1}
  MaxAsk = 1
  RecursionLimit = 1
  MaxToken = 0
  MaxCrash = 1
  MaxHiccup = 0
  MaxAge = 0
  FreshDeploy = FALSE
SYMMETRY Symmetric
INVARIANTS TypeOK OneVerdict CarriedUnlessFault AskedPerFault FreshUnlessFault
PROPERTY ContractSpec
CHECK_DEADLOCK FALSE
