SPECIFICATION JobsSpec
CONSTANTS
  Job = {j1}
  Worker = {w1, w2}
  m1 = m1
  m2 = m2
  Slug = {m1, m2}
  Reply <- Answers
  Deletable = {m1}
  MaxAttempt = 2
  MergeAt = 2
  MaxSweep = 1
  MaxFault = 1
INVARIANTS JobsInv LedgerExact
PROPERTIES OvertakenUndoNothing JobsSettle
CHECK_DEADLOCK FALSE
