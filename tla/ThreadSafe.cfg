SPECIFICATION WorkbenchSpec
CONSTANTS
  Request = {q1, q2}
  Reaper = reaper
  Thread = {t1}
  NoThread = nothread
  MaxFault = 1
  Nobody = nobody
  TokenDaily = 1
  ConcurrentRun = 1
  DEFAULT_PENDING_LIMIT = 1
  MaxAttempt = 2
  ToolThread = t1
INVARIANTS WorkbenchInv OverQuotaOnlyIfRaced RunsOnce
CONSTRAINT QuietMidnight
PROPERTIES TypedTitleStands PurgeCompletes
CHECK_DEADLOCK FALSE
