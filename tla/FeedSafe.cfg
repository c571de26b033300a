SPECIFICATION FeedSpec
CONSTANTS
  lead = lead
  helper = helper
  Path = {lead, helper}
  Reader = {f1}
  MaxWriter = 2
  Script <- Said
  MaxLength = 2
  MaxFault = 2
INVARIANTS FeedInv SkippedIsExplained
PROPERTY FollowersEnd
CHECK_DEADLOCK FALSE
