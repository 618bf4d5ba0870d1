SPECIFICATION FairSpec
CONSTANTS
  c1 = c1
  c2 = c2
  c3 = c3
  i1 = i1
  i2 = i2
  None = None
  Existing = Existing
  Calls = {c1, c2, c3}
  Ids = {i1, i2}
  MayAsk <- TwoWriters
  MaxTools = 2
  MaxCancels = 1
  SpawnMayFail = TRUE
INVARIANT LimitHolds
INVARIANT ExitLeavesNothing
INVARIANT CancelledIsSilent
PROPERTY ServerStops
CHECK_DEADLOCK FALSE
