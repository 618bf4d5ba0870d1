SPECIFICATION FairSpec
CONSTANTS
  r1 = r1
  r2 = r2
  t1 = t1
  t2 = t2
  i1 = i1
  i2 = i2
  NoTask = NoTask
  None = None
  Requests = {r1, r2}
  Targets = {t1, t2}
  TaskIds = {i1}
  MayTarget <- SharedOrNot
  Offered = {"presentation", "tex"}
INVARIANT NoStagingLeft
INVARIANT StagedAllOrNothing
INVARIANT CancelledLeavesNoFile
PROPERTY RaceSpec
PROPERTY RequestsEnd
