SPECIFICATION FairSpec
CONSTANTS
  d1 = d1
  d2 = d2
  None = None
  Docs = {d1, d2}
  MaxTexts = 1
  MaxWrites = 1
  MayOverlap = {"undo"}
PROPERTY ReloadCatchesUp
CHECK_DEADLOCK FALSE
