SPECIFICATION Spec
CONSTANTS
  d1 = d1
  d2 = d2
  None = None
  Docs = {d1, d2}
  MaxTexts = 2
  MaxWrites = 2
  MayOverlap = {}
PROPERTY ReloadDiscards
CHECK_DEADLOCK FALSE
