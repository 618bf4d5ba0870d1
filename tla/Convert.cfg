SPECIFICATION FairSpec
CONSTANTS
  j1 = j1
  j2 = j2
  c1 = c1
  c2 = c2
  s1 = s1
  s2 = s2
  s3 = s3
  a = a
  b = b
  None = None
  Empty = Empty
  Old = Old
  Mixed = Mixed
  Stems = {a, b}
  Sources = {s1, s2, s3}
  Stem <- Stem3
  Jobs = {j1}
  Singles = {c1}
  MayConvert <- All
  Uploads = {s3}
  MaxItems = 2
  MaxCopies = 1
  CheckMayPanic = TRUE
 
PROPERTY ProgressSpec
 
 
CHECK_DEADLOCK FALSE
