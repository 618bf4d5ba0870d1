SPECIFICATION DialogFairSpec
CONSTANTS
  j1 = j1
  j2 = j2
  d1 = d1
  d2 = d2
  None = None
  Jobs = {j1}
  Docs = {d1, d2}
  MaxItems = 2
  MaxImages = 1
  MaxRuns = 1
  Polls = {1}
  Interrupts = TRUE
  RequestsMayFail = TRUE
  FilesMayVanish = TRUE
INVARIANT FinishedRowsAreDoneUndisturbed
 
CHECK_DEADLOCK FALSE
