SPECIFICATION DialogSpec
CONSTANTS
  j1 = j1
  j2 = j2
  d1 = d1
  d2 = d2
  None = None
  Jobs = {j1, j2}
  Docs = {d1}
  MaxItems = 1
  MaxImages = 0
  MaxRuns = 2
  Polls = {1}
  Interrupts = TRUE
  RequestsMayFail = TRUE
  FilesMayVanish = FALSE
SYMMETRY AnyJob
 
INVARIANT OneJobAtATimeUndisturbed
CHECK_DEADLOCK FALSE
