SPECIFICATION Spec
CONSTANTS
  t1 = t1
  t2 = t2
  None = None
  Threads = {t1, t2}
  MaxRequests = 3
  MaxInputs = 4
  MaxPending = 2
  Faults = {"install", "spawn", "health", "exit", "disk"}
SYMMETRY AnyThread
INVARIANT Supervised
INVARIANT RestAgrees
INVARIANT ShownWhole
 
CHECK_DEADLOCK FALSE
