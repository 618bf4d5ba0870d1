SPECIFICATION Spec
CONSTANTS
  p1 = p1
  p2 = p2
  p3 = p3
  None = None
  Launches = {p1, p2, p3}
  WithFile = {p1, p2}
  MayHappen = {"start", "leave", "orphan", "unread", "late", "missing", "lost"}
INVARIANT OneWindow
INVARIANT ResidentIsNamed
 
 
CHECK_DEADLOCK FALSE
