SPECIFICATION FairSpec
CONSTANTS
  w1 = w1
  w2 = w2
  n1 = n1
  n2 = n2
  d1 = d1
  d2 = d2
  Workers = {w1, w2}
  Names = {n1, n2}
  Digests = {d1, d2}
  Bad = Bad
  None = None
  MaxChunks = 1
  SpawnMayFail = TRUE
INVARIANT PublishedIsVerified
INVARIANT AcceptedIsVerified
INVARIANT CancelledIsNotPublished
PROPERTY RunningIsLowered
CHECK_DEADLOCK FALSE
