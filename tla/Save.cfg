SPECIFICATION Spec
CONSTANTS
  p1 = p1
  p2 = p2
  None = None
  Original = Original
  Torn = Torn
  Pages = {p1, p2}
  MaxSaves <- TwoAndOne
  MaxForeign = 1
  Troubles = {"race", "tick", "refused", "failed", "short", "killed"}
  MaxTroubles = 2
INVARIANT NeverTorn
INVARIANT NoTmpLeft
PROPERTY CheckedSpec
PROPERTY BackedUpFirst
 
CHECK_DEADLOCK FALSE
