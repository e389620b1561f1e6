SPECIFICATION Spec
CONSTANTS
  Ids = {a, b, c, d}
  Numbers <- MCNumbers
  Limits <- MCLimits
  MaxChanges = 1
  Missing = Missing
  Gone = Gone
INVARIANT TypeOK
INVARIANT NoRepeats
INVARIANT NothingSkipped
PROPERTY WalkEnds
CHECK_DEADLOCK FALSE
