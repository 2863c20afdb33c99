SPECIFICATION Spec
CONSTANTS
  c1 = c1
  c2 = c2
  Clis = {c1, c2}
  Menu <- MCMenu
  MaxRows = 2
  MaxFaults = 2
  None = None
INVARIANTS OnePending FormHonest MenuOnCursor
PROPERTY PollEnds
CHECK_DEADLOCK FALSE
