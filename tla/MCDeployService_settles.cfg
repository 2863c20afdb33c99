CONSTANTS
  d1 = d1
  r1 = r1
  r2 = r2
  r3 = r3
  r4 = r4
  a1 = a1
  a2 = a2
  Deploys = {d1}
  Reqs = {r1, r2, r3, r4}
  KindOf <- StartStopDelete
  Agents = {a1}
  Home <- OnFirst
  Faults = {}
  Patient = {r1, r2, r3}
  None = None
SPECIFICATION Spec
INVARIANTS
  StatusFollowsContainer
  NoOrphan
PROPERTY CreateSettles
CHECK_DEADLOCK FALSE
