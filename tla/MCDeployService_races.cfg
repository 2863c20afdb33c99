CONSTANTS
  d1 = d1
  r1 = r1
  r2 = r2
  r3 = r3
  r4 = r4
  a1 = a1
  a2 = a2
  Deploys = {d1}
  Reqs = {r1, r2, r3}
  KindOf <- StopDeleteUpdate
  Agents = {a1, a2}
  Home <- OnFirst
  Faults = {"db", "crash"}
  Patient = {}
  None = None
SPECIFICATION Safety
INVARIANTS
  CmdMapExact
  BoundIsCreated
PROPERTY StaysDeleted
CHECK_DEADLOCK FALSE
