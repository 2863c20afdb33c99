SPECIFICATION Spec
CONSTANTS
  Requests = {1, 2, 3, 4, 5}
  Emails = {e1, e2}
  Machines = {m1, m2}
  Kinds <- MCKinds
  MaxFaults = 2
  None = None
SYMMETRY Symmetry
INVARIANTS OneAgentPerMachine OneIdentityPerEmail SpentByAnswerOrFault
PROPERTY ClosedAfterAnswer
CHECK_DEADLOCK FALSE
