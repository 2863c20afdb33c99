CONSTANTS
  a1 = a1
  a2 = a2
  p1 = p1
  p2 = p2
  p3 = p3
  c1 = c1
  c2 = c2
  c3 = c3
  k1 = k1
  k2 = k2
  Agents = {a1}
  Clients = {p1}
  AgentOf <- OneAgent
  Conns = {c1}
  Cmds = {k1, k2}
  Creates = {k1}
  None = None
SPECIFICATION Spec
INVARIANTS
  TypeOK
  ResultsGenuine
  HandlerNeverBlocks
  PendingExact
PROPERTIES
  ImplementsPort
  CallsReturn
  HandlersLeave
CHECK_DEADLOCK FALSE
