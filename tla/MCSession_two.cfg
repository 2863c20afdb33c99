SPECIFICATION Spec
CONSTANTS
  Clis = {c1, c2}
  Users = {u1, u2}
  MaxAgents = 2
  Pids = {p1, p2}
  None = None
INVARIANTS AgentBelongsToUser AgentsTracked
SYMMETRY Alike
CONSTRAINT Bounded
CHECK_DEADLOCK FALSE
