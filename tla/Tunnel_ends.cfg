SPECIFICATION Spec
CONSTANTS
  Cmds = {"k1"}
  Cap = 1
  MaxPings = 3
  Faults = {{"stop", "replace"}, {"client"}, {"backend"}}
INVARIANT WritersApart
PROPERTIES ImplementsWire WritesReturn EndsTogether
CHECK_DEADLOCK FALSE
