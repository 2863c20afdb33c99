SPECIFICATION Spec
CONSTANTS
  k1 = k1
  k2 = k2
  v1 = v1
  v2 = v2
  v3 = v3
  Ports = {1, 2, 9}
  ValidPorts = {1, 2}
  Keys = {k1, k2}
  Values = {v1, v2, v3}
  Cut <- MCCut
  Templates <- MCTemplates
  Limits <- MCLimits
  MaxParts = 2
  Half = 128
  G = 16
  M = 4
  Blank = Blank
  Junk = Junk
  None = None
INVARIANT ContainerAsAsked
PROPERTY EditKeepsRow
CHECK_DEADLOCK FALSE
