CONSTANTS
  m1 = m1
  None = None
  Devices = {m1}
  MaxOps = 3
  MaxPulls = 1
SPECIFICATION Spec
PROPERTIES DeletionsResent
CHECK_DEADLOCK FALSE
