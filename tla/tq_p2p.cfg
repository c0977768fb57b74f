CONSTANTS
  d1 = d1
  d2 = d2
  None = None
  Devices = {d1}
  Paths = {1, 2}
  Escaped = {}
  Reach <- AllReach
  Ops = {"add", "p2p"}
  Faults = {}
  MaxOps = 5
SPECIFICATION Spec
PROPERTIES SettledByOwnAnswer
CHECK_DEADLOCK FALSE
