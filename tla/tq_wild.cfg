CONSTANTS
  d1 = d1
  d2 = d2
  None = None
  Devices = {d1, d2}
  Paths = {1, 2}
  Escaped = {2}
  Reach <- AllReach
  Ops = {"add", "replace", "del", "pause", "empty", "emptyall", "link", "switch", "exit", "p2p"}
  Faults = {"neterr", "openfail", "crash"}
  MaxOps = 5
SPECIFICATION Spec
INVARIANTS NoSilentStall
CHECK_DEADLOCK FALSE
