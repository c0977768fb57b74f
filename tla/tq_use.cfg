CONSTANTS
  d1 = d1
  d2 = d2
  None = None
  Devices = {d1, d2}
  Paths = {1, 2, 3}
  Escaped = {}
  Reach <- OwnReach
  Ops = {"add", "del", "pause", "empty", "emptyall", "exit"}
  Faults = {"neterr", "openfail", "crash"}
  MaxOps = 6
SPECIFICATION FairSpec
INVARIANTS TypeOK RunningIsListed PausedNeverSent
PROPERTIES PromiseKept Drains
CHECK_DEADLOCK FALSE
