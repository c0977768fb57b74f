CONSTANTS
  m1 = m1
  None = None
  Devices = {m1}
  MaxOps = 4
  MaxPulls = 1
SPECIFICATION FairSpec
INVARIANTS TypeOK PendingIsCovered SettledIsInCloud
PROPERTIES RemovedIsGone Syncs
CHECK_DEADLOCK FALSE
