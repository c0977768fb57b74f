CONSTANTS
  d1 = d1
  Devices = {d1}
  Configured = {d1}
  StopDelay = 2
  PagePeriod = 4
  Faults = {"busyport", "split"}
  MaxOps = 5
SPECIFICATION FairSpec
INVARIANTS TypeOK OpenForASecond
PROPERTIES SearchEnds
CHECK_DEADLOCK FALSE
