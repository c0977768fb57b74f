CONSTANTS
  f1 = f1
  f2 = f2
  NoFile = NoFile
  Files = {f1, f2}
  Large = {f2}
  MaxAttempts = 2
  MaxUploads = 2
  MaxOthers = 1
  MaxSwitches = 1
  MaxFlips = 1
  MaxTurns = 2
SPECIFICATION FairSpec
INVARIANTS TypeOK NeverWedged
PROPERTIES LeavesIndexedByP2p QueueRunsEmpty
CHECK_DEADLOCK FALSE
