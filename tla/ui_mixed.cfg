CONSTANTS
  f1 = f1
  f2 = f2
  NoFile = NoFile
  Files = {f1, f2}
  Large = {f2}
  MaxAttempts = 3
  MaxUploads = 2
  MaxOthers = 1
  MaxSwitches = 0
  MaxFlips = 1
  MaxTurns = 2
SPECIFICATION Spec
PROPERTIES LeavesIndexed
CHECK_DEADLOCK FALSE
