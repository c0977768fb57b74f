CONSTANTS
  d1 = d1
  d2 = d2
  a = a
  b = b
  None = None
  Devices = {d1, d2}
  Paths = {a, b}
  Edits <- MCEdits
  Uploads = {a}
  MaxActs = 4
SPECIFICATION FairSpec
INVARIANTS TypeOK MirrorWhole NothingInvented
PROPERTIES EditsStay CatchesUp
CHECK_DEADLOCK FALSE
