CONSTANTS
  m1 = m1
  m2 = m2
  c1 = c1
  c2 = c2
  None = None
  Devices = {m1, m2}
  Cmds = {c1, c2}
  MaxMoves = 2
SPECIFICATION FairSpec
INVARIANTS TypeOK OnePlace NullUse OneSubscription
PROPERTIES FlushEnds LinkComesBack QueuedIsSent
CHECK_DEADLOCK FALSE
