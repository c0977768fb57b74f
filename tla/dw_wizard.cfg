CONSTANTS
  Faults = {"error", "lost"}
  MaxOps = 5
  MaxPolls = 1
  MaxLogIns = 1
SPECIFICATION FairSpec
INVARIANTS TypeOK StepsAreTrue AsksUntilGood
PROPERTIES GetsOn
CHECK_DEADLOCK FALSE
