CONSTANTS
  Rows = {r1, r2, r3}
  BatchMax = 2
  MaxFaults = 3
SPECIFICATION FairSpec
INVARIANT RemainingRowsInserted
CHECK_DEADLOCK FALSE
