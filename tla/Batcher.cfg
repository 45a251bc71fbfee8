CONSTANTS
  Rows = {r1, r2, r3}
  BatchMax = 2
  MaxFaults = 3
SPECIFICATION FairSpec
INVARIANTS BatchIntact CopiedOnlyAfterFailure
PROPERTIES AckedIsTried ShutdownEnds
CHECK_DEADLOCK FALSE
