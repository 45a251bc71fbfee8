CONSTANTS
  Clients = {c1}
  Envelopes = {e1}
  Msgs = {m1, m2}
  None = None
  WorkersSize = 1
  HasValidator = TRUE
  MaxRcpt = 1
  MaxReloads = 2
  ShutdownOutcomes = {"ok", "err"}
  InitOutcomes = {"ok"}
  NewBackendOutcomes = {"err"}
SPECIFICATION FairSpec
PROPERTY ShutdownReturns
CHECK_DEADLOCK FALSE
