CONSTANTS
  Clients = {c1, c2}
  Envelopes = {e1, e2}
  Msgs = {m1, m2}
  None = None
  WorkersSize = 1
  HasValidator = TRUE
  MaxRcpt = 1
  MaxReloads = 1
  ShutdownOutcomes = {"ok"}
  InitOutcomes = {"ok"}
  NewBackendOutcomes = {"err"}
SPECIFICATION FairSpec
PROPERTIES CallsReturn ShutdownReturns
