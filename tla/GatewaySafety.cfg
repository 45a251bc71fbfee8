CONSTANTS
  Clients = {c1, c2}
  Envelopes = {e1, e2}
  Msgs = {m1, m2, m3, m4}
  None = None
  WorkersSize = 2
  HasValidator = TRUE
  MaxRcpt = 2
  MaxReloads = 1
  ShutdownOutcomes = {"ok", "err"}
  InitOutcomes = {"ok", "err"}
  NewBackendOutcomes = {"ok", "err"}
SYMMETRY Symmetry
SPECIFICATION Spec
INVARIANTS EnvelopePinned AnswersStayApart
PROPERTIES SavedEnvelopeStable ImplementsService
CHECK_DEADLOCK FALSE
