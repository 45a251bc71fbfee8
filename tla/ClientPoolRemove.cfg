CONSTANTS
  Conns = {k1, k2}
  Objs = {o1, o2}
  None = None
  MaxClients = 1
  MaxStarts = 2
  AcceptMayFail = FALSE
  RemovableIn = {"Stopped"}
SPECIFICATION PeersLeaveSpec
CHECK_DEADLOCK FALSE
PROPERTY ShutdownReturns
