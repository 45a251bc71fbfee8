CONSTANTS
  Conns = {k1, k2}
  Objs = {o1, o2}
  None = None
  MaxClients = 1
  MaxStarts = 3
  AcceptMayFail = FALSE
  RemovableIn = {"New", "Running", "StartError"}
SPECIFICATION PeersLeaveSpec
PROPERTIES ShutdownCompletes AcceptedIsServed
CHECK_DEADLOCK FALSE
