CONSTANTS
  Conns = {k1, k2, k3}
  Objs = {o1, o2, o3}
  None = None
  MaxClients = 2
  MaxStarts = 2
  AcceptMayFail = TRUE
  RemovableIn = {"New", "Running", "Stopped", "StartError"}
SYMMETRY Symmetry
SPECIFICATION Spec
INVARIANTS PoolAccounted BorrowSucceeds StoppedIsQuiet
CHECK_DEADLOCK FALSE
