CONSTANTS
  i1 = i1
  i2 = i2
  h1 = h1
  b1 = b1
  b2 = b2
  k1 = k1
  k2 = k2
  Ifaces = {i1, i2}
  DefaultInterface = i1
  DefaultTimeout = 1
  Hostname = Hostname
  DefaultBackend = b1
  Unset = Unset
  None = None
  BootConfigs <- FirstFiles
  RawConfigs <- Files
  MaxReloads = 1
  CreateOutcomes = {"ok"}
  ShutdownOutcomes = {"ok"}
  NewBackendOutcomes = {"ok", "err"}
  ReinitOutcomes = {"ok", "err"}
SPECIFICATION Spec
INVARIANT SettingsFollowConfig
CHECK_DEADLOCK FALSE
