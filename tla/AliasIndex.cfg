CONSTANTS
  a1 = a1
  a2 = a2
  w1 = w1
  b1 = b1
  m1 = m1
  m2 = m2
  i1 = i1
  i2 = i2
  Mail = {m1, m2}
  Home <- MCHome
  MsgId <- MCMsgId
  NoId = NoId
  Kind <- MCKind
  Accounts = {a1, a2}
  ImapAccounts = {w1}
  Key <- MCKey
  WatcherIds = {i2}
  TenantLists <- Listed
  RegistryModes = {TRUE, FALSE}
  StaticLists <- Lists
  SkipExistingOnStart = TRUE
  UIDLBatchSize = 1
  MaxRows = 1
  TTL = 0
  DialHangs = TRUE
  MaxClock = 1
  MaxFaults = 1
SPECIFICATION FairSpec
INVARIANTS BaselineSeparates KnownIsAccounted
PROPERTIES PurgedOldestFirst FreshIsHandled StopHonoured
CHECK_DEADLOCK FALSE
