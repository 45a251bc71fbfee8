CONSTANTS
  Mail = {m1}
  Indexable = {m1}
  Unsettled = {}
  Folders = {inbox, junk}
  None = None
  Gone = Gone
  UIDLimit = 16
  SkipExistingOnStart = TRUE
  SearchBatch = 1
  BaselineHeaderLimit = 1
  EmptyHeaderMaxRetries = 0
  Sessions = {s1}
  SyncTimeouts = FALSE
  MaxUID = 2
  MaxResets = 1
  MaxFaults = 2
SPECIFICATION FairSpec
INVARIANTS FreshIsNotExisting
PROPERTIES FreshIsIndexed
