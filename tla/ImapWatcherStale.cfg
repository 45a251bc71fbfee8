CONSTANTS
  Mail = {m1, m2, m3}
  Indexable = {m1, m2, m3}
  Unsettled = {}
  Folders = {inbox}
  None = None
  Gone = Gone
  UIDLimit = 16
  SkipExistingOnStart = TRUE
  SearchBatch = 2
  BaselineHeaderLimit = 1
  EmptyHeaderMaxRetries = 0
  Sessions = {s1, s2}
  SyncTimeouts = TRUE
  MaxUID = 2
  MaxResets = 1
  MaxFaults = 1
SPECIFICATION Spec
SYMMETRY Symmetry
INVARIANTS CursorCovers
