CONSTANTS
  Mail = {m1, m2}
  Indexable = {m1, m2}
  Unsettled = {m1}
  Folders = {inbox}
  None = None
  Gone = Gone
  UIDLimit = 16
  SkipExistingOnStart = TRUE
  SearchBatch = 1
  BaselineHeaderLimit = 1
  EmptyHeaderMaxRetries = 1
  Sessions = {s1, s2}
  SyncTimeouts = TRUE
  MaxUID = 2
  MaxResets = 0
  MaxFaults = 2
SPECIFICATION Spec
SYMMETRY Symmetry
INVARIANTS TypeOK CursorCovers SeenIsIndexed
