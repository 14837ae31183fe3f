CONSTANTS
  Window = window
  Readers = {grabber}
  SystemFile = TRUE
  KeepCount = 2
  MaxContents = 3
  MaxDays = 3
  MaxCrashes = 1
SPECIFICATION Spec
INVARIANTS
  SomethingToRestore
PROPERTIES
  WholeBackupNotLost
  ReadersCatchUp
CHECK_DEADLOCK FALSE
