CONSTANTS
  KeysOf <- MCKeysOf
  Flags = {"shift", "ctrl"}
  Definitions <- MCDefinitions
  Threshold = 1
  AloneTimeout = 2
  HeldDelay = 1
  DelayedDelay = 1
  MaxNow = 2
  MaxInputs = 3
  MaxChanges = 1
  MaxQueue = 2
  MaxUngrabs = 1
SPECIFICATION Spec
INVARIANTS
  NothingLeftDown
  HeldDownOnlyWhileHeld
  AloneMeansAlone
  SentWithFlagsOfKeyDown
CHECK_DEADLOCK FALSE
