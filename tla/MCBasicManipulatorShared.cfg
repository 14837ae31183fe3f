CONSTANTS
  KeysOf <- SharedKeysOf
  Flags = {"shift"}
  Definitions <- SharedDefinitions
  Threshold = 1
  AloneTimeout = 1
  HeldDelay = 1
  DelayedDelay = 1
  MaxNow = 0
  MaxInputs = 4
  MaxQueue = 3
  MaxChanges = 0
  MaxUngrabs = 0
SPECIFICATION Spec
INVARIANTS
  SkippedWasTaken
CHECK_DEADLOCK FALSE
