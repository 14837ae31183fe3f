SPECIFICATION Spec
CONSTANTS
    NumKeys = 1
    ModifierKeys = {}
    MaxInputs = 1
INVARIANT
    NotSeizedWhileSleeping
CHECK_DEADLOCK FALSE
