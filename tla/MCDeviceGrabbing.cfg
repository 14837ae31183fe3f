SPECIFICATION FairSpec
CONSTANTS
    NumKeys = 1
    ModifierKeys = {1}
    MaxInputs = 3
INVARIANTS
    TypeOK
    ForwardedOnlyWhileAnnounced
    NoForwardedKeyStuck
    OpenModeKnown
PROPERTIES
    MonitorSettles
    GrabberSettles
CHECK_DEADLOCK FALSE
