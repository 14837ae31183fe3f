SPECIFICATION Spec
CONSTANTS
    caps_lock = caps_lock
    left_shift = left_shift
    dev1 = dev1
    dev2 = dev2
    CapsLock = caps_lock
    Flags <- MCFlags
    DeviceIds <- MCDeviceIds
    DeviceZero = dev0
    MaxCount = 2
    MaxEntries = 3
SYMMETRY MCSymmetry
INVARIANTS
    TypeOK
    NoPairSurvives
    QueriesAgree
PROPERTIES
    ImplementsCounts
    CallsAgree
