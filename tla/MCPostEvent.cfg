SPECIFICATION Spec
CONSTANTS
    caps_lock = caps_lock
    left_shift = left_shift
    dev1 = dev1
    dev2 = dev2
    caps_key = caps_key
    a = a
    button1 = button1
    CapsLock = caps_lock
    Flags <- MCFlags
    DeviceIds <- MCDeviceIds
    Keys = {caps_key, a}
    CapsKey = caps_key
    NoKey = NoKey
    Buttons = {button1}
    MaxCount = 1
    MaxEntries = 2
SYMMETRY MCSymmetry
INVARIANTS
    TypeOK
    ReportMatchesPressedKeys
    RepeatingKeyIsDown
    ButtonsMatchLastReport
    UngrabbedDeviceHoldsNothing
    NothingStuckAfterUngrab
PROPERTY KeyDownCarriesModifiers
