SPECIFICATION EntrySpec
CONSTANTS
    caps_lock = caps_lock
    left_shift = left_shift
    dev1 = dev1
    dev2 = dev2
    caps_key = caps_key
    a = a
    button1 = button1
    CapsLock = caps_lock
    Flags <- MCFlags
    DeviceIds <- MCDeviceIds
    Keys = {caps_key, a}
    CapsKey = caps_key
    NoKey = NoKey
    StickyKey = sticky_key
    Buttons = {button1}
    MaxCount = 1
    MaxEntries = 3
SYMMETRY MCSymmetry
PROPERTY ReleaseSendsStickyCapsLock
