SPECIFICATION DeviceSpec
CHECK_DEADLOCK FALSE
CONSTANTS
    Packets = {p1, p2, p3}
    Replies = {p3}
    QueueSize = 2
    MaxFrames = 2
    None = None
INVARIANTS
    DeviceTypeOK
PROPERTIES
    ImplementsWire
    PacketsLeave
    ReadingGoesOn
