\* One take, with every event of the environment that Timeline calls usual.
SPECIFICATION LineSpec
CONSTANTS
    Capacity = 3
    Block = 2
    Lookbehind = 1
    MaxTime = 7
    MaxTakes = 1
    Unusual = {}
INVARIANTS
    Aligned
    RingInPlace
PROPERTY
    NoFalseSilence
CHECK_DEADLOCK FALSE
