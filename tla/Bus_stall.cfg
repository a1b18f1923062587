SPECIFICATION Spec
CONSTANTS
    PipeSize = 4
    FifoSize = 3
    StallSize = 3
    Half = 2
    Stream = 11
    KindOf <- MCKindOf
    Channels = {0, 1}
    Lengths = {1, 3}
    Batch = 2
    Blocks = {0, 2}
    StoreMax = 3
    WordMax = 2
    Overrun = 1
    ModesOf <- MCModesOf
    Uses = {{"store"}}
PROPERTIES NothingLost
