SPECIFICATION FairSpec
CONSTANTS
    Insts = {0, 2}
    UI = 9
    MaxInsts = 3
    Uses <- MCUses
    Prompt = TRUE
    MaxMenu = 3
    MaxKeys = 2
INVARIANTS TypeOK Accounted
PROPERTY Returns
CHECK_DEADLOCK FALSE
