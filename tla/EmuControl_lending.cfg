SPECIFICATION Spec
CONSTANTS
    Insts = {0, 2}
    UI = 9
    MaxInsts = 3
    Uses <- MCLending
    Prompt = TRUE
    MaxMenu = 3
    MaxKeys = 2
INVARIANT GLFree
CHECK_DEADLOCK FALSE
