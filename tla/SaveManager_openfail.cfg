SPECIFICATION Spec
CONSTANTS
    Home = home
    Null = null
    Torn = torn
    Slots = {s1}
    Size = 2
    MaxVer = 2
    MaxFlush = 2
    Relocate = FALSE
    OpenMayFail = TRUE
INVARIANT SkippedIsWritten
