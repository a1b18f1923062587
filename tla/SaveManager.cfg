SPECIFICATION FairSpec
CONSTANTS
    Home = home
    Null = null
    Torn = torn
    Slots = {s1}
    Size = 2
    MaxVer = 2
    MaxFlush = 2
    Relocate = TRUE
    OpenMayFail = TRUE
INVARIANTS TypeOK BufferMirrorsSram WrittenWhenClean ClosedIsFlushed
PROPERTY EventuallyClean
