SPECIFICATION Spec
CONSTANTS
    ann = ann
    ben = ben
    HostMachine = HostMachine
    None = None
    Clients <- Friends
    MaxPlayers = 3
    MaxAsks = 3
    MaxQueue = 1
    Uses <- MCLate
INVARIANTS GoneWhenGone
CHECK_DEADLOCK FALSE
