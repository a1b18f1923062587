SPECIFICATION Spec
CONSTANTS
    ann = ann
    ben = ben
    HostMachine = HostMachine
    None = None
    Clients <- Friends
    MaxPlayers = 2
    MaxAsks = 3
    MaxQueue = 1
    Uses <- MCBack
INVARIANTS Places
CHECK_DEADLOCK FALSE
