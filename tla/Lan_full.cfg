SPECIFICATION Spec
CONSTANTS
    ann = ann
    ben = ben
    HostMachine = HostMachine
    None = None
    Clients <- Friends
    MaxPlayers = 2
    MaxAsks = 3
    MaxQueue = 1
    Uses <- MCFull
INVARIANTS PlacesRight Agreed
PROPERTIES Settles
CHECK_DEADLOCK FALSE
