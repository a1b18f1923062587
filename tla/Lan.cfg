SPECIFICATION Spec
CONSTANTS
    ann = ann
    ben = ben
    HostMachine = HostMachine
    None = None
    Clients <- Friends
    MaxPlayers = 3
    MaxAsks = 3
    MaxQueue = 1
    Uses <- MCUses
INVARIANTS TypeOK PlacesRight Agreed
PROPERTIES Settles
CHECK_DEADLOCK FALSE
