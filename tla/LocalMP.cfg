SPECIFICATION Spec
CONSTANTS
    Insts = {0, 1, 2}
    Hosts = {0}
    PacketCells = 5
    ReplyCells = 5
    Lengths = {1}
    ReplyLengths = {0, 1}
    Prompt = TRUE
    Budgets <- MCBudgets
INVARIANTS TypeOK Matched
PROPERTY ImplementsBroadcast
CHECK_DEADLOCK FALSE
