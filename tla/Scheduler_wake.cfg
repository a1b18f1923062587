SPECIFICATION FairSpec
CONSTANTS
    Uses <- WakeUses
    MaxIteration = 2
    Margin = 1
    MaxInstr = 2
    Line = 9
    HBlank = 6
    Lines = 3
    Visible = 2
    FrameCycles = 28
    FifoStart = 1
    FifoStep = 1
    FifoChunks = 2
    SpuPeriod = 5
    RtcPeriod = 7
    SpiDelay = 1
    DivDelay = 1
    MaxWrites = 2
PROPERTY EveryFrameReturns
