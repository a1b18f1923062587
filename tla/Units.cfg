SPECIFICATION UnitsSpec
CONSTANTS
    N = 3
    Size = 2
    Unit = 2
    Steps <- MCSteps
    Reloads <- MCReloads
    Controls <- MCControls
    ClockShift = 1
    MaxAhead = 4
    Word = 4
    DivValues <- MCDivValues
INVARIANTS UnitsTypeOK ResultsExact
PROPERTIES TimersExact
