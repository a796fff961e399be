CONSTANTS
    Size <- MCSize
    BatchSize = 2
    RootConcurrency = 2
    Faults <- MCFaults
    MaxRuns = 3
SPECIFICATION FairInventorySpec
CHECK_DEADLOCK FALSE
INVARIANTS
    CursorCoversLeft
    NothingTwice
    GoesOverAll
PROPERTIES
    RunEnds
