CONSTANTS
    Size <- MCSize
    BatchSize = 2
    RootConcurrency = 2
    Faults <- MCSubFails
    MaxRuns = 3
SPECIFICATION SpecFailing
CHECK_DEADLOCK FALSE
INVARIANTS
    GoesOverAll
