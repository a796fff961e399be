CONSTANTS
    Interval = 4
    Grace = 4
    Late = 2
    Timeout = 26
    Delay = 6
    JobTimeout = 12
    Threads = TRUE
SPECIFICATION ArqSpec
CHECK_DEADLOCK FALSE
INVARIANTS
    NoFalseDeath
    DeathNoticed
    OrphanStopped
