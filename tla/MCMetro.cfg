SPECIFICATION FairSpec
CONSTANTS
    METRO_COUNT = 2
    MIN = 2
    LOOP = 2
    Requested <- MCRequested
    Counts <- MCCounts
    MaxGap = 3
    MaxLag = 1
    MaxTick = 2
    MaxCredit = 9
INVARIANTS
    TypeOK
    TimerMirrorsRunning
    ExactStages
    NoEarlyTick
PROPERTIES
    TickServed
    KeepsTicking
