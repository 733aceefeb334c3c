SPECIFICATION FairSpec
CONSTANTS
    CAP <- MCCAP
    MaxBatch = 2
    MaxThrows = 2
INVARIANTS
    OnlyHeadRetried
    ReplayBounded
    BatchOnOneVm
    NoOrphanNotes
PROPERTIES
    NoLineSkipped
    QueuesDrain
    LinesRun
    RestartUnlessPortLost
