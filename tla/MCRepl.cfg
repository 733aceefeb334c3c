SPECIFICATION FairSpec
CONSTANTS
    MayStart <- MCMayStart
    none = none
    SERIAL_TX_BUFSIZE = 9
    OutputLen <- MCOutputLen
    MaxAtOnce = 2
    MaxNoise = 5
    MaxSuspend = 1
INVARIANTS AnswerIsOwn UploadSaved
PROPERTIES TasksEnd LoopComesBack
