SPECIFICATION FairSpec
CONSTANTS
    CAP <- MCCAP
    MaxBatch = 2
    MaxThrows = 1
PROPERTY RestartHappens
