SPECIFICATION FairSpec
CONSTANTS
    QUAD = 2
    MAX_LEVEL = 1
    DeviceX = 3
    DeviceY = 1
    Level <- MCLevel
    DEFAULT_INTENSITY = 1
INVARIANTS
    CleanIsShown
PROPERTIES
    RefreshShowsAll
    IntensityArrives
