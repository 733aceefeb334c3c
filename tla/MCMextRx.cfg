SPECIFICATION Spec
CONSTANTS
    Payload <- MCPayload
    MaxConnects = 2
INVARIANTS
    FrameInSync
    SizeIsAnswered
PROPERTIES
    WholeMessages
    ArcModeKept
