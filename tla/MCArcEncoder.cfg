SPECIFICATION Spec
CONSTANTS
    MAX_ENCODERS = 2
    MAX_RES = 12
    Div <- MCDiv
    Delta <- MCDelta
INVARIANTS
    TypeOK
    RotationKept
    LessThanATick
    SameDirection
