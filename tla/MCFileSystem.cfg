SPECIFICATION Spec
CONSTANTS
    n1 = n1
    n2 = n2
    Name <- MCName
    Data = {junk}
    Flags <- MCFlags
    none = none
    junk = junk
    MAX_FILES = 2
    MAX_OPEN = 2
    MaxSize = 1
    MaxPending = 2
SYMMETRY NameSymmetry
CONSTRAINT SomeNameIsSound
INVARIANTS TypeOK TableSound StoredFollows
