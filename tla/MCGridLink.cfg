SPECIFICATION FairSpec
CONSTANTS
    Port = {p1}
    null = null
    Slot = {1, 2}
    Faults = {"hasty", "read"}
INVARIANTS LinkUsable NoPortLeaks
PROPERTY Reconnects
