SPECIFICATION FairSpec
CONSTANTS
    Port = {p1}
    null = null
    Slot = {1, 2}
    Faults = {"read"}
PROPERTY EventHandlesReadError
