SPECIFICATION Spec
CONSTANTS
    Port = {p1}
    null = null
    Slot = {k1, k2}
    Faults = {"signals", "hasty", "slow", "read"}
INVARIANTS LinkTypeOK WriterOwned RetryPending
SYMMETRY Symmetry
