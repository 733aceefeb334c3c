SPECIFICATION QueueSpec
CONSTANTS
    SIZE = 4
    noteOn = noteOn
    noteOff = noteOff
    zeros = zeros
    Event <- MCEvent
    Zero = zeros
INVARIANT QueueTypeOK
PROPERTY ImplementsFifo
