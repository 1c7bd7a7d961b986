SPECIFICATION Spec
CONSTANTS
    NumPorts = 2
    W = 3
    OldWindow = 2
    BlockLength = 2
    RingLengths = {2, 3}
    Capacity = 1
    MaxLosses = 1
INVARIANTS LosslessIsAligned PositiveIsSameCycle
PROPERTIES ReceiveEnds
