\* Two slots for three buffers and an observer, two requests, three calls.
SPECIFICATION Spec
CONSTANTS
    b1 = b1
    b2 = b2
    b3 = b3
    Buffers = {b1, b2, b3}
    Observers = {o1}
    Requests = {r1, r2}
    None = None
    NumChannels <- MCNumChannels
    MaxSlots = 2
    MaxChannels = 2
    MaxCalls = 3
    MaxBlocks = 2
SYMMETRY Symmetry
INVARIANTS SlotsUnique RowsMatch InStep UndoIsComplete ObservedAreServed
PROPERTIES PassesOnce
CHECK_DEADLOCK FALSE
