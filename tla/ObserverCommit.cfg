CONSTANTS
    NumHists = 2
    Interval = 2
    BlockSizes <- MCBlockSizes
    U32 = 16
    ULong = 32
    CommitCap = 3
    StampSpan = 8
    FailCap = 0
    AutoResets = {TRUE, FALSE}
    Empty = Empty
SPECIFICATION Spec
INVARIANTS NoTornRead ResetNeverThrows CommitSpacing
PROPERTIES ConsumerServed CommitReleased ImplementsSlot
