CONSTANTS
    NumHists = 2
    Interval = 2
    BlockSizes <- MCBlockSizes
    U32 = 16
    ULong = 32
    CommitCap = 3
    FailCap = 3
    StampSpan = 8
    AutoResets = {TRUE, FALSE}
    Empty = Empty
SPECIFICATION Spec
INVARIANTS PenaltyIsServed
