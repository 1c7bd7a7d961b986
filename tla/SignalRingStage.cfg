CONSTANTS
    Shapes <- MCPlainShapes
    Lengths <- MCLengths
    MaxFrames = 10
SPECIFICATION Spec
CHECK_DEADLOCK FALSE
INVARIANTS StageStaysInChannel
