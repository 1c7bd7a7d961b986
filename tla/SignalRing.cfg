SPECIFICATION Spec
CONSTANTS
    Shapes <- MCShapes
    Lengths <- MCLengths
    MaxFrames = 10
INVARIANTS RingHoldsLatest 
PROPERTIES StageIsWindow PreprocessorSeesPast PlaysInLoop
CHECK_DEADLOCK FALSE
