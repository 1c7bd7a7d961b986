SPECIFICATION Spec
CONSTANTS
    Others = {s1}
    Own = {o1}
    NumPlayback = 2
    None = None
    Capture = Capture
    MaxCalls = 3
    MaxMoves = 3
INVARIANTS UnmuteRestores MutedIsSilent ThrowsForCause HookFollowsPlayback
PROPERTIES MuteEnds
CHECK_DEADLOCK FALSE
