\* Latencies of two and three frames, both modes, periods of up to three frames.
SPECIFICATION Spec
CONSTANTS
    LatencyMin = 2
    LatencyMax = 3
    Grain = 1
    Periods <- MCPeriods
    Size = 4
    Blocking = {TRUE, FALSE}
INVARIANTS RoundTrip PairInStep LatencyGrows BlockFitsBuffers
PROPERTIES EventuallySteady StopEnds
CHECK_DEADLOCK FALSE
