\* The configured mode: a read may come up short.
SPECIFICATION Spec
CONSTANTS
    LatencyMin = 2
    LatencyMax = 3
    Grain = 1
    Periods <- MCPeriods
    Size = 4
    Blocking = {FALSE}
INVARIANTS SameMoment
CHECK_DEADLOCK FALSE
