SPECIFICATION MCSpec
CONSTANTS
    Lengths <- MCLengths
    Values = {1, 2, 3, 4}
    Unset = Unset
    Sizes <- MCSizes
    Samples = {1, 2, 3}
    Nothing = Nothing
INVARIANTS HeapsHoldOuter MedianIsMiddle ResultIsMedian
CHECK_DEADLOCK FALSE
