CONSTANTS
    Capacity = 3
    Item <- MCItem
    Blank <- MCBlank
    Modulus = 8
    Scale = 3
    Boots <- MCBoots
    Deltas <- MCDeltas
    MaxSamples = 5
SPECIFICATION CpuSpec
INVARIANT UsageIsShare
PROPERTY IsSlidingWindow
CHECK_DEADLOCK FALSE
