CONSTANTS
    Keys = {3, 7, 6}
    v1 = v1
    Vals = {v1}
    Hash <- MCHash
    TombHash = {0, 3}
    MinCapacity = 4
    MaxCapacity = 8
    MallocMayFail = TRUE
    Null = Null
    Tomb = Tomb
    Missing = Missing
SPECIFICATION IterSpec
INVARIANTS CountIsLive IterGivesSteadyOnce
