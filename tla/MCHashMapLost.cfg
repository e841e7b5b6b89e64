CONSTANTS
    Keys = {3, 7, 11, 6}
    v1 = v1
    v2 = v2
    Vals = {v1}
    Hash <- MCHash
    TombHash = {0, 3}
    MinCapacity = 4
    MaxCapacity = 8
    MallocMayFail = TRUE
    Null = Null
    Tomb = Tomb
    Missing = Missing
SPECIFICATION FaultySpec
INVARIANT StoredKeysAreFound
