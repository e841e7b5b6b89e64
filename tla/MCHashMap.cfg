CONSTANTS
    Keys = {3, 7, 11, 19, 6}
    v1 = v1
    v2 = v2
    Vals = {v1, v2}
    Hash <- MCHash
    TombHash = {0, 3}
    MinCapacity = 4
    MaxCapacity = 32
    MallocMayFail = FALSE
    Null = Null
    Tomb = Tomb
    Missing = Missing
SPECIFICATION Spec
INVARIANTS TypeOK RoomLeft StoredKeysAreFound
PROPERTIES IsDictionary ResizeLeavesSlack
