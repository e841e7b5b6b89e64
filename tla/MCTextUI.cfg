CONSTANTS
    Pids = {1, 2, 3}
    Contents <- TwoLetters
    PadRows = 5
    Heights = {1, 2, 4}
    Garbage <- Leftover
SPECIFICATION UISpec
INVARIANTS TypeOK ListedAreShown GoneAreBelow
CHECK_DEADLOCK FALSE
