SPECIFICATION Spec
CONSTANTS
    Pids <- TwoPids
    MaxBirths = 1
    Faulty = FALSE
INVARIANT RefreshSucceeds
