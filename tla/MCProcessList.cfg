SPECIFICATION Spec
CONSTANTS
    Pids <- TwoPids
    MaxBirths = 3
    Faulty = TRUE
INVARIANTS TypeOK UniquePids NothingLeaks ListedWereAlive SteadyAreListed
PROPERTIES IsProcessTable RefreshReturns ListConverges
