CONSTANTS
    Size = 4
    IndexMod = 8
    LocalSize = 3
    Requests = {1, 3}
    FileLengths = {0, 1, 5, 7, 11}
SPECIFICATION Spec
INVARIANT NoUseAfterCallback
CHECK_DEADLOCK FALSE    \* a stop from inside play_async hangs
