CONSTANTS
    BufSize = 3
    DataLens = {0, 1, 3, 5}
    MaxCalls = 3
    MaxFaults = 3
SPECIFICATION Spec
INVARIANT CleanBetweenCalls
CHECK_DEADLOCK FALSE
