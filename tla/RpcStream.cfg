CONSTANTS
    BufSize = 3
    DataLens = {0, 1, 3, 5}
    MaxCalls = 3
    MaxFaults = 3
SPECIFICATION FairSpec
INVARIANTS TypeOK  MixedOnlyAfterFailedWrite ResultsAreOwn
PROPERTY ImplementsRemoteCall
CHECK_DEADLOCK FALSE
