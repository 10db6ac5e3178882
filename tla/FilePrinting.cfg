CONSTANTS
    Clients = {c1, c2}
    TempNames = {n1, n2}
    Files <- PrintedFiles
    NoName = NoName
    MaxPrints = 3
    MaxMishaps = 2
SPECIFICATION FairSpec
INVARIANTS PrintsOwnData NoFileLeftBehind
PROPERTY EveryPrintAnswered
CHECK_DEADLOCK FALSE
