CONSTANTS
    Clients = {c1, c2}
    TempNames = {n1, n2}
    Files <- PrintedFiles
    NoName = NoName
    MaxPrints = 2
    MaxMishaps = 0
SPECIFICATION Spec
INVARIANT FilePrintedAsItIs
CHECK_DEADLOCK FALSE
