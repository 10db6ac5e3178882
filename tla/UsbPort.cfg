CONSTANTS
    Clients = {a, b}
    NoClient = none
    MaxCalls = 3
    MaxFaults = 2
SPECIFICATION Spec
INVARIANTS SessionIsKnown NoForeignOutput StuckOnlyAfterTrouble PrintedOnceInOrder
CHECK_DEADLOCK FALSE
