CONSTANTS
    Conns = {c1, c2, c3}
    NoConn = none
    MaxFaults = 2
SPECIFICATION FairSpec
INVARIANT TasksAreKnown
PROPERTIES ClosesOnlyItsOwn EveryClientIsServed GoneClientsAreForgotten
CHECK_DEADLOCK FALSE
