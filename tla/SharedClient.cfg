CONSTANTS
    Threads = {a, b}
    None = none
    MaxCalls = 3
    MaxFaults = 2
SPECIFICATION FairSpec
INVARIANTS WholeUnlessSentTogether TurnsAreSafe
PROPERTY CallsReturnUnlessTogether
CONSTRAINT FewCalls
CHECK_DEADLOCK FALSE
