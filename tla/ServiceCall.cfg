CONSTANTS
    Client <- Service
    Interfaces <- OtherBuilds
    MaxCalls = 2
SPECIFICATION ServiceFairSpec
INVARIANTS ArgumentsArrive OutcomesAreTrue InStep
PROPERTIES ImplementsRemoteCall
CHECK_DEADLOCK FALSE
