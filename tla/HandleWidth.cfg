CONSTANTS
    Half = 4
    Clients = {c1, c2}
    NoRequest = NoRequest
    MaxOpen = 2
SPECIFICATION Spec
INVARIANTS ReachesTheHandle HandlesStayListed OpenIsHeldOnce
CHECK_DEADLOCK FALSE
