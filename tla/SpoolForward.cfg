CONSTANTS
    Clients = {c1, c2}
    LocalHandles = {l1}
    RemoteHandles = {r1}
    NoClient = NoClient
    NoHandle = NoHandle
    MaxInc = 2
    MaxFaults = 1
SYMMETRY Symmetry
SPECIFICATION Spec
INVARIANTS ListedIsOpen HeldIsListed RequestReachesOwnHandle LocalStaysLocal NoLeakWithoutFault
PROPERTY OthersHandlesUntouched
