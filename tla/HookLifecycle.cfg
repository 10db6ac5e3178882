CONSTANTS
    Spooler = 3
    Usb = 2
    DontHookIfConnectionFailed = FALSE
    MaxFailures = 2
SPECIFICATION Spec
INVARIANT DetoursAreReady
INVARIANT NoDanglingJump
INVARIANT HookedInTime
CHECK_DEADLOCK FALSE
