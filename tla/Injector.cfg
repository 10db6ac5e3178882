CONSTANTS
    Threads = {t1, t2, t3}
    Native = {t1, t2}
    Every = every
    Gone = gone
    Text = text
    Ports = {p3900, p3901}
    DefaultPort = p3900
    NoPort = noport
SPECIFICATION InjectorFairSpec
INVARIANTS HookHasItsCode NothingLeftBehind
PROPERTIES BreakEjects TargetsGoOn
CHECK_DEADLOCK FALSE
