SPECIFICATION Spec
CONSTANTS
    Clients = {c1}
    Workers = {w1}
    MAXC = 2
    Crews = {{w1}}
    Frail = {}
    EN_GUI = FALSE
    LANES = 2
    MaxRetries = 1
    MaxCalls <- OnceOrTwice
    MaxLosses = 0
    Spurious = TRUE
INVARIANT FreshAnswer
CHECK_DEADLOCK FALSE
