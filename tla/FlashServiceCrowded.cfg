SPECIFICATION Spec
CONSTANTS
    Clients = {c1, c2}
    Workers = {w1, w2}
    MAXC = 1
    Crews = {{w1}, {w1, w2}}
    Frail = {w1}
    EN_GUI = FALSE
    LANES = 2
    MaxRetries = 1
    MaxCalls <- OnceOrTwice
    MaxLosses = 2
    Spurious = FALSE
INVARIANT GivesUpLate
PROPERTY RefinesRpc
CHECK_DEADLOCK FALSE
