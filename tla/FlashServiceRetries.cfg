SPECIFICATION Spec
CONSTANTS
    Clients = {c1, c2}
    Workers = {w1, w2}
    MAXC = 2
    Crews = {{w1}, {w2}, {w1, w2}}
    Frail = {}
    EN_GUI = TRUE
    LANES = 2
    MaxRetries = 1
    MaxCalls <- Once
    MaxLosses = 1
    Spurious = TRUE
SYMMETRY Interchangeable
INVARIANTS TypeOK OwnAnswers TakenOnce CountsClients
CHECK_DEADLOCK FALSE
