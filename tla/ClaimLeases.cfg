SPECIFICATION Spec
CONSTANTS
    c1 = c1
    c2 = c2
    v1 = v1
    v2 = v2
    Caller = {c1, c2}
    VM = {v1, v2}
    Net = {"n1"}
    PoolSize = 2
    MaxGen = 2
    MaxRestarts = 1
    Systemd = TRUE
    Free = Free
    WritesFail = FALSE
INVARIANTS
    LeasesSurvive
SYMMETRY Symmetry
CHECK_DEADLOCK FALSE
