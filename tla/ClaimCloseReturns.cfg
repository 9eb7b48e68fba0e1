SPECIFICATION FairSpec
CONSTANTS
    v1 = v1
    c1 = c1
    c2 = c2
    VM = {v1}
    Call = {c1, c2}
    Ops <- LifecycleOps
    MaxRuns = 2
    MaxCrashes = 0
    Systemd = TRUE
    DetachOnClose = TRUE
    RequireAttestation = FALSE
    Preexisting <- NoVM
    Free = Free
    NoRun = NoRun
PROPERTY
    CloseCompletes
CHECK_DEADLOCK FALSE
