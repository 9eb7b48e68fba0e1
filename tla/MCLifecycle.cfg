SPECIFICATION Spec
CONSTANTS
    v1 = v1
    c1 = c1
    c2 = c2
    VM = {v1}
    Call = {c1, c2}
    Ops <- AllOps
    MaxRuns = 3
    MaxCrashes = 1
    Systemd = FALSE
    DetachOnClose = FALSE
    RequireAttestation = TRUE
    Preexisting <- NoVM
    Free = Free
    NoRun = NoRun
INVARIANTS
    TypeOK
    OneQEMU
    SupervisorOwnsProcess
    StateMatchesProcess
    HandoffKept
    TeardownAfterExit
    ClosedStaysStopped
PROPERTY
    RecordContract
SYMMETRY CallSymmetry
