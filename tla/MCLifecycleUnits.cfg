SPECIFICATION Spec
CONSTANTS
    v1 = v1
    c1 = c1
    c2 = c2
    VM = {v1}
    Call = {c1, c2}
    Ops <- AllOps
    MaxRuns = 3
    MaxCrashes = 1
    Systemd = TRUE
    DetachOnClose = TRUE
    RequireAttestation = TRUE
    Preexisting <- NoVM
    Free = Free
    NoRun = NoRun
INVARIANTS
    IInv
PROPERTY
    RecordContract
SYMMETRY CallSymmetry
CHECK_DEADLOCK FALSE
