SPECIFICATION Spec
CONSTANTS
    v1 = v1
    c1 = c1
    c2 = c2
    VM = {v1}
    Call = {c1, c2}
    Ops <- CreateDelete
    MaxRuns = 1
    MaxCrashes = 0
    Systemd = FALSE
    DetachOnClose = FALSE
    RequireAttestation = FALSE
    Preexisting <- NoVM
    Free = Free
    NoRun = NoRun
INVARIANT
    NoStartAfterDelete
