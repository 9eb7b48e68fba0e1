SPECIFICATION Spec
CONSTANTS
    MaxRuns = 2
    MaxRestarts = 1
    MaxFaults = 1
INVARIANTS
    OnePerUnit
    DoneMeansDead
    SettlesOwn
    TPMAfterQEMU
    WaitsEnd
CHECK_DEADLOCK FALSE
