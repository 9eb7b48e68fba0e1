SPECIFICATION AddressesSpec
CONSTANTS
    c1 = c1
    c2 = c2
    v1 = v1
    v2 = v2
    Caller = {c1, c2}
    VM = {v1, v2}
    Net = {"n1"}
    PoolSize = 2
    MaxGen = 2
    MaxRestarts = 1
    Systemd = TRUE
    Free = Free
    WritesFail = TRUE
    Creates = 2
    Segment = {"n"}
    Overlapping = FALSE
    Addresses = 1
    Slot = {"c"}
    MaxReloads = 1
INVARIANTS
    LeasesUnique
    GuestHasLease
    LeaseHasOwner
    
    NothingLeftBehind
SYMMETRY Symmetry
CHECK_DEADLOCK FALSE
