SPECIFICATION AttestSpec
CONSTANTS
    a1 = a1
    h1 = h1
    h2 = h2
    k1 = k1
    k2 = k2
    Agent = {a1}
    Handler = {h1, h2}
    Key = {k1, k2}
    None = None
    MaxBoots = 2
    MaxNonces = 2
    MaxRestarts = 1
    RequireAttestation = TRUE
    Node = {"p", "q"}
    Build = {"f", "g"}
    Kubernetes = {"a", "b"}
    Published = {"a"}
    Round = 8
    MaxPowerOns = 2
    MaxServers = 2
INVARIANTS
    
    
    OneKey
    RejectionShown
    QuoteBinds
    GoldenVouches
SYMMETRY Symmetry
CHECK_DEADLOCK FALSE
