SPECIFICATION ChannelsSpec
CONSTANTS
    Caller = {a, b}
    MaxCommands = 3
    MaxReplies = 3
    MaxParts = 2
    MaxFiles = 2
    Guest = {v, w}
    MinCID = 3
    MaxCID = 6
    CIDBase = 5
    maxCIDRetries = 1
    MaxStarts = 3
    Runs = 3
    Peer = {7}
    notifyBuffer = 1
    MaxMessages = 3
    Manager = {"m", "n"}
    Port = {1, 2}
    MaxServes = 4
    Uploads = 3
    MaxRestores = 1
INVARIANTS
    RepliesKept
    FilesBelong
    NoFileLeaks
    CIDsUnique
    SubscriptionHeld
    ReadyIsOwn
    
    NetworkServed
    
    
SYMMETRY Symmetry
CHECK_DEADLOCK FALSE
