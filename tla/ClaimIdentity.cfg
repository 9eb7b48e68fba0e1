SPECIFICATION MetadataSpec
CONSTANTS
    Creates = 2
    Segment = {"n", "m"}
    Overlapping = TRUE
    Addresses = 1
    Slot = {"c"}
    MaxReloads = 0
INVARIANTS
    AddressIsIdentity
CHECK_DEADLOCK FALSE
