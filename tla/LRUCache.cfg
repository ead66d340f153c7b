CONSTANTS
    KeyPrefixes = {generation, forecast}
    Digests = {h1, h2}
    Values = {v1, v2}
    None = None
    MaxSize = 2
    DefaultTtl = 1
    Ttls <- MCTtls
    Jumps <- MCForward
    MaxClock = 3
    MaxLookups = 2
SPECIFICATION Spec
INVARIANTS TypeOK UseOrder ServedWithinTtl
PROPERTIES EvictsOnlyLeastRecentlyUsed ImplementsTtlStore
SYMMETRY MCSymmetry
