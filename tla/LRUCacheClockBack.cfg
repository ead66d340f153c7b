CONSTANTS
    KeyPrefixes = {generation, forecast}
    Digests = {h1, h2}
    Values = {v1, v2}
    None = None
    MaxSize = 2
    DefaultTtl = 1
    Ttls <- MCTtls
    Jumps <- MCBackward
    MaxClock = 2
    MaxLookups = 3
SPECIFICATION Spec
INVARIANT ServedWithinTtl
SYMMETRY MCSymmetry
