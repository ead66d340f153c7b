CONSTANTS
    Workers = {w1, w2}
    MaxVersion = 2
    MaxRuns = 2
    MaxCrashes = 0
    MaxStops = 0
SPECIFICATION Spec
INVARIANT NoWriteContention
SYMMETRY MCSymmetry
