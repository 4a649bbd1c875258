CONSTANTS
    k1 = k1
    o1 = o1
    k2 = k2
    Keys = {k1}
    Objects = {o1}
    None = None
    Same = Same
    SegmentCells = 4
    MaxMutations = 1
    MaxSequence = 2
    MaxGeneration = 2
    MaxCells = 8
    MaxLosses = 1
SPECIFICATION PartsSpec
INVARIANT PowerSafe
PROPERTY ExitsRecovered
