CONSTANTS
    k1 = k1  k2 = k2  v1 = v1  v2 = v2  None = None
    Keys = {k1, k2}
    Vals = {v1, v2}
    InitKV <- MCInitKV
    MaxBlocks = 2
    MaxWrites = 3
    Faults = {"Set", "Crash"}
    MaxFaults = 1
SPECIFICATION Spec
INVARIANT TypeOK
PROPERTY SnapshotRefinement
