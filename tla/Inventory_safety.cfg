SPECIFICATION Spec
CONSTANTS
    Workers = {w1, w2}
    Gnbs = {g1}
    Upfs = {u1}
    Slices = {s1}
    Values = {v1, v2}
    NoTac = NoTac
    Settings <- MCSettings
    MaxFaults = 1
    None = None
SYMMETRY Symmetry
INVARIANTS TypeOK DeletionAdvances
PROPERTIES CopiesFollow EntriesAtomic
