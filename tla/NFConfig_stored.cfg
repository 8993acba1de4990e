SPECIFICATION Spec
CONSTANTS
    SliceNames = {1, 2}
    GroupNames = {1, 2}
    Imsis = {1, 2}
    Varieties <- MCVarieties
    SstOf <- MCSstOf
    WordSize = 4
    MaxPort = 65535
    None = None
INVARIANTS EndpointsAgree TacsServed DnnsAgree QosServed
PROPERTY ServedStable
