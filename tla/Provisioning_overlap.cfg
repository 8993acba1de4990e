SPECIFICATION VSpec
CONSTANTS
  Workers = {w1, w2}
  Imsis = {i1}
  Groups = {g1}
  Slices = {s1}
  Plmns = {p1, p2}
  Kinds = {"none", "full", "noQos", "noClass"}
  Ssts = {TRUE, FALSE}
  Ops = {"putSlice", "deleteSlice", "putGroup", "deleteGroup", "postSub", "putSub", "deleteSub"}
  MaxFaults = 1
  Scopes <- Overlap
  None = None
CONSTRAINT Followed
SYMMETRY Symmetry
INVARIANTS TypeOK DocsTogether SliceRepairs GroupRepairs DeletionsRepair NotFoundTrue
