SPECIFICATION Spec
CONSTANTS
  Workers = {w1}
  Imsis = {i1, i2}
  Groups = {g1, g2}
  Slices = {s1}
  Plmns = {p1}
  Kinds = {"none", "full"}
  Ssts = {TRUE}
  Ops = {"putSlice", "deleteSlice", "putGroup", "deleteGroup", "postSub", "putSub", "deleteSub"}
  MaxFaults = 1
  None = None
SYMMETRY Symmetry
INVARIANTS NoOrphans SliceRepairs GroupRepairs DeletionsRepair
PROPERTY ReferencesFirst
