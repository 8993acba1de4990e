SPECIFICATION FairSpec
CONSTANTS
  Workers = {w1, w2}
  Imsis = {i1}
  Groups = {g1}
  Slices = {s1}
  Plmns = {p1}
  Kinds = {"none"}
  Ssts = {TRUE}
  Ops = {"putSlice", "putGroup", "deleteGroup", "deleteSub"}
  MaxFaults = 0
  None = None
PROPERTIES RequestsEnd
