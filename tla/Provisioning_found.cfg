SPECIFICATION Spec
CONSTANTS
  Workers = {w1}
  Imsis = {i1}
  Groups = {g1}
  Slices = {s1}
  Plmns = {p1}
  Kinds = {"none", "full"}
  Ssts = {TRUE}
  Ops = {"putSlice", "deleteSlice", "putGroup", "deleteGroup", "postSub", "putSub", "deleteSub"}
  MaxFaults = 0
  None = None
INVARIANTS SubscribersFound
