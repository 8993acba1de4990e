SPECIFICATION FairSpec
CONSTANTS
  Requests = {a1, a2}
  ApiRequests = {a1, a2}
  Tasks = {t1}
  NoTask = NoTask
  MaxVersion = 1
  MaxFaults = 0
  MaxCrashes = 0
CHECK_DEADLOCK FALSE
PROPERTY SuccessfulWritesServed
