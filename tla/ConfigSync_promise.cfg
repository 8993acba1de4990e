SPECIFICATION FairSpec
CONSTANTS
  Requests = {r1, r2}
  ApiRequests = {}
  Tasks = {t1, t2}
  NoTask = NoTask
  MaxVersion = 2
  MaxFaults = 1
  MaxCrashes = 1
CHECK_DEADLOCK FALSE
INVARIANTS TypeOK NoLostTrigger CoherentWhenUnlocked
PROPERTIES ServesForward PromiseKept TriggerReturns SyncsEnd
