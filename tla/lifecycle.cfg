SPECIFICATION FairSpec
CONSTANTS
  j1 = j1
  w1 = w1
  w2 = w2
  s1 = s1
  s2 = s2
  JIDs = {j1}
  ValidJobs = {}
  Retry = 1
  Workers = {w1, w2}
  Capacity = 2
  Starters = {s1}
  Stoppers = {s1, s2}
  MaxUse = 1
  Scenarios = {"middleware", "validators", "metrics", "health"}
  NoJob = NoJob
  NoChannel = NoChannel
INVARIANTS TypeOK StoppedHoldsNoJob SettersTakeEffect HealthTruthful EventsAccounted
PROPERTIES EventsInOrder StopReturns
CHECK_DEADLOCK FALSE
