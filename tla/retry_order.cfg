SPECIFICATION FairSpec
CONSTANTS
  a1 = a1
  a1x = a1x
  b2 = b2
  b1 = b1
  e1 = e1
  e2 = e2
  qa = qa
  qb = qb
  JIDs = {a1, b1, b2}
  Queues = {qa, qb}
  Engines = {e1, e2}
  Copies <- MCCopies
  JobOf <- MCJobOf
  NoCopy = NoCopy
  QueueOf <- MCQueueOf
  Serves <- MCServes
  Retry = 1
  RetryLimit = 2
  Backoff <- MCBackoff
  OpenPause = 1
  Pause = 1
  MaxTime = 4
  Scenarios <- MCScenarios
INVARIANTS StatsNearlyExact
PROPERTIES NotEarly NoOvertaking RetriedUnlessCrowded
CHECK_DEADLOCK FALSE
