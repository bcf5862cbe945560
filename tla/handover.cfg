SPECIFICATION Spec
CONSTANTS
  Engines = {"A", "B"}
  Concurrency = 1
  Queues = {"default"}
  PollList <- OneQueue
  JIDs = {j1}
  MaxRetryCount = 1
  DefaultRetry = 1
  RetryOptions = {}
  Outcomes = {"success", "error"}
  Scenarios <- SlowAndStop
  RetryLimit = 1
  ReapLimit = 1
  StatLimit = 1
  NoRaw = NoRaw
  NoJob = NoJob
INVARIANTS NoJobLost
PROPERTIES AtLeastOnce
