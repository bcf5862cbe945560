SPECIFICATION Spec
CONSTANTS
  Engines = {"A", "B"}
  Concurrency = 1
  Queues = {"critical", "default"}
  PollList <- Specialised
  JIDs = {j1}
  MaxRetryCount = 0
  DefaultRetry = 0
  RetryOptions = {}
  Outcomes = {"success"}
  Scenarios <- OneCrash
  RetryLimit = 1
  ReapLimit = 1
  StatLimit = 1
  NoRaw = NoRaw
  NoJob = NoJob
INVARIANTS NoJobLost
