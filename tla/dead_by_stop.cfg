SPECIFICATION Spec
CONSTANTS
  Engines = {"A"}
  Concurrency = 1
  Queues = {"default"}
  PollList <- OneQueue
  JIDs = {j1}
  MaxRetryCount = 1
  DefaultRetry = 1
  RetryOptions = {}
  Outcomes = {"error"}
  Scenarios <- OneStop
  RetryLimit = 1
  ReapLimit = 1
  StatLimit = 1
  NoRaw = NoRaw
  NoJob = NoJob
INVARIANTS DeadAfterAllAttempts
