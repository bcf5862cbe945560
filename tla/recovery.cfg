SPECIFICATION FairSpec
CONSTANTS
  Engines = {"A", "B"}
  Concurrency = 1
  Queues = {"default"}
  PollList <- OneQueue
  JIDs = {j1}
  MaxRetryCount = 1
  DefaultRetry = 1
  RetryOptions <- BelowRange
  Outcomes = {"success", "error"}
  Scenarios <- SlowOrCrash
  RetryLimit = 1
  ReapLimit = 1
  StatLimit = 1
  NoRaw = NoRaw
  NoJob = NoJob
INVARIANTS DeadAfterAllAttempts
PROPERTIES EveryKeptJobFinishes CrashLosesOnlyUnleased
