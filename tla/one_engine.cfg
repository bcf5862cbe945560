SPECIFICATION FairSpec
CONSTANTS
  Engines = {"A"}
  Concurrency = 2
  Queues = {"default"}
  PollList <- OneQueue
  JIDs = {j1, j2}
  MaxRetryCount = 1
  DefaultRetry = 1
  RetryOptions <- BelowRange
  Outcomes = {"success", "error"}
  Scenarios <- OneStop
  RetryLimit = 1
  ReapLimit = 1
  StatLimit = 1
  NoRaw = NoRaw
  NoJob = NoJob
INVARIANTS TypeOK OneExecutor HeldIsLeased StopLeavesNoLease
PROPERTIES EveryJobFinishes StopCompletes FollowsLifecycle
