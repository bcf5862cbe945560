SPECIFICATION Spec
CONSTANTS
  Engines = {"A", "B"}
  Concurrency = 1
  Queues = {"critical", "default"}
  PollList <- Specialised
  JIDs = {j1}
  MaxRetryCount = 1
  DefaultRetry = 1
  RetryOptions = {}
  Outcomes = {"success", "error", "circuit open"}
  Scenarios <- Faults
  RetryLimit = 1
  ReapLimit = 1
  StatLimit = 1
  NoRaw = NoRaw
  NoJob = NoJob
INVARIANTS RetryBudget RetryJobsRemovable
PROPERTIES FailedCallsLoseOnlyUnstored
