SPECIFICATION Spec
CONSTANTS
  JIDs = {j1, j2}
  Budgets = {1}
  Workers = {w1, w2}
  RetryLimit = 2
  MaxSlow = 1
  MaxFailed = 1
  NoJob = NoJob
SYMMETRY Symmetry
INVARIANTS Conserved LeasesMatchHolders DeadAfterAllAttempts StatsAccountForJobs
PROPERTIES AtLeastOnce
