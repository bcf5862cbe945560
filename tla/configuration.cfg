SPECIFICATION Spec
CONSTANTS
  e1 = e1
  e2 = e2
  Engines = {e1, e2}
  Requests <- AllRequests
  DefaultConcurrency = 2
  MaxConcurrency = 4
  DefaultTimeout = 2
  MaxTimeoutSec = 5
  NoWeight = NoWeight
  NoEngine = NoEngine
INVARIANTS WeightsRespected ClientsOwned  GlobalClientServes
CHECK_DEADLOCK FALSE
