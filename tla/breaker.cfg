SPECIFICATION Spec
CONSTANTS
  Classes = {c1, c2, c3}
  MaxClasses = 2
  FailureThreshold = 2
  Window = 1
  ResetTimeout = 2
  Workers = {w1, w2, w3}
  Panicking = {c3}
  MaxTime = 4
SYMMETRY Symmetry
INVARIANTS TypeOK OpenForResetTimeout ClosedMeansBelowThreshold HalfOpenHasProbe
PROPERTIES TripsOnlyWhenWindowFull
