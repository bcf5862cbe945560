SPECIFICATION FairSpec
CONSTANTS
  Classes = {c1}
  MaxClasses = 2
  FailureThreshold = 1
  Window = 1
  ResetTimeout = 2
  Workers = {w1, w2}
  Panicking = {c1}
  MaxTime = 3
PROPERTIES HalfOpenEnds
