SPECIFICATION FairSpec

CONSTANTS
  Callers = {c1, c2, c3}
  Nobody = Nobody
  MaxRetries = 2
  IOMayFail = TRUE
  MaxCrashes = 1

INVARIANTS
  TypeOK
  MutualExclusion

PROPERTIES
  ImplementsMutex
  AcquireEnds
