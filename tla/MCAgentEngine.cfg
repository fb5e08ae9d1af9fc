SPECIFICATION FairSpec

CONSTANTS
  a1 = a1
  a2 = a2
  Agents = {a1, a2}
  Dashboards = {d1}
  Workers = {w1}
  MaxIterations = 2
  MaxCalls <- TwoAndOne
  PoolTimeout = 2
  EngineTimeout = 4
  PollTime = 1
  None = None

INVARIANTS
  TypeOK
  ContextWellFormed
  ListenersOfWaiters
  GivesUpOnlyBehindQueue

PROPERTIES
  RunsEnd

\* At rest when both runs are over and time stands still.
CHECK_DEADLOCK FALSE
