SPECIFICATION FairSpec

CONSTANTS
  o1 = o1
  o2 = o2
  c1 = c1
  Tasks = {o1, o2, c1}
  OrphanRows <- TwoOrphans
  IntentTasks = {o1}
  CallbackTasks = {o2, c1}
  Concurrency = 2
  MaxStarts = 2
  ThrowingEvents = {"task:started", "task:resumed", "task:failed", "task:suspended"}
  MaxLeaks = 1
  NoEntry = NoEntry

INVARIANTS
  TypeOK
  CounterMatches
  CapacityBound
  NoDoubleExecution
  NoTaskLost
  OneOutcomePerExecution

PROPERTIES
  RecoveredFirst
  EveryTaskAnswered
  StoppedPoolDrains

\* Idle when every task is answered and every start is used up.
CHECK_DEADLOCK FALSE
