SPECIFICATION Spec

CONSTANTS
  o1 = o1
  o2 = o2
  c1 = c1
  Tasks = {o1, o2, c1}
  OrphanRows <- TwoOrphans
  IntentTasks = {o1, c1}
  CallbackTasks = {o2}
  Concurrency = 2
  MaxStarts = 1
  ThrowingEvents = {}
  MaxLeaks = 0
  NoEntry = NoEntry

INVARIANTS
  SuspendedKeepsContext

\* Idle when every task is answered and every start is used up.
CHECK_DEADLOCK FALSE
