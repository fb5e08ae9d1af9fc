SPECIFICATION FairSpec

CONSTANTS
  Modes = {"memory", "limbic", "persistent"}
  Tasks = {t1, t2}
  Servers = {s1}
  OtherStores = {"logs"}
  Concurrency = 1
  MaxLives = 3
  NoServer = NoServer

INVARIANTS
  HandlerBeforeExecution

PROPERTIES
  StoredTasksRun

\* The process may die and not be started again.
CHECK_DEADLOCK FALSE
