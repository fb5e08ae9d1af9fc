SPECIFICATION Spec

CONSTANTS
  Modes = {"persistent"}
  Tasks = {t1}
  Servers = {s1}
  OtherStores = {"logs", "policies", "backups"}
  Concurrency = 1
  MaxLives = 1
  NoServer = NoServer

INVARIANTS
  ShutdownCompletes

\* The process may die and not be started again.
CHECK_DEADLOCK FALSE
