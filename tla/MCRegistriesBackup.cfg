SPECIFICATION Spec

CONSTANTS
  MaxTime = 1
  MaxPolicies = 0
  MaxVersion = 1
  PolicyStatementsMayFail = FALSE
  MaxBackups = 1
  BackupStatementsMayFail = FALSE
  MaxRestarts = 1

INVARIANTS
  BackupsSurviveRestart
