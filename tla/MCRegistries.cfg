SPECIFICATION Spec

CONSTANTS
  MaxTime = 1
  MaxPolicies = 2
  MaxVersion = 2
  PolicyStatementsMayFail = TRUE
  MaxBackups = 2
  BackupStatementsMayFail = TRUE
  MaxRestarts = 1

CONSTRAINT OneInUse

INVARIANTS
  TypeOK
  PoliciesMatchTable
  RecordHasFile
