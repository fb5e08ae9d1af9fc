SPECIFICATION Spec

CONSTANTS
  Calls = {c1, c2}
  MaxLogs = 3
  KeepLasts = {1, 2}
  MaxCrashes = 1
  NoPolicy = NoPolicy

INVARIANTS
  TypeOK
  MemoryIsBacked

PROPERTIES
  RowsGoByPolicy
