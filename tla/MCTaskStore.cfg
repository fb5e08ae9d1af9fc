SPECIFICATION Spec

CONSTANTS
  t1 = t1
  Tasks = {t1}
  NumSteps = 2
  Refs = {1, 2, 3, 4, 5, 6}
  NoRef = NoRef
  Absent = Absent
  MaxCrashes = 1
  DriverPresent = TRUE
  WritesMayFail = TRUE

INVARIANTS
  TypeOK
  NoPhantomSteps
  FrameSeesOwnSteps
  

PROPERTIES
  CompletedStays
  EnqueuedOnlyIfOpen
  

