SPECIFICATION FairSpec

CONSTANTS
  NumSteps = 4
  SleepSteps = {2, 4}
  Duration = 2
  MaxRejections = 2
  IdleTime = 3
  MaxTime = 15
  Results <- TwoResults
  NoValue = NoValue
  MaxCrashes = 2

INVARIANTS
  TypeOK
  ReplayIsFaithful
  EffectsBounded
  SleepsLongEnough
  NeverOversleeps

PROPERTIES
  ImplementsWorkflow
  SleepsEnd

\* The clock stops at MaxTime, and a finished or lost handler stays so.
CHECK_DEADLOCK FALSE
