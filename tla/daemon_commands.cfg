CONSTANTS
  d1 = d1
  d2 = d2
  None = None
  Managers <- BothManagers
  Definitions <- TwoDefinitions
  Commands <- EveryCommand
  MaxAttempts = 2
  MaxContract = 1
  Faults <- EveryFault
SPECIFICATION FairSpec
INVARIANTS
  ReportsAreTrue
  NoTrafficAfterGivingUp
PROPERTIES
  FailsOnlyForAReason
  Recovers
  StopsWork
