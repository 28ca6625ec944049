CONSTANTS
  d1 = d1
  d2 = d2
  None = None
  Managers <- BothManagers
  Definitions <- OneDefinition
  Commands <- EveryCommand
  MaxAttempts = 1
  MaxContract = 1
  Faults <- NoFault
SPECIFICATION Spec
INVARIANT GivesUpForGood
