CONSTANTS
  p1 = p1
  p2 = p2
  Processes <- Together
  MaxTokens = 5
  Rotations <- SingleUse
  Commands <- RunAndLogout
  StoredConfigs <- LoggedIn
  Faults <- NoFault
SPECIFICATION Spec
INVARIANT RefreshedWhenPossible
