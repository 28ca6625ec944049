CONSTANTS
  p1 = p1
  p2 = p2
  Processes <- OneByOne
  MaxTokens = 4
  Rotations <- AnyServer
  Commands <- EveryCommand
  StoredConfigs <- AnyFile
  Faults <- EveryFault
SPECIFICATION Spec
INVARIANTS
  StoredLoginWorks
  RejectionIsThorough
  ThriftyRefresh
  LogoutSticks
PROPERTIES
  LoginKept
