CONSTANTS
  codex = codex
  gemini = gemini
  d1 = d1
  d2 = d2
  u1 = u1
  u2 = u2
  SupportedAgents <- BothAgents
  DefaultAgent = codex
  LLM = LLM
  None = None
  Dirs = {d1, d2}
  Machines <- OneMachine
  Shells <- TwoShells
  Urls = {u1, u2}
  DefaultURL = u1
  Options <- NoSelection
  MaxInstalls = 2
  MaxRuns = 1
  MaxMoves = 1
SPECIFICATION SetupSpec
PROPERTY InstallSticks
CHECK_DEADLOCK FALSE
