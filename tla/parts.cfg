\* RotatingLog
CONSTANTS
  MaxBytes = 3
  MaxBackups = 3
  Sizes = {1, 4}
  MaxLines = 5
  Faults <- EveryFault
\* DeviceLogin
CONSTANTS
  Lifetimes <- ShortAndLong
  Intervals <- NamedOrNot
  DefaultInterval = 2
  SlowBy = 2
  MaxWait = 2
\* Setup
CONSTANTS
  codex = codex
  gemini = gemini
  d1 = d1
  d2 = d2
  u1 = u1
  u2 = u2
  SupportedAgents <- BothAgents
  DefaultAgent = codex
  LLM = LLM
  None = None
  Dirs = {d1, d2}
  Machines <- OneMachine
  Shells <- TwoShells
  Urls = {u1, u2}
  DefaultURL = u1
  Options <- SomeFlags
  MaxInstalls = 2
  MaxRuns = 1
  MaxMoves = 1
\* ConfigFile
CONSTANTS
  Processes = {p1, p2}
  Values = {v1, v2}
  Nothing = Nothing
  Torn = Torn
  MaxFiles = 3
\* Solver
CONSTANTS
  AgentCLIs = {"codex", "gemini", "claude", "qwen"}
  Endpoint = "llm"
  Payloads = {"a", "b"}
  NoPayload = "none"
  Events <- SomeEvents
  Answers <- SomeAnswers
  MaxOutput = 3
  BufferLines = 2
SPECIFICATION PartsSpec
INVARIANTS
  OldestGoFirst
  WithinLimit
  OneBackupPerFailure
  OutcomeIsDecision
  NeverTooFast
  ApprovalCounts
  EndsInTime
  ReportHolds
  ChoiceLasts
  AdviceWorks
  StatusTells
  TempsSwept
  OnlyFromWholeOutput
  AnswerIsTheAgents
PROPERTIES
  WritesRecover
  StoreSpec
  SolveEnds
