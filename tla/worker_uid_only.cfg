CONSTANTS
  a1 = a1
  a2 = a2
  a3 = a3
  None = None
  LLM = LLM
  Assignments = {w1}
  Payloads = {p1}
  Agents <- BothBackends
  Pools <- OneAgent
  OnceValues <- Continuous
  Forms <- UidForm
  Faults <- SolverFault
  OpenLimit = 1
  Interval = 1
  MaxBackoff = 2
  MaxFailures = 2
SPECIFICATION Spec
PROPERTY NeverTurnsFromOpen
