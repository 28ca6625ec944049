CONSTANTS
  a1 = a1
  a2 = a2
  a3 = a3
  None = None
  LLM = LLM
  Assignments = {w1, w2}
  Payloads = {p1}
  Agents <- EveryAgent
  Pools <- Rotations
  OnceValues <- OnceOrNot
  Forms <- ReleasableForms
  Faults <- LocalFaults
  OpenLimit = 2
  Interval = 1
  MaxBackoff = 3
  MaxFailures = 3
SPECIFICATION FairSpec
INVARIANTS
  BusyAgentIsReady
  WakesForEarliest
  CooldownMatchesFailures
PROPERTIES
  CooldownRunsOut
  NoAgentStarves
  NeverTurnsFromOpen
  SignalStops
  CareFairSpec
