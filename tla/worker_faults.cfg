CONSTANTS
  a1 = a1
  a2 = a2
  a3 = a3
  None = None
  LLM = LLM
  Assignments = {w1, w2}
  Payloads = {p1, p2}
  Agents <- BothBackends
  Pools <- Backends
  OnceValues <- OnceOrNot
  Forms <- EveryForm
  Faults <- ServerFaults
  OpenLimit = 2
  Interval = 1
  MaxBackoff = 1
  MaxFailures = 1
SPECIFICATION Spec
INVARIANTS
  TypeOK
  NothingLeftOpen
  RefusedIsUnrecorded
  ExitSaysWhy
PROPERTIES
  CareSpec
