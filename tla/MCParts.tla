------------------------------- MODULE MCParts -------------------------------
(***************************************************************************)
(* The parts that share no state with each other, in one run of TLC: each  *)
(* initial state picks the part that moves, and the variables of the       *)
(* others keep one value of their own.                                     *)
(***************************************************************************)
EXTENDS RotatingLog, DeviceLogin, MCSetup, ConfigFile, MCSolver

VARIABLE part   \* the part that moves

EveryFault == AllFaults
ShortAndLong == {2, 7}
NamedOrNot == {0, 1, 3}

\* How each of the parts starts while it is another's turn.
LogAside == Init /\ keep = 0
SetupAside == SetupInit /\ where = CHOOSE w \in Machines : TRUE
ConfigAside == ConfigInit /\ made = 0
SolverAside == SolverInit /\ solver = Endpoint

PartsInit ==
  \/ part = "log" /\ Init /\ LoginInit /\ SetupAside /\ ConfigAside /\ SolverAside
  \/ part = "login" /\ LogAside /\ LoginInit /\ SetupAside /\ ConfigAside /\ SolverAside
  \/ part = "setup" /\ LogAside /\ LoginInit /\ SetupInit /\ ConfigAside /\ SolverAside
  \/ part = "config" /\ LogAside /\ LoginInit /\ SetupAside /\ ConfigInit /\ SolverAside
  \/ part = "solver" /\ LogAside /\ LoginInit /\ SetupAside /\ ConfigAside /\ SolverInit

LogMoves ==
  part = "log" /\ Next /\ UNCHANGED <<part, loginVars, setupVars, configVars, solverVars>>
LoginMoves ==
  part = "login" /\ LoginNext /\ UNCHANGED <<part, vars, setupVars, configVars, solverVars>>
SetupMoves ==
  part = "setup" /\ SetupNext /\ UNCHANGED <<part, vars, loginVars, configVars, solverVars>>
ConfigMoves ==
  part = "config" /\ ConfigNext /\ UNCHANGED <<part, vars, loginVars, setupVars, solverVars>>
Others == <<part, vars, loginVars, setupVars, configVars>>
SolverMoves == part = "solver" /\ SolverNext /\ UNCHANGED Others

\* The bounds stop the commands of Setup, and a solver that has answered is done.
MayStop == part \in {"setup", "solver"} /\ UNCHANGED <<solverVars, Others>>

PartsNext ==
  \/ LogMoves \/ LoginMoves \/ SetupMoves \/ ConfigMoves \/ SolverMoves \/ MayStop

\* SolverFairness, of the solver that moves.
InSolver == part = "solver" /\ UNCHANGED Others
PartsFairness ==
  /\ WF_solverVars(InSolver /\ (Prepare \/ PrepareFails))
  /\ WF_solverVars(InSolver /\ ContextDone)
  /\ WF_solverVars(InSolver /\ Kill)
  /\ WF_solverVars(InSolver /\ RunReturns)
  /\ WF_solverVars(InSolver /\ GiveUpEndpoint)

PartsSpec == PartsInit /\ [][PartsNext]_<<solverVars, Others>> /\ PartsFairness
=============================================================================
