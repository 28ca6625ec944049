---------------------------- MODULE DaemonProofs ----------------------------
(***************************************************************************)
(* Theorems about Daemon, for both service managers, any definitions and   *)
(* every combination of faults.                                            *)
(***************************************************************************)
EXTENDS Daemon, TLAPS

-----------------------------------------------------------------------------
(* Invariants.                                                             *)

\* Which command makes which call, and of which manager.
StepOK ==
  /\ pc \in {"enable", "restart", "wait"} => op = "install"
  /\ pc \in {"start", "print"} => op = "start"
  /\ pc = "stop" => op = "stop"
  /\ pc \in {"disable", "remove"} => op = "uninstall"
  /\ pc = "reload" => op \in {"install", "uninstall"}
  /\ pc = "bootout" => op \in {"install", "stop", "uninstall"}
  /\ pc \in {"bootstrap", "kickstart"} => op \in {"install", "start"}
  /\ pc \in {"reload", "enable", "restart", "start", "stop", "disable"} =>
       manager = "systemd"
  /\ pc \in {"bootout", "wait", "print", "bootstrap", "kickstart"} =>
       manager = "launchd"
  /\ pc # "idle" => said = "nothing" /\ session
  /\ ~ session => said = "nothing" /\ pc = "idle" /\ service = "out"

\* What a manager has in hand.
ManagerOK ==
  /\ service = "on" => known # None
  /\ manager = "systemd" => service # "leaving" /\ ~ stuck
  /\ manager = "launchd" => ~ enabled

\* What a command has achieved when it makes a call.
ProgressOK ==
  /\ pc # "idle" /\ op \in {"install", "start"} => file # None
  /\ pc \in {"enable", "restart"} => known = file
  /\ pc = "restart" => enabled
  /\ pc = "bootstrap" => service = "out"
  /\ pc = "wait" /\ service = "on" => hitch
  /\ pc = "kickstart" /\ op = "install" => service = "on" /\ known = file
  /\ pc = "remove" => ~ enabled /\ (service # "on" \/ stuck)
  /\ pc = "reload" /\ op = "uninstall" =>
       file = None /\ ~ enabled /\ service = "out"

IInv == TypeOK /\ StepOK /\ ManagerOK /\ ProgressOK /\ ReportsAreTrue

-----------------------------------------------------------------------------
\* The types of the service, its worker and its server; and of the command.
ServiceTypeOK ==
  /\ manager \in Managers
  /\ session \in BOOLEAN
  /\ file \in Definitions \cup {None}
  /\ known \in Definitions \cup {None}
  /\ enabled \in BOOLEAN
  /\ service \in {"out", "on", "leaving"}
  /\ worker \in {"none", "starting", "working"}
  /\ runs \in Definitions \cup {None}
  /\ image \in 0 .. MaxContract
  /\ blind \in BOOLEAN
  /\ credential \in {"none", "good", "rejected"}
  /\ required \in 0 .. MaxContract
  /\ binary \in 0 .. MaxContract
  /\ gaveUp \in BOOLEAN

CommandTypeOK ==
  /\ op \in AllCommands
  /\ pc \in Steps
  /\ attempt \in 0 .. MaxAttempts
  /\ said \in AllCommands \cup {"nothing"}
  /\ hitch \in BOOLEAN
  /\ stuck \in BOOLEAN

LEMMA TypesSplit == TypeOK <=> ServiceTypeOK /\ CommandTypeOK
BY DEF TypeOK, ServiceTypeOK, CommandTypeOK

\* What a command does to the service.
LEMMA CommandServiceTypes ==
  ASSUME DaemonAssumption, ServiceTypeOK, CommandTypeOK, Command
  PROVE  ServiceTypeOK'
<1> USE DEF ServiceTypeOK, workerVars, serverVars, commandVars, Supported, DaemonAssumption
<1>1. ASSUME BeginInstall PROVE ServiceTypeOK'
  BY <1>1 DEF BeginInstall, Begin
<1>2. ASSUME BeginStart PROVE ServiceTypeOK'
  BY <1>2 DEF BeginStart, Begin
<1>3. ASSUME BeginStop PROVE ServiceTypeOK'
  BY <1>3 DEF BeginStop, Begin
<1>4. ASSUME BeginUninstall PROVE ServiceTypeOK'
  BY <1>4 DEF BeginUninstall, Begin
<1>5. ASSUME DaemonReload PROVE ServiceTypeOK'
  BY <1>5 DEF DaemonReload, Proceed, Report
<1>6. ASSUME Enable PROVE ServiceTypeOK'
  BY <1>6 DEF Enable, Proceed
<1>7. ASSUME Restart PROVE ServiceTypeOK'
  BY <1>7 DEF Restart, Report, Launch
<1>8. ASSUME StartUnit PROVE ServiceTypeOK'
  BY <1>8 DEF StartUnit, Report, Launch
<1>9. ASSUME StopUnit PROVE ServiceTypeOK'
  BY <1>9 DEF StopUnit, Report, Kill
<1>10. ASSUME DisableUnit PROVE ServiceTypeOK'
  BY <1>10 DEF DisableUnit, Proceed, Kill
<1>11. ASSUME Bootout PROVE ServiceTypeOK'
  BY <1>11 DEF Bootout, BootedOut, Proceed, Report, AfterBootout
<1>12. ASSUME BootoutRefused PROVE ServiceTypeOK'
  BY <1>12 DEF BootoutRefused, AfterBootout
<1>13. ASSUME Unloaded PROVE ServiceTypeOK'
  BY <1>13 DEF Unloaded, Proceed
<1>14. ASSUME StillLoaded PROVE ServiceTypeOK'
  BY <1>14 DEF StillLoaded, Fail
<1>15. ASSUME PrintStatus PROVE ServiceTypeOK'
  BY <1>15 DEF PrintStatus, Proceed
<1>16. ASSUME Bootstrap PROVE ServiceTypeOK'
  BY <1>16 DEF Bootstrap, Proceed, Launch
<1>17. ASSUME BootstrapBusy PROVE ServiceTypeOK'
  BY <1>17 DEF BootstrapBusy, Fail
<1>18. ASSUME Kickstart PROVE ServiceTypeOK'
  BY <1>18 DEF Kickstart, Fail, Report, Launch
<1>19. ASSUME RemoveFile PROVE ServiceTypeOK'
  BY <1>19 DEF RemoveFile, Proceed, Report
<1>20. ASSUME CallFails PROVE ServiceTypeOK'
  BY <1>20 DEF CallFails, Fail
<1>21. ASSUME Interrupt PROVE ServiceTypeOK'
  BY <1>21 DEF Interrupt, Fail
<1>22. QED
  BY <1>1, <1>2, <1>3, <1>4, <1>5, <1>6, <1>7, <1>8, <1>9, <1>10, <1>11, <1>12, <1>13, <1>14, <1>15, <1>16, <1>17, <1>18, <1>19, <1>20, <1>21 DEF Command

\* What a command does to its own variables.
LEMMA CommandCommandTypes ==
  ASSUME DaemonAssumption, ServiceTypeOK, CommandTypeOK, Command
  PROVE  CommandTypeOK'
<1> USE DEF CommandTypeOK, Steps, AllCommands, commandVars, DaemonAssumption
<1>0. 0 \in 0 .. MaxAttempts
  OBVIOUS
<1>b. \A command, step : Begin(command, step) /\ command \in AllCommands /\ step \in Steps
        => CommandTypeOK'
  BY <1>0 DEF Begin
<1>1. ASSUME BeginInstall PROVE CommandTypeOK'
  BY <1>1, <1>b DEF BeginInstall
<1>2. ASSUME BeginStart PROVE CommandTypeOK'
  BY <1>2, <1>b DEF BeginStart
<1>3. ASSUME BeginStop PROVE CommandTypeOK'
  BY <1>3, <1>b DEF BeginStop
<1>4. ASSUME BeginUninstall PROVE CommandTypeOK'
  BY <1>4, <1>b DEF BeginUninstall
<1>5. ASSUME DaemonReload PROVE CommandTypeOK'
  BY <1>5 DEF DaemonReload, Proceed, Report
<1>6. ASSUME Enable PROVE CommandTypeOK'
  BY <1>6 DEF Enable, Proceed
<1>7. ASSUME Restart PROVE CommandTypeOK'
  BY <1>7 DEF Restart, Report, Launch
<1>8. ASSUME StartUnit PROVE CommandTypeOK'
  BY <1>8 DEF StartUnit, Report, Launch
<1>9. ASSUME StopUnit PROVE CommandTypeOK'
  BY <1>9 DEF StopUnit, Report, Kill
<1>10. ASSUME DisableUnit PROVE CommandTypeOK'
  BY <1>10 DEF DisableUnit, Proceed, Kill
<1>11. ASSUME Bootout PROVE CommandTypeOK'
  <2>1. pc' \in Steps /\ said' \in {said, op} /\ UNCHANGED <<op, attempt, hitch, stuck>>
    BY <1>11 DEF Bootout, Proceed, Report, AfterBootout
  <2>2. QED
    BY <2>1
<1>12. ASSUME BootoutRefused PROVE CommandTypeOK'
  BY <1>12 DEF BootoutRefused, AfterBootout
<1>13. ASSUME Unloaded PROVE CommandTypeOK'
  BY <1>13 DEF Unloaded, Proceed
<1>14. ASSUME StillLoaded PROVE CommandTypeOK'
  BY <1>14 DEF StillLoaded, Fail
<1>15. ASSUME PrintStatus PROVE CommandTypeOK'
  BY <1>15 DEF PrintStatus, Proceed
<1>16. ASSUME Bootstrap PROVE CommandTypeOK'
  BY <1>16 DEF Bootstrap, Proceed, Launch
<1>17. ASSUME BootstrapBusy PROVE CommandTypeOK'
  <2>1. pc' \in Steps /\ attempt' \in 0 .. MaxAttempts /\ UNCHANGED <<op, said, stuck>>
    BY <1>17 DEF BootstrapBusy, Fail
  <2>2. hitch' = (hitch \/ service = "out")
    BY <1>17 DEF BootstrapBusy, Fail
  <2>3. hitch' \in BOOLEAN
    BY <2>2, Zenon
  <2>4. QED
    BY <2>1, <2>3
<1>18. ASSUME Kickstart PROVE CommandTypeOK'
  BY <1>18 DEF Kickstart, Fail, Report, Launch
<1>19. ASSUME RemoveFile PROVE CommandTypeOK'
  BY <1>19 DEF RemoveFile, Proceed, Report
<1>20. ASSUME CallFails PROVE CommandTypeOK'
  BY <1>20 DEF CallFails, Fail
<1>21. ASSUME Interrupt PROVE CommandTypeOK'
  BY <1>21 DEF Interrupt, Fail
<1>22. QED
  BY <1>1, <1>2, <1>3, <1>4, <1>5, <1>6, <1>7, <1>8, <1>9, <1>10, <1>11, <1>12, <1>13, <1>14, <1>15, <1>16, <1>17, <1>18, <1>19, <1>20, <1>21 DEF Command

\* What the environment does to the service.
LEMMA EnvironmentServiceTypes ==
  ASSUME DaemonAssumption, ServiceTypeOK, CommandTypeOK, Environment
  PROVE  ServiceTypeOK'
<1> USE DEF ServiceTypeOK, workerVars, serverVars, commandVars, Supported, DaemonAssumption
<1>1. ASSUME KeepAlive PROVE ServiceTypeOK'
  BY <1>1 DEF KeepAlive, Launch
<1>2. ASSUME WorkerChecks PROVE ServiceTypeOK'
  BY <1>2 DEF WorkerChecks
<1>3. ASSUME WorkerEnds PROVE ServiceTypeOK'
  BY <1>3 DEF WorkerEnds, Kill
<1>4. ASSUME Unload PROVE ServiceTypeOK'
  BY <1>4 DEF Unload, Kill
<1>5. ASSUME LogOff PROVE ServiceTypeOK'
  BY <1>5 DEF LogOff, Kill
<1>6. ASSUME LogOn PROVE ServiceTypeOK'
  BY <1>6 DEF LogOn, Launch
<1>7. ASSUME Credential PROVE ServiceTypeOK'
  BY <1>7 DEF Credential
<1>8. ASSUME ChangeContract PROVE ServiceTypeOK'
  BY <1>8 DEF ChangeContract
<1>9. ASSUME Upgrade PROVE ServiceTypeOK'
  BY <1>9 DEF Upgrade
<1>10. QED
  BY <1>1, <1>2, <1>3, <1>4, <1>5, <1>6, <1>7, <1>8, <1>9 DEF Environment

\* What the environment does to a command.
LEMMA EnvironmentCommandTypes ==
  ASSUME DaemonAssumption, ServiceTypeOK, CommandTypeOK, Environment
  PROVE  CommandTypeOK'
<1> USE DEF CommandTypeOK, Steps, AllCommands, commandVars, DaemonAssumption
<1>1. ASSUME KeepAlive PROVE CommandTypeOK'
  BY <1>1 DEF KeepAlive, Launch
<1>2. ASSUME WorkerChecks PROVE CommandTypeOK'
  BY <1>2 DEF WorkerChecks
<1>3. ASSUME WorkerEnds PROVE CommandTypeOK'
  BY <1>3 DEF WorkerEnds, Kill
<1>4. ASSUME Unload PROVE CommandTypeOK'
  BY <1>4 DEF Unload, Kill
<1>5. ASSUME LogOff PROVE CommandTypeOK'
  BY <1>5 DEF LogOff, Kill
<1>6. ASSUME LogOn PROVE CommandTypeOK'
  BY <1>6 DEF LogOn, Launch
<1>7. ASSUME Credential PROVE CommandTypeOK'
  BY <1>7 DEF Credential
<1>8. ASSUME ChangeContract PROVE CommandTypeOK'
  BY <1>8 DEF ChangeContract
<1>9. ASSUME Upgrade PROVE CommandTypeOK'
  BY <1>9 DEF Upgrade
<1>10. QED
  BY <1>1, <1>2, <1>3, <1>4, <1>5, <1>6, <1>7, <1>8, <1>9 DEF Environment

\* Which call belongs to which command.
LEMMA CommandSteps ==
  ASSUME DaemonAssumption, IInv, Command
  PROVE  StepOK'
<1> USE DEF IInv, StepOK, TypeOK, AllCommands, workerVars, serverVars, commandVars
<1>1. ASSUME BeginInstall PROVE StepOK'
  BY <1>1 DEF BeginInstall, Begin
<1>2. ASSUME BeginStart PROVE StepOK'
  BY <1>2 DEF BeginStart, Begin
<1>3. ASSUME BeginStop PROVE StepOK'
  BY <1>3 DEF BeginStop, Begin
<1>4. ASSUME BeginUninstall PROVE StepOK'
  BY <1>4 DEF BeginUninstall, Begin
<1>5. ASSUME DaemonReload PROVE StepOK'
  BY <1>5 DEF DaemonReload, Proceed, Report
<1>6. ASSUME Enable PROVE StepOK'
  BY <1>6 DEF Enable, Proceed
<1>7. ASSUME Restart PROVE StepOK'
  BY <1>7 DEF Restart, Report, Launch
<1>8. ASSUME StartUnit PROVE StepOK'
  BY <1>8 DEF StartUnit, Report, Launch
<1>9. ASSUME StopUnit PROVE StepOK'
  BY <1>9 DEF StopUnit, Report, Kill
<1>10. ASSUME DisableUnit PROVE StepOK'
  BY <1>10 DEF DisableUnit, Proceed, Kill
<1>11. ASSUME Bootout PROVE StepOK'
  BY <1>11 DEF Bootout, BootedOut, Proceed, Report, AfterBootout
<1>12. ASSUME BootoutRefused PROVE StepOK'
  BY <1>12 DEF BootoutRefused, AfterBootout
<1>13. ASSUME Unloaded PROVE StepOK'
  BY <1>13 DEF Unloaded, Proceed
<1>14. ASSUME StillLoaded PROVE StepOK'
  BY <1>14 DEF StillLoaded, Fail
<1>15. ASSUME PrintStatus PROVE StepOK'
  BY <1>15 DEF PrintStatus, Proceed
<1>16. ASSUME Bootstrap PROVE StepOK'
  BY <1>16 DEF Bootstrap, Proceed, Launch
<1>17. ASSUME BootstrapBusy PROVE StepOK'
  BY <1>17 DEF BootstrapBusy, Fail
<1>18. ASSUME Kickstart PROVE StepOK'
  BY <1>18 DEF Kickstart, Fail, Report, Launch
<1>19. ASSUME RemoveFile PROVE StepOK'
  BY <1>19 DEF RemoveFile, Proceed, Report
<1>20. ASSUME CallFails PROVE StepOK'
  BY <1>20 DEF CallFails, Fail
<1>21. ASSUME Interrupt PROVE StepOK'
  BY <1>21 DEF Interrupt, Fail
<1>22. QED
  BY <1>1, <1>2, <1>3, <1>4, <1>5, <1>6, <1>7, <1>8, <1>9, <1>10, <1>11, <1>12, <1>13, <1>14, <1>15, <1>16, <1>17, <1>18, <1>19, <1>20, <1>21 DEF Command

\* Which call belongs to which command.
LEMMA EnvironmentSteps ==
  ASSUME DaemonAssumption, IInv, Environment
  PROVE  StepOK'
<1> USE DEF IInv, StepOK, TypeOK, AllCommands, workerVars, serverVars, commandVars
<1>1. ASSUME KeepAlive PROVE StepOK'
  BY <1>1 DEF KeepAlive, Launch
<1>2. ASSUME WorkerChecks PROVE StepOK'
  BY <1>2 DEF WorkerChecks
<1>3. ASSUME WorkerEnds PROVE StepOK'
  BY <1>3 DEF WorkerEnds, Kill
<1>4. ASSUME Unload PROVE StepOK'
  BY <1>4 DEF Unload, Kill
<1>5. ASSUME LogOff PROVE StepOK'
  BY <1>5 DEF LogOff, Kill
<1>6. ASSUME LogOn PROVE StepOK'
  BY <1>6 DEF LogOn, Launch
<1>7. ASSUME Credential PROVE StepOK'
  BY <1>7 DEF Credential
<1>8. ASSUME ChangeContract PROVE StepOK'
  BY <1>8 DEF ChangeContract
<1>9. ASSUME Upgrade PROVE StepOK'
  BY <1>9 DEF Upgrade
<1>10. QED
  BY <1>1, <1>2, <1>3, <1>4, <1>5, <1>6, <1>7, <1>8, <1>9 DEF Environment

\* What the manager has in hand, and what a command has achieved.
LEMMA CommandProgress ==
  ASSUME DaemonAssumption, IInv, Command
  PROVE  (ManagerOK /\ ProgressOK /\ ReportsAreTrue)'
<1> USE DEF IInv, StepOK, ManagerOK, ProgressOK, ReportsAreTrue, workerVars, serverVars, commandVars, DaemonAssumption
<1>1. ASSUME BeginInstall PROVE (ManagerOK /\ ProgressOK /\ ReportsAreTrue)'
  BY <1>1 DEF BeginInstall, Begin
<1>2. ASSUME BeginStart PROVE (ManagerOK /\ ProgressOK /\ ReportsAreTrue)'
  BY <1>2 DEF BeginStart, Begin
<1>3. ASSUME BeginStop PROVE (ManagerOK /\ ProgressOK /\ ReportsAreTrue)'
  BY <1>3 DEF BeginStop, Begin
<1>4. ASSUME BeginUninstall PROVE (ManagerOK /\ ProgressOK /\ ReportsAreTrue)'
  BY <1>4 DEF BeginUninstall, Begin
<1>5. ASSUME DaemonReload PROVE (ManagerOK /\ ProgressOK /\ ReportsAreTrue)'
  BY <1>5 DEF DaemonReload, Proceed, Report
<1>6. ASSUME Enable PROVE (ManagerOK /\ ProgressOK /\ ReportsAreTrue)'
  BY <1>6 DEF Enable, Proceed
<1>7. ASSUME Restart PROVE (ManagerOK /\ ProgressOK /\ ReportsAreTrue)'
  BY <1>7 DEF Restart, Report, Launch
<1>8. ASSUME StartUnit PROVE (ManagerOK /\ ProgressOK /\ ReportsAreTrue)'
  BY <1>8 DEF StartUnit, Report, Launch
<1>9. ASSUME StopUnit PROVE (ManagerOK /\ ProgressOK /\ ReportsAreTrue)'
  BY <1>9 DEF StopUnit, Report, Kill
<1>10. ASSUME DisableUnit PROVE (ManagerOK /\ ProgressOK /\ ReportsAreTrue)'
  BY <1>10 DEF DisableUnit, Proceed, Kill
<1>11. ASSUME Bootout PROVE (ManagerOK /\ ProgressOK /\ ReportsAreTrue)'
  BY <1>11 DEF Bootout, BootedOut, Proceed, Report, AfterBootout
<1>12. ASSUME BootoutRefused PROVE (ManagerOK /\ ProgressOK /\ ReportsAreTrue)'
  BY <1>12 DEF BootoutRefused, AfterBootout
<1>13. ASSUME Unloaded PROVE (ManagerOK /\ ProgressOK /\ ReportsAreTrue)'
  BY <1>13 DEF Unloaded, Proceed
<1>14. ASSUME StillLoaded PROVE (ManagerOK /\ ProgressOK /\ ReportsAreTrue)'
  BY <1>14 DEF StillLoaded, Fail
<1>15. ASSUME PrintStatus PROVE (ManagerOK /\ ProgressOK /\ ReportsAreTrue)'
  BY <1>15 DEF PrintStatus, Proceed
<1>16. ASSUME Bootstrap PROVE (ManagerOK /\ ProgressOK /\ ReportsAreTrue)'
  BY <1>16 DEF Bootstrap, Proceed, Launch
<1>17. ASSUME BootstrapBusy PROVE (ManagerOK /\ ProgressOK /\ ReportsAreTrue)'
  <2>1. /\ pc' \in {"bootstrap", "idle"}
        /\ said = "nothing"
        /\ UNCHANGED <<manager, file, known, enabled, service, worker, runs, op,
                       said, stuck>>
    BY <1>17 DEF BootstrapBusy, Fail
  <2>2. QED
    BY <1>17, <2>1 DEF BootstrapBusy
<1>18. ASSUME Kickstart PROVE (ManagerOK /\ ProgressOK /\ ReportsAreTrue)'
  BY <1>18 DEF Kickstart, Fail, Report, Launch
<1>19. ASSUME RemoveFile PROVE (ManagerOK /\ ProgressOK /\ ReportsAreTrue)'
  <2>1. /\ op = "uninstall" /\ pc = "remove" /\ said = "nothing"
        /\ ~ enabled /\ file' = None
        /\ UNCHANGED <<manager, known, enabled, service, worker, runs, op, hitch, stuck>>
    BY <1>19 DEF RemoveFile, Proceed, Report
  <2>2. CASE pc' = "reload" /\ said' = said /\ manager = "systemd"
    <3>1. service \in {"out", "on", "leaving"}
      BY DEF TypeOK
    <3>2. QED
      BY <2>1, <2>2, <3>1
  <2>3. CASE pc' = "idle" /\ said' = op
    BY <2>1, <2>3
  <2>4. QED
    BY <1>19, <2>2, <2>3 DEF RemoveFile, Proceed, Report
<1>20. ASSUME CallFails PROVE (ManagerOK /\ ProgressOK /\ ReportsAreTrue)'
  BY <1>20 DEF CallFails, Fail
<1>21. ASSUME Interrupt PROVE (ManagerOK /\ ProgressOK /\ ReportsAreTrue)'
  BY <1>21 DEF Interrupt, Fail
<1>22. QED
  BY <1>1, <1>2, <1>3, <1>4, <1>5, <1>6, <1>7, <1>8, <1>9, <1>10, <1>11, <1>12, <1>13, <1>14, <1>15, <1>16, <1>17, <1>18, <1>19, <1>20, <1>21 DEF Command

\* What the manager has in hand, and what a command has achieved.
LEMMA EnvironmentProgress ==
  ASSUME DaemonAssumption, IInv, Environment
  PROVE  (ManagerOK /\ ProgressOK /\ ReportsAreTrue)'
<1> USE DEF IInv, StepOK, ManagerOK, ProgressOK, ReportsAreTrue, workerVars, serverVars, commandVars, DaemonAssumption
<1>1. ASSUME KeepAlive PROVE (ManagerOK /\ ProgressOK /\ ReportsAreTrue)'
  BY <1>1 DEF KeepAlive, Launch
<1>2. ASSUME WorkerChecks PROVE (ManagerOK /\ ProgressOK /\ ReportsAreTrue)'
  BY <1>2 DEF WorkerChecks
<1>3. ASSUME WorkerEnds PROVE (ManagerOK /\ ProgressOK /\ ReportsAreTrue)'
  BY <1>3 DEF WorkerEnds, Kill
<1>4. ASSUME Unload PROVE (ManagerOK /\ ProgressOK /\ ReportsAreTrue)'
  BY <1>4 DEF Unload, Kill
<1>5. ASSUME LogOff PROVE (ManagerOK /\ ProgressOK /\ ReportsAreTrue)'
  BY <1>5 DEF LogOff, Kill
<1>6. ASSUME LogOn PROVE (ManagerOK /\ ProgressOK /\ ReportsAreTrue)'
  BY <1>6 DEF LogOn, Launch
<1>7. ASSUME Credential PROVE (ManagerOK /\ ProgressOK /\ ReportsAreTrue)'
  BY <1>7 DEF Credential
<1>8. ASSUME ChangeContract PROVE (ManagerOK /\ ProgressOK /\ ReportsAreTrue)'
  BY <1>8 DEF ChangeContract
<1>9. ASSUME Upgrade PROVE (ManagerOK /\ ProgressOK /\ ReportsAreTrue)'
  BY <1>9 DEF Upgrade
<1>10. QED
  BY <1>1, <1>2, <1>3, <1>4, <1>5, <1>6, <1>7, <1>8, <1>9 DEF Environment

LEMMA InitHolds == DaemonAssumption /\ Init => IInv
<1> SUFFICES ASSUME DaemonAssumption, Init PROVE IInv
  OBVIOUS
<1>0. 0 \in 0 .. MaxContract /\ 0 \in 0 .. MaxAttempts
  BY DEF DaemonAssumption
<1>1. ServiceTypeOK
  BY <1>0 DEF Init, ServiceTypeOK
<1>2. CommandTypeOK
  BY <1>0 DEF Init, CommandTypeOK, AllCommands, Steps
<1>3. StepOK /\ ManagerOK /\ ProgressOK /\ ReportsAreTrue
  BY DEF Init, StepOK, ManagerOK, ProgressOK, ReportsAreTrue
<1>4. QED
  BY <1>1, <1>2, <1>3, TypesSplit DEF IInv

LEMMA NextHolds == DaemonAssumption /\ IInv /\ [Next]_vars => IInv'
<1>1. ASSUME DaemonAssumption, IInv, Command PROVE IInv'
  <2>1. TypeOK'
    <3>1. ServiceTypeOK /\ CommandTypeOK
      BY <1>1, TypesSplit DEF IInv
    <3>2. ServiceTypeOK' /\ CommandTypeOK'
      BY <1>1, <3>1, CommandServiceTypes, CommandCommandTypes
    <3>3. QED
      BY <3>2 DEF TypeOK, ServiceTypeOK, CommandTypeOK
  <2>2. QED
    BY <1>1, <2>1, CommandSteps, CommandProgress DEF IInv
<1>2. ASSUME DaemonAssumption, IInv, Environment PROVE IInv'
  <2>1. TypeOK'
    <3>1. ServiceTypeOK /\ CommandTypeOK
      BY <1>2, TypesSplit DEF IInv
    <3>2. ServiceTypeOK' /\ CommandTypeOK'
      BY <1>2, <3>1, EnvironmentServiceTypes, EnvironmentCommandTypes
    <3>3. QED
      BY <3>2 DEF TypeOK, ServiceTypeOK, CommandTypeOK
  <2>2. QED
    BY <1>2, <2>1, EnvironmentSteps, EnvironmentProgress DEF IInv
<1>3. ASSUME IInv, UNCHANGED vars PROVE IInv'
  <2> USE <1>3 DEF IInv, vars, workerVars, serverVars, commandVars
  <2>1. TypeOK'
    BY DEF TypeOK
  <2>2. StepOK'
    BY DEF StepOK
  <2>3. (ManagerOK /\ ProgressOK /\ ReportsAreTrue)'
    BY DEF ManagerOK, ProgressOK, ReportsAreTrue
  <2>4. QED
    BY <2>1, <2>2, <2>3
<1>4. QED
  BY <1>1, <1>2, <1>3 DEF Next

LEMMA AlwaysIInv == Spec => []IInv
<1>1. Init => IInv
  BY InitHolds, DaemonAssumption
<1>2. IInv /\ [Next]_vars => IInv'
  BY NextHolds, DaemonAssumption
<1>3. QED
  BY <1>1, <1>2, PTL DEF Spec

\* Every reachable state is well-typed, for both service managers.
THEOREM DaemonTypeCorrect == Spec => []TypeOK
<1>1. IInv => TypeOK
  BY DEF IInv
<1>2. QED
  BY <1>1, AlwaysIInv, PTL

\* What a command has reported is true until the next command or the end of the
\* session, whatever earlier commands have left behind (main.go 624 - 1021).
THEOREM ReportsHold == Spec => []ReportsAreTrue
<1>1. IInv => ReportsAreTrue
  BY DEF IInv
<1>2. QED
  BY <1>1, AlwaysIInv, PTL

LEMMA FailureStep ==
  ASSUME IInv, Next, pc # "idle", pc' = "idle"
  PROVE  \/ said' = op
         \/ hitch'
         \/ op = "start" /\ pc = "kickstart" /\ service # "on"
<1> USE DEF IInv, Steps
<1>1. ASSUME BeginInstall \/ BeginStart \/ BeginStop \/ BeginUninstall PROVE FALSE
  BY <1>1 DEF BeginInstall, BeginStart, BeginStop, BeginUninstall, Begin
<1>2. ASSUME DaemonReload \/ Restart \/ StartUnit \/ StopUnit \/ RemoveFile
      PROVE  said' = op
  BY <1>2 DEF DaemonReload, Restart, StartUnit, StopUnit, RemoveFile, Proceed, Report
<1>3. ASSUME Enable \/ DisableUnit \/ Unloaded \/ PrintStatus \/ Bootstrap PROVE FALSE
  BY <1>3 DEF Enable, DisableUnit, Unloaded, PrintStatus, Bootstrap, Proceed
<1>4. ASSUME Bootout PROVE said' = op
  BY <1>4 DEF Bootout, Proceed, Report, AfterBootout, StepOK
<1>5. ASSUME BootoutRefused PROVE FALSE
  BY <1>5 DEF BootoutRefused, AfterBootout
<1>6. ASSUME StillLoaded \/ CallFails \/ Interrupt PROVE hitch'
  <2>1. CASE StillLoaded /\ service = "on"
    BY <2>1 DEF StillLoaded, Fail, ProgressOK
  <2>2. CASE StillLoaded /\ service # "on"
    BY <2>2 DEF StillLoaded, Fail
  <2>3. CASE CallFails \/ Interrupt
    BY <2>3 DEF CallFails, Interrupt, Fail
  <2>4. QED
    BY <1>6, <2>1, <2>2, <2>3
<1>7. ASSUME BootstrapBusy PROVE hitch'
  BY <1>7 DEF BootstrapBusy, Fail, ProgressOK
<1>8. ASSUME Kickstart
      PROVE  said' = op \/ (op = "start" /\ pc = "kickstart" /\ service # "on")
  BY <1>8 DEF Kickstart, Fail, Report, StepOK, ProgressOK
<1>9. ASSUME LogOff PROVE hitch'
  BY <1>9 DEF LogOff
<1>10. ASSUME KeepAlive \/ WorkerChecks \/ WorkerEnds \/ Unload \/ LogOn
              \/ Credential \/ ChangeContract \/ Upgrade
       PROVE  FALSE
  BY <1>10 DEF KeepAlive, WorkerChecks, WorkerEnds, Unload, LogOn, Credential,
              ChangeContract, Upgrade, commandVars
<1>11. QED
  BY <1>1, <1>2, <1>3, <1>4, <1>5, <1>6, <1>7, <1>8, <1>9, <1>10
  DEF Next, Command, Environment

\* A command that has begun fails only because of a fault that it met, or because
\* it is a start that found the service unloading, whatever failed or interrupted
\* commands have left behind.
THEOREM FailuresHaveReasons == Spec => FailsOnlyForAReason
<1>1. IInv /\ [Next]_vars =>
        [pc # "idle" /\ pc' = "idle" =>
           \/ said' = op
           \/ hitch'
           \/ op = "start" /\ pc = "kickstart" /\ service # "on"]_vars
  BY FailureStep
<1>2. QED
  BY <1>1, AlwaysIInv, PTL DEF Spec, FailsOnlyForAReason

-----------------------------------------------------------------------------
(* The contract.                                                           *)

\* A worker is not newer than the installed binary, and after a worker has given
\* up that binary is too old.
ContractOK ==
  /\ image <= binary
  /\ gaveUp => ~ Supported(binary)
  /\ NoTrafficAfterGivingUp

LEMMA ContractStep == TypeOK /\ ContractOK /\ [Next]_vars => ContractOK'
<1> SUFFICES ASSUME TypeOK, ContractOK, [Next]_vars PROVE ContractOK'
  OBVIOUS
<1> USE DEF ContractOK, NoTrafficAfterGivingUp, Supported, workerVars, serverVars, commandVars
<1>t. /\ required \in Nat /\ binary \in Nat /\ image \in Nat
      /\ gaveUp \in BOOLEAN /\ blind \in BOOLEAN
  BY DaemonAssumption DEF TypeOK, DaemonAssumption
<1>u. ASSUME UNCHANGED <<required, binary, image, gaveUp, blind, worker>>
      PROVE  ContractOK'
  BY <1>u
<1>l. ASSUME UNCHANGED <<required, binary, gaveUp>>, image' \in {image, binary},
             worker' # "working"
      PROVE  ContractOK'
  BY <1>l, <1>t
<1>1. CASE BeginInstall \/ BeginStart \/ BeginStop \/ BeginUninstall
  BY <1>1, <1>t DEF BeginInstall, BeginStart, BeginStop, BeginUninstall, Begin
<1>2. CASE DaemonReload \/ Enable \/ Bootout \/ BootoutRefused \/ Unloaded
           \/ StillLoaded \/ PrintStatus \/ BootstrapBusy \/ RemoveFile
           \/ CallFails \/ Interrupt
  BY <1>2, <1>u DEF DaemonReload, Enable, Bootout, BootoutRefused, Unloaded,
     StillLoaded, PrintStatus, BootstrapBusy, RemoveFile, CallFails, Interrupt
<1>3. CASE Restart \/ StartUnit \/ Bootstrap \/ Kickstart \/ KeepAlive
  <2>1. UNCHANGED <<required, binary, gaveUp>>
    BY <1>3 DEF Restart, StartUnit, Bootstrap, Kickstart, KeepAlive
  <2>2. UNCHANGED workerVars \/ (image' = binary /\ worker' = "starting")
    BY <1>3 DEF Restart, StartUnit, Bootstrap, Kickstart, KeepAlive, Launch
  <2>3. QED
    BY <2>1, <2>2, <1>u, <1>l
<1>4. CASE StopUnit \/ DisableUnit \/ Unload \/ LogOff
  BY <1>4, <1>t DEF StopUnit, DisableUnit, Unload, LogOff, Kill
<1>5. CASE WorkerChecks
  <2>1. UNCHANGED <<required, binary, image>>
    BY <1>5 DEF WorkerChecks
  <2>2. CASE worker' = "none" /\ gaveUp' = ~ (binary >= required)
    BY <2>1, <2>2, <1>t
  <2>3. CASE /\ UNCHANGED gaveUp
             /\ worker' = "working" => blind' = ~ (image >= required)
    BY <2>1, <2>3, <1>t
  <2>4. QED
    BY <1>5, <2>2, <2>3 DEF WorkerChecks
<1>6. CASE WorkerEnds
  <2>1. UNCHANGED <<required, binary, image>> /\ worker' = "none"
    BY <1>6 DEF WorkerEnds, Kill
  <2>2. CASE gaveUp' = ~ (binary >= required)
    BY <2>1, <2>2, <1>t
  <2>3. CASE UNCHANGED gaveUp
    BY <2>1, <2>3, <1>t
  <2>4. QED
    BY <1>6, <2>2, <2>3 DEF WorkerEnds
<1>7. CASE LogOn
  BY <1>7, <1>t DEF LogOn, Launch
<1>8. CASE Credential \/ ChangeContract \/ Upgrade
  BY <1>8, <1>t DEF Credential, ChangeContract, Upgrade
<1>9. CASE UNCHANGED vars
  BY <1>9 DEF vars
<1>10. QED
  BY <1>1, <1>2, <1>3, <1>4, <1>5, <1>6, <1>7, <1>8, <1>9
  DEF Next, Command, Environment

\* A worker that the manager starts again after it gave up sends no worker traffic,
\* unless the release route failed it (updates.md 66).
THEOREM GivingUpIsSilent == Spec => []NoTrafficAfterGivingUp
<1>1. Init => ContractOK
  BY DEF Init, ContractOK, NoTrafficAfterGivingUp
<1>2. TypeOK /\ ContractOK /\ [Next]_vars => ContractOK'
  BY ContractStep
<1>3. ContractOK => NoTrafficAfterGivingUp
  BY DEF ContractOK
<1>4. QED
  BY <1>1, <1>2, <1>3, DaemonTypeCorrect, PTL DEF Spec
=============================================================================
