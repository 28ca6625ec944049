------------------------------- MODULE Daemon -------------------------------
(***************************************************************************)
(* The background service: `sah daemon install | start | stop | uninstall` *)
(* (cmd/sah/main.go), the calls they make of launchd or of systemd --user  *)
(* (internal/sah/service.go, launchd.go, systemd.go), and `sah run         *)
(* --daemon`, which the service manager starts again whenever it ends. The *)
(* worker itself is the subject of module Worker; here it is a process     *)
(* that checks the worker contract and its credential, and ends when the   *)
(* server turns either of them down. The service managers are outside of   *)
(* this repository.                                                        *)
(***************************************************************************)
EXTENDS Naturals

CONSTANTS
  Managers,     \* the service managers: launchd, systemd
  Definitions,  \* what an install may write: executable and environment
  None,         \* no definition
  Commands,     \* what the user may run
  MaxAttempts,  \* launchAgentBootstrapAttempts
  MaxContract,  \* how often the server may ask for a newer contract
  Faults        \* what may go wrong outside of the commands

AllCommands == {"install", "start", "stop", "uninstall"}
AllFaults == {"call", "bootout", "slow", "busy", "interrupt", "release",
              "revoke", "logoff"}

ASSUME DaemonAssumption ==
  /\ Managers \subseteq {"launchd", "systemd"}
  /\ None \notin Definitions
  /\ Commands \subseteq AllCommands
  /\ MaxAttempts \in Nat \ {0}
  /\ MaxContract \in Nat
  /\ Faults \subseteq AllFaults

VARIABLES
  manager,     \* the service manager of this machine
  session,     \* the user is logged in, and the manager runs
  file,        \* the plist or unit file
  known,       \* the definition the manager has read
  enabled,     \* systemd starts the unit when the session begins
  service,     \* out; on, and kept alive; leaving: launchd still unloads it
  worker,      \* the worker process
  runs,        \* the definition it was started from
  image,       \* the contract its binary supports
  blind,       \* it has not seen the contract that the server requires
  credential,  \* the stored credential, and what the server makes of it
  required,    \* the contract the server requires
  binary,      \* the contract the installed binary supports
  gaveUp,      \* a worker has ended because of the contract, and since then
               \* nobody has upgraded the binary or run a command
  op,          \* the command at hand
  pc,          \* the manager call it makes next
  attempt,     \* the attempts to bootstrap so far
  said,        \* the success that the last command has reported
  hitch,       \* the command at hand has met a fault
  stuck        \* launchd has refused to boot out a service being uninstalled

workerVars == <<worker, runs, image, blind>>
serverVars == <<credential, required>>
commandVars == <<op, pc, attempt, said, hitch, stuck>>
vars == <<manager, session, file, known, enabled, service, workerVars,
          serverVars, binary, gaveUp, commandVars>>

Steps == {"idle", "reload", "enable", "restart", "start", "stop", "disable",
          "bootout", "wait", "print", "bootstrap", "kickstart", "remove"}

TypeOK ==
  /\ manager \in Managers
  /\ session \in BOOLEAN
  /\ file \in Definitions \cup {None}
  /\ known \in Definitions \cup {None}
  /\ enabled \in BOOLEAN
  /\ service \in {"out", "on", "leaving"}
  /\ worker \in {"none", "starting", "working"}
  /\ runs \in Definitions \cup {None}
  /\ image \in 0 .. MaxContract
  /\ blind \in BOOLEAN
  /\ credential \in {"none", "good", "rejected"}
  /\ required \in 0 .. MaxContract
  /\ binary \in 0 .. MaxContract
  /\ gaveUp \in BOOLEAN
  /\ op \in AllCommands
  /\ pc \in Steps
  /\ attempt \in 0 .. MaxAttempts
  /\ said \in AllCommands \cup {"nothing"}
  /\ hitch \in BOOLEAN
  /\ stuck \in BOOLEAN

Init ==
  /\ manager \in Managers
  /\ session = TRUE
  /\ file = None
  /\ known = None
  /\ enabled = FALSE
  /\ service = "out"
  /\ worker = "none"
  /\ runs = None
  /\ image = 0
  /\ blind = FALSE
  /\ credential = "none"
  /\ required = 0
  /\ binary = 0
  /\ gaveUp = FALSE
  /\ op = "install"
  /\ pc = "idle"
  /\ attempt = 0
  /\ said = "nothing"
  /\ hitch = FALSE
  /\ stuck = FALSE

Supported(contract) == contract >= required

-----------------------------------------------------------------------------
(* What the service manager does with the service.                         *)

\* The manager starts a worker from definition d, in place of any other.
Launch(d) ==
  /\ worker' = "starting"
  /\ runs' = d
  /\ image' = binary
  /\ blind' = FALSE

Kill ==
  /\ worker' = "none"
  /\ UNCHANGED <<runs, image, blind>>

\* launchctl bootout returns before the service has gone.
BootedOut == service' = IF service = "on" THEN "leaving" ELSE service

-----------------------------------------------------------------------------
(* The commands, one manager call after the other.                         *)

Proceed(step) == pc' = step /\ UNCHANGED <<op, attempt, said, hitch, stuck>>

Report ==
  /\ pc' = "idle"
  /\ said' = op
  /\ UNCHANGED <<op, attempt, hitch, stuck>>

Fail(why) ==
  /\ pc' = "idle"
  /\ hitch' = (hitch \/ why)
  /\ UNCHANGED <<op, attempt, said, stuck>>

Begin(command, step) ==
  /\ session
  /\ pc = "idle"
  /\ command \in Commands
  /\ op' = command
  /\ pc' = step
  /\ attempt' = 0
  /\ said' = "nothing"
  /\ hitch' = FALSE
  /\ stuck' = FALSE
  /\ gaveUp' = FALSE

\* enforceSupportedWorkerContract, which an error of the release route, or a
\* release document out of the cache, lets pass.
ContractSeen(contract) == Supported(contract) \/ "release" \in Faults

\* A command that is refused at once changes nothing and is not a step.
BeginInstall ==
  /\ ContractSeen(binary)
  /\ credential = "good"
  /\ Begin("install", IF manager = "systemd" THEN "reload" ELSE "bootout")
  /\ file' \in Definitions
  /\ UNCHANGED <<manager, session, known, enabled, service, workerVars,
                 serverVars, binary>>

BeginStart ==
  /\ ContractSeen(binary)
  /\ file # None
  /\ Begin("start", IF manager = "systemd" THEN "start" ELSE "print")
  /\ UNCHANGED <<manager, session, file, known, enabled, service, workerVars,
                 serverVars, binary>>

BeginStop ==
  /\ manager = "systemd" => file # None
  /\ Begin("stop", IF manager = "systemd" THEN "stop" ELSE "bootout")
  /\ UNCHANGED <<manager, session, file, known, enabled, service, workerVars,
                 serverVars, binary>>

BeginUninstall ==
  /\ Begin("uninstall", IF manager = "systemd" THEN "disable" ELSE "bootout")
  /\ UNCHANGED <<manager, session, file, known, enabled, service, workerVars,
                 serverVars, binary>>

DaemonReloadIfNew ==  \* mutant: only for a unit that systemd does not know
  /\ pc = "reload"
  /\ known' = IF known = None THEN file ELSE known
  /\ IF op = "install" THEN Proceed("enable") ELSE Report
  /\ UNCHANGED <<manager, session, file, enabled, service, workerVars,
                 serverVars, binary, gaveUp>>

\* systemctl daemon-reload, of an install and at the end of an uninstall.
DaemonReload ==
  /\ pc = "reload"
  /\ known' = file
  /\ IF op = "install" THEN Proceed("enable") ELSE Report
  /\ UNCHANGED <<manager, session, file, enabled, service, workerVars,
                 serverVars, binary, gaveUp>>

Enable ==
  /\ pc = "enable"
  /\ enabled' = TRUE
  /\ Proceed("restart")
  /\ UNCHANGED <<manager, session, file, known, service, workerVars,
                 serverVars, binary, gaveUp>>

Restart ==
  /\ pc = "restart"
  /\ service' = "on"
  /\ Launch(known)
  /\ Report
  /\ UNCHANGED <<manager, session, file, known, enabled, serverVars, binary, gaveUp>>

\* systemctl start loads a unit it does not know and leaves a running one alone.
StartUnit ==
  LET unit == IF known = None THEN file ELSE known
  IN /\ pc = "start"
     /\ known' = unit
     /\ IF service = "on" THEN UNCHANGED workerVars ELSE Launch(unit)
     /\ service' = "on"
     /\ Report
     /\ UNCHANGED <<manager, session, file, enabled, serverVars, binary, gaveUp>>

StopByDisabling ==  \* mutant: only keeps the unit from starting next time
  /\ pc = "stop"
  /\ enabled' = FALSE
  /\ Report
  /\ UNCHANGED <<manager, session, file, known, service, workerVars,
                 serverVars, binary, gaveUp>>

\* systemctl stop returns when the process has ended.
StopUnit ==
  /\ pc = "stop"
  /\ service' = "out"
  /\ Kill
  /\ Report
  /\ UNCHANGED <<manager, session, file, known, enabled, serverVars, binary, gaveUp>>

\* systemctl disable --now; that it knows no such unit is no error.
DisableUnit ==
  /\ pc = "disable"
  /\ enabled' = FALSE
  /\ service' = "out"
  /\ Kill
  /\ Proceed("remove")
  /\ UNCHANGED <<manager, session, file, known, serverVars, binary, gaveUp>>

RemoveFile ==
  /\ pc = "remove"
  /\ file' = None
  /\ IF manager = "systemd" THEN Proceed("reload") ELSE Report
  /\ UNCHANGED <<manager, session, known, enabled, service, workerVars,
                 serverVars, binary, gaveUp>>

\* launchctl bootout: of an install and of an uninstall, which ignore its
\* errors, and of a stop, for which a service that is not loaded is stopped.
AfterBootoutAtOnce == "bootstrap"  \* mutant: does not wait for the old service
AfterBootout == "wait"

Bootout ==
  /\ pc = "bootout"
  /\ BootedOut
  /\ IF op = "stop" THEN Report
     ELSE Proceed(IF op = "install" THEN AfterBootout ELSE "remove")
  /\ UNCHANGED <<manager, session, file, known, enabled, workerVars,
                 serverVars, binary, gaveUp>>

BootoutRefused ==
  /\ "bootout" \in Faults
  /\ pc = "bootout"
  /\ op # "stop"
  /\ pc' = IF op = "install" THEN AfterBootout ELSE "remove"
  /\ hitch' = TRUE
  /\ stuck' = (op = "uninstall")
  /\ UNCHANGED <<manager, session, file, known, enabled, service, workerVars,
                 serverVars, binary, gaveUp, op, attempt, said>>

\* waitForLaunchAgentLoadedState(false): a poll finds the service gone ...
Unloaded ==
  /\ pc = "wait"
  /\ service = "out"
  /\ Proceed("bootstrap")
  /\ UNCHANGED <<manager, session, file, known, enabled, service, workerVars,
                 serverVars, binary, gaveUp>>

\* ... or it is still there at the last one: its worker takes longer to end
\* than the polls last, or launchd did not boot it out.
StillLoaded ==
  /\ pc = "wait"
  /\ \/ service = "leaving" /\ "slow" \in Faults /\ Fail(TRUE)
     \/ service = "on" /\ Fail(FALSE)
  /\ UNCHANGED <<manager, session, file, known, enabled, service, workerVars,
                 serverVars, binary, gaveUp>>

\* LaunchAgentStatus at the beginning of a start.
PrintStatus ==
  /\ pc = "print"
  /\ Proceed(IF service = "out" THEN "bootstrap" ELSE "kickstart")
  /\ UNCHANGED <<manager, session, file, known, enabled, service, workerVars,
                 serverVars, binary, gaveUp>>

\* launchctl bootstrap reads the plist and, with RunAtLoad, starts the worker.
Bootstrap ==
  /\ pc = "bootstrap"
  /\ service = "out"
  /\ service' = "on"
  /\ known' = file
  /\ Launch(file)
  /\ Proceed("kickstart")
  /\ UNCHANGED <<manager, session, file, enabled, serverVars, binary, gaveUp>>

\* "Bootstrap failed: 5", which is tried again, is also launchd's answer while
\* the service is still loaded.
BootstrapBusy ==
  /\ pc = "bootstrap"
  /\ service # "out" \/ "busy" \in Faults
  /\ IF attempt + 1 < MaxAttempts
     THEN /\ attempt' = attempt + 1
          /\ hitch' = (hitch \/ service = "out")
          /\ UNCHANGED <<op, pc, said, stuck>>
     ELSE Fail(service = "out")
  /\ UNCHANGED <<manager, session, file, known, enabled, service, workerVars,
                 serverVars, binary, gaveUp>>

\* launchctl kickstart -k replaces the process; it fails while the service goes.
Kickstart ==
  /\ pc = "kickstart"
  /\ IF service = "on"
     THEN Launch(known) /\ Report
     ELSE Fail(FALSE) /\ UNCHANGED workerVars
  /\ UNCHANGED <<manager, session, file, known, enabled, service, serverVars,
                 binary, gaveUp>>

\* An error of the manager or of the file system that ends the command, as the
\* error of the last poll does.
CallFails ==
  /\ "call" \in Faults
  /\ pc # "idle"
  /\ ~ (pc = "bootout" /\ op # "stop")
  /\ Fail(TRUE)
  /\ UNCHANGED <<manager, session, file, known, enabled, service, workerVars,
                 serverVars, binary, gaveUp>>

Interrupt ==
  /\ "interrupt" \in Faults
  /\ pc # "idle"
  /\ Fail(TRUE)
  /\ UNCHANGED <<manager, session, file, known, enabled, service, workerVars,
                 serverVars, binary, gaveUp>>

-----------------------------------------------------------------------------
(* The manager and the worker.                                             *)

\* Restart=always, KeepAlive.
KeepAlive ==
  /\ service = "on"
  /\ worker = "none"
  /\ Launch(known)
  /\ UNCHANGED <<manager, session, file, known, enabled, service, serverVars,
                 binary, gaveUp, commandVars>>

WorkerChecksLogin ==  \* mutant: starts work without a look at the contract
  /\ worker = "starting"
  /\ worker' = IF credential = "none" THEN "none" ELSE "working"
  /\ UNCHANGED <<manager, session, file, known, enabled, service, runs, image,
                 blind, serverVars, binary, gaveUp, commandVars>>

\* enforceSupportedWorkerContract, then ensureRunAuthentication in daemon mode.
WorkerChecks ==
  /\ worker = "starting"
  /\ \/ /\ ~ Supported(image)
        /\ worker' = "none"
        /\ gaveUp' = ~ Supported(binary)
        /\ UNCHANGED blind
     \/ /\ ContractSeen(image)
        /\ worker' = IF credential = "none" THEN "none" ELSE "working"
        /\ blind' = ~ Supported(image)
        /\ UNCHANGED gaveUp
  /\ UNCHANGED <<manager, session, file, known, enabled, service, runs, image,
                 serverVars, binary, commandVars>>

WorkerEndsIfRejected ==  \* mutant: takes the contract conflict for passing
  /\ worker = "working"
  /\ credential = "rejected"
  /\ credential' \in {"rejected", "none"}
  /\ Kill
  /\ UNCHANGED <<manager, session, file, known, enabled, service, required,
                 binary, gaveUp, commandVars>>

\* A worker route answers with the contract conflict, or turns the credential
\* down, which a refused refresh also removes: handleWorkerCycleError.
WorkerEnds ==
  /\ worker = "working"
  /\ \/ ~ Supported(image) /\ gaveUp' = ~ Supported(binary) /\ UNCHANGED credential
     \/ /\ credential = "rejected"
        /\ credential' \in {"rejected", "none"}
        /\ UNCHANGED gaveUp
  /\ Kill
  /\ UNCHANGED <<manager, session, file, known, enabled, service, required,
                 binary, commandVars>>

\* The signal of a bootout ends the worker, and then launchd drops the service.
Unload ==
  /\ service = "leaving"
  /\ Kill
  /\ service' = "out"
  /\ known' = None
  /\ UNCHANGED <<manager, session, file, enabled, serverVars, binary, gaveUp,
                 commandVars>>

LogOff ==
  /\ "logoff" \in Faults
  /\ session
  /\ session' = FALSE
  /\ service' = "out"
  /\ known' = None
  /\ Kill
  /\ pc' = "idle"
  /\ said' = "nothing"
  /\ hitch' = TRUE
  /\ UNCHANGED <<manager, file, enabled, serverVars, binary, gaveUp, op,
                 attempt, stuck>>

\* launchd bootstraps every plist it finds, systemd starts what is enabled.
LogOn ==
  /\ ~ session
  /\ session' = TRUE
  /\ IF file # None /\ (manager = "systemd" => enabled)
     THEN service' = "on" /\ known' = file /\ Launch(file)
     ELSE UNCHANGED <<service, known, workerVars>>
  /\ UNCHANGED <<manager, file, enabled, serverVars, binary, gaveUp, commandVars>>

-----------------------------------------------------------------------------
(* The user's credential, the server and the package manager.              *)

Credential ==
  /\ \/ credential' \in {"good", "none"}  \* sah auth login, sah auth logout
     \/ "revoke" \in Faults /\ credential = "good" /\ credential' = "rejected"
  /\ UNCHANGED <<manager, session, file, known, enabled, service, workerVars,
                 required, binary, gaveUp, commandVars>>

ChangeContract ==
  /\ required < MaxContract
  /\ required' = required + 1
  /\ UNCHANGED <<manager, session, file, known, enabled, service, workerVars,
                 credential, binary, gaveUp, commandVars>>

Upgrade ==
  /\ binary < required
  /\ binary' = required
  /\ gaveUp' = FALSE
  /\ UNCHANGED <<manager, session, file, known, enabled, service, workerVars,
                 serverVars, commandVars>>

Command ==
  \/ BeginInstall \/ BeginStart \/ BeginStop \/ BeginUninstall
  \/ DaemonReload \/ Enable \/ Restart \/ StartUnit \/ StopUnit \/ DisableUnit
  \/ Bootout \/ BootoutRefused \/ Unloaded \/ StillLoaded
  \/ PrintStatus \/ Bootstrap \/ BootstrapBusy \/ Kickstart
  \/ RemoveFile \/ CallFails \/ Interrupt

Environment ==
  \/ KeepAlive \/ WorkerChecks \/ WorkerEnds \/ Unload \/ LogOff \/ LogOn
  \/ Credential \/ ChangeContract \/ Upgrade

Next == Command \/ Environment

\* The manager keeps its services, and a worker does what it is about to do.
Fairness ==
  /\ WF_vars(KeepAlive)
  /\ WF_vars(WorkerChecks)
  /\ WF_vars(WorkerEnds)
  /\ WF_vars(Unload)

Spec == Init /\ [][Next]_vars
FairSpec == Spec /\ Fairness

-----------------------------------------------------------------------------
(* Properties.                                                             *)

\* What a command has reported is true, and stays true until the next command
\* or the end of the session (main.go 624, 958, 970, 1021): an installed service
\* runs the definition just written and no older one, a stopped or removed one
\* is not started again. `uninstall` ignores that launchd refuses a bootout, and
\* then reports the removal of a service that goes on (launchd.go 231).
ReportsAreTrue ==
  /\ said = "install" => /\ service = "on" /\ known = file /\ file # None
                         /\ worker # "none" => runs = file
                         /\ manager = "systemd" => enabled
  /\ said = "start" => service = "on" /\ known # None
  /\ said = "stop" => service # "on"
  /\ said = "uninstall" => /\ file = None /\ ~ enabled
                           /\ service # "on" \/ stuck

\* A command that has begun fails only if something outside of it has: whatever
\* interrupted or failed commands have left behind, the next one copes. The
\* exception is a start while launchd is still unloading the service, because
\* StartService takes it for loaded (service.go 87).
FailsOnlyForAReason ==
  [][pc # "idle" /\ pc' = "idle" =>
       \/ said' = op
       \/ hitch'
       \/ op = "start" /\ pc = "kickstart" /\ service # "on"]_vars

\* A worker that the manager has started again after it gave up because of the
\* contract sends no worker traffic, as long as the release route answers
\* (updates.md 66: "stop before starting worker traffic").
NoTrafficAfterGivingUp == gaveUp /\ worker = "working" => blind

\* With a service that is kept alive, a good credential and a binary that the
\* server supports, the worker works again and on that binary, whatever made it
\* end: nobody has to restart the service after a login or an upgrade.
Healthy ==
  /\ pc = "idle"
  /\ service = "on"
  /\ credential = "good"
  /\ Supported(binary)
Recovers == <>[]Healthy => []<>(worker = "working" /\ Supported(image))

\* After `sah daemon stop` the worker comes to its end.
StopsWork == said = "stop" ~> (worker = "none" \/ said # "stop")

\* "If the contract changes after the worker has already started, the worker
\* routes return a conflict and the CLI exits with an upgrade hint instead of
\* looping forever" (updates.md 66).
GivesUpForGood == gaveUp => worker = "none"
=============================================================================
