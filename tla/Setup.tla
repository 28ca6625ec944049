-------------------------------- MODULE Setup --------------------------------
(***************************************************************************)
(* How the user's choice of agents gets into the configuration file and    *)
(* from there to the workers (cmd/sah/main.go, agent_selection.go,         *)
(* discovery.go): `daemon install` in its steps, the service's worker and  *)
(* a foreground `run`, each with the configuration it has loaded, on a     *)
(* machine whose agent CLIs move and whose shells differ in their PATH.    *)
(*                                                                         *)
(* Kept of an agent's path is the directory it lies in. Credentials are    *)
(* only there or not there (Credentials has their life), the service is    *)
(* only its definition and whether it is started (Daemon has its calls).   *)
(***************************************************************************)
EXTENDS Naturals, SequencesExt

CONSTANTS
  SupportedAgents,  \* the agents' names, in their fixed order
  DefaultAgent,     \* the one that a new configuration names
  LLM,              \* the one member of an LLM endpoint's pool
  None,             \* no agent, no directory, no URL
  Dirs,             \* directories that agents are installed in
  Machines,         \* where the agents may be installed at first
  Shells,           \* the PATHs of the user's shells
  Urls,             \* base URLs, with the default one
  DefaultURL,
  Options,          \* the flags that are given to an install or a run
  MaxInstalls, MaxRuns, MaxMoves   \* how often these happen

Agents == ToSet(SupportedAgents)
Places == Dirs \union {None}
Backends == {"agent", "llm"}
LLMSettings == {"url", "model"}

ASSUME SetupAssumption ==
  /\ SupportedAgents \in Seq(Agents)
  /\ DefaultAgent \in Agents
  /\ LLM \notin Agents /\ None \notin Agents \union Dirs \union Urls
  /\ Machines \subseteq [Agents -> Places]
  /\ Shells \subseteq SUBSET Dirs /\ Shells # {}
  /\ DefaultURL \in Urls
  /\ Options \subseteq
       [agent : Agents \union {None}, agents : Seq(Agents), rotate : BOOLEAN,
        model : BOOLEAN, backend : Backends \union {None},
        llm : SUBSET LLMSettings, url : Urls \union {None}]
  /\ {MaxInstalls, MaxRuns, MaxMoves} \subseteq Nat

VARIABLES
  disk,     \* the configuration file
  where,    \* the directory of each agent
  cmd,      \* the `daemon install` that is under way
  unit,     \* the service definition: its state and the PATH it captured
  worker,   \* the service's worker
  run,      \* a foreground `run`
  promise,  \* what the last install has reported, while it must hold
  chosen,   \* the last selection that was asked for and saved
  bounds    \* how many installs, runs and moves there have been

setupVars == <<disk, where, cmd, unit, worker, run, promise, chosen, bounds>>

Configs ==
  [auth : BOOLEAN, url : Urls, backend : Backends, llm : SUBSET LLMSettings,
   agent : Agents, pool : Seq(Agents), rotate : BOOLEAN, model : BOOLEAN,
   paths : [Agents -> Places]]
Pools == Seq(Agents \union {LLM})
NoPaths == [a \in Agents |-> None]
NoFlags == [agent |-> None, agents |-> <<>>, rotate |-> FALSE, model |-> FALSE,
            backend |-> None, llm |-> {}, url |-> None]

(***************************************************************************)
(* Where an agent is found. A captured path wins, and is not looked past.  *)
(***************************************************************************)
Captured(machine, path) == [a \in Agents |-> IF machine[a] \in path THEN machine[a] ELSE None]

EffectivePaths(c, paths) ==
  [a \in Agents |-> IF paths[a] # None THEN paths[a] ELSE c.paths[a]]

Located(machine, a, paths, path) ==
  IF paths[a] # None THEN machine[a] = paths[a] ELSE machine[a] \in path

Installed(machine, paths, path) ==
  FoldLeft(LAMBDA found, a : IF Located(machine, a, paths, path) THEN Append(found, a) ELSE found,
           <<>>, SupportedAgents)

\* The first of each name.
Normalized(names) ==
  FoldLeft(LAMBDA kept, a : IF a \in ToSet(kept) THEN kept ELSE Append(kept, a), <<>>, names)

\* The empty pool stands for the errors.
Named(machine, names, paths, path) ==
  IF \A a \in ToSet(names) : Located(machine, a, paths, path) THEN Normalized(names) ELSE <<>>

ResolvePool(machine, c, o, backend, captured, path) ==
  LET paths == EffectivePaths(c, captured)
  IN  IF backend = "llm" THEN <<LLM>>
      ELSE IF o.rotate THEN Installed(machine, paths, path)
      ELSE IF o.agents # <<>> THEN Named(machine, o.agents, paths, path)
      ELSE IF o.agent # None THEN Named(machine, <<o.agent>>, paths, path)
      ELSE IF c.rotate THEN Installed(machine, paths, path)
      ELSE IF c.pool # <<>> THEN Named(machine, c.pool, paths, path)
      ELSE Named(machine, <<c.agent>>, paths, path)

(***************************************************************************)
(* What an install makes of the flags.                                     *)
(***************************************************************************)
AgentFlags(o) == o.agent # None \/ o.agents # <<>> \/ o.rotate \/ o.model

ValidFlags(o) ==
  LET backend == IF o.backend = None /\ o.llm # {} THEN "llm" ELSE o.backend
  IN  /\ o.rotate => o.agent = None /\ o.agents = <<>>
      /\ o.agent # None => o.agents = <<>>
      /\ backend = "llm" => ~AgentFlags(o)
      /\ backend = "agent" => o.llm = {}

BackendOf(c, o) ==
  IF o.backend # None THEN o.backend ELSE IF o.llm # {} THEN "llm" ELSE c.backend

AutoRotates(c) == c.pool = <<>> /\ ~c.rotate /\ ~c.model /\ c.agent = DefaultAgent

PinnedAgent(a) == [agent |-> a, pool |-> <<>>, rotate |-> FALSE]
\* As it would be if a pool were saved beside the flag for all agents.
AgentPoolBesideRotation(c, pool) ==
  [agent |-> c.agent, pool |-> Normalized(pool), rotate |-> c.rotate]
AgentPool(c, pool) == [agent |-> c.agent, pool |-> Normalized(pool), rotate |-> FALSE]
RotateInstalled(c) == [agent |-> c.agent, pool |-> <<>>, rotate |-> TRUE]

Selected(c, o) ==
  IF BackendOf(c, o) = "agent" /\ o.agent # None THEN PinnedAgent(o.agent)
  ELSE IF BackendOf(c, o) = "agent" /\ o.agents # <<>> THEN AgentPool(c, o.agents)
  ELSE IF BackendOf(c, o) = "agent" /\ (o.rotate \/ AutoRotates(c)) THEN RotateInstalled(c)
  ELSE [agent |-> c.agent, pool |-> c.pool, rotate |-> c.rotate]

\* A selection is looked for before it is taken over, a pinned agent only
\* among the paths just captured.
SelectionLocated(machine, c, o, path) ==
  LET paths == EffectivePaths(c, Captured(machine, path))
  IN  IF o.agent # None THEN Located(machine, o.agent, Captured(machine, path), path)
      ELSE IF o.agents # <<>> THEN Named(machine, o.agents, paths, path) # <<>>
      ELSE o.rotate \/ AutoRotates(c) => Installed(machine, paths, path) # <<>>

PickURL(given, configured) == IF given # None THEN given ELSE configured

InstallConfig(machine, c, o, path) ==
  LET s == Selected(c, o)
  IN  [auth |-> c.auth, url |-> PickURL(o.url, c.url), backend |-> BackendOf(c, o),
       llm |-> c.llm \union o.llm, agent |-> s.agent, pool |-> s.pool,
       rotate |-> s.rotate, model |-> c.model \/ o.model,
       paths |-> IF BackendOf(c, o) = "llm" THEN NoPaths ELSE Captured(machine, path)]

\* As it would be if the pool to report were resolved before the flags apply.
InstallPoolBeforeFlags(machine, c, o, path) ==
  ResolvePool(machine, c, NoFlags, BackendOf(c, o), Captured(machine, path), path)

InstallPool(machine, c, o, path) ==
  ResolvePool(machine, InstallConfig(machine, c, o, path), NoFlags, BackendOf(c, o),
              Captured(machine, path), path)

LLMComplete(c, o) == BackendOf(c, o) = "llm" => c.llm \union o.llm = LLMSettings

AcceptsInstall(machine, c, o, path) ==
  /\ ValidFlags(o)
  /\ LLMComplete(c, o)
  /\ BackendOf(c, o) = "llm" => ~AgentFlags(o)
  /\ BackendOf(c, o) = "agent" => SelectionLocated(machine, c, o, path)
  /\ InstallPool(machine, c, o, path) # <<>>

\* The pool of a foreground run, or none.
RunPool(machine, c, o, path) ==
  LET accepted ==
        /\ ValidFlags(o)
        /\ BackendOf(c, o) = "llm" => ~AgentFlags(o)
        /\ LLMComplete(c, o)
        /\ BackendOf(c, o) = "agent" =>
             \A a \in {o.agent} \ {None} : Located(machine, a, NoPaths, path)
  IN  IF accepted THEN ResolvePool(machine, c, o, BackendOf(c, o), NoPaths, path) ELSE <<>>

\* The pool of the service's worker, which is given no flags.
ServicePool(machine, c, path) == ResolvePool(machine, c, NoFlags, c.backend, c.paths, path)

(***************************************************************************)
(* What was asked for and what the file says.                              *)
(***************************************************************************)
NoChoice == [agent |-> None, pool |-> <<>>, rotate |-> FALSE]

Asked(o) == [agent |-> o.agent, pool |-> Normalized(o.agents), rotate |-> o.rotate]

Selection(c) ==
  IF c.rotate THEN [NoChoice EXCEPT !.rotate = TRUE]
  ELSE IF c.pool # <<>> THEN [NoChoice EXCEPT !.pool = c.pool]
  ELSE [NoChoice EXCEPT !.agent = c.agent]

\* All of a configuration but the login and the server.
Settings(c) == <<c.backend, c.llm, c.agent, c.pool, c.rotate, c.model, c.paths>>

(***************************************************************************)
(* State.                                                                  *)
(***************************************************************************)
DefaultConfig ==
  [auth |-> FALSE, url |-> DefaultURL, backend |-> "agent", llm |-> {},
   agent |-> DefaultAgent, pool |-> <<>>, rotate |-> FALSE, model |-> FALSE,
   paths |-> NoPaths]

NoInstall == [step |-> "idle", config |-> DefaultConfig, asked |-> NoChoice,
              pool |-> <<>>, path |-> {}, seen |-> NoPaths]
NoWorker == [on |-> FALSE, config |-> DefaultConfig, fresh |-> FALSE, pool |-> <<>>, seen |-> NoPaths]
NoRun == [step |-> "none", config |-> DefaultConfig, fresh |-> FALSE, flags |-> NoFlags, path |-> {}]
NoPromise == [on |-> FALSE, pool |-> <<>>, path |-> {}, seen |-> NoPaths]

Selections == [agent : Agents \union {None}, pool : Seq(Agents), rotate : BOOLEAN]

SetupTypeOK ==
  /\ disk \in Configs
  /\ where \in [Agents -> Places]
  /\ cmd \in [step : {"idle", "checking", "refreshed", "saved"}, config : Configs,
              asked : Selections, pool : Pools, path : SUBSET Dirs, seen : [Agents -> Places]]
  /\ unit \in [state : {"none", "stopped", "started"}, path : SUBSET Dirs]
  /\ worker \in [on : BOOLEAN, config : Configs, fresh : BOOLEAN, pool : Pools,
                 seen : [Agents -> Places]]
  /\ run \in [step : {"none", "login", "run"}, config : Configs, fresh : BOOLEAN,
              flags : Options \union {NoFlags, None}, path : SUBSET Dirs]
  /\ promise \in [on : BOOLEAN, pool : Pools, path : SUBSET Dirs, seen : [Agents -> Places]]
  /\ chosen \in Selections
  /\ bounds \in [installs : Nat, runs : Nat, moves : Nat]

SetupInit ==
  /\ disk = DefaultConfig
  /\ where \in Machines
  /\ cmd = NoInstall
  /\ unit = [state |-> "none", path |-> {}]
  /\ worker = NoWorker
  /\ run = NoRun
  /\ promise = NoPromise
  /\ chosen = NoChoice
  /\ bounds = [installs |-> 0, runs |-> 0, moves |-> 0]

(***************************************************************************)
(* Saving the configuration in memory. A process is fresh when it has      *)
(* loaded the file since an install, or one that was not fresh itself, has *)
(* written it. A save by one that is not undoes the install: what was      *)
(* promised and chosen no longer holds.                                    *)
(***************************************************************************)
SaveConfig(config, fresh) ==
  /\ disk' = config
  /\ promise' = IF fresh THEN promise ELSE NoPromise
  /\ chosen' = IF fresh THEN chosen ELSE NoChoice

Overtaken(process) == [process EXCEPT !.fresh = FALSE]

\* An install's own save. A pinned default agent without a model cannot be
\* told from no choice, and the next install may replace it.
SaveInstall(config) ==
  /\ disk' = config
  /\ worker' = Overtaken(worker)
  /\ run' = Overtaken(run)
  /\ promise' = NoPromise
  /\ chosen' =
       IF cmd.asked = NoChoice THEN chosen
       ELSE IF cmd.asked.agent = DefaultAgent /\ ~config.model THEN NoChoice
       ELSE cmd.asked

(***************************************************************************)
(* daemon install.                                                         *)
(***************************************************************************)
InstallBegin(o, path) ==
  /\ cmd.step = "idle"
  /\ bounds.installs < MaxInstalls
  /\ AcceptsInstall(where, disk, o, path)
  /\ disk.auth
  /\ cmd' = [step |-> "checking", config |-> InstallConfig(where, disk, o, path),
             asked |-> Asked(o), pool |-> InstallPool(where, disk, o, path), path |-> path,
             seen |-> where]
  /\ bounds' = [bounds EXCEPT !.installs = @ + 1]
  /\ UNCHANGED <<disk, where, unit, worker, run, promise, chosen>>

\* GetMe renews the login, and saves it with everything else that is in memory,
\* before the install goes on or fails.
InstallRefresh ==
  /\ cmd.step = "checking"
  /\ SaveInstall(cmd.config)
  /\ cmd' = [cmd EXCEPT !.step = "refreshed"]
  /\ UNCHANGED <<where, unit, bounds>>

InstallFails ==
  /\ cmd.step \in {"checking", "refreshed"}
  /\ cmd' = NoInstall
  /\ UNCHANGED <<disk, where, unit, worker, run, promise, chosen, bounds>>

InstallSave ==
  /\ cmd.step \in {"checking", "refreshed"}
  /\ SaveInstall(cmd.config)
  /\ cmd' = [cmd EXCEPT !.step = "saved"]
  /\ UNCHANGED <<where, unit, bounds>>

\* The file still holds what the install has saved.
Settled == Settings(disk) = Settings(cmd.config)

\* The manager takes the old worker away and starts the service anew.
InstallService ==
  /\ cmd.step = "saved"
  /\ unit' = [state |-> "started", path |-> cmd.path]
  /\ worker' = NoWorker
  /\ promise' = [on |-> Settled, pool |-> cmd.pool, path |-> cmd.path, seen |-> cmd.seen]
  /\ cmd' = NoInstall
  /\ UNCHANGED <<disk, where, run, chosen, bounds>>

\* Writing the definition or any of the manager's calls after it may fail,
\* with the old worker gone or not.
InstallServiceFails ==
  /\ cmd.step = "saved"
  /\ cmd' = NoInstall
  /\ \E replaced \in BOOLEAN : \E stopped \in {FALSE, replaced} :
       /\ unit' = [state |-> IF unit.state = "none" /\ ~replaced THEN "none"
                             ELSE IF stopped \/ unit.state = "none" THEN "stopped"
                             ELSE unit.state,
                   path |-> IF replaced THEN cmd.path ELSE unit.path]
       /\ worker' = IF stopped THEN NoWorker ELSE worker
  /\ UNCHANGED <<disk, where, run, promise, chosen, bounds>>

(***************************************************************************)
(* The service's worker, and the service's other commands.                 *)
(***************************************************************************)
WorkerStart ==
  LET pool == ServicePool(where, disk, unit.path)
  IN  /\ unit.state = "started" /\ ~worker.on
      /\ disk.auth
      /\ pool # <<>>
      /\ worker' = [on |-> TRUE, config |-> disk, fresh |-> TRUE, pool |-> pool,
                    seen |-> where]
      /\ UNCHANGED <<disk, where, cmd, unit, run, promise, chosen, bounds>>

\* Its token refresh saves the configuration it has loaded.
WorkerSave ==
  /\ worker.on
  /\ SaveConfig(worker.config, worker.fresh)
  /\ run' = IF worker.fresh THEN run ELSE Overtaken(run)
  /\ UNCHANGED <<where, cmd, unit, worker, bounds>>

WorkerEnds ==
  /\ worker.on
  /\ worker' = NoWorker
  /\ UNCHANGED <<disk, where, cmd, unit, run, promise, chosen, bounds>>

\* daemon stop, start and uninstall; a start captures nothing.
Manage(state) ==
  /\ cmd.step = "idle"
  /\ unit.state # "none" /\ state # unit.state
  /\ unit' = [unit EXCEPT !.state = state]
  /\ worker' = NoWorker
  /\ promise' = IF state = "none" THEN NoPromise ELSE promise
  /\ UNCHANGED <<disk, where, cmd, run, chosen, bounds>>

(***************************************************************************)
(* A foreground run, which logs in when it has to, and `auth login`, which *)
(* does nothing else: its flags are None.                                  *)
(***************************************************************************)
RunningWith(config, fresh) ==
  [step |-> "run", config |-> config, fresh |-> fresh, flags |-> NoFlags, path |-> {}]

RunBegin(o, path) ==
  LET config == IF o = None THEN disk ELSE [disk EXCEPT !.url = PickURL(o.url, @)]
  IN  /\ run.step = "none"
      /\ bounds.runs < MaxRuns
      /\ o # None => ValidFlags(o)
      /\ \/ /\ o = None \/ ~disk.auth
            /\ run' = [step |-> "login", config |-> config, fresh |-> TRUE,
                       flags |-> o, path |-> path]
         \/ /\ o # None /\ disk.auth
            /\ RunPool(where, config, o, path) # <<>>
            /\ run' = RunningWith(config, TRUE)
      /\ bounds' = [bounds EXCEPT !.runs = @ + 1]
      /\ UNCHANGED <<disk, where, cmd, unit, worker, promise, chosen>>

RunLogsIn ==
  LET config == [run.config EXCEPT !.auth = TRUE]
      goesOn == run.flags # None /\ RunPool(where, config, run.flags, run.path) # <<>>
  IN  /\ run.step = "login"
      /\ SaveConfig(config, run.fresh)
      /\ run' = IF goesOn THEN RunningWith(config, run.fresh) ELSE NoRun
      /\ worker' = IF run.fresh THEN worker ELSE Overtaken(worker)
      /\ UNCHANGED <<where, cmd, unit, bounds>>

RunSave ==
  /\ run.step = "run"
  /\ SaveConfig(run.config, run.fresh)
  /\ worker' = IF run.fresh THEN worker ELSE Overtaken(worker)
  /\ UNCHANGED <<where, cmd, unit, run, bounds>>

RunEnds ==
  /\ run.step # "none"
  /\ run' = NoRun
  /\ UNCHANGED <<disk, where, cmd, unit, worker, promise, chosen, bounds>>

(***************************************************************************)
(* The machine: an agent is installed, moved or removed.                   *)
(***************************************************************************)
Move(a, place) ==
  /\ bounds.moves < MaxMoves
  /\ place # where[a]
  /\ where' = [where EXCEPT ![a] = place]
  /\ bounds' = [bounds EXCEPT !.moves = @ + 1]
  /\ UNCHANGED <<disk, cmd, unit, worker, run, promise, chosen>>

SetupNext ==
  \/ \E o \in Options, path \in Shells : InstallBegin(o, path)
  \/ InstallRefresh \/ InstallFails \/ InstallSave \/ InstallService \/ InstallServiceFails
  \/ WorkerStart \/ WorkerSave \/ WorkerEnds
  \/ \E state \in {"none", "stopped", "started"} : Manage(state)
  \/ \E o \in Options \union {None}, path \in Shells : RunBegin(o, path)
  \/ RunLogsIn \/ RunSave \/ RunEnds
  \/ \E a \in Agents, place \in Places : Move(a, place)

SetupSpec == SetupInit /\ [][SetupNext]_setupVars

(***************************************************************************)
(* What `sah` tells the user: the stage, the next commands when the server *)
(* suggests none, and `daemon status`.                                     *)
(***************************************************************************)
DetectedAgents(path) == { a \in Agents : where[a] \in path }

\* As it would be if the stage did not look for agents.
StageWithoutAgents(path) ==
  IF ~disk.auth THEN "signed_out"
  ELSE IF unit.state = "started" THEN "daemon_running"
  ELSE IF unit.state = "stopped" THEN "daemon_stopped"
  ELSE "ready_to_run"

Stage(path) ==
  IF ~disk.auth THEN "signed_out"
  ELSE IF unit.state = "started" THEN "daemon_running"
  ELSE IF unit.state = "stopped" THEN "daemon_stopped"
  ELSE IF disk.backend = "llm" /\ disk.llm = LLMSettings THEN "ready_to_run"
  ELSE IF DetectedAgents(path) = {} THEN "needs_agent"
  ELSE "ready_to_run"

StageSuggestions(path) ==
  CASE Stage(path) = "signed_out"     -> <<"auth login", "agents", "version">>
    [] Stage(path) = "needs_agent"    -> <<"agents", "me", "run">>
    [] Stage(path) = "ready_to_run"   -> <<"daemon install", "run", "me">>
    [] Stage(path) = "daemon_stopped" -> <<"daemon start", "daemon status", "contributions">>
    [] Stage(path) = "daemon_running" -> <<"contributions", "me", "daemon status">>

\* The codes of the errors that a command may have ended with, the empty one
\* for none and for any other error.
LastErrors == {"", "not_authenticated", "no_supported_agent", "worker_contract"}

\* Where there is a service manager, as everywhere in this module.
FallbackSuggestions(path, error) ==
  IF error = "not_authenticated" THEN <<"auth login", "auth status", "agents">>
  ELSE IF error = "no_supported_agent" THEN <<"agents", "auth status", "run">>
  ELSE StageSuggestions(path)

\* As it would be if the status knew of no pools.
DescribeAgentModeNoPool(c) ==
  IF c.backend = "llm" THEN <<LLM>>
  ELSE IF c.rotate THEN <<"all installed agents">>
  ELSE <<c.agent>>

DescribeAgentMode(c) ==
  IF c.backend = "llm" THEN <<LLM>>
  ELSE IF c.rotate THEN <<"all installed agents">>
  ELSE IF c.pool # <<>> THEN c.pool
  ELSE <<c.agent>>

(***************************************************************************)
(* Properties.                                                             *)
(***************************************************************************)
\* The service's worker resolves its agents in another environment than the
\* install that printed them, from the paths and the PATH that were captured;
\* as long as no process has put older settings back and the agents are where
\* they were, it works with those that were printed, in that order, and so
\* does a run in the shell of the install (daemonInstallCmd, ResolveAgentPool).
ReportHolds ==
  promise.on =>
    /\ worker.on /\ worker.seen = promise.seen => worker.pool = promise.pool
    /\ where = promise.seen => RunPool(where, disk, NoFlags, promise.path) = promise.pool

\* A selection that was asked for and saved stays the file's selection through
\* installs without one, changes of the backend and runs with other flags,
\* until another is asked for; not meant is a pinned default agent without a
\* model, which cannot be told from no choice (applyDaemonAgentSelection). The
\* documentation says otherwise of installs: see InstallRotates.
ChoiceLasts == chosen # NoChoice => Selection(disk) = chosen

\* docs/build.md 42 and docs/architecture.md 97: an install without --agent,
\* --agents and --rotate-installed persists the rotation of all that are
\* installed. It does not hold: the code keeps an earlier selection (main.go 890).
InstallRotates ==
  cmd.step = "saved" /\ cmd.asked = NoChoice /\ cmd.config.backend = "agent" =>
    cmd.config.rotate

\* When the agents that the file names are on the PATH, `daemon install` is
\* accepted wherever it is suggested: as the first command after any command,
\* failed or not, and in the error of a run that finds a captured path gone
\* (fallbackSuggestions, resolveAgentBinaryPath).
WantedAgents ==
  IF disk.backend = "llm" \/ disk.rotate \/ AutoRotates(disk) THEN {}
  ELSE IF disk.pool # <<>> THEN ToSet(disk.pool)
  ELSE {disk.agent}

AdviceWorks ==
  \A path \in Shells :
    /\ disk.auth /\ WantedAgents \subseteq DetectedAgents(path)
    /\ (\E error \in LastErrors : FallbackSuggestions(path, error)[1] = "daemon install")
         \/ (DetectedAgents(path) # {} /\ RunPool(where, disk, NoFlags, path) = <<>>)
    => AcceptsInstall(where, disk, NoFlags, path)

\* `daemon status` describes the agents from the file, with an order of
\* precedence of its own; it names those that the worker takes turns with
\* (DescribeAgentMode against ResolveAgentPool).
StatusTells ==
  promise.on /\ worker.on =>
    DescribeAgentMode(disk) \in {<<"all installed agents">>, worker.pool}

\* docs/build.md 42: an install that reports success has persisted its settings.
\* It does not hold: a process that loaded the file before, like the worker that
\* is about to be replaced, may save its own in between (client.go 118).
InstallSticks == [][InstallService => Settled]_setupVars

=============================================================================
