# A TLA+ model of sah-cli

`sah` is the command line client of SCIENCE@home. It claims assignments from a
server, has them solved by a local agent CLI or an LLM endpoint, submits what
comes out, and can do so as a background service. This directory holds TLA+
specifications of it, the TLC runs that check them on small instances, and
proofs, checked by TLAPS, that hold for instances of every size. Paths below are
relative to `src/internal/sah/` unless they say otherwise.

## The system

| Part | State it keeps | Operations | Talks to |
| --- | --- | --- | --- |
| Worker loop (`worker.go`) | the assignment in hand, the cycle's result and error | `RunWorker`, `runWorkerCycle`, `releaseAssignmentOnFailure`, `handleWorkerCycleError` | API client, solver, picker and backoff |
| Agent rotation and cooldown (`agent_selection.go`, `backoff.go`) | pool, round-robin index; per agent failures and `readyAt` | `Next`, `SelectReadyAgent`, `RecordFailure`, `RecordSuccess` | the worker loop |
| API client (`client.go`, `models.go`) | tokens, API key, expiry | claim, submit, release, reads; refresh and fallback | the server, the configuration file |
| Solvers (`runner.go`, `llm_runner.go`, `prompt.go`) | a child process or one HTTP call | `SolveAssignment` | the worker |
| Device login (`auth.go`) | device code, interval, deadline | `Login`, `awaitDeviceAuthorization` | the server, the user |
| Configuration (`config.go`) | one JSON file | `LoadConfig`, `SaveConfig`, `normalizeConfig` | every process of the user |
| HTTP transport (`http_client.go`, `http_cache.go`) | the redirect chain, a disk cache | `followRedirects` | the server |
| Worker contract, releases (`contract.go`, `release.go`) | none | contract and version checks | the command line, the worker |
| Services (`service.go`, `launchd.go`, `systemd.go`) | unit or plist file; the manager's state | install, start, stop, uninstall, status | launchd, systemd, which restart the worker |
| Daemon logs (`daemon_logs.go`) | current file, numbered backups | `Write`, `rotate`, `Close` | the worker's output |
| Command line (`../../cmd/sah/main.go`, `discovery.go`) | none | dispatch, authentication, printing | everything |

Within a process almost everything is sequential. What is hard about this code
happens between it and what is around it: the answer to a request is lost after
the server has acted on it; a signal arrives in the middle of a cycle, and the
cleanup has to survive the cancellation that made it necessary; the error of a
solver, of the server and of the client's own token refresh travel the same
channel and decide differently about the agent, the cycle and the process; time
passes in one agent's cooldown while another one works; a second process of the
same user changes the configuration or uses up the refresh token; the service
manager starts again what has just given up. `PROJECT.json` lists these hazards
at their lines, with the properties that cover them.

What makes each part correct:

* **Worker**: an assignment is never forgotten while it is open; a result is
  accepted at most once under one key; a cycle's error stops the process only
  for a reason the user is told truthfully; a signal stops it.
* **Rotation and cooldown**: the cooldown doubles up to its cap and is honoured;
  nothing but time ends it; every agent gets its turn; a waiting worker wakes up
  in time.
* **Credentials and configuration**: a stored login is lost only by a logout or a
  refusal of the server; while nothing else interferes the stored refresh token
  is the one the server accepts; a request is given up only when every credential
  has been tried; what one process saved is not undone by another.
* **Device login**: it ends with tokens exactly if the user approved in time, and
  never polls faster than it was told.
* **Solvers**: a payload comes from the whole output of a solver that succeeded;
  a solver that is out of time is given up.
* **Agent selection and installation**: what an install reports, and what the
  user is told, is what the worker does; what was chosen stays chosen.
* **The configuration file** is one whole configuration at every moment, whoever
  saves, fails or dies.
* **Transport**: a redirected submission keeps its method and its body.
* **Contract and versions**: a worker that the server no longer supports stops.
* **Services and logs**: a command leaves the service in the state it names; a
  worker that has given up for good does not come back; rotation keeps the most
  recent output.

## Modules

| Module | Models |
| --- | --- |
| `AgentBackoff` | the picker and the cooldown: a sub-model with its own variables, and one operator per method, that the worker's actions call |
| `Worker` (extends `AgentBackoff`) | one `sah run` process and the server's assignment table |
| `AssignmentCare` | the promise of the worker in five actions, without any of its machinery |
| `MCWorker` | instances of `Worker` for TLC |
| `WorkerProofs` | theorems about `Worker` and its cooldowns |
| `Credentials` | the processes of one user, the configuration file they share and the server's tokens |
| `MCCredentials` | instances of `Credentials` for TLC |
| `CredentialsProofs` | theorems about `Credentials` and `DeviceLogin` |
| `Daemon` | the daemon commands, the service manager and the worker it keeps alive |
| `MCDaemon` | instances of `Daemon` for TLC |
| `DaemonProofs` | theorems about `Daemon` |
| `RotatingLog` | a daemon log, its backups and the writer that rotates them |
| `LogProofs` | theorems about `RotatingLog` |
| `DeviceLogin` | one device login: the client, the server's code and the user |
| `Setup` | the user's choice of agents on its way from flags through the file to the workers |
| `MCSetup` | instances of `Setup` for TLC |
| `SetupProofs` | theorems about `Setup` |
| `ConfigStore` | the promise of the configuration file: a register |
| `ConfigFile` | saves and loads of the configuration file, call by call |
| `StoreProofs` | theorems about `ConfigFile` |
| `Solver` | one assignment given to an agent CLI or an LLM endpoint |
| `SolverProofs` | theorems about `Solver` |
| `MCSolver` | instances of `Solver` for TLC |
| `RecursionFacts` | lemmas by induction about recursive functions and folds, for the other proofs |
| `MCParts` | `RotatingLog`, `DeviceLogin`, `Setup`, `ConfigFile` and `Solver` in one run |

The modules meet where one stands for another: a solver is one step of `Worker`
with the outcomes that `Solver` computes; a save or a load of the file is one step
of `Credentials` and `Setup`, which `ConfigFile` shows it to be; the worker of
`Daemon` and of `Setup` is `Worker` seen from outside; what a device login brings
is saved by `FinishLogin` of `Credentials`.

### Worker

`pc` is where `runContinuousWorker` and `runWorkerCycle` are. A step is one call
of the worker's client or of the solver together with all that the code does
before the next call: `ClaimAssignment(a, f)` is `fetchWorkerAssignment` and
`validateCycleAssignment`, and `f`, the shape of the assignment, says which links
and names the payload has. A request has the outcomes *answered*, *refused* and
*unanswered*; an unanswered one may have been carried out by the server, lost,
or be still on its way (`inflight`), and `SubmissionArrives` delivers it at any
later time. `release` and `settle` are separate steps, so that a signal, an
expiry or a late submission can come between the failure, the release and the
verdict. A `Release` carries no guard on `cancelled`, because the code gives it a
context of its own; it arrives if the server serves it, and `ReleaseFails` is the
one that is lost or turned away, which the code only logs. `err` is the error of the cycle as far as the code tells
errors apart (`IsAuthenticationFailure`, `IsWorkerContractError`, `AgentFailure`,
`context.Canceled`), `Verdict` is `handleWorkerCycleError`.

`server`, `accepted`, `credential` and `contract` are the server's side, which is
not in this repository; it is modelled from how the client reads its answers (204
and 429 for no claim, 401 and 403, the contract conflict, the repeated answer to
a repeated idempotency key, 404 and 409 to a release). `Refusal` is every way in
which a request is turned away. `IsAuthenticationFailure` takes more for a rejected
credential than one that is not good: a 403 for whatever reason, a refusal of the
discovery that precedes a refresh, a 400 that names a refresh token. With `"forbid"`
in `Faults` these happen to a good credential, which the client may discard on the
way. `barred` is a history variable: a claim or a submission has been turned away so.
`ExitSaysWhy` says that the worker then claims nothing any more, and that nothing
else makes it say `stored credential rejected`, unless a solver's error names a
rejected key. That the message is true of the credential is `StoredCredentialRejected`,
which holds only without such errors and without these refusals. `pinned` is a history
variable: the open assignments that no process takes care of, and therefore the only
ones that can stay open until they expire.

Time is what is left of a deadline: `left[a]` for `readyAt`, `timer` for the
timer of `sleepWithContext`. `Tick` lets one unit pass, and only while the
process waits for something; a computation takes no time.

The cooldown is computed in the code by a loop over the failure counter. In the
model `NextDelay` doubles the last delay, so that the counter may saturate at
`MaxFailures`, and the property `CooldownMatchesFailures` compares it with
`LoopDelay`, which is the loop.

Named mutants ("mutant" in the comment before each) stand next to the
definitions they vary. They are used by no specification: each is a plausible
mistake in the definition that follows it, and with it in place TLC finds the
property violated that `PROJECT.json` names.

### AssignmentCare

The worker holds one assignment at a time, takes none that is open or delivered,
lets go of an open one by releasing it or by leaving it pinned, and under
fairness always lets go. `Worker` implements it under `holding <- held`,
`open <- Open` and `delivered <-` the closed assignments.

### Credentials

Every `sah` process loads the configuration file when it starts and keeps what it
has loaded: `config[p]` is that `Config` together with the fields of the `Client`
made from it, which are assigned together. When a process saves, it saves all of
`config[p]`, whatever the file holds by then. A save replaces the file by a
rename and is one step. A token is the number of the server's answer that issued
it; `expiry` is the number of the answer it came with, so that an expiry that
belongs to another token can be told.

One request (`doJSONWithHeaders`) goes through `refresh`, `granted`, `send`,
`discard` and ends in `ready` (answered, or failed for another reason) or
`rejected` (an authentication failure). A step ends where something else can
happen: where the server takes the refresh token (`RefreshGranted`,
`RefreshLost`) and where the file changes (`AdoptTokens`, `DiscardTokens`), so
that a crash or another process can come between the two. `forced`, `grant`,
`had` and `tried` belong to the request at hand; `tried` names the credentials that
were turned away in it, with a 403 the one that was presented. The API key fallback has two
entries, a refused refresh (`RefreshRefused`) and a rejected bearer token
(`FallBack`), and both pass through `DiscardTokens`.

`run` stands for every command that needs credentials, and for the worker; it
may send any number of requests. After a rejection most commands end (`Exit`);
the worker may go on when it was the release that was turned down (`GoOn`).
`sah auth login`, and `sah run` without credentials, wait for the user between
loading and saving; what they save contains none of the old credentials.
`sah auth logout` sends no request and is one step.

The server side (which tokens are accepted, whether a refresh token is good for
one use) is not in this repository. `excused` is a history variable: one of the
accidents that no client can avoid has cost the stored refresh token its
validity. These are an answer that was lost, a save that failed and a crash
before the save, with a server that rotates refresh tokens, and a revocation.

The settings in the same file are `Setup`'s.

### Daemon

`op` is the command of `sah daemon` at hand and `pc` the call of `launchctl` or
`systemctl` that it makes next; a step is one such call with what the code does
around it, so that the manager, the worker, a fault or the end of the session can
come between any two. Both managers are in one module, because the commands are
the same ones: the switch of `service.go` is the `IF manager = ...` of the four
`Begin` actions. A definition is what an install writes into the plist or the
unit (executable and environment): `file` is the one on disk, `known` the one
the manager has read, `runs` the one the worker was started from. The checks
before the first call belong to the `Begin` actions; a command that is refused
there changes nothing and is no step. The definition is written in the same step
as the checks; a write that fails is a refused command, except that it may leave
a truncated file, which is not modelled. One command runs at a time, and may be
killed at any call (`Interrupt`).

launchd, systemd, the user's session, the server and the package manager are not
in this repository. What is assumed of them: `bootout` returns before the service
has gone, `bootstrap` fails with error 5 while it is there, `kickstart -k` replaces
the process, `systemctl stop` waits for it, systemd reads a unit it knows only
again at `daemon-reload`, and a kept-alive service is started again whenever its
process ends (`Restart=always`, `KeepAlive` in the files the code writes). Of the
worker there is left what decides when it ends: at the start the contract check
and the presence of a credential, later the contract conflict and the rejected
credential (`Worker` has the rest). `gaveUp` is a history variable: a worker has
ended because of the contract, and since then the binary has not been upgraded
and no command has been run. A release route that fails (`"release"` in `Faults`)
lets the contract check pass unseen, as `enforceSupportedWorkerContract` does,
which makes the worker `blind`.

Two exceptions in the properties are behaviour of the code to know of. A start
while launchd is still unloading the service fails, and the service stays out,
because `StartService` takes it for loaded (`service.go:87`). And `sah daemon
uninstall` ignores a refused `bootout` and reports the removal of a service that
goes on (`launchd.go:233`), which is why `ReportsAreTrue` exempts `stuck`.

### RotatingLog

`files[0]` is the current file and `files[i]` its i-th backup, each with the
numbers of the lines it holds some part of and its size. A step is one call of
the file system (open, close, remove, rename, write), successful or not, so that
a crash can come between any two; `pc` is the next one, and `hitch` says that one
of the calls for the line at hand has failed. `Write` tests the size as the code
does, with what the writer takes for it (`size`) and not with what is on disk.
`keep` is the `maxBackups` that the writer was opened with: the daemon uses five,
the code also has a branch for none. `moved` and `torn` count the rotations that
got through their renames and those that broke off among them.

`file = "broken"` is a file that could not be closed: `rotate` returns before it
sets `writer.file` to nil, and from then on every write goes to a closed file or
tries to close it again, and fails, until the process ends. `WritesRecover` names
it as the one failure that the writer does not get over. The two logs of a
process (stdout and stderr) have files of their own, so one is modelled.

### DeviceLogin

`Login` asks for a code (`starting`) and `awaitDeviceAuthorization` then goes
through its loop: `checking` is the test of the deadline, `polling` the request
for tokens, `asleep` the pause. One action is one answer of the server with what
the loop does about it: `Pending`, `SlowDown`, `AccessDenied`, `ExpiredToken`,
`Granted`, and `Fails` for everything else (no answer, an unknown error, an
answer without a token). `Cancel` is the signal. The server's side is its view of
the code (`code`, `expiry`), the user's decision, and when it next wants to be
polled (`welcome`, `pace`); the client's side is `interval` and `deadline`, which
it computes from what the answer named (`named`). The two clocks run at the same
speed, but the client's deadline starts later, with the answer. `Tick` lets time
pass during a request or a pause; `waited` is the age of the request, which
covers everything that one poll may take (metadata, the POST, which is never
repeated after a `Retry-After`). A grant whose answer is lost is part of `Fails`.

The first poll follows the code at once; `NeverTooFast` is about the pause
between two polls. `ApprovalCounts` says how early is early enough: one interval
and one request before the code expires. What happens to the tokens is
`FinishLogin` of `Credentials`.

### Setup

`InstallConfig`, `InstallPool` and `AcceptsInstall` are the pure part of `sah
daemon install`, `RunPool` of `sah run`, and `ServicePool` of the `sah run` that
the service starts; all of them end in `ResolvePool`, which is
`ResolveAgentPool`, with other flags, captured paths and PATHs. The empty pool
stands for every error of the resolution. A `machine` says in which directory
each agent is installed, a `path` which directories are searched. The operators
take the machine as an argument, so that a property may ask what they say of
an earlier one.

An install is `InstallBegin` (options, the first resolution, the configuration in
memory), `InstallRefresh` (the check of the login, which may renew the tokens and
then saves the whole configuration, new settings included), `InstallSave` and
`InstallService`. It may fail in between, before or after the old service is
gone. The worker and a foreground run keep the configuration that they have
loaded and save all of it at every token refresh (`WorkerSave`, `RunSave`,
`RunLogsIn`). A base URL given to a run gets into its configuration and so into
the file; that is how the code is. `Move` changes the machine.

`fresh`, `promise` and `chosen` are history variables. A process is `fresh` if
nobody has written other settings since it loaded the file; `promise` is what the
last install reported, and `chosen` what the user last asked for, both until
somebody who is not fresh saves. How that happens is the run `setup_stale_save`.

`Stage`, `StageSuggestions`, `FallbackSuggestions` and `DescribeAgentMode` are what
`sah` and `sah daemon status` tell the user; `AdviceWorks` and `StatusTells` compare
it with what the commands do. The suggestions depend on the error of the command
before them (`LastErrors`). A platform without a service manager, on which an install
is never suggested, is left out.

The documentation has every install without `--agent`, `--agents` and
`--rotate-installed` rotate all that are installed. The code does so only when the
file says nothing of agents yet; `ChoiceLasts` states what it does,
`InstallRotates` what is documented, and the run `setup_reinstall` violates it.

### ConfigFile and ConfigStore

`ConfigFile` is `SaveConfig` and `LoadConfig`, one system call a step. Files have
numbers, names lead to files: a rename lets the name of the configuration lead to
another file, and a load goes on reading the file that it has opened. A write
that fails leaves some bytes (`Torn`). `Die` ends a process between any two calls.
`ConfigStore` is a register with saves that take effect in one step or fail;
`ConfigFile` implements it with the content of the named file for the register.
That a saved file survives a loss of power is not promised: nothing is flushed
before the rename (`config.go:225`).

### Solver

The child, the processes that it starts (`helper`), the lines in the pipe, the
end of the context and the kill are actions; what the code makes of the output is
an operator for each function: the folds over the lines in the three dialects,
`KeptLines` and `Truncated` for the bounded buffer, `AgentOutcome` for the order of
the checks in `executeAgent`, `LLMOutcome` for the endpoint, and
`ParseAgentPayload`, which looks for an abort, a fenced block and a JSON object.
The property `AnswerIsTheAgents` says it without folds: which messages an agent has
answered with (`MessageTexts`), or the result that stands in for them, and what is
read from a text (`ReadFrom`).
A text is a sequence of pieces of five forms. The buffer counts lines where the
code counts bytes. A child that exits as the time runs out may count as cancelled
or not, as in the code.

### MCParts

The five parts share no variable, and TLC goes through them in one run: the
initial state picks the `part` that moves, and the others stay at one state of
their own. It is not a composition, and no property of the run is about two parts.
`PartsFairness` is `SolverFairness`, restated for the solver that moves.

## Runs

| Run | Instance | Shows |
| --- | --- | --- |
| `worker_faults` | one agent or the LLM, continuous or once, two assignments in all six shapes, two payloads, every fault of the server and the network | no open assignment is forgotten, a refusal is final, the process stops for a reason, and the worker implements `AssignmentCare` |
| `worker_local` | pools of two and three agents and the LLM, continuous or once, two assignments in the shapes that can be released, solvers that fail, abort or succeed, expiry and signals, no request lost or forbidden, cap 3 over base 1 | cooldowns are doubled, capped, honoured and run out; no agent starves; the worker turns away from no open assignment that it knows of; a signal stops the process; what is held is let go of |
| `worker_key_message` (violated) | an agent whose error names a rejected key | the worker stops and blames the stored credential |
| `worker_uid_only` (violated) | an assignment with a uid and no links | it stays open after a local failure |
| `credentials_one_by_one` | one process at a time, every command, every kind of stored credential, rotating and lasting refresh tokens, every fault | a login is not lost and works, a logout sticks, no credential is left untried, no token is refreshed without need |
| `credentials_logout` (violated) | a logout next to a running worker, no fault | the worker's next refresh brings the credentials back |
| `credentials_two_workers` (violated) | two processes with one single-use refresh token, no fault | the second refresh is refused although the file holds a good token |
| `daemon_commands` | both managers, two definitions, every command in any order, every fault, one contract change | what a command reports is true, none fails because of an earlier one, a restarted worker that cannot work is silent, one that can recovers by itself, a stop is final |
| `daemon_contract_loop` (violated) | both managers, no fault | a worker that gave up for the contract is started again |
| `parts`, the log | five lines of two sizes, one longer than a file, zero to three backups, every fault and crash | backups stay in order, the oldest lines go first, files keep within their limit, a broken rotation costs one backup, the next write recovers |
| `parts`, the login | one login, codes of two lifetimes, three intervals (one left out by the server), a decision at any time or none, any answer at any poll | the outcome is the decision, the server's pace is kept, an approval in time counts, the command ends |
| `parts`, the setup | two installs with six sets of flags from two shells, a run or login, one move, two agents in two directories | what an install reports is what the worker does, a choice lasts, suggested commands are accepted, the status tells the truth |
| `parts`, the file | two processes, two configurations, three files, every failure and death | the file is a register, and no temporary file is left behind without a reason |
| `parts`, the solver | four agents and the endpoint, three lines of eleven kinds, a buffer of two | a payload comes from a whole output and is the agent's answer; a call ends with its context |
| `setup_stale_save` (violated) | the same setup, installs without flags about agents | an install reports success after another process has put the old settings back |
| `setup_reinstall` (violated) | the same setup, installs with and without flags | an install without flags keeps the selection of an earlier one and does not rotate |

Bounds. Two assignments and an open limit of two let one be pinned or in flight
while the other is worked on, and the limit be reached; two payloads let a
submission of an earlier cycle differ from the present one. One second sending
per submission is enough to meet the key twice, and `inflight` carries a third
across cycles. In `worker_local`, `MaxBackoff = 3` over `Interval = 1` gives the
delays 1, 2, 3, so that the cap falls between two doublings (2 and 4);
`MaxFailures = 3` is the first counter at the cap, and a larger one has the same delay. Three agents let two
cool down at different rates while the third works.

In the runs of `Credentials` the server gives `MaxTokens` answers with tokens. A
request begins only while two are left to it, one for each refresh it may need,
so that the bound never cuts a request short. Four answers, the stored login
being the first, let a request refresh twice, or two requests refresh in turn,
or a login follow a refresh. Two processes share five. Every fault may happen at
any time and any number of times.

In the runs of `Daemon` two definitions are enough to tell the file, the manager
and the worker apart, two attempts to bootstrap are one retry and one end of the
retries (the code makes five), and one change of the contract is followed by an
upgrade or not. Commands, faults and sessions may come any number of times.

Of the log, a file takes three bytes and a line has one or four, so that a line
fits, does not fit any more, or is too long for any file. Five lines are enough
for the oldest backup to be pruned, also after a rotation that broke off.

Of the login, the long code lives for several polls, with room for two slow-downs,
and the short one expires during the first pause or soon after it; requests that
take up to two units make the client's deadline, the server's expiry and the
decision come in every order.

Of the setup, two installs let the second undo, keep or collide with the first,
and one run is enough to be overtaken by an install or to overtake it; the worker
may start, save and end any number of times. One agent is found by both shells
and the other by one of them; a move makes either lie elsewhere or be gone.

Of the file, three files let one save fail or be overtaken by a second and a third
while a load holds on to the first. Of the solver, three lines with a buffer of
two are one more than the buffer takes, and the fewest in which a message comes
before and after another.

`Credentials` states no fairness, because none of its properties needs it. In
`Daemon` the manager restarts what it keeps alive, and unloads what was booted
out; and a worker makes its checks at the start, and ends once the server turns
it down. Commands, upgrades and logins are not assumed to come. For
`Worker` fairness is weak fairness of the process as a whole and of time. The process is
one thread that is never without a next step, and every call it makes returns:
an HTTP request after the client's timeout of 45 seconds, a release after 10, a
solver after its own timeout. (The last is the code's intention; `executeAgent`
may wait longer for a process that the agent has left behind, which is the
exception in `SolveEnds` of `Solver`.) No
single action is assumed fair, so that neither a sleep that notices the signal
nor an answer that arrives is taken for granted. In `Solver` the caller's own
steps, the timer and the kill are fair; that an agent ends by itself, that what it
has started ends, or that an endpoint answers, is not assumed. The other parts
state no fairness.

## Proofs

The proofs assume what the modules assume: positive interval, cap, counter bound
and open limit, non-empty pools of agents, and a `None` that is neither an
assignment nor a payload; for the cooldown's length, `CounterAssumption`; for the
setup, that the supported agents are a list and the flags what the parser accepts.

* `TypeCorrect`: the type invariant. It is inductive together with `CycleOK`: an
  assignment is in hand exactly between claim and release, and a payload from
  the solution on. Without it the release could be applied to `None`.
* `NothingForgotten`: `NothingLeftOpen` is inductive on top of these two.
* `KeepsItsPromise`: `Spec => CareSpec`, the refinement. Each action is mapped to
  an abstract one or to a stutter. It needs `LedgerOK`: a recorded submission has
  closed its assignment for good, which is why answering a repeated key changes
  nothing, and the one in hand is never pinned.
* `RefusalIsFinal`: `RefusedIsUnrecorded` alone is not inductive, because a
  submission that is still on its way might be recorded after the refusal.
  `RefusedOK` adds that the refused assignment is not open, and nobody can open
  it while it is in hand.
* `OnlyReadyAgentsWork`, `CooldownsRunOut`: from `RestedOK`, which adds that an
  agent without failures has nothing to wait for; the action property follows
  because a cooldown is written only when it has run out.
* `WakesInTime`: a minimum is preserved when the timer and all cooldowns lose one
  unit, because `Pass` is monotone.
* `ExitsForItsReason` (`ExitSaysWhy`), if no solver's error reads like a rejected
  key: by `ErrOK`, an error that ends the loop tells what has happened. The one about
  the credential is there exactly when a claim or a submission was turned away as
  unauthenticated (`TurnedAwayTells`), and this and the one about the contract are the
  last of their process. The violated run `worker_key_message` shows what the
  assumption is for.
* `RejectionsAreReal` (`StoredCredentialRejected`) adds the assumption that the server
  turns requests away only over a credential that is not good: a credential that was
  once turned away then stays so. Without it the property fails by a 403.
* `CooldownsHaveTheirLength` (`CooldownMatchesFailures`): `LoopDelayUnfolds` says that
  the loop's function obeys its equation at every counter, by `Recursion`; so a
  doubling step sets what the loop computes for one failure more (`NextLength`), and
  at the saturated counter nothing changes. This last case rests on
  `CounterAssumption`: the bound `MaxFailures` is large enough for the delay to have
  reached its cap. It is a condition on the bound, which the code does not have.
* `HandsOpenOnesBack` (`NeverTurnsFromOpen`), without lost answers, forbidden requests,
  revoked keys and contract changes, and for assignments that can be released: by `ServedOK`, a call
  of the cycle that is turned down has left no open assignment behind.

For `Credentials` (the assumptions name the ranges of the constants, no more):

* `RefreshesAreNeeded` and `RejectionsAreThorough` hold for any number of
  processes, because they concern what one process has in memory. The first needs
  `ExpiryOK`: in a configuration the expiry belongs to the access token, unless
  the server left out the lifetime. The second needs `RequestOK`: what the request
  began with, login or key, is still in memory or was itself turned away.
* `AloneLoginWorks`, `AloneLogoutSticks` and `AloneKeepsLogin` assume `Alone`: no
  two processes run at the same time. (They are stated for a set of processes
  with one element, which may start and end any number of times.) Both violated
  runs show that the assumption is needed. The invariant is `FileOK`: the refresh
  token in memory is the one in the file, was cleared, or has succeeded one that
  is dead (`MemoryOf`); tokens that were granted and not saved are the ones the
  server accepts (`GrantOf`); and a process that is about to discard has a reason
  (`DiscardOf`). `KnownOK` says that nobody holds a token that was not issued, so
  that a new one is new.

For `Daemon` (the assumption names the ranges of the constants): the invariant of
`ReportsHold` is inductive together with `StepOK` (which command and which
manager a call belongs to), `ManagerOK` (a service that is on has a definition,
and neither manager is in a state that only the other one has) and `ProgressOK`
(what the calls made so far have achieved, such as that an install that is about
to restart the unit has the manager know the file).
`FailuresHaveReasons` follows from the same invariant, step by step. `ContractOK`
says that a supported binary supports every worker started from it, and that a
worker that gave up has an installed binary behind the contract, from which
`GivingUpIsSilent` follows.

For `RotatingLog`: `RotationForgetsOldest` and `FilesStayWithinLimit` need to know
that a file which is about to be replaced by a rename is not there, and that the
size the writer has in mind is the true one whenever a file is open (`WriterOK`);
that a file without bytes holds no line, and that there are no backups beyond
`keep` (`FilesOK`); and that the line at hand is newer than everything on disk
(`LinesOK`). `FailuresAreTheirOwn` goes through the actions one by one.
`RotationKeepsBackups` counts the gaps below each backup: there are at most as many
as rotations that broke off (`GapsOK`), and one more below those that a rotation has
moved already. So the backup that is removed has enough others below it
(`CountOK`). A rename moves a gap down and changes no count; the last one fills the
gap it has made.

For `DeviceLogin` (in `CredentialsProofs`; the two modules share no name): the invariant relates the two sides. `StartOK`
says that the client's interval is the server's pace and its deadline is not
before the server's expiry; `PaceOK` and `TimeOK` add what is left of the pause
(or the age of the request) to the clock, so that `NeverTooFast` and `EndsInTime`
become inductive; `PromptOK` bounds the time since the approval in the same way,
which gives `ApprovalCounts`.

For `ConfigFile` (`StoreProofs`; any processes, values and number of files): a
process has a temporary file exactly while it saves (`CallOK`), every number in
use belongs to a file that was made (`MadeOK`), and nobody else has the temporary
file of a save, neither under the configuration's name nor opened by a load
(`OwnOK`). So a write changes no content that the register shows, and
`ConfigImplementsStore` maps the rename to the register's commit and every other
call to a step of the process or a stutter. `TempsAreSwept` follows from the same
invariant.

For `Setup` (`SetupProofs`; any agents, machines, PATHs, flags and numbers of
commands): `RunPoolIsServicePool` and `InstallPoolIsServicePool` say that the
three ways to resolve the pool agree on settings that an install has accepted,
and `SettingsDecide` that login and base URL do not matter. The invariant says
that a fresh process has the settings of the file (`WorkerOK`, `RunOK`), that an
install carries the pool of its own settings (`InstallOK`), and that the last
report is what the settings in the file still say (`PromiseOK`). `ReportIsTrue`
follows. The second invariant, `ChoiceInv`, is inductive on top of the first:

* `NormalOK`: every configuration in memory names supported agents, none of them
  twice in its pool. `NormalizedIs`, by induction over the list, says what the fold
  of `Normalized` leaves of any list and that it changes no list without repetitions.
* `ChoiceOK`: the file says what was chosen, and so does an install under way that
  asks for nothing; one that asks for something says that. `AskedSays` and
  `UnaskedSays` are the two halves of `applyDaemonAgentSelection`; the second needs
  that a chosen default agent has a model beside it, because the install would take
  it for no choice otherwise. `ChoiceStays` follows.
* `StatusOK`: while a promise holds, the worker has the pool of the settings in the
  file. `StatusIsTrue` follows because a pool that is saved is normalized already.

`AdviceIsTrue` needs of the two invariants that the settings in the file are sound
and normal: `SuggestedWhenReady` says what a stage has found out when it suggests an
install, `AcceptedWhenDetected` that this is all that an install asks for. It uses
`SomeInstalled`, the induction over the list of supported agents.
`SetupTypeCorrect` is inductive by itself.

For `Solver` (`SolverProofs`; any agents, lines, payloads and buffer): `FoldReads`
turns the fold over the printed lines into the outputs after each of them, and
three inductions say what these are: the texts joined in order (`JoinedTexts`), for
Codex the last one (`LastMessage`), and the first structured result
(`StructuredIsFirst`). `ParseReads` says where `ParseAgentPayload` finds what it
returns. So the outcome that `executeAgent` computes is read as it should be
(`OutcomeIsRead`), and the invariant carries it to the end: an endpoint has no child
(`ChildOK`), and after an answer the caller is done and nobody is left to print
(`SettledOK`). `NothingFromHalfOutput` and `AnswersAreTheAgents` follow.

`RecursionFacts` holds the inductions that all of this rests on. The library's
induction theorem has a predicate for a parameter; `UpTo` has a set instead, the
numbers for which something holds. `Recursion` and `FoldRecursion` build the function
that a recursive definition, or the `CHOOSE` in a fold, speaks of; `Flattened` is
the same for `FlattenSeq`.

Model-checked only: the liveness properties (`NoAgentStarves`, `SignalStops`,
`Recovers`, `StopsWork`, `SolveEnds`, the fair part of `CareFairSpec`), which TLAPS
does not reach. Every other property of the passing runs is the statement of a
theorem. The violated properties are, of course, not theorems of their
specifications; `RejectionsAreReal` says when one of them holds.

## Findings

* An error of a solver that contains "invalid api key" ends the worker as if the
  stored credential had been rejected (`client.go:1044`, `worker.go:164`). A 403 for
  another reason and a refused discovery do the same (`client.go:1027`, 866); there
  the server has at least turned away a request, which is what `ExitSaysWhy` states.
* An assignment known only by its uid, without a release link, is never released
  (`client.go:254`); the 404 counts as success.
* `sah auth logout` next to a running worker does not last: the worker saves the
  credentials it has in memory at its next refresh (`client.go:118`).
* Two processes with one rotating refresh token: the one that comes second does
  not look at the file, is refused, and then clears the file that holds the good
  token of the first (`client.go:905`).
* A worker that ends because the contract has changed is started again every few
  seconds by the service manager until somebody upgrades (`systemd.go:75`), where
  the documentation says that it does not loop. It sends no worker traffic.
* `sah daemon install` saves its settings and then replaces the old service. If the
  old worker, a foreground run or a login saves what it loaded before in between,
  the install reports success and the new worker starts with the old settings
  (`main.go:613`, `client.go:118`).
* `sah daemon install` without flags about agents keeps an earlier pool, default agent
  or model (`main.go:890`), where `docs/build.md:42` and `docs/architecture.md:97` say
  that it detects all that are installed and rotates them.

## Plan

All planned modules but those for redirects, contracts and links, which would hold
pure tables (see below), are done. What could follow: the composition of
`Credentials` and `Setup`, in which a save carries both the tokens and the
settings.

## Not modelled

* Redirects, `Retry-After` and the cache (`http_client.go`, `http_cache.go`):
  whether a redirect keeps method and body is one table over status codes, without
  state; the RFC 9111 cache is a library. That a request may be sent twice, late or
  not at all is in `Worker` and `Credentials`.
* The comparison of versions and capabilities (`contract.go`, `release.go`), the
  rules for single settings (`config.go`), the parsing of Link headers
  (`client.go`), the arguments and prompts of the solvers and the counting of
  tokens (`runner.go`, `prompt.go`, `llm_runner.go`): pure functions without
  state; what they decide is a choice in the models.
* The server's own suggestions and the help (`discovery.go`), texts and layout
  (`ui.go`, `summary.go`), the commands that only show what the server says, the
  JSON codec, installation scripts and release automation.
