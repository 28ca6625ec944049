------------------------------- MODULE Worker -------------------------------
(***************************************************************************)
(* One `sah run` process (internal/sah/worker.go): pick an agent, claim an *)
(* assignment, solve it, submit the result, and release the assignment on  *)
(* every path that does not end in a submission. The client calls it makes *)
(* (internal/sah/client.go) meet a server that is not part of this         *)
(* repository: its assignment table is modelled from how the client reads  *)
(* its answers.                                                            *)
(***************************************************************************)
EXTENDS AgentBackoff, FiniteSets

CONSTANTS
  Assignments,  \* the assignments the server may hand out
  Payloads,     \* what a solver may produce for one
  None,         \* no assignment, or no payload
  LLM,          \* LLMAgentSpec, the only member of the llm backend's pool
  OnceValues,   \* the values of options.Once to start with
  OpenLimit,    \* how many assignments the server lets an account hold open
  Forms,        \* the shapes of an assignment payload the server may send
  Faults        \* what may go wrong outside of the process

\* The shapes a claimed assignment can have, as far as the worker tells them
\* apart: both links present; a uid and no links; a numeric id and no links;
\* links to another origin; another task protocol; no reference or task type.
AllForms == {"linked", "uid_only", "id_only", "foreign_links", "unsupported",
             "malformed"}
AllFaults == {"lose", "delay", "expire", "revoke", "forbid", "contract",
              "signal", "solver", "abort", "key_message"}

ASSUME WorkerAssumption ==
  /\ None \notin Assignments \cup Payloads
  /\ OnceValues \subseteq BOOLEAN
  /\ OpenLimit \in Nat \ {0}
  /\ Forms \subseteq AllForms
  /\ Faults \subseteq AllFaults

VARIABLES
  once,        \* options.Once
  pc,          \* where runContinuousWorker and runWorkerCycle are
  timer,       \* what is left of the timer sleepWithContext waits for
  agent,       \* the agent of this cycle
  held,        \* the assignment of this cycle, None outside of one
  form,        \* the shape of the assignment held
  payload,     \* result.Payload
  resent,      \* the submission was sent a second time
  err,         \* the error of the cycle, "none" for nil
  healthy,     \* WorkerCycleResult.AgentHealthy
  cancelled,   \* ctx is done: SIGINT or SIGTERM arrived
  exit,        \* what RunWorker returned, "running" before
  server,      \* the server's table: a free, open or closed assignment
  accepted,    \* the submissions the server recorded, by idempotency key
  inflight,    \* submissions the client gave up on that may still arrive
  credential,  \* the process has a credential that the server accepts
  contract,    \* the server accepts the worker contract of this client
  barred,      \* a claim or a submission was turned away as unauthenticated
  pinned       \* open assignments the process no longer takes care of

cycleVars == <<agent, held, form, payload, resent, err, healthy>>
serverVars == <<server, accepted, inflight, pinned>>
environmentVars == <<credential, contract, barred, cancelled>>
vars == <<backoffVars, once, pc, timer, cycleVars, serverVars,
          environmentVars, exit>>

Errors == {"none", "canceled", "credential", "contract", "conflict",
           "agent", "agent_names_key", "other"}
Steps == {"select", "cooling", "claim", "solve", "submit", "release", "settle",
          "sleep", "stopped"}

KeyOfAttempt == <<held, payload, resent>>  \* mutant: a new key for every attempt
\* submissionIdempotencyKey: a digest of the assignment's reference and of the
\* payload, the same for every attempt.
Key == <<held, payload>>
Keys == Assignments \X Payloads

TypeOK ==
  /\ BackoffTypeOK
  /\ once \in BOOLEAN
  /\ pc \in Steps
  /\ timer \in 0 .. Max2(Interval, MaxBackoff)
  /\ agent \in Agents
  /\ held \in Assignments \cup {None}
  /\ form \in AllForms
  /\ payload \in Payloads \cup {None}
  /\ resent \in BOOLEAN
  /\ err \in Errors
  /\ healthy \in BOOLEAN
  /\ cancelled \in BOOLEAN
  /\ exit \in {"running", "nil", "credential_rejected", "contract", "error"}
  /\ server \in [Assignments -> {"free", "open", "closed"}]
  /\ accepted \in SUBSET Keys
  /\ inflight \in SUBSET Keys
  /\ credential \in BOOLEAN
  /\ contract \in BOOLEAN
  /\ barred \in BOOLEAN
  /\ pinned \in SUBSET Assignments

\* RunWorker has resolved the pool. With options.Once the first agent of the
\* pool runs without a look at any cooldown.
Init ==
  /\ BackoffInit
  /\ once \in OnceValues
  /\ pc = IF once THEN "claim" ELSE "select"
  /\ timer = 0
  /\ agent = pool[1]
  /\ held = None
  /\ form = "linked"
  /\ payload = None
  /\ resent = FALSE
  /\ err = "none"
  /\ healthy = FALSE
  /\ cancelled = FALSE
  /\ exit = "running"
  /\ server = [a \in Assignments |-> "free"]
  /\ accepted = {}
  /\ inflight = {}
  /\ credential = TRUE
  /\ contract = TRUE
  /\ barred = FALSE
  /\ pinned = {}

-----------------------------------------------------------------------------
(* The server.                                                             *)

Open == {a \in Assignments : server[a] = "open"}

\* The server processes a worker request at all: the credential and the
\* worker contract are checked before the assignment is looked at.
Served == credential /\ contract

\* The errors of a request that is turned away: the credential is not accepted
\* any more; it is, but the contract is not; or the server says 403 for a reason
\* of its own, refuses the discovery that precedes a refresh, or answers with a
\* 400 that names a refresh token. The client takes each of these for a rejected
\* credential, and in some it discards its login.
Refusal(e) ==
  \/ e = "credential" /\ ~ credential /\ UNCHANGED credential
  \/ e = "contract" /\ credential /\ ~ contract /\ UNCHANGED credential
  \/ e = "credential" /\ "forbid" \in Faults /\ credential' \in {credential, FALSE}

\* A claim or a submission is turned away.
TurnedAway(e) == Refusal(e) /\ barred' = (barred \/ e = "credential")

\* A claim over the limit gets 429; with no work to hand out it gets 204.
Grantable(a) == Served /\ server[a] = "free" /\ Cardinality(Open) < OpenLimit

ServerOpens(a) ==
  /\ server' = [server EXCEPT ![a] = "open"]
  /\ UNCHANGED <<accepted, inflight>>

\* A submission whose key is on record is answered like the first time;
\* otherwise the assignment must be open.
Recorded(k) == k \in accepted
Acceptable(k) == Served /\ (Recorded(k) \/ server[k[1]] = "open")

ServerRecords(k) ==
  /\ server' = [server EXCEPT ![k[1]] = "closed"]
  /\ accepted' = accepted \cup {k}
  /\ pinned' = pinned \ {k[1]}

\* A submission is sent and no answer comes back: it was recorded, it was
\* lost on the way, or it is still on the way.
SubmissionUnanswered ==
  \/ /\ Acceptable(Key)
     /\ ServerRecords(Key)
     /\ UNCHANGED inflight
  \/ UNCHANGED serverVars
  \/ /\ "delay" \in Faults
     /\ inflight' = inflight \cup {Key}
     /\ UNCHANGED <<server, accepted, pinned>>

-----------------------------------------------------------------------------
(* The worker loop.                                                        *)

\* waitForReadyAgent finds a ready agent.
SelectAgent ==
  /\ pc = "select"
  /\ \E a \in Agents : SelectReady(a) /\ agent' = a
  /\ pc' = "claim"
  /\ UNCHANGED <<pool, failures, delay, left, once, timer, held, form, payload,
                 resent, err, healthy, serverVars, environmentVars, exit>>

\* waitForReadyAgent finds none and sleeps until the earliest readyAt.
AwaitAgent ==
  /\ pc = "select"
  /\ \E wait \in {left[a] : a \in Pooled} : NoneReady(wait) /\ timer' = wait
  /\ pc' = "cooling"
  /\ UNCHANGED <<backoffVars, once, cycleVars, serverVars, environmentVars, exit>>

\* sleepWithContext, returning when the timer fires ...
Wake ==
  /\ pc \in {"cooling", "sleep"}
  /\ timer = 0
  /\ pc' = "select"
  /\ UNCHANGED <<backoffVars, once, timer, cycleVars, serverVars,
                 environmentVars, exit>>

\* ... or when the context is done, which RunWorker reports as nil.
StopAsleep ==
  /\ pc \in {"cooling", "sleep"}
  /\ cancelled
  /\ pc' = "stopped"
  /\ exit' = "nil"
  /\ UNCHANGED <<backoffVars, once, timer, cycleVars, serverVars, environmentVars>>

\* Ends the part of a cycle that has no assignment to release.
Settle(e, h) ==
  /\ pc' = "settle"
  /\ err' = e
  /\ healthy' = h
  /\ held' = None
  /\ payload' = None
  /\ resent' = FALSE

\* mutant: goes on to the end of the cycle with the assignment still in hand
GiveUpUnreleased(e, h) ==
  /\ pc' = "settle"
  /\ err' = e
  /\ healthy' = h
  /\ UNCHANGED <<agent, held, form, payload, resent>>

\* Goes on to releaseAssignmentOnFailure.
GiveUp(e, h) ==
  /\ pc' = "release"
  /\ err' = e
  /\ healthy' = h
  /\ UNCHANGED <<agent, held, form, payload, resent>>

\* mutant: an assignment of another protocol is dropped without a release
ClaimAssignmentAndDrop(a, f) ==
  /\ pc = "claim"
  /\ ~ cancelled
  /\ Grantable(a)
  /\ ServerOpens(a)
  /\ form' = f
  /\ agent' = agent
  /\ CASE f = "malformed" ->
            Settle("other", FALSE) /\ pinned' = pinned \cup {a}
       [] f = "unsupported" ->
            Settle("contract", FALSE) /\ pinned' = pinned
       [] OTHER ->
            /\ pc' = "solve"
            /\ held' = a
            /\ UNCHANGED <<payload, resent, err, healthy, pinned>>
  /\ UNCHANGED <<backoffVars, once, timer, environmentVars, exit>>

\* fetchWorkerAssignment and validateCycleAssignment, on a claim the server
\* granted and whose answer arrived.
ClaimAssignment(a, f) ==
  /\ pc = "claim"
  /\ ~ cancelled
  /\ Grantable(a)
  /\ ServerOpens(a)
  /\ form' = f
  /\ agent' = agent
  /\ CASE f = "malformed" ->
            /\ Settle("other", FALSE)
            /\ pinned' = pinned \cup {a}
       [] f = "unsupported" ->
            /\ pc' = "release"
            /\ held' = a
            /\ err' = "contract"
            /\ healthy' = FALSE
            /\ UNCHANGED <<payload, resent, pinned>>
       [] OTHER ->
            /\ pc' = "solve"
            /\ held' = a
            /\ UNCHANGED <<payload, resent, err, healthy, pinned>>
  /\ UNCHANGED <<backoffVars, once, timer, environmentVars, exit>>

\* 204 or 429, as the server may have no work to hand out at any time, or a claim
\* that is turned away.
ClaimDeclined ==
  /\ pc = "claim"
  /\ ~ cancelled
  /\ \/ Served /\ Settle("none", FALSE) /\ UNCHANGED <<credential, barred>>
     \/ \E e \in {"credential", "contract"} : TurnedAway(e) /\ Settle(e, FALSE)
  /\ UNCHANGED <<backoffVars, once, timer, agent, form, serverVars, contract,
                 cancelled, exit>>

\* No answer to the claim, whether the server granted it or not.
ClaimUnanswered ==
  /\ pc = "claim"
  /\ cancelled \/ "lose" \in Faults
  /\ \/ UNCHANGED serverVars
     \/ \E a \in Assignments :
          /\ Grantable(a)
          /\ ServerOpens(a)
          /\ pinned' = pinned \cup {a}
  /\ Settle(IF cancelled THEN "canceled" ELSE "other", FALSE)
  /\ UNCHANGED <<backoffVars, once, timer, agent, form, environmentVars, exit>>

\* The solver returned a payload: a signal that arrives now is seen only by
\* the submission.
SolveAssignment(p) ==
  /\ pc = "solve"
  /\ pc' = "submit"
  /\ payload' = p
  /\ UNCHANGED <<backoffVars, once, timer, agent, held, form, resent, err,
                 healthy, serverVars, environmentVars, exit>>

\* handleSolveAssignmentError, with the error it makes of a solver's: an abort
\* is no error and speaks for the agent; anything else is an AgentFailure,
\* whose text may happen to name a rejected key. After a signal the error is the
\* cancellation itself, unless an agent CLI was running: it is killed, which
\* looks like a failure of its own.
SolveFails(e) ==
  /\ pc = "solve"
  /\ \/ e = "none" /\ "abort" \in Faults
     \/ e = "agent" /\ ("solver" \in Faults \/ (cancelled /\ agent # LLM))
     \/ e = "agent_names_key" /\ "key_message" \in Faults
     \/ e = "canceled" /\ cancelled
  /\ GiveUp(e, e = "none")
  /\ UNCHANGED <<backoffVars, once, timer, serverVars, environmentVars, exit>>

\* SubmitAssignment sends the payload by the submit link, or, without one, to
\* the contribution endpoint if the assignment has a uid.
Submittable == form \in {"linked", "uid_only"}

SubmitAnswered ==
  /\ pc = "submit"
  /\ Submittable
  /\ ~ cancelled
  /\ Acceptable(Key)
  /\ ServerRecords(Key)
  /\ UNCHANGED inflight
  /\ Settle("none", TRUE)
  /\ UNCHANGED <<backoffVars, once, timer, agent, form, environmentVars, exit>>

SubmitRefused ==
  /\ pc = "submit"
  /\ Submittable
  /\ ~ cancelled
  /\ \/ /\ Served /\ ~ Acceptable(Key)
        /\ GiveUp("conflict", TRUE)
        /\ UNCHANGED <<credential, barred>>
     \/ \E e \in {"credential", "contract"} : TurnedAway(e) /\ GiveUp(e, TRUE)
  /\ UNCHANGED <<backoffVars, once, timer, serverVars, contract, cancelled, exit>>

\* The connection broke and the transport sends the request once more, which
\* it does because of the Idempotency-Key header (bound: one second sending).
SubmitResent ==
  /\ pc = "submit"
  /\ Submittable
  /\ ~ cancelled
  /\ ~ resent
  /\ "lose" \in Faults
  /\ SubmissionUnanswered
  /\ resent' = TRUE
  /\ UNCHANGED <<backoffVars, once, pc, timer, agent, held, form, payload, err,
                 healthy, environmentVars, exit>>

\* mutant: turns away after a submission without an answer
SubmitUnansweredKept ==
  /\ pc = "submit"
  /\ Submittable
  /\ cancelled \/ "lose" \in Faults
  /\ SubmissionUnanswered
  /\ Settle(IF cancelled THEN "canceled" ELSE "other", TRUE)
  /\ UNCHANGED <<backoffVars, once, timer, agent, form, environmentVars, exit>>

\* No answer to the submission, or to its second sending.
SubmitUnanswered ==
  /\ pc = "submit"
  /\ Submittable
  /\ cancelled \/ "lose" \in Faults
  /\ SubmissionUnanswered
  /\ GiveUp(IF cancelled THEN "canceled" ELSE "other", TRUE)
  /\ UNCHANGED <<backoffVars, once, timer, environmentVars, exit>>

\* A link to another origin is not followed, and without a uid the
\* contribution endpoint is not called.
SubmitUnsendable ==
  /\ pc = "submit"
  /\ ~ Submittable
  /\ GiveUp("other", TRUE)
  /\ UNCHANGED <<backoffVars, once, timer, serverVars, environmentVars, exit>>

\* ReleaseOpenAssignment names the assignment by its release link, or else by
\* its numeric id, which an assignment known by uid does not have.
Releasable == form \in {"linked", "unsupported", "id_only"}

EndRelease ==
  /\ pc' = "settle"
  /\ held' = None
  /\ payload' = None
  /\ resent' = FALSE
  /\ UNCHANGED <<agent, form, err, healthy>>

\* mutant: releases under the context of the run, which a signal has ended
ReleaseInRunContext ==
  /\ pc = "release"
  /\ Served
  /\ IF Releasable /\ ~ cancelled
     THEN /\ server' = [server EXCEPT ![held] = IF @ = "open" THEN "free" ELSE @]
          /\ pinned' = pinned
     ELSE /\ server' = server
          /\ pinned' = IF server[held] = "open" THEN pinned \cup {held} ELSE pinned
  /\ EndRelease
  /\ UNCHANGED <<backoffVars, once, timer, accepted, inflight, environmentVars,
                 exit>>

\* releaseAssignmentOnFailure has a context of its own, so it is carried out
\* after a signal too. 404 and 409 count as released; what the server did not
\* release is out of the worker's hands.
Release ==
  /\ pc = "release"
  /\ Served
  /\ IF Releasable
     THEN /\ server' = [server EXCEPT ![held] = IF @ = "open" THEN "free" ELSE @]
          /\ pinned' = pinned
     ELSE /\ server' = server
          /\ pinned' = IF server[held] = "open" THEN pinned \cup {held} ELSE pinned
  /\ EndRelease
  /\ UNCHANGED <<backoffVars, once, timer, accepted, inflight, environmentVars,
                 exit>>

\* The release request is lost on the way or turned away, which is only logged:
\* the cycle keeps the error that it has.
ReleaseFails ==
  /\ pc = "release"
  /\ \/ "lose" \in Faults /\ UNCHANGED credential
     \/ \E e \in {"credential", "contract"} : Refusal(e)
  /\ pinned' = IF server[held] = "open" THEN pinned \cup {held} ELSE pinned
  /\ EndRelease
  /\ UNCHANGED <<backoffVars, once, timer, server, accepted, inflight, contract,
                 barred, cancelled, exit>>

-----------------------------------------------------------------------------
(* The end of a cycle.                                                     *)

\* What makes IsAuthenticationFailure say yes: a status of the server, or the
\* words "invalid api key" in the text of any error.
IsAuthenticationFailure(e) == e \in {"credential", "agent_names_key"}
IsAgentFailure(e) == e \in {"agent", "agent_names_key"}

\* mutant: every conflict is taken for the worker contract's
VerdictOnConflict(e) ==
  CASE e = "canceled" -> "nil"
    [] IsAuthenticationFailure(e) -> "credential_rejected"
    [] e \in {"contract", "conflict"} -> "contract"
    [] OTHER -> "running"

\* mutant: a cancellation is one more error to log
VerdictOnCancel(e) ==
  CASE IsAuthenticationFailure(e) -> "credential_rejected"
    [] e = "contract" -> "contract"
    [] OTHER -> "running"

\* handleWorkerCycleError: what RunWorker returns if the error stops the loop,
\* "running" if it does not.
Verdict(e) ==
  CASE e = "canceled" -> "nil"
    [] e # "canceled" /\ IsAuthenticationFailure(e) -> "credential_rejected"
    [] e = "contract" -> "contract"
    [] OTHER -> "running"

\* The rest of the loop's body: clearAgentCooldown after a healthy cycle,
\* handleWorkerCycleError, and the sleep that follows unless it stops.
FinishCycle ==
  /\ pc = "settle"
  /\ ~ once
  /\ CASE healthy -> RecordSuccess(agent)
       [] ~ healthy /\ IsAgentFailure(err) /\ Verdict(err) = "running" ->
            RecordFailure(agent)
       [] OTHER -> UNCHANGED <<failures, delay, left>>
  /\ exit' = Verdict(err)
  /\ IF exit' = "running"
     THEN pc' = "sleep" /\ timer' = Interval
     ELSE pc' = "stopped" /\ timer' = timer
  /\ UNCHANGED <<pool, index, once, cycleVars, serverVars, environmentVars>>

\* With options.Once RunWorker returns the error of its only cycle.
FinishOnce ==
  /\ pc = "settle"
  /\ once
  /\ pc' = "stopped"
  /\ exit' = IF err \in {"none", "canceled"} THEN "nil" ELSE "error"
  /\ UNCHANGED <<backoffVars, once, timer, cycleVars, serverVars, environmentVars>>

-----------------------------------------------------------------------------
(* What happens around the process.                                        *)

\* Time passes while the process waits for something.
Tick ==
  /\ pc \notin {"select", "settle", "stopped"}
  /\ timer > 0 \/ \E a \in Agents : left[a] > 0
  /\ timer' = Pass(timer)
  /\ CooldownsPass
  /\ UNCHANGED <<pool, index, failures, delay, once, pc, cycleVars, serverVars,
                 environmentVars, exit>>

\* SIGINT or SIGTERM cancels the context of the run.
Signal ==
  /\ "signal" \in Faults
  /\ ~ cancelled
  /\ cancelled' = TRUE
  /\ UNCHANGED <<backoffVars, once, pc, timer, cycleVars, serverVars, credential,
                 contract, barred, exit>>

\* An open assignment runs out on the server and may be handed out again.
Expire(a) ==
  /\ "expire" \in Faults
  /\ server[a] = "open"
  /\ server' = [server EXCEPT ![a] = "free"]
  /\ pinned' = pinned \ {a}
  /\ UNCHANGED <<backoffVars, once, pc, timer, cycleVars, accepted, inflight,
                 environmentVars, exit>>

\* A submission that was still on the way arrives; its answer goes nowhere.
SubmissionArrives(k) ==
  /\ k \in inflight
  /\ inflight' = inflight \ {k}
  /\ IF Acceptable(k)
     THEN ServerRecords(k)
     ELSE UNCHANGED <<server, accepted, pinned>>
  /\ UNCHANGED <<backoffVars, once, pc, timer, cycleVars, environmentVars, exit>>

RevokeCredential ==
  /\ "revoke" \in Faults
  /\ credential
  /\ credential' = FALSE
  /\ UNCHANGED <<backoffVars, once, pc, timer, cycleVars, serverVars, contract,
                 barred, cancelled, exit>>

ChangeContract ==
  /\ "contract" \in Faults
  /\ contract
  /\ contract' = FALSE
  /\ UNCHANGED <<backoffVars, once, pc, timer, cycleVars, serverVars, credential,
                 barred, cancelled, exit>>

\* The process has returned; this keeps a stopped worker apart from a stuck one.
Stopped == pc = "stopped" /\ UNCHANGED vars

Loop ==
  \/ SelectAgent
  \/ AwaitAgent
  \/ Wake
  \/ StopAsleep
  \/ \E a \in Assignments, f \in Forms : ClaimAssignment(a, f)
  \/ ClaimDeclined
  \/ ClaimUnanswered
  \/ \E p \in Payloads : SolveAssignment(p)
  \/ \E e \in Errors : SolveFails(e)
  \/ SubmitAnswered
  \/ SubmitRefused
  \/ SubmitResent
  \/ SubmitUnanswered
  \/ SubmitUnsendable
  \/ Release
  \/ ReleaseFails
  \/ FinishCycle
  \/ FinishOnce

Environment ==
  \/ Tick
  \/ Signal
  \/ \E a \in Assignments : Expire(a)
  \/ \E k \in Keys : SubmissionArrives(k)
  \/ RevokeCredential
  \/ ChangeContract

Next == Loop \/ Environment \/ Stopped

\* The process runs on, every call it makes returns (an HTTP call after at most
\* 45 seconds, a solver after its timeout), and time passes.
Fairness ==
  /\ WF_vars(Loop)
  /\ WF_vars(Tick)

Spec == Init /\ [][Next]_vars
FairSpec == Spec /\ Fairness
-----------------------------------------------------------------------------
(* Properties.                                                             *)

\* An assignment is in hand exactly from its claim to its release or
\* submission, and a payload from its solution on.
CycleOK ==
  /\ held # None <=> pc \in {"solve", "submit", "release"}
  /\ pc = "submit" => payload # None
  /\ payload # None => pc \in {"submit", "release"}

\* A recorded submission has closed its assignment for good; only open
\* assignments are pinned, and never the one in hand.
LedgerOK ==
  /\ \A k \in accepted : server[k[1]] = "closed"
  /\ pinned \subseteq Open
  /\ held \notin pinned

AtRest == pc \in {"select", "cooling", "sleep", "stopped"}

\* Whatever fails, in whatever order: an assignment the server still counts as
\* open is the one in hand, or one whose claim answer never reached the worker
\* or could not be read, or whose release did not get through (worker.go
\* 223-246, 300-355).
NothingLeftOpen == Open \subseteq {held} \cup pinned

\* docs/architecture.md 51: an assignment whose solver aborts or fails, or whose
\* submission fails, is released immediately, so that it is not open any more
\* when the worker turns away from it.
NeverTurnsFromOpen ==
  [][held # None /\ held' = None => server'[held] # "open"]_vars

\* The deterministic idempotency key: when the last word on a submission is
\* that it is refused, no earlier sending of it was recorded (client.go 829).
RefusedIsUnrecorded ==
  pc = "release" /\ err = "conflict" =>
    \A k \in accepted : k[1] = held => k[2] # payload

\* A continuous worker returns nil only after a signal, and gives up for good
\* only over the worker contract, or exactly when a claim or a submission was
\* turned away as unauthenticated, after which it claims nothing any more, even
\* if the credential is good: a 403, a refused discovery and a 400 that names a
\* refresh token count as well (worker.go 157-188, client.go 1019-1049). A release
\* that is turned away decides nothing.
ExitSaysWhy ==
  /\ barred => pc \in {"release", "settle", "stopped"}
  /\ pc = "stopped" /\ ~ once =>
       /\ exit = "nil" => cancelled
       /\ exit = "contract" => ~ contract \/ form = "unsupported"
       /\ exit = "credential_rejected" <=> barred

\* worker.go 165 tells the user that the stored credential was rejected.
StoredCredentialRejected == exit = "credential_rejected" => ~ credential

\* From its selection to the end of its cycle an agent is not cooling down, so
\* that neither a failure nor a success ends a cooldown before its time
\* (backoff.go 88, worker.go 111-121).
BusyAgentIsReady == ~ AtRest => ~ Cooling(agent) /\ left[agent] = 0

\* A cooldown only ends by running out.
CooldownRunsOut ==
  [][\A a \in Agents : left'[a] >= left[a] \/ left'[a] + 1 = left[a]]_vars

\* A worker that waits for an agent wakes up exactly when the first of them is
\* ready again (backoff.go 91-93, worker.go 139-144).
WakesForEarliest ==
  pc = "cooling" =>
    /\ \A a \in Pooled : timer <= left[a]
    /\ \E a \in Pooled : timer = left[a]

\* Every agent of the pool gets its turn again and again, failing or not, as
\* long as the worker runs: the picker skips agents but starves none.
NoAgentStarves ==
  \A a \in Agents :
    [](a \in Pooled => <>(pc = "stopped" \/ (pc = "claim" /\ agent = a)))

\* A signal ends the process, wherever it is (worker.go 190-211).
SignalStops == cancelled ~> pc = "stopped"

\* The worker keeps the promise of AssignmentCare.
Care == INSTANCE AssignmentCare WITH
          holding <- held,
          open <- Open,
          delivered <- {a \in Assignments : server[a] = "closed"}
CareSpec == Care!Spec
CareFairSpec == Care!FairSpec
=============================================================================
