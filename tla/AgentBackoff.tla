---------------------------- MODULE AgentBackoff ----------------------------
(***************************************************************************)
(* The agent picker (internal/sah/agent_selection.go) and the per-agent    *)
(* cooldown (internal/sah/backoff.go) of one continuous worker: a round-   *)
(* robin index over a pool that never changes, and for every agent that    *)
(* failed since its last success the number of failures and the time until *)
(* it may run again.                                                       *)
(*                                                                         *)
(* Time is counted in units of the polling interval's granularity and held *)
(* as what is left of a deadline, so that the states are finite: readyAt   *)
(* is now + left[a].                                                       *)
(***************************************************************************)
EXTENDS Naturals, Sequences

CONSTANTS
  Agents,       \* the agents a pool may name
  Pools,        \* the pools ResolveAgentPool may return
  Interval,     \* options.Interval, the base of the cooldown and the sleep
  MaxBackoff,   \* maxAgentBackoff
  MaxFailures   \* where the failure counter of the model saturates

Max2(a, b) == IF a >= b THEN a ELSE b

ASSUME BackoffAssumption ==
  /\ Interval \in Nat \ {0}
  /\ MaxBackoff \in Nat \ {0}
  /\ MaxFailures \in Nat \ {0}
  /\ \A p \in Pools : p \in Seq(Agents) /\ Len(p) > 0

VARIABLES
  pool,      \* picker.pool
  index,     \* the position in pool that picker.Next returns next
  failures,  \* agentCooldown.failures; 0 where there is no entry
  delay,     \* the delay RecordFailure returned last; 0 where there is no entry
  left       \* time until agentCooldown.readyAt, 0 once it has passed

backoffVars == <<pool, index, failures, delay, left>>

BackoffTypeOK ==
  /\ pool \in Pools
  /\ index \in 1 .. Len(pool)
  /\ failures \in [Agents -> 0 .. MaxFailures]
  /\ delay \in [Agents -> 0 .. Max2(Interval, MaxBackoff)]
  /\ left \in [Agents -> 0 .. Max2(Interval, MaxBackoff)]

BackoffInit ==
  /\ pool \in Pools
  /\ index = 1
  /\ failures = [a \in Agents |-> 0]
  /\ delay = [a \in Agents |-> 0]
  /\ left = [a \in Agents |-> 0]

-----------------------------------------------------------------------------
(* The picker.                                                             *)

Pooled == {pool[i] : i \in 1 .. Len(pool)}

AroundWithoutWrap(i, k) == i + k  \* mutant: runs off the end of the pool
\* The position k places after position i, around the pool.
Around(i, k) == IF i + k > Len(pool) THEN i + k - Len(pool) ELSE i + k

\* What the k-th further call of picker.Next returns.
Nth(k) == pool[Around(index, k)]

CoolingLess(a) == failures[a] > 0 /\ left[a] > 1  \* mutant: ready a unit too early
\* blocked, and readyAt is after now
Cooling(a) == failures[a] > 0 /\ left[a] > 0

\* mutant: the picker stays at the agent it picked
SelectReadyAgain(a) ==
  \E k \in 0 .. Len(pool) - 1 :
    /\ a = Nth(k)
    /\ ~ Cooling(a)
    /\ \A j \in 0 .. k - 1 : Cooling(Nth(j))
    /\ index' = Around(index, k)

\* SelectReadyAgent finds the first agent in turn that is not cooling down;
\* the picker has moved past it and past the agents it skipped.
SelectReady(a) ==
  \E k \in 0 .. Len(pool) - 1 :
    /\ a = Nth(k)
    /\ ~ Cooling(a)
    /\ \A j \in 0 .. k - 1 : Cooling(Nth(j))
    /\ index' = Around(Around(index, k), 1)

\* mutant: waits for the last agent instead of the first
NoneReadyLatest(wait) ==
  /\ \A a \in Pooled : Cooling(a)
  /\ \E a \in Pooled :
       /\ wait = left[a]
       /\ \A b \in Pooled : left[b] <= left[a]

\* No agent is ready: after a full turn the index is where it was, and the
\* earliest readyAt is `wait` away.
NoneReady(wait) ==
  /\ \A a \in Pooled : Cooling(a)
  /\ \E a \in Pooled :
       /\ wait = left[a]
       /\ \A b \in Pooled : left[a] <= left[b]

-----------------------------------------------------------------------------
(* The cooldown.                                                           *)

DoubledFreely(d) == 2 * d  \* mutant: no cap
\* One turn of the doubling loop of RecordFailure.
Doubled(d) == IF 2 * d >= MaxBackoff THEN MaxBackoff ELSE 2 * d

\* The delay of the next failure. RecordFailure recomputes it from the
\* counter; LoopDelay is that loop, and CooldownMatchesFailures says they agree.
NextDelay(a) == IF failures[a] = 0 THEN Interval ELSE Doubled(delay[a])

RecordFailure(a) ==
  /\ failures' = [failures EXCEPT ![a] = IF @ < MaxFailures THEN @ + 1 ELSE @]
  /\ delay' = [delay EXCEPT ![a] = NextDelay(a)]
  /\ left' = [left EXCEPT ![a] = NextDelay(a)]

\* mutant: forgets the cooldown of every agent
RecordSuccessForAll(a) ==
  /\ failures' = [b \in Agents |-> 0]
  /\ delay' = [b \in Agents |-> 0]
  /\ left' = [b \in Agents |-> 0]

\* delete(backoff.states, agent.Name)
RecordSuccess(a) ==
  /\ failures' = [failures EXCEPT ![a] = 0]
  /\ delay' = [delay EXCEPT ![a] = 0]
  /\ left' = [left EXCEPT ![a] = 0]

\* One unit of time passes.
Pass(n) == IF n = 0 THEN 0 ELSE n - 1
CooldownsPass == left' = [a \in Agents |-> Pass(left[a])]

-----------------------------------------------------------------------------
(* Properties.                                                             *)

\* RecordFailure's for loop, from i = 1, over a given number of failures.
LoopDelay[n \in 1 .. MaxFailures] ==
  IF n = 1 THEN Interval
  ELSE LET d == 2 * LoopDelay[n - 1] IN IF d >= MaxBackoff THEN MaxBackoff ELSE d

\* A counter at MaxFailures stands for every larger one: the delay is at its cap.
ASSUME CounterAssumption == LoopDelay[MaxFailures] = MaxBackoff

\* An agent has a cooldown exactly while it has failures on record; its length
\* is the base doubled once per further failure, held at the cap (backoff.go
\* 51-60), and what is left of it never exceeds it.
CooldownMatchesFailures ==
  \A a \in Agents :
    /\ left[a] <= delay[a]
    /\ IF failures[a] = 0 THEN delay[a] = 0
       ELSE delay[a] = LoopDelay[failures[a]]
=============================================================================
