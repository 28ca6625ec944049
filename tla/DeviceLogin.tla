----------------------------- MODULE DeviceLogin -----------------------------
(***************************************************************************)
(* `sah auth login` (internal/sah/auth.go): the OAuth 2.0 device flow. The *)
(* client asks for a code, shows it, and polls the token endpoint until    *)
(* the user has decided, the code has expired or something fails. The      *)
(* server and the user are outside of this repository. Time is counted     *)
(* from the request for the code.                                          *)
(***************************************************************************)
EXTENDS Naturals

CONSTANTS
  Lifetimes,        \* expires_in of a code
  Intervals,        \* interval of a code; 0 if the server names none
  DefaultInterval,  \* the interval if it names none: 5 seconds
  SlowBy,           \* what slow_down adds to it: 5 seconds
  MaxWait           \* the timeout of a request

ASSUME DeviceLoginAssumption ==
  /\ Lifetimes \subseteq Nat
  /\ Intervals \subseteq Nat
  /\ DefaultInterval \in Nat \ {0}
  /\ SlowBy \in Nat
  /\ MaxWait \in Nat

VARIABLES
  clock,     \* the time
  phase,     \* where the client is
  waited,    \* how long the request at hand has taken
  interval,  \* the pause between two polls
  timer,     \* what is left of the pause
  deadline,  \* when the client takes the code for expired
  outcome,   \* what the command reports
  code,      \* the server's view of the code
  expiry,    \* when it expires there
  decided,   \* when the user decided
  named,     \* expires_in and interval, as it named them with the code
  pace,      \* the pause between two polls that it asks for
  welcome,   \* when it wants to be polled next
  slowed     \* it has asked for a longer pause since the user decided

clientVars == <<phase, waited, interval, timer, deadline, outcome>>
codeVars == <<code, expiry, decided, named, pace, welcome, slowed>>
loginVars == <<clock, clientVars, codeVars>>

Outcomes == {"none", "tokens", "denied", "expired", "failed"}

LoginTypeOK ==
  /\ clock \in Nat
  /\ phase \in {"starting", "checking", "polling", "asleep", "done"}
  /\ waited \in 0 .. MaxWait
  /\ interval \in Nat
  /\ timer \in Nat
  /\ deadline \in Nat
  /\ outcome \in Outcomes
  /\ code \in {"none", "pending", "approved", "denied", "used"}
  /\ expiry \in Nat
  /\ decided \in Nat
  /\ named \in [expires_in : Nat, interval : Nat]
  /\ pace \in Nat
  /\ welcome \in Nat
  /\ slowed \in BOOLEAN

LoginInit ==
  /\ clock = 0
  /\ phase = "starting"
  /\ waited = 0
  /\ interval = 0
  /\ timer = 0
  /\ deadline = 0
  /\ outcome = "none"
  /\ code = "none"
  /\ expiry = 0
  /\ decided = 0
  /\ named = [expires_in |-> 0, interval |-> 0]
  /\ pace = 0
  /\ welcome = 0
  /\ slowed = FALSE

-----------------------------------------------------------------------------
(* The server and the user.                                                *)

IssueCode(lifetime, pause) ==
  /\ phase = "starting"
  /\ code = "none"
  /\ code' = "pending"
  /\ expiry' = clock + lifetime
  /\ named' = [expires_in |-> lifetime, interval |-> pause]
  /\ pace' = IF pause = 0 THEN DefaultInterval ELSE pause
  /\ welcome' = clock
  /\ UNCHANGED <<clock, clientVars, decided, slowed>>

\* The user knows the code once the client has shown it.
Decide ==
  /\ phase # "starting"
  /\ code = "pending"
  /\ clock <= expiry
  /\ code' \in {"approved", "denied"}
  /\ decided' = clock
  /\ UNCHANGED <<clock, clientVars, expiry, named, pace, welcome, slowed>>

-----------------------------------------------------------------------------
(* The client.                                                             *)

End(what) ==
  /\ phase' = "done"
  /\ outcome' = what

Sleep(pause) ==
  /\ phase' = "asleep"
  /\ timer' = pause

\* The answer to the request for a code. The client's deadline begins with it.
Started ==
  /\ phase = "starting"
  /\ code # "none"
  /\ phase' = "checking"
  /\ interval' = IF named.interval = 0 THEN DefaultInterval ELSE named.interval
  /\ deadline' = clock + named.expires_in
  /\ UNCHANGED <<clock, waited, timer, outcome, codeVars>>

CheckDeadlineAhead ==  \* mutant: gives up if the code expires before the next poll
  /\ phase = "checking"
  /\ IF clock + interval > deadline
     THEN End("expired") /\ UNCHANGED waited
     ELSE phase' = "polling" /\ waited' = 0 /\ UNCHANGED outcome
  /\ UNCHANGED <<clock, interval, timer, deadline, codeVars>>

CheckNothing ==  \* mutant: leaves it to the server to say that the code has expired
  /\ phase = "checking"
  /\ phase' = "polling"
  /\ waited' = 0
  /\ UNCHANGED <<clock, interval, timer, deadline, outcome, codeVars>>

CheckDeadline ==
  /\ phase = "checking"
  /\ IF clock > deadline
     THEN End("expired") /\ UNCHANGED waited
     ELSE phase' = "polling" /\ waited' = 0 /\ UNCHANGED outcome
  /\ UNCHANGED <<clock, interval, timer, deadline, codeVars>>

PendingTwice ==  \* mutant: backs off although nobody has asked for it
  /\ phase = "polling"
  /\ code = "pending"
  /\ Sleep(2 * interval)
  /\ welcome' = clock + pace
  /\ UNCHANGED <<clock, waited, interval, deadline, outcome, code, expiry,
                 decided, named, pace, slowed>>

\* authorization_pending; a server may be late to notice that a code has expired.
Pending ==
  /\ phase = "polling"
  /\ code = "pending"
  /\ Sleep(interval)
  /\ welcome' = clock + pace
  /\ UNCHANGED <<clock, waited, interval, deadline, outcome, code, expiry,
                 decided, named, pace, slowed>>

SlowDownOnce ==  \* mutant: sleeps longer once and then returns to its old pace
  /\ phase = "polling"
  /\ code \in {"pending", "approved", "denied"}
  /\ Sleep(interval + SlowBy)
  /\ pace' = pace + SlowBy
  /\ welcome' = clock + pace'
  /\ slowed' = (code # "pending")
  /\ UNCHANGED <<clock, waited, interval, deadline, outcome, code, expiry,
                 decided, named>>

SlowDown ==
  /\ phase = "polling"
  /\ code \in {"pending", "approved", "denied"}
  /\ interval' = interval + SlowBy
  /\ Sleep(interval')
  /\ pace' = pace + SlowBy
  /\ welcome' = clock + pace'
  /\ slowed' = (code # "pending")
  /\ UNCHANGED <<clock, waited, deadline, outcome, code, expiry, decided, named>>

Granted ==
  /\ phase = "polling"
  /\ code = "approved"
  /\ clock <= expiry
  /\ code' = "used"
  /\ End("tokens")
  /\ UNCHANGED <<clock, waited, interval, timer, deadline, expiry, decided,
                 named, pace, welcome, slowed>>

AccessDenied ==
  /\ phase = "polling"
  /\ code = "denied"
  /\ End("denied")
  /\ UNCHANGED <<clock, waited, interval, timer, deadline, codeVars>>

ExpiredToken ==
  /\ phase = "polling"
  /\ clock > expiry
  /\ End("expired")
  /\ UNCHANGED <<clock, waited, interval, timer, deadline, codeVars>>

\* No answer, another answer, or one without a token; the tokens of an answer
\* that is lost are lost.
Fails ==
  /\ phase \in {"starting", "polling"}
  /\ code' \in IF code = "approved" THEN {"approved", "used"} ELSE {code}
  /\ End("failed")
  /\ UNCHANGED <<clock, waited, interval, timer, deadline, expiry, decided,
                 named, pace, welcome, slowed>>

Wake ==
  /\ phase = "asleep"
  /\ timer = 0
  /\ phase' = "checking"
  /\ UNCHANGED <<clock, waited, interval, timer, deadline, outcome, codeVars>>

\* The context is cancelled by a signal.
Cancel ==
  /\ phase \in {"starting", "polling", "asleep"}
  /\ End("failed")
  /\ UNCHANGED <<clock, waited, interval, timer, deadline, codeVars>>

\* Time passes while the client waits for an answer or for its timer.
Tick ==
  /\ \/ /\ phase \in {"starting", "polling"}
        /\ waited < MaxWait
        /\ waited' = waited + 1
        /\ UNCHANGED timer
     \/ /\ phase = "asleep"
        /\ timer > 0
        /\ timer' = timer - 1
        /\ UNCHANGED waited
  /\ clock' = clock + 1
  /\ UNCHANGED <<phase, interval, deadline, outcome, codeVars>>

Ended == phase = "done" /\ UNCHANGED loginVars

LoginNext ==
  \/ \E lifetime \in Lifetimes, pause \in Intervals : IssueCode(lifetime, pause)
  \/ Decide
  \/ Started \/ CheckDeadline \/ Pending \/ SlowDown \/ Granted \/ AccessDenied
  \/ ExpiredToken \/ Fails \/ Wake \/ Cancel \/ Tick \/ Ended

LoginSpec == LoginInit /\ [][LoginNext]_loginVars

-----------------------------------------------------------------------------
(* Properties.                                                             *)

\* What the command reports is what the user has decided, and it reports that
\* the code has expired only when it has (awaitDeviceAuthorization).
OutcomeIsDecision ==
  /\ outcome = "tokens" => code = "used"
  /\ outcome = "denied" => code = "denied"
  /\ outcome = "expired" => clock > expiry

\* Whatever the server has asked for, it is not polled sooner than that after the
\* poll before: slow_down counts for all the polls to come (auth.go 87).
NeverTooFast == phase = "polling" => clock >= welcome

\* A user who approves early enough for one more poll is logged in, unless a
\* request fails, the command is interrupted or the server slows it down again.
ApprovalCounts ==
  /\ outcome = "expired"
  /\ code = "approved"
  /\ ~ slowed
  => decided + interval + MaxWait > expiry

\* The command ends at the latest one pause and one request after the code has
\* expired, also if the server never says so (auth.go 66).
EndsInTime == phase \notin {"starting", "done"} => clock <= deadline + interval + MaxWait
=============================================================================
