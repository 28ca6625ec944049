---------------------------- MODULE WorkerProofs ----------------------------
(***************************************************************************)
(* What holds of Worker for every set of assignments, payloads, agents and *)
(* pools, and every combination of faults.                                 *)
(***************************************************************************)
EXTENDS Worker, RecursionFacts, TLAPS

\* Two positions of a pool, one any number of places after the other, are both
\* positions of the pool: the picker never runs off its end.
LEMMA AroundInPool ==
  ASSUME Len(pool) \in Nat \ {0},
         NEW i \in 1 .. Len(pool), NEW k \in 0 .. Len(pool)
  PROVE  Around(i, k) \in 1 .. Len(pool)
BY DEF Around

\* A delay of the doubling loop stays within the cap or the base.
LEMMA NextDelayBound ==
  ASSUME BackoffTypeOK, NEW a \in Agents
  PROVE  NextDelay(a) \in 0 .. Max2(Interval, MaxBackoff)
<1> DEFINE top == Max2(Interval, MaxBackoff)
<1>1. /\ top \in Nat
      /\ Interval \in 0 .. top
      /\ MaxBackoff \in 0 .. top
      /\ \A d \in 0 .. top : 2 * d < MaxBackoff => 2 * d \in 0 .. top
  BY BackoffAssumption DEF Max2
<1>2. delay[a] \in 0 .. top
  BY DEF BackoffTypeOK
<1> HIDE DEF top
<1>3. Doubled(delay[a]) \in 0 .. top
  BY <1>1, <1>2, BackoffAssumption DEF Doubled
<1> QED BY <1>1, <1>3 DEF NextDelay, top

\* The parts of the type invariant that RecordFailure and RecordSuccess touch.
LEMMA CooldownTypes ==
  ASSUME BackoffTypeOK, NEW a \in Agents, RecordFailure(a) \/ RecordSuccess(a)
  PROVE  /\ failures' \in [Agents -> 0 .. MaxFailures]
         /\ delay' \in [Agents -> 0 .. Max2(Interval, MaxBackoff)]
         /\ left' \in [Agents -> 0 .. Max2(Interval, MaxBackoff)]
<1>1. NextDelay(a) \in 0 .. Max2(Interval, MaxBackoff)
  BY NextDelayBound
<1>2. 0 \in 0 .. Max2(Interval, MaxBackoff)
  BY BackoffAssumption DEF Max2
<1>3. CASE RecordFailure(a)
  <2>1. (IF failures[a] < MaxFailures THEN failures[a] + 1 ELSE failures[a])
          \in 0 .. MaxFailures
    BY BackoffAssumption DEF BackoffTypeOK
  <2>2. failures' \in [Agents -> 0 .. MaxFailures]
    BY <1>3, <2>1 DEF RecordFailure, BackoffTypeOK
  <2>3. /\ delay' \in [Agents -> 0 .. Max2(Interval, MaxBackoff)]
        /\ left' \in [Agents -> 0 .. Max2(Interval, MaxBackoff)]
    BY <1>1, <1>3 DEF RecordFailure, BackoffTypeOK
  <2> QED BY <2>2, <2>3
<1>4. CASE RecordSuccess(a)
  BY <1>2, <1>4, BackoffAssumption DEF RecordSuccess, BackoffTypeOK
<1> QED BY <1>3, <1>4

\* Selecting an agent returns one of the agents and moves the picker within
\* the pool.
LEMMA SelectTypes ==
  ASSUME BackoffTypeOK, NEW a \in Agents, SelectReady(a)
  PROVE  index' \in 1 .. Len(pool)
<1>1. Len(pool) \in Nat \ {0}
  BY BackoffAssumption DEF BackoffTypeOK
<1>2. PICK k \in 0 .. Len(pool) - 1 : index' = Around(Around(index, k), 1)
  BY DEF SelectReady
<1>3. k \in 0 .. Len(pool) /\ 1 \in 0 .. Len(pool)
  BY <1>1, <1>2
<1>4. Around(index, k) \in 1 .. Len(pool)
  BY <1>1, <1>3, AroundInPool DEF BackoffTypeOK
<1> QED BY <1>1, <1>2, <1>3, <1>4, AroundInPool

-----------------------------------------------------------------------------
(* Type correctness.                                                       *)

LEMMA InitTypes == Init => TypeOK
<1> SUFFICES ASSUME Init PROVE TypeOK
  OBVIOUS
<1>1. Len(pool) \in Nat \ {0} /\ pool \in Seq(Agents) /\ pool \in Pools
  BY BackoffAssumption DEF Init, BackoffInit
<1>2. pool[1] \in Agents
  BY <1>1
<1>3. 0 \in 0 .. Max2(Interval, MaxBackoff) /\ 0 \in 0 .. MaxFailures
  BY BackoffAssumption DEF Max2
<1>4. BackoffTypeOK
  BY <1>1, <1>3 DEF Init, BackoffInit, BackoffTypeOK
<1> QED
  BY <1>2, <1>3, <1>4, WorkerAssumption DEF Init, TypeOK, Steps, AllForms, Errors

LEMMA BackoffUnchanged ==
  ASSUME BackoffTypeOK, UNCHANGED backoffVars
  PROVE  BackoffTypeOK'
BY DEF BackoffTypeOK, backoffVars

LEMMA NextCycle == CycleOK /\ [Next]_vars => CycleOK'
<1> SUFFICES ASSUME CycleOK, [Next]_vars PROVE CycleOK'
  OBVIOUS
<1> USE WorkerAssumption DEF CycleOK, cycleVars, Settle, GiveUp, EndRelease
<1>1. CASE SelectAgent \/ AwaitAgent \/ Wake \/ StopAsleep
  BY <1>1 DEF SelectAgent, AwaitAgent, Wake, StopAsleep
<1>2. ASSUME NEW a \in Assignments, NEW f \in Forms, ClaimAssignment(a, f)
      PROVE  CycleOK'
  BY <1>2 DEF ClaimAssignment
<1>3. CASE ClaimDeclined \/ ClaimUnanswered
  BY <1>3 DEF ClaimDeclined, ClaimUnanswered
<1>4. ASSUME NEW p \in Payloads, SolveAssignment(p) PROVE CycleOK'
  BY <1>4 DEF SolveAssignment
<1>5. ASSUME NEW e \in Errors, SolveFails(e) PROVE CycleOK'
  BY <1>5 DEF SolveFails
<1>6. CASE SubmitAnswered \/ SubmitRefused \/ SubmitResent \/ SubmitUnanswered
           \/ SubmitUnsendable
  BY <1>6 DEF SubmitAnswered, SubmitRefused, SubmitResent, SubmitUnanswered,
              SubmitUnsendable
<1>7. CASE Release \/ ReleaseFails
  BY <1>7 DEF Release, ReleaseFails
<1>8. CASE FinishCycle \/ FinishOnce
  BY <1>8 DEF FinishCycle, FinishOnce
<1>9. CASE Tick \/ Signal \/ RevokeCredential \/ ChangeContract
  BY <1>9 DEF Tick, Signal, RevokeCredential, ChangeContract
<1>10. ASSUME NEW a \in Assignments, Expire(a) PROVE CycleOK'
  BY <1>10 DEF Expire
<1>11. ASSUME NEW k \in Keys, SubmissionArrives(k) PROVE CycleOK'
  BY <1>11 DEF SubmissionArrives
<1>12. CASE Stopped \/ UNCHANGED vars
  BY <1>12 DEF Stopped, vars
<1> QED
  BY <1>1, <1>2, <1>3, <1>4, <1>5, <1>6, <1>7, <1>8, <1>9, <1>10, <1>11, <1>12
  DEF Next, Loop, Environment

LEMMA NextTypes == TypeOK /\ CycleOK /\ [Next]_vars => TypeOK'
<1> SUFFICES ASSUME TypeOK, CycleOK, [Next]_vars PROVE TypeOK'
  OBVIOUS
<1>0. UNCHANGED backoffVars => BackoffTypeOK'
  BY BackoffUnchanged DEF TypeOK
<1> USE DEF TypeOK, Steps, Errors, cycleVars, serverVars, environmentVars
<1>1. CASE SelectAgent
  <2>1. PICK a \in Agents : SelectReady(a) /\ agent' = a
    BY <1>1 DEF SelectAgent
  <2>2. index' \in 1 .. Len(pool)
    BY <2>1, SelectTypes
  <2>3. BackoffTypeOK'
    BY <1>1, <2>2 DEF SelectAgent, BackoffTypeOK
  <2> QED BY <1>1, <2>1, <2>3 DEF SelectAgent
<1>2. CASE AwaitAgent
  <2>1. PICK a \in Pooled : timer' = left[a]
    BY <1>2 DEF AwaitAgent, NoneReady
  <2>2. pool \in Seq(Agents)
    BY BackoffAssumption DEF BackoffTypeOK
  <2>3. a \in Agents
    BY <2>1, <2>2 DEF Pooled
  <2>4. timer' \in 0 .. Max2(Interval, MaxBackoff)
    BY <2>1, <2>3 DEF BackoffTypeOK
  <2> QED BY <1>0, <1>2, <2>4 DEF AwaitAgent
<1>3. CASE Wake
  BY <1>0, <1>3 DEF Wake
<1>4. CASE StopAsleep
  BY <1>0, <1>4 DEF StopAsleep
<1>5. ASSUME NEW a \in Assignments, NEW f \in Forms, ClaimAssignment(a, f)
      PROVE  TypeOK'
  <2>1. /\ UNCHANGED <<backoffVars, once, timer, environmentVars, exit, agent>>
        /\ form' \in AllForms
    BY <1>5, WorkerAssumption DEF ClaimAssignment
  <2>2. /\ server' \in [Assignments -> {"free", "open", "closed"}]
        /\ UNCHANGED <<accepted, inflight>>
        /\ pinned' \in SUBSET Assignments
    BY <1>5 DEF ClaimAssignment, ServerOpens
  <2>3. /\ pc' \in Steps /\ held' \in Assignments \cup {None}
        /\ payload' \in Payloads \cup {None} /\ resent' \in BOOLEAN
        /\ err' \in Errors /\ healthy' \in BOOLEAN
    BY <1>5 DEF ClaimAssignment, Settle
  <2> QED BY <1>0, <2>1, <2>2, <2>3
<1>6. CASE ClaimDeclined
  BY <1>0, <1>6 DEF ClaimDeclined, Settle, TurnedAway, Refusal
<1>7. CASE ClaimUnanswered
  BY <1>0, <1>7 DEF ClaimUnanswered, ServerOpens, Settle
<1>8. ASSUME NEW p \in Payloads, SolveAssignment(p) PROVE TypeOK'
  BY <1>0, <1>8 DEF SolveAssignment
<1>9. ASSUME NEW e \in Errors, SolveFails(e) PROVE TypeOK'
  BY <1>0, <1>9 DEF SolveFails, GiveUp
<1>10. pc = "submit" => Key \in Keys
  BY DEF CycleOK, Key, Keys
<1>11. CASE SubmitAnswered
  BY <1>0, <1>10, <1>11 DEF SubmitAnswered, ServerRecords, Settle, Key, Keys
<1>12. CASE SubmitRefused
  BY <1>0, <1>12 DEF SubmitRefused, GiveUp, TurnedAway, Refusal
<1>13. CASE SubmitResent
  BY <1>0, <1>10, <1>13 DEF SubmitResent, SubmissionUnanswered, ServerRecords, Key,
                            Keys
<1>14. CASE SubmitUnanswered
  BY <1>0, <1>10, <1>14 DEF SubmitUnanswered, SubmissionUnanswered, ServerRecords,
                            GiveUp, Key, Keys
<1>15. CASE SubmitUnsendable
  BY <1>0, <1>15 DEF SubmitUnsendable, GiveUp
<1>16. CASE Release
  BY <1>0, <1>16 DEF Release, EndRelease, CycleOK
<1>17. CASE ReleaseFails
  <2>1. credential' \in BOOLEAN
    BY <1>17 DEF ReleaseFails, Refusal
  <2> QED BY <1>0, <1>17, <2>1 DEF ReleaseFails, EndRelease, CycleOK
<1>18. CASE FinishCycle
  <2>1. BackoffTypeOK'
    BY <1>18, CooldownTypes DEF FinishCycle, BackoffTypeOK
  <2>2. Interval \in 0 .. Max2(Interval, MaxBackoff)
    BY BackoffAssumption DEF Max2
  <2>3. exit' \in {"running", "nil", "credential_rejected", "contract", "error"}
    BY <1>18 DEF FinishCycle, Verdict
  <2>4. timer' \in 0 .. Max2(Interval, MaxBackoff)
    BY <1>18, <2>2 DEF FinishCycle
  <2> QED BY <1>18, <2>1, <2>3, <2>4 DEF FinishCycle
<1>19. CASE FinishOnce
  BY <1>0, <1>19 DEF FinishOnce
<1>20. CASE Tick
  <2>1. \A n \in 0 .. Max2(Interval, MaxBackoff) :
          Pass(n) \in 0 .. Max2(Interval, MaxBackoff)
    BY BackoffAssumption DEF Pass, Max2
  <2>2. timer' \in 0 .. Max2(Interval, MaxBackoff)
    BY <1>20, <2>1 DEF Tick
  <2>3. BackoffTypeOK'
    BY <1>20, <2>1 DEF Tick, CooldownsPass, BackoffTypeOK
  <2> QED BY <1>20, <2>2, <2>3 DEF Tick
<1>21. CASE Signal
  BY <1>0, <1>21 DEF Signal
<1>22. CASE RevokeCredential
  <2>1. credential' \in BOOLEAN
    BY <1>22 DEF RevokeCredential
  <2>2. UNCHANGED <<backoffVars, once, pc, timer, cycleVars, serverVars, exit>>
    BY <1>22 DEF RevokeCredential
  <2>3. UNCHANGED <<cancelled, contract, barred>>
    BY <1>22 DEF RevokeCredential
  <2> QED BY <1>0, <2>1, <2>2, <2>3
<1>23. CASE ChangeContract
  <2>1. contract' \in BOOLEAN
    BY <1>23 DEF ChangeContract
  <2>2. UNCHANGED <<backoffVars, once, pc, timer, cycleVars, serverVars, exit>>
    BY <1>23 DEF ChangeContract
  <2>3. UNCHANGED <<cancelled, credential, barred>>
    BY <1>23 DEF ChangeContract
  <2> QED BY <1>0, <2>1, <2>2, <2>3
<1>24. ASSUME NEW a \in Assignments, Expire(a) PROVE TypeOK'
  BY <1>0, <1>24 DEF Expire
<1>25. ASSUME NEW k \in Keys, SubmissionArrives(k) PROVE TypeOK'
  BY <1>0, <1>25 DEF SubmissionArrives, ServerRecords, Keys
<1>26. CASE Stopped
  BY <1>0, <1>26 DEF Stopped, vars
<1>27. CASE UNCHANGED vars
  BY <1>0, <1>27 DEF vars
<1> QED
  BY <1>1, <1>2, <1>3, <1>4, <1>5, <1>6, <1>7, <1>8, <1>9, <1>11, <1>12, <1>13,
     <1>14, <1>15, <1>16, <1>17, <1>18, <1>19, <1>20, <1>21, <1>22, <1>23,
     <1>24, <1>25, <1>26, <1>27 DEF Next, Loop, Environment

\* Every reachable state is well-typed, for every size of the system.
THEOREM TypeCorrect == Spec => []TypeOK
<1>1. Init => TypeOK /\ CycleOK
  BY InitTypes DEF Init, CycleOK
<1>2. TypeOK /\ CycleOK /\ [Next]_vars => (TypeOK /\ CycleOK)'
  BY NextTypes, NextCycle
<1> QED BY <1>1, <1>2, PTL DEF Spec

\* The invariant the other proofs rest on.
LEMMA CycleCorrect == Spec => [](TypeOK /\ CycleOK)
<1>1. Init => TypeOK /\ CycleOK
  BY InitTypes DEF Init, CycleOK
<1>2. TypeOK /\ CycleOK /\ [Next]_vars => (TypeOK /\ CycleOK)'
  BY NextTypes, NextCycle
<1> QED BY <1>1, <1>2, PTL DEF Spec

-----------------------------------------------------------------------------
(* No assignment is forgotten.                                             *)

\* What a step does to the table, the assignment in hand and the pinned ones:
\* nothing, or one of the ways that keep every open assignment accounted for.
LEMMA NextOpen ==
  TypeOK /\ CycleOK /\ NothingLeftOpen /\ [Next]_vars => NothingLeftOpen'
<1> SUFFICES ASSUME TypeOK, CycleOK, NothingLeftOpen, [Next]_vars
             PROVE  NothingLeftOpen'
  OBVIOUS
<1>0. UNCHANGED <<server, held, pinned>> => NothingLeftOpen'
  BY DEF NothingLeftOpen, Open
<1>t. server \in [Assignments -> {"free", "open", "closed"}]
  BY DEF TypeOK
<1> USE DEF cycleVars, serverVars
<1>1. CASE SelectAgent \/ AwaitAgent \/ Wake \/ StopAsleep
  BY <1>0, <1>1 DEF SelectAgent, AwaitAgent, Wake, StopAsleep
<1>2. ASSUME NEW a \in Assignments, NEW f \in Forms, ClaimAssignment(a, f)
      PROVE  NothingLeftOpen'
  <2>1. Open' = Open \cup {a}
    BY <1>2, <1>t DEF ClaimAssignment, ServerOpens, Open
  <2>2. held = None
    BY <1>2 DEF ClaimAssignment, CycleOK
  <2>3. Open \subseteq pinned
    BY <2>2, WorkerAssumption DEF NothingLeftOpen, Open
  <2>4. \/ pinned' = pinned \cup {a}
        \/ pinned' = pinned /\ held' = a
    BY <1>2 DEF ClaimAssignment, Settle
  <2> QED BY <2>1, <2>3, <2>4 DEF NothingLeftOpen
<1>3. CASE ClaimDeclined
  BY <1>3 DEF ClaimDeclined, Settle, CycleOK, NothingLeftOpen, Open
<1>4. CASE ClaimUnanswered
  <2>1. held = None /\ held' = None
    BY <1>4 DEF ClaimUnanswered, Settle, CycleOK
  <2>2. CASE UNCHANGED serverVars
    BY <1>0, <2>1, <2>2
  <2>3. ASSUME NEW a \in Assignments, ServerOpens(a), pinned' = pinned \cup {a}
        PROVE  NothingLeftOpen'
    <3>1. Open' = Open \cup {a}
      BY <1>t, <2>3 DEF ServerOpens, Open
    <3> QED BY <2>1, <2>3, <3>1 DEF NothingLeftOpen
  <2> QED BY <1>4, <2>2, <2>3 DEF ClaimUnanswered
<1>5. ASSUME NEW p \in Payloads, SolveAssignment(p) PROVE NothingLeftOpen'
  BY <1>0, <1>5 DEF SolveAssignment
<1>6. ASSUME NEW e \in Errors, SolveFails(e) PROVE NothingLeftOpen'
  BY <1>0, <1>6 DEF SolveFails, GiveUp
<1>7. ASSUME NEW k \in Keys, ServerRecords(k), held' \in {held, None},
             held' = held \/ held = k[1]
      PROVE  NothingLeftOpen'
  <2>1. Open' = Open \ {k[1]}
    BY <1>7, <1>t DEF ServerRecords, Open, Keys
  <2> QED BY <1>7, <2>1 DEF ServerRecords, NothingLeftOpen
<1>8. pc = "submit" => Key \in Keys /\ Key[1] = held
  BY DEF CycleOK, Key, Keys, TypeOK
<1>9. CASE SubmitAnswered
  BY <1>7, <1>8, <1>9 DEF SubmitAnswered, Settle
<1>10. CASE SubmitRefused \/ SubmitUnsendable
  BY <1>0, <1>10 DEF SubmitRefused, SubmitUnsendable, GiveUp
<1>11. CASE SubmitResent
  BY <1>0, <1>7, <1>8, <1>11 DEF SubmitResent, SubmissionUnanswered
<1>12. CASE SubmitUnanswered
  BY <1>0, <1>7, <1>8, <1>12 DEF SubmitUnanswered, SubmissionUnanswered, GiveUp
<1>13. CASE Release
  <2>1. held \in Assignments
    BY <1>13 DEF Release, CycleOK, TypeOK
  <2>2. CASE Releasable
    <3>1. Open' = Open \ {held}
      BY <1>13, <1>t, <2>1, <2>2 DEF Release, Open
    <3> QED BY <1>13, <2>2, <3>1 DEF Release, NothingLeftOpen
  <2>3. CASE ~ Releasable
    <3>1. Open' = Open
      BY <1>13, <2>3 DEF Release, Open
    <3>2. held \in Open => held \in pinned'
      BY <1>13, <2>3 DEF Release, Open
    <3>3. pinned \subseteq pinned'
      BY <1>13, <2>3 DEF Release
    <3> QED BY <3>1, <3>2, <3>3 DEF NothingLeftOpen
  <2> QED BY <2>2, <2>3
<1>14. CASE ReleaseFails
  <2>1. Open' = Open
    BY <1>14 DEF ReleaseFails, Open
  <2>2. held \in Open => held \in pinned'
    BY <1>14 DEF ReleaseFails, Open
  <2>3. pinned \subseteq pinned'
    BY <1>14 DEF ReleaseFails
  <2> QED BY <2>1, <2>2, <2>3 DEF NothingLeftOpen
<1>15. CASE FinishCycle \/ FinishOnce
  BY <1>0, <1>15 DEF FinishCycle, FinishOnce
<1>16. CASE Tick \/ Signal \/ RevokeCredential \/ ChangeContract
  BY <1>0, <1>16 DEF Tick, Signal, RevokeCredential, ChangeContract
<1>17. ASSUME NEW a \in Assignments, Expire(a) PROVE NothingLeftOpen'
  <2>1. Open' = Open \ {a}
    BY <1>17, <1>t DEF Expire, Open
  <2> QED BY <1>17, <2>1 DEF Expire, NothingLeftOpen
<1>18. ASSUME NEW k \in Keys, SubmissionArrives(k) PROVE NothingLeftOpen'
  BY <1>0, <1>7, <1>18 DEF SubmissionArrives
<1>19. CASE Stopped \/ UNCHANGED vars
  BY <1>0, <1>19 DEF Stopped, vars
<1> QED
  BY <1>1, <1>2, <1>3, <1>4, <1>5, <1>6, <1>9, <1>10, <1>11, <1>12, <1>13, <1>14,
     <1>15, <1>16, <1>17, <1>18, <1>19 DEF Next, Loop, Environment

\* Under any combination of faults, an assignment the server counts as open is
\* the one in hand or one whose claim answer or release did not get through.
THEOREM NothingForgotten == Spec => []NothingLeftOpen
<1>1. Init => NothingLeftOpen
  BY DEF Init, NothingLeftOpen, Open
<1>2. TypeOK /\ CycleOK /\ NothingLeftOpen /\ [Next]_vars => NothingLeftOpen'
  BY NextOpen
<1> QED BY <1>1, <1>2, CycleCorrect, PTL DEF Spec

-----------------------------------------------------------------------------
(* The server's ledger.                                                    *)

LEMMA NextLedger ==
  TypeOK /\ CycleOK /\ LedgerOK /\ [Next]_vars => LedgerOK'
<1> SUFFICES ASSUME TypeOK, CycleOK, LedgerOK, [Next]_vars
             PROVE  LedgerOK'
  OBVIOUS
<1>0. UNCHANGED <<server, held, pinned, accepted>> => LedgerOK'
  BY DEF LedgerOK, Open
<1>t. /\ server \in [Assignments -> {"free", "open", "closed"}]
      /\ pinned \subseteq Assignments
      /\ \A k \in accepted : k[1] \in Assignments
      /\ None \notin pinned
  BY WorkerAssumption DEF TypeOK, Keys
<1> USE DEF cycleVars, serverVars
<1>o. ASSUME NEW a \in Assignments, ServerOpens(a), server[a] = "free"
      PROVE  /\ Open' = Open \cup {a}
             /\ \A k \in accepted' : server'[k[1]] = "closed"
             /\ a \notin pinned
  BY <1>o, <1>t DEF ServerOpens, Open, LedgerOK
<1>r. ASSUME NEW k \in Keys, ServerRecords(k), held' \in {held, None}
      PROVE  LedgerOK'
  <2>1. k[1] \in Assignments
    BY DEF Keys
  <2>2. Open' = Open \ {k[1]}
    BY <1>r, <1>t, <2>1 DEF ServerRecords, Open
  <2>3. \A m \in accepted' : server'[m[1]] = "closed"
    BY <1>r, <1>t, <2>1 DEF ServerRecords, LedgerOK
  <2> QED BY <1>r, <1>t, <2>2, <2>3 DEF ServerRecords, LedgerOK
<1>d. ASSUME held \in Assignments, held' = None, UNCHANGED <<server, accepted>>,
             pinned' = IF server[held] = "open" THEN pinned \cup {held} ELSE pinned
      PROVE  LedgerOK'
  <2>1. Open' = Open
    BY <1>d DEF Open
  <2>2. pinned' \subseteq Open
    BY <1>d DEF Open, LedgerOK
  <2>3. None \notin pinned'
    BY <1>d, <1>t, WorkerAssumption
  <2> QED BY <1>d, <2>1, <2>2, <2>3 DEF LedgerOK
<1>1. CASE SelectAgent \/ AwaitAgent \/ Wake \/ StopAsleep
  BY <1>0, <1>1 DEF SelectAgent, AwaitAgent, Wake, StopAsleep
<1>2. ASSUME NEW a \in Assignments, NEW f \in Forms, ClaimAssignment(a, f)
      PROVE  LedgerOK'
  <2>1. /\ server[a] = "free" /\ ServerOpens(a)
        /\ \/ pinned' = pinned \cup {a} /\ held' = None
           \/ pinned' = pinned /\ held' = a
    BY <1>2 DEF ClaimAssignment, Grantable, Settle
  <2> QED BY <1>o, <1>t, <2>1, WorkerAssumption DEF LedgerOK
<1>3. CASE ClaimDeclined
  BY <1>0, <1>3 DEF ClaimDeclined, Settle, CycleOK
<1>4. CASE ClaimUnanswered
  <2>1. held = None /\ held' = None
    BY <1>4 DEF ClaimUnanswered, Settle, CycleOK
  <2>2. CASE UNCHANGED serverVars
    BY <1>0, <2>1, <2>2
  <2>3. ASSUME NEW a \in Assignments, Grantable(a), ServerOpens(a),
               pinned' = pinned \cup {a}
        PROVE  LedgerOK'
    BY <1>o, <1>t, <2>1, <2>3, WorkerAssumption DEF LedgerOK, Grantable
  <2> QED BY <1>4, <2>2, <2>3 DEF ClaimUnanswered
<1>5. ASSUME NEW p \in Payloads, SolveAssignment(p) PROVE LedgerOK'
  BY <1>0, <1>5 DEF SolveAssignment
<1>6. ASSUME NEW e \in Errors, SolveFails(e) PROVE LedgerOK'
  BY <1>0, <1>6 DEF SolveFails, GiveUp
<1>7. pc = "submit" => Key \in Keys
  BY DEF CycleOK, Key, Keys, TypeOK
<1>8. CASE SubmitAnswered
  BY <1>r, <1>7, <1>8 DEF SubmitAnswered, Settle
<1>9. CASE SubmitRefused \/ SubmitUnsendable
  BY <1>0, <1>9 DEF SubmitRefused, SubmitUnsendable, GiveUp
<1>10. CASE SubmitResent
  BY <1>0, <1>r, <1>7, <1>10 DEF SubmitResent, SubmissionUnanswered
<1>11. CASE SubmitUnanswered
  BY <1>0, <1>r, <1>7, <1>11 DEF SubmitUnanswered, SubmissionUnanswered, GiveUp
<1>12. CASE Release
  <2>1. held \in Assignments
    BY <1>12 DEF Release, CycleOK, TypeOK
  <2>2. CASE Releasable
    <3>1. Open' = Open \ {held}
      BY <1>12, <1>t, <2>1, <2>2 DEF Release, Open
    <3>2. \A k \in accepted' : server'[k[1]] = "closed"
      BY <1>12, <1>t, <2>1, <2>2 DEF Release, LedgerOK
    <3> QED BY <1>12, <1>t, <2>2, <3>1, <3>2 DEF Release, EndRelease, LedgerOK
  <2>3. CASE ~ Releasable
    BY <1>12, <1>d, <2>1, <2>3 DEF Release, EndRelease
  <2> QED BY <2>2, <2>3
<1>13. CASE ReleaseFails
  <2>1. held \in Assignments
    BY <1>13 DEF ReleaseFails, CycleOK, TypeOK
  <2> QED BY <1>13, <1>d, <2>1 DEF ReleaseFails, EndRelease
<1>14. CASE FinishCycle \/ FinishOnce
  BY <1>0, <1>14 DEF FinishCycle, FinishOnce
<1>15. CASE Tick \/ Signal \/ RevokeCredential \/ ChangeContract
  BY <1>0, <1>15 DEF Tick, Signal, RevokeCredential, ChangeContract
<1>16. ASSUME NEW a \in Assignments, Expire(a) PROVE LedgerOK'
  <2>1. Open' = Open \ {a}
    BY <1>16, <1>t DEF Expire, Open
  <2>2. \A k \in accepted' : server'[k[1]] = "closed"
    BY <1>16, <1>t DEF Expire, LedgerOK
  <2> QED BY <1>16, <2>1, <2>2 DEF Expire, LedgerOK
<1>17. ASSUME NEW k \in Keys, SubmissionArrives(k) PROVE LedgerOK'
  BY <1>0, <1>r, <1>17 DEF SubmissionArrives
<1>18. CASE Stopped \/ UNCHANGED vars
  BY <1>0, <1>18 DEF Stopped, vars
<1> QED
  BY <1>1, <1>2, <1>3, <1>4, <1>5, <1>6, <1>8, <1>9, <1>10, <1>11, <1>12, <1>13,
     <1>14, <1>15, <1>16, <1>17, <1>18 DEF Next, Loop, Environment

LEMMA LedgerCorrect == Spec => []LedgerOK
<1>1. Init => LedgerOK
  BY DEF Init, LedgerOK
<1>2. TypeOK /\ CycleOK /\ LedgerOK /\ [Next]_vars => LedgerOK'
  BY NextLedger
<1> QED BY <1>1, <1>2, CycleCorrect, PTL DEF Spec

-----------------------------------------------------------------------------
(* The worker keeps the promise of AssignmentCare.                         *)

delivered == {a \in Assignments : server[a] = "closed"}

\* Every step of the worker and of its server is one of the abstract steps or
\* none of them.
LEMMA NextCare ==
  TypeOK /\ CycleOK /\ LedgerOK /\ [Next]_vars => [Care!Next]_(Care!vars)
<1> SUFFICES ASSUME TypeOK, CycleOK, LedgerOK, [Next]_vars
             PROVE  Care!Next \/ UNCHANGED Care!vars
  OBVIOUS
<1>0. UNCHANGED <<server, held, pinned>> => UNCHANGED Care!vars
  BY DEF Care!vars, Open
<1>t. server \in [Assignments -> {"free", "open", "closed"}]
  BY DEF TypeOK
<1>h. pc = "claim" => held = None
  BY DEF CycleOK
<1>o. ASSUME NEW a \in Assignments, ServerOpens(a), Grantable(a)
      PROVE  /\ a \notin Open \cup delivered
             /\ Open' = Open \cup {a}
             /\ delivered' = delivered
  BY <1>o, <1>t DEF ServerOpens, Grantable, Open, delivered
<1>k. ASSUME NEW k \in Keys, Acceptable(k), ServerRecords(k)
      PROVE  \/ UNCHANGED <<server, pinned>>
             \/ /\ k[1] \in Open
                /\ Open' = Open \ {k[1]}
                /\ delivered' = delivered \cup {k[1]}
                /\ pinned' = pinned \ {k[1]}
  <2>1. k[1] \in Assignments
    BY DEF Keys
  <2>2. CASE server[k[1]] = "open"
    BY <1>k, <1>t, <2>1, <2>2 DEF ServerRecords, Open, delivered
  <2>3. CASE Recorded(k)
    <3>1. server[k[1]] = "closed"
      BY <2>3 DEF Recorded, LedgerOK
    <3>2. server' = server
      BY <1>k, <1>t, <2>1, <3>1 DEF ServerRecords
    <3>3. k[1] \notin pinned
      BY <3>1 DEF LedgerOK, Open
    <3> QED BY <1>k, <3>2, <3>3 DEF ServerRecords
  <2> QED BY <1>k, <2>2, <2>3 DEF Acceptable
<1>d. ASSUME NEW k \in Keys, Acceptable(k), ServerRecords(k), held' = held
      PROVE  Care!Next \/ UNCHANGED Care!vars
  <2>1. k[1] \in Assignments
    BY DEF Keys
  <2> QED
    BY <1>0, <1>d, <1>k, <2>1 DEF Care!Next, Care!Deliver, Care!Closes, Care!vars,
                                  delivered
<1>g. ASSUME held # None, held' = None,
             \/ UNCHANGED <<Open, delivered, pinned>> /\ held \notin Open
             \/ /\ UNCHANGED <<Open, delivered>>
                /\ held \in Open
                /\ pinned' = pinned \cup {held}
             \/ /\ UNCHANGED <<delivered, pinned>>
                /\ held \in Open
                /\ Open' = Open \ {held}
      PROVE  Care!Next
  BY <1>g DEF Care!Next, Care!LetGo, delivered
<1> USE DEF cycleVars, serverVars
<1>1. CASE SelectAgent \/ AwaitAgent \/ Wake \/ StopAsleep
  BY <1>0, <1>1 DEF SelectAgent, AwaitAgent, Wake, StopAsleep
<1>2. ASSUME NEW a \in Assignments, NEW f \in Forms, ClaimAssignment(a, f)
      PROVE  Care!Next
  <2>1. /\ Grantable(a) /\ ServerOpens(a) /\ held = None
        /\ \/ pinned' = pinned \cup {a} /\ held' = None
           \/ pinned' = pinned /\ held' = a
    BY <1>2, <1>h DEF ClaimAssignment, Settle
  <2> QED BY <1>o, <2>1 DEF Care!Next, Care!Take, Care!Misplace, delivered
<1>3. CASE ClaimDeclined
  BY <1>0, <1>3, <1>h DEF ClaimDeclined, Settle
<1>4. CASE ClaimUnanswered
  <2>1. held = None /\ held' = None
    BY <1>4, <1>h DEF ClaimUnanswered, Settle
  <2>2. CASE UNCHANGED serverVars
    BY <1>0, <2>1, <2>2
  <2>3. ASSUME NEW a \in Assignments, Grantable(a), ServerOpens(a),
               pinned' = pinned \cup {a}
        PROVE  Care!Next
    BY <1>o, <2>1, <2>3 DEF Care!Next, Care!Misplace, delivered
  <2> QED BY <1>4, <2>2, <2>3 DEF ClaimUnanswered
<1>5. ASSUME NEW p \in Payloads, SolveAssignment(p) PROVE UNCHANGED Care!vars
  BY <1>0, <1>5 DEF SolveAssignment
<1>6. ASSUME NEW e \in Errors, SolveFails(e) PROVE UNCHANGED Care!vars
  BY <1>0, <1>6 DEF SolveFails, GiveUp
<1>7. pc = "submit" => Key \in Keys /\ Key[1] = held /\ held # None
  BY WorkerAssumption DEF CycleOK, Key, Keys, TypeOK
<1>8. CASE SubmitAnswered
  <2>1. /\ Key \in Keys /\ Key[1] = held /\ held # None /\ held' = None
        /\ Acceptable(Key) /\ ServerRecords(Key)
    BY <1>7, <1>8 DEF SubmitAnswered, Settle
  <2>2. CASE UNCHANGED <<server, pinned>>
    <3>1. server'[held] = "closed"
      BY <1>t, <2>1, WorkerAssumption DEF ServerRecords, TypeOK
    <3> QED BY <1>g, <2>1, <2>2, <3>1 DEF Open, delivered
  <2>3. CASE /\ held \in Open
             /\ Open' = Open \ {held}
             /\ delivered' = delivered \cup {held}
             /\ pinned' = pinned \ {held}
    BY <2>1, <2>3 DEF Care!Next, Care!LetGo, Care!Closes, delivered
  <2> QED BY <1>k, <2>1, <2>2, <2>3
<1>9. CASE SubmitRefused \/ SubmitUnsendable
  BY <1>0, <1>9 DEF SubmitRefused, SubmitUnsendable, GiveUp
<1>10. CASE SubmitResent
  BY <1>0, <1>d, <1>7, <1>10 DEF SubmitResent, SubmissionUnanswered
<1>11. CASE SubmitUnanswered
  BY <1>0, <1>d, <1>7, <1>11 DEF SubmitUnanswered, SubmissionUnanswered, GiveUp
<1>12. CASE Release
  <2>1. held \in Assignments /\ held # None /\ held' = None
    BY <1>12, WorkerAssumption DEF Release, EndRelease, CycleOK, TypeOK
  <2>2. CASE server[held] # "open"
    <3>1. server' = server /\ pinned' = pinned
      BY <1>12, <1>t, <2>1, <2>2 DEF Release
    <3> QED BY <1>g, <2>1, <2>2, <3>1 DEF Open, delivered
  <2>3. CASE server[held] = "open" /\ Releasable
    <3>1. Open' = Open \ {held} /\ delivered' = delivered /\ held \in Open
      BY <1>12, <1>t, <2>1, <2>3 DEF Release, Open, delivered
    <3>2. pinned' = pinned
      BY <1>12, <2>3 DEF Release
    <3> QED BY <1>g, <2>1, <3>1, <3>2
  <2>4. CASE server[held] = "open" /\ ~ Releasable
    <3>1. server' = server /\ pinned' = pinned \cup {held}
      BY <1>12, <2>4 DEF Release
    <3> QED BY <1>g, <2>1, <2>4, <3>1 DEF Open, delivered
  <2> QED BY <2>2, <2>3, <2>4
<1>13. CASE ReleaseFails
  <2>1. held \in Assignments /\ held # None /\ held' = None
    BY <1>13, WorkerAssumption DEF ReleaseFails, EndRelease, CycleOK, TypeOK
  <2>2. server' = server
    BY <1>13 DEF ReleaseFails
  <2>3. pinned' = IF server[held] = "open" THEN pinned \cup {held} ELSE pinned
    BY <1>13 DEF ReleaseFails
  <2> QED BY <1>g, <2>1, <2>2, <2>3 DEF Open, delivered
<1>14. CASE FinishCycle \/ FinishOnce
  BY <1>0, <1>14 DEF FinishCycle, FinishOnce
<1>15. CASE Tick \/ Signal \/ RevokeCredential \/ ChangeContract
  BY <1>0, <1>15 DEF Tick, Signal, RevokeCredential, ChangeContract
<1>16. ASSUME NEW a \in Assignments, Expire(a) PROVE Care!Next
  <2>1. Open' = Open \ {a} /\ delivered' = delivered /\ a \in Open
    BY <1>16, <1>t DEF Expire, Open, delivered
  <2> QED BY <1>16, <2>1 DEF Expire, Care!Next, Care!Expire, delivered
<1>17. ASSUME NEW k \in Keys, SubmissionArrives(k)
       PROVE  Care!Next \/ UNCHANGED Care!vars
  BY <1>0, <1>d, <1>17 DEF SubmissionArrives
<1>18. CASE Stopped \/ UNCHANGED vars
  BY <1>0, <1>18 DEF Stopped, vars
<1> QED
  BY <1>1, <1>2, <1>3, <1>4, <1>5, <1>6, <1>8, <1>9, <1>10, <1>11, <1>12, <1>13,
     <1>14, <1>15, <1>16, <1>17, <1>18 DEF Next, Loop, Environment

\* The worker, with the server as it meets it, implements AssignmentCare: it
\* holds one assignment at a time, never takes one that is open or delivered,
\* and what it leaves open is pinned.
THEOREM KeepsItsPromise == Spec => CareSpec
<1>1. Init => Care!Init
  BY DEF Init, Care!Init, Open
<1>2. TypeOK /\ CycleOK /\ LedgerOK /\ [Next]_vars => [Care!Next]_(Care!vars)
  BY NextCare
<1> QED
  BY <1>1, <1>2, CycleCorrect, LedgerCorrect, PTL DEF Spec, CareSpec, Care!Spec

-----------------------------------------------------------------------------
(* The idempotency key.                                                    *)

\* While a refused submission is given up, its assignment is not open, so no
\* submission of it that is still on the way can be recorded.
RefusedOK ==
  pc = "release" /\ err = "conflict" => Key \notin accepted /\ server[held] # "open"

LEMMA NextRefused ==
  TypeOK /\ CycleOK /\ LedgerOK /\ RefusedOK /\ [Next]_vars => RefusedOK'
<1> SUFFICES ASSUME TypeOK, CycleOK, LedgerOK, RefusedOK, [Next]_vars,
                    pc' = "release", err' = "conflict"
             PROVE  Key' \notin accepted' /\ server'[held'] # "open"
  BY DEF RefusedOK
<1>t. server \in [Assignments -> {"free", "open", "closed"}]
  BY DEF TypeOK
<1>0. pc = "release" => held \in Assignments
  BY DEF CycleOK, TypeOK
<1>u. ASSUME UNCHANGED <<pc, err, held, payload, server, accepted>>
      PROVE  Key' \notin accepted' /\ server'[held'] # "open"
  BY <1>u DEF RefusedOK, Key
<1> USE DEF cycleVars, serverVars
<1>1. CASE SelectAgent \/ AwaitAgent \/ Wake \/ StopAsleep
  BY <1>1 DEF SelectAgent, AwaitAgent, Wake, StopAsleep
<1>2. ASSUME NEW a \in Assignments, NEW f \in Forms, ClaimAssignment(a, f)
      PROVE  FALSE
  BY <1>2 DEF ClaimAssignment, Settle
<1>3. CASE ClaimDeclined \/ ClaimUnanswered
  BY <1>3 DEF ClaimDeclined, ClaimUnanswered, Settle
<1>4. ASSUME NEW p \in Payloads, SolveAssignment(p) PROVE FALSE
  BY <1>4 DEF SolveAssignment
<1>5. ASSUME NEW e \in Errors, SolveFails(e) PROVE FALSE
  BY <1>5 DEF SolveFails, GiveUp
<1>6. CASE SubmitAnswered \/ SubmitResent \/ SubmitUnanswered \/ SubmitUnsendable
  BY <1>6 DEF SubmitAnswered, SubmitResent, SubmitUnanswered, SubmitUnsendable,
              Settle, GiveUp
<1>7. CASE SubmitRefused
  <2>1. Served /\ ~ Acceptable(Key)
    BY <1>7 DEF SubmitRefused, GiveUp, TurnedAway
  <2>2. UNCHANGED <<held, payload, server, accepted>>
    BY <1>7 DEF SubmitRefused, GiveUp
  <2> QED BY <2>1, <2>2 DEF Acceptable, Recorded, Key
<1>8. CASE Release \/ ReleaseFails \/ FinishCycle \/ FinishOnce
  BY <1>8 DEF Release, ReleaseFails, EndRelease, FinishCycle, FinishOnce
<1>9. CASE Tick \/ Signal \/ RevokeCredential \/ ChangeContract
  BY <1>u, <1>9 DEF Tick, Signal, RevokeCredential, ChangeContract
<1>10. ASSUME NEW a \in Assignments, Expire(a)
       PROVE  Key' \notin accepted' /\ server'[held'] # "open"
  <2>1. UNCHANGED <<pc, err, held, payload, accepted>>
    BY <1>10 DEF Expire
  <2>2. server' = [server EXCEPT ![a] = "free"]
    BY <1>10 DEF Expire
  <2> QED BY <1>0, <1>t, <2>1, <2>2 DEF RefusedOK, Key
<1>11. ASSUME NEW k \in Keys, SubmissionArrives(k)
       PROVE  Key' \notin accepted' /\ server'[held'] # "open"
  <2>1. UNCHANGED <<pc, err, held, payload>>
    BY <1>11 DEF SubmissionArrives
  <2>2. CASE UNCHANGED <<server, accepted>>
    BY <1>u, <2>1, <2>2
  <2>3. CASE Acceptable(k) /\ ServerRecords(k)
    <3>1. k # Key
      BY <2>1, <2>3 DEF Acceptable, Recorded, RefusedOK, Key
    <3>2. accepted' = accepted \cup {k} /\ server' = [server EXCEPT ![k[1]] = "closed"]
      BY <2>3 DEF ServerRecords
    <3> QED BY <1>0, <1>t, <2>1, <3>1, <3>2 DEF RefusedOK, Key, Keys
  <2> QED BY <1>11, <2>2, <2>3 DEF SubmissionArrives
<1>12. CASE Stopped \/ UNCHANGED vars
  BY <1>u, <1>12 DEF Stopped, vars
<1> QED
  BY <1>1, <1>2, <1>3, <1>4, <1>5, <1>6, <1>7, <1>8, <1>9, <1>10, <1>11, <1>12
  DEF Next, Loop, Environment

\* A submission refused for good was never recorded, although it may have been
\* sent twice, in this cycle and in an earlier one for the same assignment.
THEOREM RefusalIsFinal == Spec => []RefusedIsUnrecorded
<1>1. Init => RefusedOK
  BY DEF Init, RefusedOK
<1>2. TypeOK /\ CycleOK /\ LedgerOK /\ RefusedOK /\ [Next]_vars => RefusedOK'
  BY NextRefused
<1>3. TypeOK /\ RefusedOK => RefusedIsUnrecorded
  BY DEF TypeOK, RefusedOK, RefusedIsUnrecorded, Key, Keys
<1> QED BY <1>1, <1>2, <1>3, CycleCorrect, LedgerCorrect, PTL DEF Spec

-----------------------------------------------------------------------------
(* Why the process ends.                                                   *)

\* An error that ends the loop tells what has happened, from the moment it is
\* met; those of the contract and of the credential are the last of the process.
ErrOK ==
  /\ err = "canceled" => cancelled
  /\ err = "credential" <=> barred
  /\ barred /\ "forbid" \notin Faults => ~ credential
  /\ err = "contract" =>
       pc \in {"release", "settle", "stopped"} /\ (~ contract \/ form = "unsupported")
  /\ err # "agent_names_key"
  /\ exit = "credential_rejected" => pc = "stopped" /\ ~ once

\* What a claim or a submission that is turned away tells.
LEMMA TurnedAwayTells ==
  ASSUME NEW e \in {"credential", "contract"}, TurnedAway(e)
  PROVE  /\ barred' <=> barred \/ e = "credential"
         /\ e = "credential" /\ "forbid" \notin Faults => ~ credential'
         /\ e = "contract" => ~ contract
         /\ ~ credential => ~ credential'
<1>1. /\ Refusal(e)
      /\ barred' <=> barred \/ e = "credential"
  BY Zenon DEF TurnedAway
<1>2. /\ e = "credential" /\ "forbid" \notin Faults => ~ credential'
      /\ e = "contract" => ~ contract
      /\ ~ credential => ~ credential'
  <2>1. CASE e = "credential" /\ ~ credential /\ UNCHANGED credential
    BY <2>1
  <2>2. CASE e = "contract" /\ credential /\ ~ contract /\ UNCHANGED credential
    BY <2>2
  <2>3. CASE e = "credential" /\ "forbid" \in Faults /\ credential' \in {credential, FALSE}
    <3>1. e # "contract"
      BY <2>3
    <3>2. CASE credential' = credential
      BY <2>3, <3>1, <3>2
    <3>3. CASE credential' = FALSE
      BY <2>3, <3>1, <3>3
    <3> QED
      BY <2>3, <3>2, <3>3
  <2> QED
    BY <1>1, <2>1, <2>2, <2>3, Zenon DEF Refusal
<1> QED
  BY <1>1, <1>2, Zenon

LEMMA NextErr ==
  ASSUME "key_message" \notin Faults, ErrOK, ExitSaysWhy, [Next]_vars
  PROVE  ErrOK' /\ ExitSaysWhy'
<1> USE DEF ErrOK, ExitSaysWhy, cycleVars, serverVars, environmentVars
<1>1. CASE SelectAgent \/ AwaitAgent \/ Wake \/ StopAsleep
  BY <1>1 DEF SelectAgent, AwaitAgent, Wake, StopAsleep
<1>2. ASSUME NEW a \in Assignments, NEW f \in Forms, ClaimAssignment(a, f)
      PROVE  ErrOK' /\ ExitSaysWhy'
  BY <1>2 DEF ClaimAssignment, Settle
<1>3. CASE ClaimDeclined
  BY <1>3, TurnedAwayTells DEF ClaimDeclined, Settle
<1>4. CASE ClaimUnanswered
  BY <1>4 DEF ClaimUnanswered, Settle
<1>5. ASSUME NEW p \in Payloads, SolveAssignment(p) PROVE ErrOK' /\ ExitSaysWhy'
  BY <1>5 DEF SolveAssignment
<1>6. ASSUME NEW e \in Errors, SolveFails(e) PROVE ErrOK' /\ ExitSaysWhy'
  BY <1>6 DEF SolveFails, GiveUp
<1>7. CASE SubmitRefused
  BY <1>7, TurnedAwayTells DEF SubmitRefused, GiveUp
<1>8. CASE SubmitAnswered \/ SubmitResent \/ SubmitUnanswered \/ SubmitUnsendable
  BY <1>8 DEF SubmitAnswered, SubmitResent, SubmitUnanswered, SubmitUnsendable,
              Settle, GiveUp
<1>9. CASE Release \/ ReleaseFails
  <2>1. ~ credential => ~ credential'
    BY <1>9 DEF Release, ReleaseFails, Refusal
  <2>2. UNCHANGED <<barred, cancelled, contract, err, form, once, exit>> /\ pc' = "settle"
    BY <1>9 DEF Release, ReleaseFails, EndRelease
  <2>3. pc = "release"
    BY <1>9 DEF Release, ReleaseFails
  <2> QED
    BY <2>1, <2>2, <2>3
<1>10. CASE FinishCycle
  <2>1. /\ exit' = Verdict(err) /\ ~ once
        /\ UNCHANGED <<once, err, form, cancelled, credential, contract, barred>>
    BY <1>10 DEF FinishCycle
  <2>2. pc' = IF exit' = "running" THEN "sleep" ELSE "stopped"
    BY <1>10 DEF FinishCycle
  <2>3. /\ exit' = "nil" => err = "canceled"
        /\ exit' = "credential_rejected" <=> err \in {"credential", "agent_names_key"}
        /\ exit' = "contract" => err = "contract"
        /\ exit' = "running" => err # "contract"
    BY <2>1 DEF Verdict, IsAuthenticationFailure
  <2>4. exit' = "credential_rejected" <=> barred
    BY <2>3
  <2>5. exit' # "running" => pc' = "stopped"
    BY <2>2
  <2> QED BY <2>1, <2>3, <2>4, <2>5
<1>11. CASE FinishOnce
  BY <1>11 DEF FinishOnce
<1>12. CASE Tick \/ Signal \/ RevokeCredential \/ ChangeContract
  BY <1>12 DEF Tick, Signal, RevokeCredential, ChangeContract
<1>13. ASSUME NEW a \in Assignments, Expire(a) PROVE ErrOK' /\ ExitSaysWhy'
  BY <1>13 DEF Expire
<1>14. ASSUME NEW k \in Keys, SubmissionArrives(k) PROVE ErrOK' /\ ExitSaysWhy'
  BY <1>14 DEF SubmissionArrives
<1>15. CASE Stopped \/ UNCHANGED vars
  BY <1>15 DEF Stopped, vars
<1> QED
  BY <1>1, <1>2, <1>3, <1>4, <1>5, <1>6, <1>7, <1>8, <1>9, <1>10, <1>11, <1>12,
     <1>13, <1>14, <1>15
  DEF Next, Loop, Environment

\* Unless a solver's error happens to name a rejected key, a continuous worker
\* ends only for the reason that it gives, and over its credential exactly when a
\* claim or a submission was turned away as unauthenticated.
THEOREM ExitsForItsReason ==
  ASSUME "key_message" \notin Faults
  PROVE  Spec => []ExitSaysWhy
<1>1. Init => ErrOK /\ ExitSaysWhy
  BY DEF Init, ErrOK, ExitSaysWhy
<1>2. ErrOK /\ ExitSaysWhy /\ [Next]_vars => (ErrOK /\ ExitSaysWhy)'
  BY NextErr
<1> QED BY <1>1, <1>2, PTL DEF Spec

\* If the server turns requests away only over a credential that is not good, then
\* what the worker says of it is true (worker.go 165).
THEOREM RejectionsAreReal ==
  ASSUME Faults \cap {"key_message", "forbid"} = {}
  PROVE  Spec => []StoredCredentialRejected
<1>1. Init => ErrOK /\ ExitSaysWhy
  BY DEF Init, ErrOK, ExitSaysWhy
<1>2. ErrOK /\ ExitSaysWhy /\ [Next]_vars => (ErrOK /\ ExitSaysWhy)'
  BY NextErr
<1>3. ErrOK /\ ExitSaysWhy => StoredCredentialRejected
  BY DEF ErrOK, ExitSaysWhy, StoredCredentialRejected
<1> QED BY <1>1, <1>2, <1>3, PTL DEF Spec

-----------------------------------------------------------------------------
(* Assignments in hand.                                                    *)

\* The server serves the worker, and the assignment in hand can be named to it.
ServedOK == Served /\ Releasable

LEMMA NextServed ==
  ASSUME Faults \cap {"lose", "revoke", "forbid", "contract"} = {},
         Forms \subseteq {"linked", "unsupported", "id_only", "malformed"},
         TypeOK, CycleOK, held # None => ServedOK, Served, [Next]_vars
  PROVE  /\ Served' /\ (held' # None => ServedOK')
         /\ held # None /\ held' = None => server'[held] # "open"
<1> USE DEF ServedOK, Served, Releasable, cycleVars, serverVars, environmentVars
<1>t. server \in [Assignments -> {"free", "open", "closed"}]
  BY DEF TypeOK
<1>h. held # None => held \in Assignments
  BY DEF TypeOK
<1> DEFINE Goal == /\ Served' /\ (held' # None => ServedOK')
                   /\ held # None /\ held' = None => server'[held] # "open"
<1>1. CASE SelectAgent \/ AwaitAgent \/ Wake \/ StopAsleep
  BY <1>1 DEF SelectAgent, AwaitAgent, Wake, StopAsleep
<1>2. ASSUME NEW a \in Assignments, NEW f \in Forms, ClaimAssignment(a, f) PROVE Goal
  BY <1>2 DEF ClaimAssignment, Settle, CycleOK
<1>n. \A e : ~ Refusal(e) /\ ~ TurnedAway(e)
  BY DEF Refusal, TurnedAway
<1>3. CASE ClaimDeclined \/ ClaimUnanswered
  <2>1. pc = "claim" /\ held' = None /\ UNCHANGED <<credential, contract>>
    BY <1>3, <1>n DEF ClaimDeclined, ClaimUnanswered, Settle
  <2> QED BY <2>1 DEF CycleOK
<1>4. ASSUME NEW p \in Payloads, SolveAssignment(p) PROVE Goal
  BY <1>4 DEF SolveAssignment
<1>5. ASSUME NEW e \in Errors, SolveFails(e) PROVE Goal
  BY <1>5 DEF SolveFails, GiveUp
<1>6. CASE SubmitAnswered
  <2>1. server' = [server EXCEPT ![held] = "closed"]
    BY <1>6 DEF SubmitAnswered, ServerRecords, Key
  <2> QED BY <1>6, <1>t, <1>h, <2>1 DEF SubmitAnswered, Settle
<1>7. CASE SubmitRefused \/ SubmitResent \/ SubmitUnanswered \/ SubmitUnsendable
  BY <1>7, <1>n DEF SubmitRefused, SubmitResent, SubmitUnanswered, SubmitUnsendable, GiveUp
<1>8. CASE Release
  <2>1. server' = [server EXCEPT ![held] = IF @ = "open" THEN "free" ELSE @]
    BY <1>8 DEF Release, CycleOK
  <2> QED BY <1>8, <1>t, <1>h, <2>1 DEF Release, EndRelease
<1>9. CASE ReleaseFails
  BY <1>9, <1>n DEF ReleaseFails
<1>10. CASE FinishCycle \/ FinishOnce
  BY <1>10 DEF FinishCycle, FinishOnce
<1>11. CASE Tick \/ Signal \/ RevokeCredential \/ ChangeContract
  BY <1>11 DEF Tick, Signal, RevokeCredential, ChangeContract
<1>12. ASSUME NEW a \in Assignments, Expire(a) PROVE Goal
  BY <1>12 DEF Expire
<1>13. ASSUME NEW k \in Keys, SubmissionArrives(k) PROVE Goal
  BY <1>13 DEF SubmissionArrives
<1>14. CASE Stopped \/ UNCHANGED vars
  BY <1>14 DEF Stopped, vars
<1> QED
  BY <1>1, <1>2, <1>3, <1>4, <1>5, <1>6, <1>7, <1>8, <1>9, <1>10, <1>11, <1>12,
     <1>13, <1>14
  DEF Next, Loop, Environment

\* As long as no request is lost or forbidden, the credential and the contract
\* hold, and the assignments have a name to release them by, the worker never turns away from
\* an open one, whatever the solver, the server, a signal or an expiry does.
THEOREM HandsOpenOnesBack ==
  ASSUME Faults \cap {"lose", "revoke", "forbid", "contract"} = {},
         Forms \subseteq {"linked", "unsupported", "id_only", "malformed"}
  PROVE  Spec => NeverTurnsFromOpen
<1> DEFINE Inv == Served /\ (held # None => ServedOK)
<1>1. Init => Inv
  BY DEF Init, Served
<1>2. TypeOK /\ CycleOK /\ Inv /\ [Next]_vars
        => Inv' /\ [held # None /\ held' = None => server'[held] # "open"]_vars
  BY NextServed
<1> QED BY <1>1, <1>2, CycleCorrect, PTL DEF Spec, NeverTurnsFromOpen

-----------------------------------------------------------------------------
(* The cooldowns.                                                          *)

\* An agent without an entry has nothing left to wait for, and the agent at
\* work has nothing left to wait for either.
RestedOK ==
  /\ \A a \in Agents : failures[a] = 0 => left[a] = 0
  /\ pc \notin {"select", "cooling", "sleep", "stopped"} => left[agent] = 0

\* Selecting, finishing and the passing of time keep it so; nothing else has a
\* say in it.
LEMMA NextRested == TypeOK /\ RestedOK /\ [Next]_vars => RestedOK'
<1> SUFFICES ASSUME TypeOK, RestedOK, [Next]_vars PROVE RestedOK'
  OBVIOUS
<1>t. /\ failures \in [Agents -> 0 .. MaxFailures]
      /\ left \in [Agents -> 0 .. Max2(Interval, MaxBackoff)]
      /\ agent \in Agents
  BY DEF TypeOK, BackoffTypeOK
<1>u. ASSUME UNCHANGED <<failures, left, agent>>,
             pc' \in {"select", "cooling", "sleep", "stopped"}
               \/ pc \notin {"select", "cooling", "sleep", "stopped"}
      PROVE  RestedOK'
  BY <1>u DEF RestedOK
<1> USE DEF cycleVars, serverVars, backoffVars
<1>1. CASE SelectAgent
  <2>1. PICK a \in Agents : SelectReady(a) /\ agent' = a
    BY <1>1 DEF SelectAgent
  <2>2. ~ Cooling(a) /\ UNCHANGED <<failures, left>>
    BY <1>1, <2>1 DEF SelectAgent, SelectReady
  <2>3. left[a] = 0
    BY <1>t, <2>2, BackoffAssumption DEF Cooling, RestedOK, Max2
  <2> QED BY <2>1, <2>2, <2>3 DEF RestedOK
<1>2. CASE AwaitAgent \/ Wake \/ StopAsleep
  BY <1>u, <1>2 DEF AwaitAgent, Wake, StopAsleep
<1>3. ASSUME NEW a \in Assignments, NEW f \in Forms, ClaimAssignment(a, f)
      PROVE  RestedOK'
  BY <1>u, <1>3 DEF ClaimAssignment
<1>4. CASE ClaimDeclined \/ ClaimUnanswered
  BY <1>u, <1>4 DEF ClaimDeclined, ClaimUnanswered
<1>5. ASSUME NEW p \in Payloads, SolveAssignment(p) PROVE RestedOK'
  BY <1>u, <1>5 DEF SolveAssignment
<1>6. ASSUME NEW e \in Errors, SolveFails(e) PROVE RestedOK'
  BY <1>u, <1>6 DEF SolveFails, GiveUp
<1>7. CASE SubmitAnswered \/ SubmitRefused \/ SubmitResent \/ SubmitUnanswered
           \/ SubmitUnsendable
  BY <1>u, <1>7 DEF SubmitAnswered, SubmitRefused, SubmitResent, SubmitUnanswered,
                    SubmitUnsendable, GiveUp
<1>8. CASE Release \/ ReleaseFails
  BY <1>u, <1>8 DEF Release, ReleaseFails, EndRelease
<1>9. CASE FinishCycle
  <2>1. pc' \in {"sleep", "stopped"}
    BY <1>9 DEF FinishCycle
  <2>2. CASE RecordFailure(agent)
    <3>1. failures'[agent] > 0
      BY <1>t, <2>2, BackoffAssumption DEF RecordFailure
    <3>2. \A a \in Agents : a # agent => failures'[a] = failures[a] /\ left'[a] = left[a]
      BY <1>t, <2>2 DEF RecordFailure
    <3> QED BY <2>1, <3>1, <3>2 DEF RestedOK
  <2>3. CASE RecordSuccess(agent)
    BY <1>t, <2>1, <2>3 DEF RecordSuccess, RestedOK
  <2>4. CASE UNCHANGED <<failures, delay, left>>
    BY <2>1, <2>4 DEF RestedOK
  <2> QED BY <1>9, <2>2, <2>3, <2>4 DEF FinishCycle
<1>10. CASE FinishOnce
  BY <1>u, <1>10 DEF FinishOnce
<1>11. CASE Tick
  <2>1. left' = [a \in Agents |-> Pass(left[a])] /\ UNCHANGED <<failures, agent, pc>>
    BY <1>11 DEF Tick, CooldownsPass
  <2> QED BY <1>t, <2>1 DEF Pass, RestedOK
<1>12. CASE Signal \/ RevokeCredential \/ ChangeContract
  BY <1>u, <1>12 DEF Signal, RevokeCredential, ChangeContract
<1>13. ASSUME NEW a \in Assignments, Expire(a) PROVE RestedOK'
  BY <1>u, <1>13 DEF Expire
<1>14. ASSUME NEW k \in Keys, SubmissionArrives(k) PROVE RestedOK'
  BY <1>u, <1>14 DEF SubmissionArrives
<1>15. CASE Stopped \/ UNCHANGED vars
  BY <1>u, <1>15 DEF Stopped, vars
<1> QED
  BY <1>1, <1>2, <1>3, <1>4, <1>5, <1>6, <1>7, <1>8, <1>9, <1>10, <1>11, <1>12,
     <1>13, <1>14, <1>15 DEF Next, Loop, Environment

\* The invariant the theorems of this module rest on.
LEMMA RestedCorrect == Spec => [](TypeOK /\ RestedOK)
<1>1. Init => TypeOK /\ RestedOK
  <2> SUFFICES ASSUME Init PROVE RestedOK
    BY InitTypes
  <2>1. agent \in Agents
    BY InitTypes DEF TypeOK
  <2> QED BY <2>1 DEF Init, BackoffInit, RestedOK
<1>2. TypeOK /\ CycleOK /\ RestedOK /\ [Next]_vars => (TypeOK /\ RestedOK)'
  BY NextTypes, NextRested
<1> QED BY <1>1, <1>2, CycleCorrect, PTL DEF Spec

\* From its selection to the end of its cycle, an agent is not cooling down.
THEOREM OnlyReadyAgentsWork == Spec => []BusyAgentIsReady
<1>1. TypeOK /\ RestedOK => BusyAgentIsReady
  BY DEF RestedOK, BusyAgentIsReady, AtRest, Cooling
<1> QED BY <1>1, RestedCorrect, PTL

\* What one step does to what is left of a cooldown.
LEMMA NextCooldown ==
  ASSUME TypeOK, RestedOK, [Next]_vars, NEW a \in Agents
  PROVE  left'[a] >= left[a] \/ left'[a] + 1 = left[a]
<1>t. /\ left \in [Agents -> 0 .. Max2(Interval, MaxBackoff)]
      /\ left[a] \in Nat
      /\ agent \in Agents
  BY BackoffAssumption DEF TypeOK, BackoffTypeOK, Max2
<1>u. ASSUME UNCHANGED left PROVE left'[a] >= left[a]
  BY <1>t, <1>u
<1> USE DEF cycleVars, serverVars, backoffVars
<1>1. CASE FinishCycle
  <2>1. left[agent] = 0
    BY <1>1 DEF FinishCycle, RestedOK
  <2>2. NextDelay(agent) \in Nat
    <3>1. NextDelay(agent) \in 0 .. Max2(Interval, MaxBackoff)
      BY <1>t, NextDelayBound DEF TypeOK
    <3> QED BY <3>1
  <2>3. CASE left' = [left EXCEPT ![agent] = NextDelay(agent)]
    BY <1>t, <2>1, <2>2, <2>3
  <2>4. CASE left' = [left EXCEPT ![agent] = 0]
    BY <1>t, <2>1, <2>4
  <2> QED BY <1>1, <1>u, <2>3, <2>4 DEF FinishCycle, RecordFailure, RecordSuccess
<1>2. CASE Tick
  BY <1>2, <1>t DEF Tick, CooldownsPass, Pass
<1>3. CASE SelectAgent \/ AwaitAgent \/ Wake \/ StopAsleep
  BY <1>u, <1>3 DEF SelectAgent, AwaitAgent, Wake, StopAsleep
<1>4. CASE \/ \E w \in Assignments, f \in Forms : ClaimAssignment(w, f)
           \/ ClaimDeclined
           \/ ClaimUnanswered
  BY <1>u, <1>4 DEF ClaimAssignment, ClaimDeclined, ClaimUnanswered
<1>5. CASE (\E p \in Payloads : SolveAssignment(p)) \/ \E e \in Errors : SolveFails(e)
  BY <1>u, <1>5 DEF SolveAssignment, SolveFails
<1>6. CASE SubmitAnswered \/ SubmitRefused \/ SubmitResent \/ SubmitUnanswered
           \/ SubmitUnsendable
  BY <1>u, <1>6 DEF SubmitAnswered, SubmitRefused, SubmitResent, SubmitUnanswered,
                    SubmitUnsendable
<1>7. CASE Release \/ ReleaseFails \/ FinishOnce
  BY <1>u, <1>7 DEF Release, ReleaseFails, FinishOnce
<1>8. CASE \/ Signal
           \/ \E w \in Assignments : Expire(w)
           \/ \E k \in Keys : SubmissionArrives(k)
           \/ RevokeCredential
           \/ ChangeContract
  BY <1>u, <1>8 DEF Signal, Expire, SubmissionArrives, RevokeCredential,
                    ChangeContract
<1>9. CASE Stopped \/ UNCHANGED vars
  BY <1>u, <1>9 DEF Stopped, vars
<1> QED
  BY <1>1, <1>2, <1>3, <1>4, <1>5, <1>6, <1>7, <1>8, <1>9 DEF Next, Loop, Environment

\* Neither another agent's success nor another failure cuts a cooldown short.
THEOREM CooldownsRunOut == Spec => CooldownRunsOut
<1>1. TypeOK /\ RestedOK /\ [Next]_vars
        => [\A a \in Agents : left'[a] >= left[a] \/ left'[a] + 1 = left[a]]_vars
  BY NextCooldown
<1> QED BY <1>1, RestedCorrect, PTL DEF Spec, CooldownRunsOut

-----------------------------------------------------------------------------
(* Waking up.                                                              *)

LEMMA NextWake == TypeOK /\ WakesForEarliest /\ [Next]_vars => WakesForEarliest'
<1> SUFFICES ASSUME TypeOK, WakesForEarliest, [Next]_vars, pc' = "cooling"
             PROVE  /\ \A a \in Pooled' : timer' <= left'[a]
                    /\ \E a \in Pooled' : timer' = left'[a]
  BY DEF WakesForEarliest
<1>t. /\ left \in [Agents -> 0 .. Max2(Interval, MaxBackoff)]
      /\ timer \in 0 .. Max2(Interval, MaxBackoff)
      /\ Max2(Interval, MaxBackoff) \in Nat
      /\ pool \in Seq(Agents)
  BY BackoffAssumption DEF TypeOK, BackoffTypeOK, Max2
<1>p. Pooled \subseteq Agents
  BY <1>t DEF Pooled
<1>u. ASSUME UNCHANGED <<pool, left, timer, pc>>
      PROVE  /\ \A a \in Pooled' : timer' <= left'[a]
             /\ \E a \in Pooled' : timer' = left'[a]
  BY <1>u DEF WakesForEarliest, Pooled
<1> USE DEF cycleVars, serverVars, backoffVars
<1>1. CASE AwaitAgent
  <2>1. PICK wait : NoneReady(wait) /\ timer' = wait
    BY <1>1 DEF AwaitAgent
  <2>2. UNCHANGED <<left, Pooled>>
    BY <1>1 DEF AwaitAgent, Pooled
  <2> QED BY <2>1, <2>2 DEF NoneReady
<1>2. CASE Tick
  <2>1. /\ timer' = Pass(timer) /\ left' = [a \in Agents |-> Pass(left[a])]
        /\ UNCHANGED <<pc, Pooled>>
    BY <1>2 DEF Tick, CooldownsPass, Pooled
  <2>2. \A m, n \in Nat : m <= n => Pass(m) <= Pass(n)
    BY DEF Pass
  <2>3. \A a \in Pooled : timer <= left[a] /\ left[a] \in Nat /\ timer \in Nat
    BY <1>t, <1>p, <2>1 DEF WakesForEarliest
  <2>4. PICK a \in Pooled : timer = left[a]
    BY <2>1 DEF WakesForEarliest
  <2>5. \A b \in Pooled : timer' <= left'[b]
    BY <1>t, <1>p, <2>1, <2>2, <2>3
  <2>6. timer' = left'[a]
    BY <1>t, <1>p, <2>1, <2>4
  <2> QED BY <2>1, <2>5, <2>6
<1>3. CASE SelectAgent \/ Wake \/ StopAsleep
  BY <1>3 DEF SelectAgent, Wake, StopAsleep
<1>4. CASE \/ \E w \in Assignments, f \in Forms : ClaimAssignment(w, f)
           \/ ClaimDeclined
           \/ ClaimUnanswered
  BY <1>4 DEF ClaimAssignment, ClaimDeclined, ClaimUnanswered, Settle
<1>5. CASE (\E p \in Payloads : SolveAssignment(p)) \/ \E e \in Errors : SolveFails(e)
  BY <1>5 DEF SolveAssignment, SolveFails, GiveUp
<1>6. CASE SubmitAnswered \/ SubmitRefused \/ SubmitResent \/ SubmitUnanswered
           \/ SubmitUnsendable
  BY <1>6 DEF SubmitAnswered, SubmitRefused, SubmitResent, SubmitUnanswered,
              SubmitUnsendable, Settle, GiveUp
<1>7. CASE Release \/ ReleaseFails \/ FinishCycle \/ FinishOnce
  BY <1>7 DEF Release, ReleaseFails, EndRelease, FinishCycle, FinishOnce
<1>8. CASE \/ Signal
           \/ \E w \in Assignments : Expire(w)
           \/ \E k \in Keys : SubmissionArrives(k)
           \/ RevokeCredential
           \/ ChangeContract
  BY <1>u, <1>8 DEF Signal, Expire, SubmissionArrives, RevokeCredential,
                    ChangeContract
<1>9. CASE Stopped \/ UNCHANGED vars
  BY <1>u, <1>9 DEF Stopped, vars
<1> QED
  BY <1>1, <1>2, <1>3, <1>4, <1>5, <1>6, <1>7, <1>8, <1>9 DEF Next, Loop, Environment

\* A worker whose agents are all cooling down sleeps neither too long nor too
\* short.
THEOREM WakesInTime == Spec => []WakesForEarliest
<1>1. Init => WakesForEarliest
  BY DEF Init, WakesForEarliest
<1>2. TypeOK /\ WakesForEarliest /\ [Next]_vars => WakesForEarliest'
  BY NextWake
<1> QED BY <1>1, <1>2, CycleCorrect, PTL DEF Spec

-----------------------------------------------------------------------------
(* The length of a cooldown. RecordFailure doubles the last delay where    *)
(* the code goes through its loop again; both agree as long as the delays  *)
(* are those of the failures on record.                                    *)

\* The loop, one failure at a time.
LEMMA LoopDelayUnfolds ==
  /\ LoopDelay[1] = Interval
  /\ \A n \in 2 .. MaxFailures : LoopDelay[n] = Doubled(LoopDelay[n - 1])
<1> DEFINE top == MaxFailures - 1
           step == [p \in Nat \X (1 .. top) |-> Doubled(p[1])]
           Def(l) == l = [n \in 1 .. MaxFailures |->
                           IF n = 1 THEN Interval
                           ELSE LET d == 2 * l[n - 1]
                                IN  IF d >= MaxBackoff THEN MaxBackoff ELSE d]
<1>1. top \in Nat /\ Interval \in Nat /\ step \in StepFunctions(Nat, top)
  BY BackoffAssumption DEF Doubled, StepFunctions
<1>2. PICK f \in [0 .. top -> Nat] : Leads(f, top, Interval, step)
  <2> HIDE DEF step, top
  <2> QED
    BY <1>1, Recursion
<1>3. \A i \in 1 .. top : f[i] = Doubled(f[i - 1])
  <2> SUFFICES ASSUME NEW i \in 1 .. top PROVE f[i] = Doubled(f[i - 1])
    OBVIOUS
  <2>1. <<f[i - 1], i>> \in Nat \X (1 .. top)
    BY <1>1
  <2>2. f[i] = step[<<f[i - 1], i>>]
    BY <1>2 DEF Leads
  <2> HIDE DEF top
  <2> QED
    BY <2>1, <2>2
<1> DEFINE g == [n \in 1 .. MaxFailures |-> f[n - 1]]
<1>4. Def(g)
  <2> SUFFICES ASSUME NEW n \in 1 .. MaxFailures
               PROVE  g[n] = IF n = 1 THEN Interval
                             ELSE LET d == 2 * g[n - 1]
                                  IN  IF d >= MaxBackoff THEN MaxBackoff ELSE d
    BY Zenon
  <2>1. CASE n = 1
    BY <1>2, <2>1 DEF Leads
  <2>2. CASE n # 1
    <3>1. n - 1 \in 1 .. top /\ n - 1 \in 1 .. MaxFailures
      BY <2>2, BackoffAssumption
    <3>2. g[n - 1] = f[n - 1 - 1] /\ g[n] = f[n - 1]
      BY <3>1
    <3> HIDE DEF g, top
    <3> QED
      BY <1>3, <2>2, <3>1, <3>2 DEF Doubled
  <2> QED
    BY <2>1, <2>2
<1>5. Def(LoopDelay)
  <2> HIDE DEF g
  <2> QED
    BY <1>4, Zenon DEF LoopDelay
<1>6. ASSUME NEW n \in 2 .. MaxFailures PROVE LoopDelay[n] = Doubled(LoopDelay[n - 1])
  <2>1. n \in 1 .. MaxFailures /\ n # 1
    OBVIOUS
  <2>2. LoopDelay[n] = IF n = 1 THEN Interval
                       ELSE LET d == 2 * LoopDelay[n - 1]
                            IN  IF d >= MaxBackoff THEN MaxBackoff ELSE d
    BY <1>5, <2>1, Zenon
  <2> QED
    BY <2>1, <2>2 DEF Doubled
<1>7. LoopDelay[1] = Interval
  BY <1>5, BackoffAssumption
<1> QED
  BY <1>6, <1>7

\* One more failure, and one success, keep the delay that the loop computes.
LEMMA FailureLength ==
  ASSUME BackoffTypeOK, CooldownMatchesFailures, NEW a \in Agents, RecordFailure(a)
  PROVE  CooldownMatchesFailures'
<1>t. /\ failures \in [Agents -> 0 .. MaxFailures] /\ delay \in [Agents -> Nat]
      /\ left \in [Agents -> Nat] /\ MaxFailures \in Nat \ {0}
  <2>1. 0 .. Max2(Interval, MaxBackoff) \subseteq Nat
    OBVIOUS
  <2> QED
    BY <2>1, BackoffAssumption DEF BackoffTypeOK
<1>1. ASSUME NEW b \in Agents, b # a
      PROVE  failures'[b] = failures[b] /\ delay'[b] = delay[b] /\ left'[b] = left[b]
  BY <1>t, <1>1 DEF RecordFailure
<1>2. /\ failures'[a] = IF failures[a] < MaxFailures THEN failures[a] + 1 ELSE failures[a]
      /\ delay'[a] = NextDelay(a) /\ left'[a] = NextDelay(a)
  BY <1>t DEF RecordFailure
<1>3. failures'[a] # 0 /\ NextDelay(a) = LoopDelay[failures'[a]]
  <2>1. CASE failures[a] = 0
    BY <1>t, <1>2, <2>1, LoopDelayUnfolds DEF NextDelay
  <2>2. CASE failures[a] \in 1 .. MaxFailures - 1
    <3>1. failures'[a] \in 2 .. MaxFailures /\ failures'[a] - 1 = failures[a]
      BY <1>t, <1>2, <2>2
    <3>2. delay[a] = LoopDelay[failures[a]]
      BY <2>2 DEF CooldownMatchesFailures
    <3> QED
      BY <1>t, <2>2, <3>1, <3>2, LoopDelayUnfolds DEF NextDelay
  <2>3. CASE failures[a] = MaxFailures
    <3>1. delay[a] = MaxBackoff
      BY <1>t, <2>3, CounterAssumption DEF CooldownMatchesFailures
    <3>2. NextDelay(a) = MaxBackoff
      BY <1>t, <2>3, <3>1, BackoffAssumption DEF NextDelay, Doubled
    <3> QED
      BY <1>t, <1>2, <2>3, <3>2, CounterAssumption
  <2> QED
    BY <1>t, <2>1, <2>2, <2>3
<1>4. NextDelay(a) \in Nat
  <2>1. NextDelay(a) \in 0 .. Max2(Interval, MaxBackoff)
    BY NextDelayBound
  <2> QED
    BY <2>1
<1> QED
  BY <1>1, <1>2, <1>3, <1>4 DEF CooldownMatchesFailures

LEMMA NextLength == TypeOK /\ CooldownMatchesFailures /\ [Next]_vars => CooldownMatchesFailures'
<1> SUFFICES ASSUME TypeOK, CooldownMatchesFailures, [Next]_vars PROVE CooldownMatchesFailures'
  OBVIOUS
<1>t. /\ failures \in [Agents -> 0 .. MaxFailures] /\ delay \in [Agents -> Nat]
      /\ left \in [Agents -> Nat] /\ agent \in Agents
  <2>1. 0 .. Max2(Interval, MaxBackoff) \subseteq Nat
    OBVIOUS
  <2> QED
    BY <2>1 DEF TypeOK, BackoffTypeOK
<1>u. ASSUME UNCHANGED <<failures, delay, left>> PROVE CooldownMatchesFailures'
  BY <1>u DEF CooldownMatchesFailures
<1> USE DEF cycleVars, serverVars, backoffVars
<1>1. CASE FinishCycle
  <2>1. CASE RecordFailure(agent)
    BY <1>t, <2>1, FailureLength DEF TypeOK
  <2>2. CASE RecordSuccess(agent)
    BY <1>t, <2>2 DEF RecordSuccess, CooldownMatchesFailures
  <2> QED
    BY <1>1, <1>u, <2>1, <2>2 DEF FinishCycle
<1>2. CASE Tick
  <2>1. /\ left' = [a \in Agents |-> Pass(left[a])]
        /\ UNCHANGED <<failures, delay>>
    BY <1>2 DEF Tick, CooldownsPass
  <2>2. \A m, n \in Nat : m <= n => Pass(m) <= n
    BY DEF Pass
  <2>3. \A a \in Agents : left'[a] <= delay[a]
    BY <1>t, <2>1, <2>2 DEF CooldownMatchesFailures
  <2> QED
    BY <2>1, <2>3 DEF CooldownMatchesFailures
<1>3. CASE SelectAgent \/ AwaitAgent \/ Wake \/ StopAsleep
  BY <1>u, <1>3 DEF SelectAgent, AwaitAgent, Wake, StopAsleep
<1>4. CASE \/ \E w \in Assignments, f \in Forms : ClaimAssignment(w, f)
           \/ ClaimDeclined
           \/ ClaimUnanswered
  BY <1>u, <1>4 DEF ClaimAssignment, ClaimDeclined, ClaimUnanswered
<1>5. CASE (\E p \in Payloads : SolveAssignment(p)) \/ \E e \in Errors : SolveFails(e)
  BY <1>u, <1>5 DEF SolveAssignment, SolveFails
<1>6. CASE SubmitAnswered \/ SubmitRefused \/ SubmitResent \/ SubmitUnanswered
           \/ SubmitUnsendable
  BY <1>u, <1>6 DEF SubmitAnswered, SubmitRefused, SubmitResent, SubmitUnanswered,
                    SubmitUnsendable
<1>7. CASE Release \/ ReleaseFails \/ FinishOnce
  BY <1>u, <1>7 DEF Release, ReleaseFails, FinishOnce
<1>8. CASE \/ Signal
           \/ \E w \in Assignments : Expire(w)
           \/ \E k \in Keys : SubmissionArrives(k)
           \/ RevokeCredential
           \/ ChangeContract
  BY <1>u, <1>8 DEF Signal, Expire, SubmissionArrives, RevokeCredential,
                    ChangeContract
<1>9. CASE Stopped \/ UNCHANGED vars
  BY <1>u, <1>9 DEF Stopped, vars
<1> QED
  BY <1>1, <1>2, <1>3, <1>4, <1>5, <1>6, <1>7, <1>8, <1>9 DEF Next, Loop, Environment

\* However the failures, successes and waits of a worker follow each other, every
\* cooldown has the length that RecordFailure computes from the number of failures.
THEOREM CooldownsHaveTheirLength == Spec => []CooldownMatchesFailures
<1>1. Init => CooldownMatchesFailures
  <2> SUFFICES ASSUME Init PROVE CooldownMatchesFailures
    OBVIOUS
  <2>1. \A a \in Agents : failures[a] = 0 /\ delay[a] = 0 /\ left[a] = 0
    BY DEF Init, BackoffInit
  <2>2. 0 <= 0
    OBVIOUS
  <2>3. \A a \in Agents : left[a] <= delay[a]
    BY <2>1, <2>2, Zenon
  <2> QED
    BY <2>1, <2>3, Zenon DEF CooldownMatchesFailures
<1>2. TypeOK /\ CooldownMatchesFailures /\ [Next]_vars => CooldownMatchesFailures'
  BY NextLength
<1> QED
  BY <1>1, <1>2, CycleCorrect, PTL DEF Spec
=============================================================================
