------------------------- MODULE CredentialsProofs -------------------------
(***************************************************************************)
(* Theorems about Credentials and, at the end, about DeviceLogin: how the  *)
(* stored login lives and how a new one comes about. What concerns one     *)
(* request holds for any number of processes; what concerns the file holds *)
(* while no two processes run at the same time, and fails with two of them *)
(* (see the runs credentials_logout and credentials_two_workers).          *)
(***************************************************************************)
EXTENDS Credentials, DeviceLogin, TLAPS

Alone == \A p, q \in Processes : p = q

AboutLogin == {"access", "refresh", "discovery"}

-----------------------------------------------------------------------------
(* Invariants.                                                             *)

\* The expiry of a configuration is that of its access token, if it has one.
ExpiryFits(c, exempt) ==
  \/ c.access = 0
  \/ c.expiry = 0
  \/ c.expiry = c.access
  \/ c.access \in exempt

ExpiryOK ==
  /\ ExpiryFits(disk, undated)
  /\ \A p \in Processes : ExpiryFits(config[p], undated)

\* What a request still has, and what has turned it away so far.
RequestOf(p) ==
  /\ pc[p] = "granted" => grant[p] # 0
  /\ pc[p] = "send" /\ config[p].refresh # 0 => config[p].access # 0
  /\ pc[p] \in {"refresh", "granted", "discard", "send"} =>
       /\ "key" \in had[p] => config[p].key
       /\ "login" \in had[p] =>
            HasLogin(config[p]) \/ tried[p] \cap AboutLogin # {}
  /\ pc[p] = "discard" => tried[p] \cap AboutLogin # {}
  /\ pc[p] = "rejected" =>
       /\ "login" \in had[p] => tried[p] \cap AboutLogin # {}
       /\ "key" \in had[p] => "key" \in tried[p]

RequestOK == \A p \in Processes : RequestOf(p)

\* Nobody holds a token that has not been issued.
KnownOK ==
  /\ disk.refresh <= issued
  /\ \A p \in Processes : config[p].refresh <= issued /\ grant[p] <= issued

\* The refresh token in memory is the one in the file, unless it was cleared or
\* has succeeded one that is of no use any more.
MemoryOf(p) ==
  pc[p] \notin {"off", "login"} =>
    \/ config[p].refresh = disk.refresh
    \/ config[p].refresh = 0
    \/ excused /\ disk.refresh # 0 /\ disk.refresh \notin live

\* The tokens a process has been given are good until they are saved.
GrantOf(p) ==
  pc[p] = "granted" =>
    /\ config[p].refresh # 0
    /\ \/ IF rotates THEN grant[p] \in live /\ config[p].refresh \notin live
          ELSE config[p].refresh \in live
       \/ excused /\ disk.refresh \notin live

\* Why a process is about to discard its tokens.
DiscardOf(p) ==
  /\ pc[p] = "refresh" => config[p].refresh # 0
  /\ pc[p] = "discard" =>
       \/ config[p].refresh # 0 /\ config[p].refresh \notin live
       \/ "discovery" \in tried[p]
       \/ "access" \in tried[p] /\ config[p].key

StoredOf(p) ==
  \/ disk.refresh \in live \cup {0}
  \/ excused
  \/ pc[p] = "granted"

\* What ties the file to the one process that may be running.
FileOf(p) == StoredOf(p) /\ MemoryOf(p) /\ GrantOf(p) /\ DiscardOf(p)
FileOK == \A p \in Processes : FileOf(p)

\* Whoever has logged out runs nothing but a login.
LogoutOf(p) == loggedOut => ~ HasAuth(disk) /\ pc[p] \in {"off", "login"}
LogoutOK == \A p \in Processes : LogoutOf(p)

-----------------------------------------------------------------------------
(* Types.                                                                  *)

LEMMA UpdatedType ==
  ASSUME TypeOK, NEW c \in Configs, NEW g \in 0 .. MaxTokens
  PROVE  Updated(c, g) \in Configs
BY DEF TypeOK, Updated, Configs

LEMMA ClearedType ==
  ASSUME CredentialsAssumption, NEW c \in Configs
  PROVE  Cleared(c) \in Configs /\ Empty \in Configs
BY DEF CredentialsAssumption, Cleared, Empty, Configs

LEMMA IssueType ==
  ASSUME CredentialsAssumption, TypeOK, NEW used, Issue(used)
  PROVE  /\ issued' \in Tokens
         /\ age' \in [Tokens -> {"fresh", "due", "expired"}]
         /\ live' \in SUBSET Tokens
         /\ valid' \in SUBSET Tokens
         /\ undated' \in SUBSET Tokens
         /\ rotates' \in BOOLEAN
         /\ keyAccepted' \in BOOLEAN
         /\ issued + 1 \in Tokens
<1>1. issued + 1 \in Tokens
  BY DEF CredentialsAssumption, TypeOK, Issue, Tokens
<1>2. live' \in SUBSET Tokens /\ valid' \in SUBSET Tokens /\ undated' \in SUBSET Tokens
  BY <1>1 DEF TypeOK, Issue
<1>3. QED
  BY <1>1, <1>2 DEF TypeOK, Issue

\* The step of one process keeps the types if what it writes is typed.
LEMMA EndCallType ==
  ASSUME TypeOK, NEW p \in Processes, NEW step \in Steps, EndCall(p, step)
  PROVE  /\ pc' \in [Processes -> Steps]
         /\ forced' \in [Processes -> BOOLEAN]
         /\ grant' \in [Processes -> 0 .. MaxTokens]
         /\ had' \in [Processes -> SUBSET {"login", "key"}]
         /\ tried' \in [Processes -> SUBSET Answers]
<1>1. 0 \in 0 .. MaxTokens
  BY CredentialsAssumption DEF CredentialsAssumption
<1>2. QED
  BY <1>1 DEF TypeOK, EndCall, Become

LEMMA RequestType ==
  ASSUME TypeOK, NEW p \in Processes, Request(p)
  PROVE  TypeOK'
<1> USE CredentialsAssumption
<1>c. config[p] \in Configs /\ grant[p] \in 0 .. MaxTokens /\ config[p].key \in BOOLEAN
  BY DEF TypeOK, Configs
<1>u. Updated(config[p], grant[p]) \in Configs
  BY <1>c, UpdatedType
<1>l. Cleared(config[p]) \in Configs
  BY <1>c, ClearedType
<1>s. \A s \in Steps : Become(p, s) => pc' \in [Processes -> Steps]
  BY DEF TypeOK, Become
<1>t. \A a \in Answers : TurnedAway(p, a) => tried' \in [Processes -> SUBSET Answers]
  BY DEF TypeOK, TurnedAway
<1>f. FallBack(p) => pc' \in [Processes -> Steps]
  BY <1>s DEF FallBack, Steps
<1>1. CASE Call(p)
  <2>1. pc' \in [Processes -> Steps]
    BY <1>1, <1>s DEF Call, Steps
  <2>2. had' \in [Processes -> SUBSET {"login", "key"}]
    BY <1>1 DEF Call, TypeOK
  <2>3. QED
    BY <1>1, <2>1, <2>2 DEF Call, TypeOK, serverVars
<1>2. CASE RefreshGranted(p)
  <2>1. pc' \in [Processes -> Steps]
    BY <1>2, <1>s DEF RefreshGranted, Steps
  <2>2. grant' \in [Processes -> 0 .. MaxTokens]
    BY <1>2, IssueType DEF RefreshGranted, TypeOK, Tokens
  <2>3. QED
    BY <1>2, <2>1, <2>2, IssueType DEF RefreshGranted, TypeOK
<1>3. CASE RefreshLost(p)
  <2>1. EndCall(p, "ready") /\ "ready" \in Steps
    BY <1>3 DEF RefreshLost, Steps
  <2>2. excused' \in BOOLEAN
    BY <1>3 DEF RefreshLost, TypeOK
  <2>3. QED
    BY <1>3, <2>1, <2>2, EndCallType, IssueType DEF RefreshLost, TypeOK
<1>4. CASE RefreshRefused(p)
  <2>1. pc' \in [Processes -> Steps]
    BY <1>4, <1>s DEF RefreshRefused, Steps
  <2>2. tried' \in [Processes -> SUBSET Answers]
    BY <1>4, <1>t DEF RefreshRefused, Answers
  <2>3. QED
    BY <1>4, <2>1, <2>2 DEF RefreshRefused, TypeOK, serverVars
<1>5. CASE AdoptTokens(p)
  <2>1. config' \in [Processes -> Configs]
    BY <1>5, <1>u DEF AdoptTokens, TypeOK
  <2>2. CASE EndCall(p, "ready") /\ excused' = (excused \/ rotates) /\ UNCHANGED disk
    <3>1. "ready" \in Steps
      BY DEF Steps
    <3>2. excused' \in BOOLEAN
      BY <2>2 DEF TypeOK
    <3>3. QED
      BY <1>5, <2>1, <2>2, <3>1, <3>2, EndCallType DEF AdoptTokens, TypeOK, serverVars
  <2>3. CASE /\ disk' = Updated(config[p], grant[p])
             /\ grant' = [grant EXCEPT ![p] = 0]
             /\ Become(p, "send")
             /\ UNCHANGED <<forced, had, tried, excused>>
    <3>1. pc' \in [Processes -> Steps]
      BY <2>3, <1>s DEF Steps
    <3>2. grant' \in [Processes -> 0 .. MaxTokens]
      BY <2>3 DEF CredentialsAssumption, TypeOK
    <3>3. QED
      BY <1>5, <1>u, <2>1, <2>3, <3>1, <3>2 DEF AdoptTokens, TypeOK, serverVars
  <2>4. QED
    BY <1>5, <2>2, <2>3 DEF AdoptTokens
<1>6. CASE DiscardTokens(p)
  <2>1. config' \in [Processes -> Configs]
    BY <1>6, <1>l DEF DiscardTokens, TypeOK
  <2>2. CASE EndCall(p, "ready") /\ UNCHANGED disk
    <3>1. "ready" \in Steps
      BY DEF Steps
    <3>2. QED
      BY <1>6, <2>1, <2>2, <3>1, EndCallType DEF DiscardTokens, TypeOK, serverVars
  <2>3. CASE /\ disk' = Cleared(config[p])
             /\ Become(p, AfterDiscard(Cleared(config[p])))
             /\ UNCHANGED callVars
    <3>1. pc' \in [Processes -> Steps]
      BY <2>3, <1>s DEF Steps, AfterDiscard
    <3>2. QED
      BY <1>6, <1>l, <2>1, <2>3, <3>1 DEF DiscardTokens, TypeOK, serverVars, callVars
  <2>4. QED
    BY <1>6, <2>2, <2>3 DEF DiscardTokens
<1>7. CASE SendAccepted(p) \/ CallFails(p)
  <2>1. EndCall(p, "ready") /\ "ready" \in Steps
    BY <1>7 DEF SendAccepted, CallFails, Steps
  <2>2. QED
    BY <1>7, <2>1, EndCallType DEF SendAccepted, CallFails, TypeOK, serverVars
<1>8. CASE SendRefused(p)
  <2>1. tried' \in [Processes -> SUBSET Answers]
    BY <1>8, <1>t DEF SendRefused, Presented, Answers
  <2>2. pc' \in [Processes -> Steps] /\ forced' \in [Processes -> BOOLEAN]
    BY <1>8, <1>s, <1>f DEF SendRefused, Steps, TypeOK
  <2>3. QED
    BY <1>8, <2>1, <2>2 DEF SendRefused, TypeOK, serverVars
<1>9. CASE SendForbidden(p)
  <2>1. tried' \in [Processes -> SUBSET Answers]
    BY <1>9, <1>t DEF SendForbidden, Presented, Answers
  <2>2. QED
    BY <1>9, <1>f, <2>1 DEF SendForbidden, TypeOK, serverVars
<1>10. QED
  BY <1>1, <1>2, <1>3, <1>4, <1>5, <1>6, <1>7, <1>8, <1>9 DEF Request

LEMMA CommandType ==
  ASSUME TypeOK, NEW p \in Processes, Command(p)
  PROVE  TypeOK'
<1> USE CredentialsAssumption
<1>e. Empty \in Configs
  BY ClearedType, UpdatedType DEF TypeOK, CredentialsAssumption, Empty, Configs
<1>s. \A s \in Steps : Become(p, s) => pc' \in [Processes -> Steps]
  BY DEF TypeOK, Become
<1>1. CASE Run(p) \/ BeginLogin(p) \/ LoginFails(p)
  <2>1. pc' \in [Processes -> Steps]
    BY <1>1, <1>s DEF Run, BeginLogin, LoginFails, Steps
  <2>2. config' \in [Processes -> Configs]
    BY <1>1 DEF Run, BeginLogin, LoginFails, TypeOK
  <2>3. QED
    BY <1>1, <2>1, <2>2 DEF Run, BeginLogin, LoginFails, TypeOK, callVars, serverVars
<1>2. CASE FinishLogin(p)
  <2> DEFINE g == issued + 1
             new == [access |-> g, refresh |-> g,
                     expiry |-> IF g \in undated' THEN 0 ELSE g, key |-> FALSE]
  <2>1. Issue(0) /\ g \in Tokens /\ UNCHANGED callVars
    BY <1>2, IssueType DEF FinishLogin
  <2>2. g \in 0 .. MaxTokens /\ 0 \in 0 .. MaxTokens
    BY <2>1 DEF Tokens, CredentialsAssumption
  <2>3. new \in Configs
    BY <2>2 DEF Configs
  <2>4. CASE /\ disk' = new
             /\ config' = [config EXCEPT ![p] = new]
             /\ Become(p, "ready")
             /\ excused' = FALSE
             /\ loggedOut' = FALSE
    <3>1. pc' \in [Processes -> Steps]
      BY <2>4, <1>s DEF Steps
    <3>2. config' \in [Processes -> Configs]
      BY <2>3, <2>4 DEF TypeOK
    <3>3. QED
      BY <2>1, <2>3, <2>4, <3>1, <3>2, IssueType DEF TypeOK, callVars
  <2>5. CASE Become(p, "off") /\ UNCHANGED <<disk, config, excused, loggedOut>>
    <3>1. pc' \in [Processes -> Steps]
      BY <2>5, <1>s DEF Steps
    <3>2. QED
      BY <2>1, <2>5, <3>1, IssueType DEF TypeOK, callVars
  <2>6. QED
    BY <1>2, <2>4, <2>5 DEF FinishLogin
<1>3. CASE Logout(p)
  BY <1>3, <1>e DEF Logout, TypeOK, callVars, serverVars
<1>4. CASE Exit(p) \/ Crash(p)
  <2>1. EndCall(p, "off") /\ "off" \in Steps
    BY <1>4 DEF Exit, Crash, Steps
  <2>2. config' \in [Processes -> Configs] /\ excused' \in BOOLEAN
    BY <1>4, <1>e DEF Exit, Crash, TypeOK
  <2>3. QED
    BY <1>4, <2>1, <2>2, EndCallType DEF Exit, Crash, TypeOK, serverVars
<1>5. CASE GoOn(p)
  <2>1. EndCall(p, "ready") /\ "ready" \in Steps
    BY <1>5 DEF GoOn, Steps
  <2>2. QED
    BY <1>5, <2>1, EndCallType DEF GoOn, TypeOK, serverVars
<1>6. QED
  BY <1>1, <1>2, <1>3, <1>4, <1>5 DEF Command

LEMMA InitType == Init => TypeOK
<1> SUFFICES ASSUME Init PROVE TypeOK
  OBVIOUS
<1> USE CredentialsAssumption
<1>1. 0 \in 0 .. MaxTokens /\ 1 \in Tokens /\ 0 .. 1 \subseteq 0 .. MaxTokens
  BY DEF CredentialsAssumption, Tokens
<1>2. disk \in Configs
  BY <1>1 DEF Init, CredentialsAssumption, Configs
<1>3. Empty \in Configs
  BY <1>1 DEF Empty, Configs
<1>4. live \in SUBSET Tokens /\ valid \in SUBSET Tokens /\ undated \in SUBSET Tokens
  BY <1>1 DEF Init
<1>5. config \in [Processes -> Configs] /\ pc \in [Processes -> Steps]
  BY <1>3 DEF Init, Steps
<1>6. rotates \in BOOLEAN /\ grant \in [Processes -> 0 .. MaxTokens]
  BY <1>1 DEF Init, CredentialsAssumption
<1>7. QED
  BY <1>1, <1>2, <1>4, <1>5, <1>6 DEF Init, TypeOK

LEMMA NextType == TypeOK /\ [Next]_vars => TypeOK'
<1> SUFFICES ASSUME TypeOK, [Next]_vars PROVE TypeOK'
  OBVIOUS
<1>1. CASE \E p \in Processes : Request(p) \/ Command(p)
  BY <1>1, RequestType, CommandType
<1>2. CASE \E g \in Tokens : Age(g)
  <2>1. PICK g \in Tokens : Age(g)
    BY <1>2
  <2>2. age' \in [Tokens -> {"fresh", "due", "expired"}]
    BY <2>1 DEF Age, TypeOK
  <2>3. QED
    BY <2>1, <2>2 DEF Age, TypeOK, callVars
<1>3. CASE Revoke \/ RevokeKey
  BY <1>3 DEF Revoke, RevokeKey, TypeOK, callVars
<1>4. CASE UNCHANGED vars
  BY <1>4 DEF vars, TypeOK, callVars, serverVars
<1>5. QED
  BY <1>1, <1>2, <1>3, <1>4 DEF Next

\* Every variable of Credentials keeps its type.
THEOREM CredentialsTypeCorrect == Spec => []TypeOK
BY InitType, NextType, PTL DEF Spec

-----------------------------------------------------------------------------
(* ThriftyRefresh, for any number of processes.                            *)

\* Tokens only grow old, and what was undated remains so.
LEMMA Older ==
  ASSUME TypeOK, [Next]_vars
  PROVE  /\ undated \subseteq undated'
         /\ \A g \in Tokens : age[g] # "fresh" => age'[g] # "fresh"
<1>1. CASE \E p \in Processes : Request(p) \/ Command(p)
  <2>1. PICK p \in Processes : Request(p) \/ Command(p)
    BY <1>1
  <2>2. CASE UNCHANGED serverVars
    BY <2>2 DEF serverVars
  <2>3. CASE \E used : Issue(used)
    BY <2>3 DEF Issue
  <2>4. Request(p) => UNCHANGED serverVars \/ \E used : Issue(used)
    BY DEF Request, Call, RefreshGranted, RefreshLost, RefreshRefused, AdoptTokens,
           DiscardTokens, SendAccepted, SendRefused, SendForbidden, CallFails
  <2>5. Command(p) => UNCHANGED serverVars \/ \E used : Issue(used)
    BY DEF Command, Run, BeginLogin, FinishLogin, LoginFails, Logout, Exit, GoOn, Crash
  <2>6. QED
    BY <2>1, <2>2, <2>3, <2>4, <2>5
<1>2. CASE \E g \in Tokens : Age(g)
  BY <1>2 DEF Age, TypeOK
<1>3. CASE Revoke \/ RevokeKey \/ UNCHANGED vars
  BY <1>3 DEF Revoke, RevokeKey, vars, serverVars
<1>4. QED
  BY <1>1, <1>2, <1>3 DEF Next

\* What a step may write into the file and into a process's memory.
LEMMA ConfigWrites ==
  ASSUME TypeOK, ExpiryOK, [Next]_vars
  PROVE  /\ ExpiryFits(disk, undated)'
         /\ \A q \in Processes : ExpiryFits(config[q], undated)'
<1>o. undated \subseteq undated'
  BY Older
<1>k. \A c : ExpiryFits(c, undated) => ExpiryFits(c, undated')
  BY <1>o DEF ExpiryFits
<1>e. ExpiryFits(Empty, undated')
  BY DEF ExpiryFits, Empty
<1>w. ASSUME NEW p \in Processes, NEW c, ExpiryFits(c, undated'),
             config' = [config EXCEPT ![p] = c] \/ config' = config,
             disk' = c \/ disk' = disk \/ disk' = Empty
      PROVE  /\ ExpiryFits(disk', undated')
             /\ \A q \in Processes : ExpiryFits(config'[q], undated')
  <2>1. ExpiryFits(disk', undated')
    BY <1>w, <1>k, <1>e DEF ExpiryOK
  <2>2. ASSUME NEW q \in Processes
        PROVE  ExpiryFits(config'[q], undated')
    <3>1. config'[q] = c \/ config'[q] = config[q]
      BY <1>w DEF TypeOK
    <3>2. QED
      BY <3>1, <1>w, <1>k DEF ExpiryOK
  <2>3. QED
    BY <2>1, <2>2
<1>1. ASSUME NEW p \in Processes, AdoptTokens(p)
      PROVE  /\ ExpiryFits(disk, undated)'
             /\ \A q \in Processes : ExpiryFits(config[q], undated)'
  <2> DEFINE c == Updated(config[p], grant[p])
  <2>1. /\ config' = [config EXCEPT ![p] = c]
        /\ disk' = c \/ disk' = disk
        /\ undated' = undated
    BY <1>1 DEF AdoptTokens, serverVars
  <2>2. ExpiryFits(c, undated')
    BY <2>1 DEF ExpiryFits, Updated, TypeOK, Configs
  <2>3. QED
    BY <2>1, <2>2, <1>w
<1>2. ASSUME NEW p \in Processes, DiscardTokens(p)
      PROVE  /\ ExpiryFits(disk, undated)'
             /\ \A q \in Processes : ExpiryFits(config[q], undated)'
  <2> DEFINE c == Cleared(config[p])
  <2>1. config' = [config EXCEPT ![p] = c] /\ (disk' = c \/ disk' = disk)
    BY <1>2 DEF DiscardTokens
  <2>2. ExpiryFits(c, undated')
    BY DEF ExpiryFits, Cleared, Empty
  <2>3. QED
    BY <2>1, <2>2, <1>w
<1>3. ASSUME NEW p \in Processes, FinishLogin(p)
      PROVE  /\ ExpiryFits(disk, undated)'
             /\ \A q \in Processes : ExpiryFits(config[q], undated)'
  <2> DEFINE g == issued + 1
             new == [access |-> g, refresh |-> g,
                     expiry |-> IF g \in undated' THEN 0 ELSE g, key |-> FALSE]
  <2>1. \/ config' = [config EXCEPT ![p] = new] /\ disk' = new
        \/ config' = config /\ disk' = disk
    BY <1>3 DEF FinishLogin
  <2>2. ExpiryFits(new, undated')
    BY DEF ExpiryFits
  <2>3. QED
    BY <2>1, <2>2, <1>w
<1>4. ASSUME NEW p \in Processes, Run(p) \/ BeginLogin(p)
      PROVE  /\ ExpiryFits(disk, undated)'
             /\ \A q \in Processes : ExpiryFits(config[q], undated)'
  <2>1. config' = [config EXCEPT ![p] = disk] /\ disk' = disk
    BY <1>4 DEF Run, BeginLogin
  <2>2. ExpiryFits(disk, undated')
    BY <1>k DEF ExpiryOK
  <2>3. QED
    BY <2>1, <2>2, <1>w
<1>5. ASSUME NEW p \in Processes, Logout(p) \/ Exit(p) \/ Crash(p)
      PROVE  /\ ExpiryFits(disk, undated)'
             /\ \A q \in Processes : ExpiryFits(config[q], undated)'
  <2>1. /\ config' = [config EXCEPT ![p] = Empty] \/ config' = config
        /\ disk' = Empty \/ disk' = disk
    BY <1>5 DEF Logout, Exit, Crash
  <2>2. QED
    BY <2>1, <1>e, <1>w
<1>6. CASE UNCHANGED <<disk, config>>
  BY <1>6, <1>k DEF ExpiryOK
<1>7. QED
  <2>1. ASSUME NEW p \in Processes, Request(p)
        PROVE  AdoptTokens(p) \/ DiscardTokens(p) \/ UNCHANGED <<disk, config>>
    BY <2>1 DEF Request, Call, RefreshGranted, RefreshLost, RefreshRefused,
                SendAccepted, SendRefused, SendForbidden, CallFails
  <2>2. ASSUME NEW p \in Processes, Command(p)
        PROVE  \/ FinishLogin(p) \/ Run(p) \/ BeginLogin(p) \/ Logout(p) \/ Exit(p)
               \/ Crash(p) \/ UNCHANGED <<disk, config>>
    BY <2>2 DEF Command, LoginFails, GoOn
  <2>3. (\E g \in Tokens : Age(g)) \/ Revoke \/ RevokeKey \/ UNCHANGED vars
          => UNCHANGED <<disk, config>>
    BY DEF Age, Revoke, RevokeKey, vars
  <2>4. QED
    BY <2>1, <2>2, <2>3, <1>1, <1>2, <1>3, <1>4, <1>5, <1>6 DEF Next

\* A refresh that is not forced has been found necessary by Call, and remains so.
LEMMA ThriftyNext ==
  ASSUME TypeOK, ExpiryOK, ThriftyRefresh, [Next]_vars
  PROVE  ThriftyRefresh'
<1> SUFFICES ASSUME NEW q \in Processes, pc'[q] = "refresh", ~ forced'[q]
             PROVE  \/ config'[q].access = 0
                    \/ age'[config'[q].access] # "fresh"
                    \/ config'[q].access \in undated'
  BY DEF ThriftyRefresh
<1>a. config[q].access \in Tokens \/ config[q].access = 0
  BY CredentialsAssumption DEF TypeOK, Configs, Tokens, CredentialsAssumption
<1>1. CASE pc[q] = "refresh" /\ ~ forced[q] /\ config'[q] = config[q]
  BY <1>1, <1>a, Older DEF ThriftyRefresh
<1>2. CASE Call(q)
  <2>1. Due(config[q]) /\ config' = config /\ UNCHANGED serverVars
    BY <1>2 DEF Call, Become, TypeOK
  <2>2. CASE config[q].expiry = config[q].access
    BY <2>1, <2>2 DEF Due, serverVars
  <2>3. QED
    BY <2>1, <2>2 DEF Due, ExpiryOK, ExpiryFits, serverVars
<1>3. ASSUME NEW p \in Processes, Request(p)
      PROVE  Call(q) \/ (pc[q] = "refresh" /\ ~ forced[q] /\ config'[q] = config[q])
  <2>1. CASE Call(p)
    BY <2>1 DEF Call, Become, TypeOK
  <2>2. CASE RefreshGranted(p) \/ RefreshLost(p) \/ RefreshRefused(p)
    BY <2>2 DEF RefreshGranted, RefreshLost, RefreshRefused, EndCall, Become, TypeOK
  <2>3. CASE AdoptTokens(p) \/ DiscardTokens(p)
    <3>1. p # q
      BY <2>3 DEF AdoptTokens, DiscardTokens, AfterDiscard, EndCall, Become, TypeOK
    <3>2. QED
      BY <2>3, <3>1 DEF AdoptTokens, DiscardTokens, EndCall, Become, TypeOK, callVars
  <2>4. CASE SendAccepted(p) \/ CallFails(p)
    BY <2>4 DEF SendAccepted, CallFails, EndCall, Become, TypeOK
  <2>5. CASE SendRefused(p)
    BY <2>5 DEF SendRefused, FallBack, Become, TypeOK
  <2>6. CASE SendForbidden(p)
    BY <2>6 DEF SendForbidden, FallBack, Become, TypeOK
  <2>7. QED
    BY <1>3, <2>1, <2>2, <2>3, <2>4, <2>5, <2>6 DEF Request
<1>4. ASSUME NEW p \in Processes, Command(p)
      PROVE  pc[q] = "refresh" /\ ~ forced[q] /\ config'[q] = config[q]
  <2>1. CASE Run(p) \/ BeginLogin(p) \/ LoginFails(p) \/ Logout(p) \/ FinishLogin(p)
    BY <2>1 DEF Run, BeginLogin, LoginFails, Logout, FinishLogin, Become, TypeOK, callVars
  <2>2. CASE Exit(p) \/ GoOn(p) \/ Crash(p)
    BY <2>2 DEF Exit, GoOn, Crash, EndCall, Become, TypeOK
  <2>3. QED
    BY <1>4, <2>1, <2>2 DEF Command
<1>5. ASSUME (\E g \in Tokens : Age(g)) \/ Revoke \/ RevokeKey \/ UNCHANGED vars
      PROVE  pc[q] = "refresh" /\ ~ forced[q] /\ config'[q] = config[q]
  BY <1>5 DEF Age, Revoke, RevokeKey, vars, callVars
<1>6. QED
  BY <1>1, <1>2, <1>3, <1>4, <1>5 DEF Next

\* An access token with time to go is not refreshed unless the server has turned
\* it away or has never said how long it lives (ensureAccessToken, updateTokens),
\* for any number of processes that overwrite each other's file.
THEOREM RefreshesAreNeeded == Spec => []ThriftyRefresh
<1> DEFINE I == TypeOK /\ ExpiryOK /\ ThriftyRefresh
<1>1. Init => I
  <2> SUFFICES ASSUME Init PROVE I
    OBVIOUS
  <2>1. TypeOK
    BY InitType
  <2>2. ExpiryFits(disk, undated) /\ ExpiryFits(Empty, undated)
    BY CredentialsAssumption DEF Init, ExpiryFits, CredentialsAssumption, Empty
  <2>3. QED
    BY <2>1, <2>2 DEF Init, ExpiryOK, ThriftyRefresh
<1>2. I /\ [Next]_vars => I'
  BY NextType, ConfigWrites, ThriftyNext DEF ExpiryOK
<1>3. QED
  BY <1>1, <1>2, PTL DEF Spec

-----------------------------------------------------------------------------
(* RejectionIsThorough, for any number of processes.                       *)

\* A process writes its own variables only.
LEMMA OthersUntouched ==
  ASSUME TypeOK, NEW p \in Processes, Request(p) \/ Command(p),
         NEW q \in Processes, q # p
  PROVE  /\ pc'[q] = pc[q]
         /\ config'[q] = config[q]
         /\ had'[q] = had[q]
         /\ tried'[q] = tried[q]
         /\ forced'[q] = forced[q]
         /\ grant'[q] = grant[q]
<1>1. CASE Call(p) \/ RefreshGranted(p) \/ RefreshLost(p) \/ RefreshRefused(p)
  BY <1>1 DEF Call, RefreshGranted, RefreshLost, RefreshRefused, TurnedAway, EndCall,
              Become, TypeOK
<1>2. CASE AdoptTokens(p) \/ DiscardTokens(p)
  BY <1>2 DEF AdoptTokens, DiscardTokens, EndCall, Become, TypeOK, callVars
<1>3. CASE SendAccepted(p) \/ SendRefused(p) \/ SendForbidden(p) \/ CallFails(p)
  BY <1>3 DEF SendAccepted, SendRefused, SendForbidden, CallFails, FallBack, TurnedAway,
              EndCall, Become, TypeOK
<1>4. CASE Run(p) \/ BeginLogin(p) \/ LoginFails(p) \/ Logout(p) \/ FinishLogin(p)
  BY <1>4 DEF Run, BeginLogin, LoginFails, Logout, FinishLogin, Become, TypeOK, callVars
<1>5. CASE Exit(p) \/ GoOn(p) \/ Crash(p)
  BY <1>5 DEF Exit, GoOn, Crash, EndCall, Become, TypeOK
<1>6. QED
  BY <1>1, <1>2, <1>3, <1>4, <1>5 DEF Request, Command

LEMMA FallBackStep ==
  ASSUME TypeOK, NEW p \in Processes, RequestOf(p), pc[p] = "send", FallBack(p),
         TurnedAway(p, Presented(config[p])),
         UNCHANGED <<config, had>>
  PROVE  RequestOf(p)'
<1> DEFINE a == Presented(config[p])
<1>1. tried'[p] = tried[p] \cup {a}
  BY DEF TurnedAway, TypeOK
<1>2. pc'[p] = IF Presented(config[p]) = "access" /\ config[p].key
               THEN "discard" ELSE "rejected"
  BY DEF FallBack, Become, TypeOK
<1>3. HasLogin(config[p]) => config[p].access # 0 /\ Presented(config[p]) = "access"
  BY DEF RequestOf, HasLogin, Presented
<1>4. HasLogin(config[p]) => a \in AboutLogin
  BY <1>3 DEF AboutLogin
<1>5. "login" \in had[p] => tried'[p] \cap AboutLogin # {}
  BY <1>1, <1>4 DEF RequestOf
<1>6. CASE Presented(config[p]) = "access" /\ config[p].key
  <2>1. a \in AboutLogin
    BY <1>6 DEF AboutLogin
  <2>2. pc'[p] = "discard"
    BY <1>2, <1>6
  <2>3. QED
    BY <1>1, <1>5, <2>1, <2>2 DEF RequestOf
<1>7. CASE ~ (Presented(config[p]) = "access" /\ config[p].key)
  <2>1. config[p].key => a = "key"
    BY <1>7 DEF Presented
  <2>2. "key" \in had[p] => "key" \in tried'[p]
    BY <1>1, <2>1 DEF RequestOf
  <2>3. pc'[p] = "rejected"
    BY <1>2, <1>7
  <2>4. QED
    BY <1>5, <2>2, <2>3 DEF RequestOf
<1>8. QED
  BY <1>6, <1>7

LEMMA RequestOfStep ==
  ASSUME TypeOK, NEW p \in Processes, RequestOf(p), Request(p)
  PROVE  RequestOf(p)'
<1> USE CredentialsAssumption
<1>1. CASE Call(p)
  <2>1. /\ config'[p] = config[p]
        /\ pc'[p] = IF config[p].refresh # 0 /\ Due(config[p]) THEN "refresh" ELSE "send"
        /\ had'[p] = (IF HasLogin(config[p]) THEN {"login"} ELSE {}) \cup
                     (IF config[p].key THEN {"key"} ELSE {})
    BY <1>1 DEF Call, Become, TypeOK
  <2>2. pc'[p] = "send" /\ config[p].refresh # 0 => config[p].access # 0
    BY <2>1 DEF Due
  <2>3. ("login" \in had'[p] => HasLogin(config[p])) /\ ("key" \in had'[p] => config[p].key)
    BY <2>1
  <2>4. HasLogin(config[p]) => HasLogin(config[p])'
    BY <2>1 DEF HasLogin
  <2>5. QED
    BY <2>1, <2>2, <2>3, <2>4 DEF RequestOf
<1>2. CASE RefreshGranted(p)
  <2>1. pc'[p] = "granted" /\ pc[p] = "refresh" /\ UNCHANGED <<config, had, tried>>
    BY <1>2 DEF RefreshGranted, Become, TypeOK
  <2>2. grant'[p] # 0
    BY <1>2 DEF RefreshGranted, TypeOK, Tokens
  <2>3. QED
    BY <2>1, <2>2 DEF RequestOf, HasLogin
<1>3. CASE RefreshLost(p) \/ SendAccepted(p) \/ CallFails(p)
  <2>1. pc'[p] = "ready"
    BY <1>3 DEF RefreshLost, SendAccepted, CallFails, EndCall, Become, TypeOK
  <2>2. QED
    BY <2>1 DEF RequestOf
<1>4. CASE RefreshRefused(p)
  <2>1. pc'[p] = "discard" /\ pc[p] = "refresh" /\ UNCHANGED <<config, had>>
    BY <1>4 DEF RefreshRefused, Become, TypeOK
  <2>2. tried'[p] \cap AboutLogin # {}
    BY <1>4 DEF RefreshRefused, TurnedAway, TypeOK, AboutLogin
  <2>3. QED
    BY <2>1, <2>2 DEF RequestOf
<1>5. CASE AdoptTokens(p)
  <2>1. pc'[p] \in {"ready", "send"} /\ pc[p] = "granted"
    BY <1>5 DEF AdoptTokens, EndCall, Become, TypeOK
  <2>2. CASE pc'[p] = "send"
    <3>1. config'[p] = Updated(config[p], grant[p]) /\ UNCHANGED <<had, tried>>
      BY <1>5, <2>2 DEF AdoptTokens, EndCall, Become, TypeOK
    <3>2. config'[p].key = config[p].key /\ config'[p].access = grant[p]
      BY <3>1 DEF Updated, TypeOK, Configs
    <3>3. QED
      BY <2>1, <2>2, <3>1, <3>2 DEF RequestOf, HasLogin
  <2>3. QED
    BY <2>1, <2>2 DEF RequestOf
<1>6. CASE DiscardTokens(p)
  <2>1. pc[p] = "discard" /\ config'[p] = Cleared(config[p])
    BY <1>6 DEF DiscardTokens, TypeOK
  <2>2. config'[p].key = config[p].key /\ config'[p].refresh = 0
    BY <2>1 DEF Cleared, Empty
  <2>3. Cleared(config[p]).key = config[p].key
    BY DEF Cleared, Empty
  <2>4. CASE EndCall(p, "ready")
    BY <2>4 DEF EndCall, Become, TypeOK, RequestOf
  <2>5. CASE Become(p, AfterDiscard(Cleared(config[p]))) /\ UNCHANGED callVars
    <3>1. pc'[p] = IF config[p].key THEN "send" ELSE "rejected"
      BY <2>3, <2>5 DEF Become, AfterDiscard, TypeOK
    <3>2. UNCHANGED <<had, tried>>
      BY <2>5 DEF callVars
    <3>3. "login" \in had[p] => tried[p] \cap AboutLogin # {}
      BY <2>1 DEF RequestOf
    <3>4. "key" \in had[p] => config[p].key
      BY <2>1 DEF RequestOf
    <3>5. CASE config[p].key
      <4>1. pc'[p] = "send"
        BY <3>1, <3>5
      <4>2. QED
        BY <2>2, <3>2, <3>3, <3>5, <4>1 DEF RequestOf
    <3>6. CASE ~ config[p].key
      <4>1. pc'[p] = "rejected"
        BY <3>1, <3>6
      <4>2. QED
        BY <3>2, <3>3, <3>4, <3>6, <4>1 DEF RequestOf
    <3>7. QED
      BY <3>5, <3>6
  <2>6. QED
    BY <1>6, <2>4, <2>5 DEF DiscardTokens
<1>7. CASE SendRefused(p)
  <2>1. CASE pc'[p] = "refresh"
    BY <1>7, <2>1 DEF SendRefused, TurnedAway, TypeOK, RequestOf, HasLogin
  <2>2. CASE FallBack(p)
    BY <1>7, <2>2, FallBackStep DEF SendRefused
  <2>3. QED
    BY <1>7, <2>1, <2>2 DEF SendRefused, Become, TypeOK
<1>8. CASE SendForbidden(p)
  BY <1>8, FallBackStep DEF SendForbidden
<1>9. QED
  BY <1>1, <1>2, <1>3, <1>4, <1>5, <1>6, <1>7, <1>8 DEF Request

LEMMA RequestOKNext == TypeOK /\ RequestOK /\ [Next]_vars => RequestOK'
<1> SUFFICES ASSUME TypeOK, RequestOK, [Next]_vars, NEW q \in Processes
             PROVE  RequestOf(q)'
  BY DEF RequestOK
<1>u. RequestOf(q)
  BY DEF RequestOK
<1>1. ASSUME NEW p \in Processes, Request(p) \/ Command(p), p # q
      PROVE  RequestOf(q)'
  BY <1>1, <1>u, OthersUntouched DEF RequestOf, HasLogin
<1>2. CASE Request(q)
  BY <1>2, <1>u, RequestOfStep
<1>3. CASE Command(q)
  <2>1. CASE Logout(q)
    BY <2>1, <1>u DEF Logout, RequestOf, HasLogin, callVars
  <2>2. CASE ~ Logout(q)
    <3>1. pc'[q] \in {"off", "ready", "login"}
      BY <1>3, <2>2 DEF Command, Run, BeginLogin, FinishLogin, LoginFails, Exit, GoOn,
         Crash, EndCall, Become, TypeOK
    <3>2. QED
      BY <3>1 DEF RequestOf
  <2>3. QED
    BY <2>1, <2>2
<1>4. CASE (\E g \in Tokens : Age(g)) \/ Revoke \/ RevokeKey \/ UNCHANGED vars
  BY <1>4, <1>u DEF Age, Revoke, RevokeKey, vars, callVars, RequestOf, HasLogin
<1>5. QED
  BY <1>1, <1>2, <1>3, <1>4 DEF Next

\* No request is given up as unauthenticated before each kind of credential that
\* the process had has itself been turned away (doJSONWithHeaders, ensureAccessToken, retryWithAPIKeyFallback), for any
\* number of processes and whatever the server answers.
THEOREM RejectionsAreThorough == Spec => []RejectionIsThorough
<1>1. Init => RequestOK
  BY DEF Init, RequestOK, RequestOf
<1>2. RequestOK => RejectionIsThorough
  BY DEF RequestOK, RequestOf, RejectionIsThorough, AboutLogin
<1>3. QED
  BY CredentialsTypeCorrect, RequestOKNext, <1>1, <1>2, PTL DEF Spec

-----------------------------------------------------------------------------
(* The file, while no two processes run at the same time.                  *)

LEMMA KnownStep ==
  ASSUME TypeOK, KnownOK, [Next]_vars
  PROVE  KnownOK'
<1> USE CredentialsAssumption
<1>t. /\ issued \in Nat /\ disk.refresh \in Nat
      /\ \A q \in Processes : config[q].refresh \in Nat /\ grant[q] \in Nat
  BY DEF TypeOK, Tokens, Configs, CredentialsAssumption
<1>0. Empty.refresh = 0
  BY DEF Empty
\* It is enough that a step writes tokens issued by its end.
<1>w. ASSUME NEW p \in Processes, issued' \in Nat, issued <= issued',
             \/ disk' = disk
             \/ disk'.refresh <= issued',
             \/ config' = config
             \/ \E c : config' = [config EXCEPT ![p] = c] /\ c.refresh <= issued',
             \/ grant' = grant
             \/ \E g \in Nat : grant' = [grant EXCEPT ![p] = g] /\ g <= issued'
      PROVE  KnownOK'
  <2>1. disk'.refresh <= issued'
    BY <1>w, <1>t DEF KnownOK
  <2>2. \A q \in Processes : config'[q].refresh <= issued'
    BY <1>w, <1>t DEF KnownOK, TypeOK
  <2>3. \A q \in Processes : grant'[q] <= issued'
    BY <1>w, <1>t DEF KnownOK, TypeOK
  <2>4. QED
    BY <2>1, <2>2, <2>3 DEF KnownOK
<1>1. ASSUME NEW p \in Processes,
             Call(p) \/ RefreshRefused(p) \/ SendAccepted(p) \/ SendRefused(p)
               \/ SendForbidden(p) \/ CallFails(p)
      PROVE  KnownOK'
  <2>1. UNCHANGED <<disk, config, issued>>
    BY <1>1 DEF Call, RefreshRefused, SendAccepted, SendRefused, SendForbidden, CallFails,
                serverVars
  <2>2. grant' = grant \/ grant' = [grant EXCEPT ![p] = 0]
    BY <1>1 DEF Call, RefreshRefused, SendAccepted, SendRefused, SendForbidden, CallFails,
                EndCall
  <2>3. QED
    BY <2>1, <2>2, <1>w, <1>t
<1>2. ASSUME NEW p \in Processes, RefreshGranted(p) \/ RefreshLost(p)
      PROVE  KnownOK'
  <2>1. UNCHANGED <<disk, config>> /\ issued' = issued + 1
    BY <1>2 DEF RefreshGranted, RefreshLost, Issue
  <2>2. grant' = [grant EXCEPT ![p] = issued + 1] \/ grant' = [grant EXCEPT ![p] = 0]
    BY <1>2 DEF RefreshGranted, RefreshLost, EndCall
  <2>3. QED
    BY <2>1, <2>2, <1>w, <1>t
<1>3. ASSUME NEW p \in Processes, AdoptTokens(p)
      PROVE  KnownOK'
  <2> DEFINE c == Updated(config[p], grant[p])
  <2>1. /\ config' = [config EXCEPT ![p] = c]
        /\ disk' = c \/ disk' = disk
        /\ issued' = issued
        /\ grant' = [grant EXCEPT ![p] = 0]
    BY <1>3 DEF AdoptTokens, EndCall, serverVars
  <2>2. c.refresh = grant[p] \/ c.refresh = config[p].refresh
    BY DEF Updated, TypeOK, Configs
  <2>3. c.refresh <= issued
    BY <2>2 DEF KnownOK
  <2> HIDE DEF c
  <2>4. issued' \in Nat /\ issued <= issued' /\ 0 <= issued'
    BY <2>1, <1>t
  <2>5. \E d : config' = [config EXCEPT ![p] = d] /\ d.refresh <= issued'
    BY <2>1, <2>3
  <2>6. \E g \in Nat : grant' = [grant EXCEPT ![p] = g] /\ g <= issued'
    BY <2>1, <2>4
  <2>7. disk' = disk \/ disk'.refresh <= issued'
    BY <2>1, <2>3
  <2>8. QED
    BY <2>4, <2>5, <2>6, <2>7, <1>w
<1>4. ASSUME NEW p \in Processes, DiscardTokens(p)
      PROVE  KnownOK'
  <2> DEFINE c == Cleared(config[p])
  <2>1. /\ config' = [config EXCEPT ![p] = c]
        /\ disk' = c \/ disk' = disk
        /\ issued' = issued
        /\ grant' = grant \/ grant' = [grant EXCEPT ![p] = 0]
    BY <1>4 DEF DiscardTokens, EndCall, serverVars, callVars
  <2>2. c.refresh <= issued
    BY <1>t DEF Cleared, Empty
  <2> HIDE DEF c
  <2>3. issued' \in Nat /\ issued <= issued' /\ 0 <= issued'
    BY <2>1, <1>t
  <2>4. \E d : config' = [config EXCEPT ![p] = d] /\ d.refresh <= issued'
    BY <2>1, <2>2
  <2>5. grant' = grant \/ \E g \in Nat : grant' = [grant EXCEPT ![p] = g] /\ g <= issued'
    BY <2>1, <2>3
  <2>6. disk' = disk \/ disk'.refresh <= issued'
    BY <2>1, <2>2
  <2>7. QED
    BY <2>3, <2>4, <2>5, <2>6, <1>w
<1>5. ASSUME NEW p \in Processes, FinishLogin(p)
      PROVE  KnownOK'
  <2> DEFINE new == [access |-> issued + 1, refresh |-> issued + 1,
                     expiry |-> IF issued + 1 \in undated' THEN 0 ELSE issued + 1,
                     key |-> FALSE]
  <2>1. issued' = issued + 1 /\ grant' = grant
    BY <1>5 DEF FinishLogin, Issue, callVars
  <2>2. \/ config' = [config EXCEPT ![p] = new] /\ disk' = new
        \/ config' = config /\ disk' = disk
    BY <1>5 DEF FinishLogin
  <2>3. new.refresh = issued'
    BY <2>1
  <2>4. issued' \in Nat /\ issued <= issued' /\ issued' <= issued'
    BY <2>1, <1>t
  <2> HIDE DEF new
  <2>5. QED
    BY <2>1, <2>2, <2>3, <2>4, <1>w
<1>6. ASSUME NEW p \in Processes,
             \/ Run(p) \/ BeginLogin(p) \/ LoginFails(p) \/ Logout(p) \/ Exit(p)
             \/ GoOn(p) \/ Crash(p)
      PROVE  KnownOK'
  <2>1. issued' = issued /\ (disk' = disk \/ disk' = Empty)
    BY <1>6 DEF Run, BeginLogin, LoginFails, Logout, Exit, GoOn, Crash, serverVars
  <2>2. \/ config' = config
        \/ config' = [config EXCEPT ![p] = disk]
        \/ config' = [config EXCEPT ![p] = Empty]
    BY <1>6 DEF Run, BeginLogin, LoginFails, Logout, Exit, GoOn, Crash
  <2>3. grant' = grant \/ grant' = [grant EXCEPT ![p] = 0]
    BY <1>6 DEF Run, BeginLogin, LoginFails, Logout, Exit, GoOn, Crash, EndCall, callVars
  <2>4. disk.refresh <= issued' /\ Empty.refresh <= issued'
    BY <2>1, <1>0, <1>t DEF KnownOK
  <2>5. \/ config' = config
        \/ \E c : config' = [config EXCEPT ![p] = c] /\ c.refresh <= issued'
    BY <2>2, <2>4
  <2>6. grant' = grant \/ \E g \in Nat : grant' = [grant EXCEPT ![p] = g] /\ g <= issued'
    BY <2>1, <2>3, <1>t
  <2>7. QED
    BY <2>1, <2>4, <2>5, <2>6, <1>w, <1>t
<1>7. CASE (\E g \in Tokens : Age(g)) \/ Revoke \/ RevokeKey \/ UNCHANGED vars
  BY <1>7 DEF Age, Revoke, RevokeKey, vars, callVars, serverVars, KnownOK
<1>8. QED
  BY <1>1, <1>2, <1>3, <1>4, <1>5, <1>6, <1>7 DEF Next, Request, Command

LEMMA FileRequest ==
  ASSUME TypeOK, KnownOK, NEW p \in Processes, FileOf(p), Request(p)
  PROVE  FileOf(p)'
<1> USE CredentialsAssumption
<1>t. /\ issued \in Nat /\ disk.refresh \in Nat /\ config[p].refresh \in Nat
      /\ live \subseteq Tokens /\ 0 \notin live
      /\ disk.refresh <= issued /\ config[p].refresh <= issued
      /\ rotates \in BOOLEAN /\ excused \in BOOLEAN
  BY DEF TypeOK, Tokens, Configs, CredentialsAssumption, KnownOK
<1>f. StoredOf(p) /\ MemoryOf(p) /\ GrantOf(p) /\ DiscardOf(p)
  BY DEF FileOf
\* Steps that read answers and write nothing but the place of the process.
<1>w. ASSUME UNCHANGED <<disk, config, excused, live>>,
             pc[p] \notin {"off", "login", "granted"}, pc'[p] \in {"ready", "send", "rejected"}
      PROVE  FileOf(p)'
  BY <1>w, <1>f DEF FileOf, StoredOf, MemoryOf, GrantOf, DiscardOf
<1>1. CASE Call(p)
  <2>1. /\ UNCHANGED <<disk, config, excused, live, rotates, grant>>
        /\ pc[p] = "ready"
        /\ pc'[p] = IF config[p].refresh # 0 /\ Due(config[p]) THEN "refresh" ELSE "send"
    BY <1>1 DEF Call, Become, TypeOK, serverVars
  <2>2. QED
    BY <2>1, <1>f DEF FileOf, StoredOf, MemoryOf, GrantOf, DiscardOf
<1>2. CASE RefreshGranted(p)
  <2>1. /\ UNCHANGED <<disk, config, excused, rotates>>
        /\ pc[p] = "refresh" /\ pc'[p] = "granted" /\ grant'[p] = issued + 1
        /\ config[p].refresh \in live
        /\ live' = IF rotates THEN (live \ {config[p].refresh}) \cup {issued + 1} ELSE live
    BY <1>2, <1>t DEF RefreshGranted, Issue, Become, TypeOK
  <2>2. config[p].refresh # issued + 1 /\ disk.refresh # issued + 1
    BY <1>t
  <2>3. disk.refresh \notin live => disk.refresh \notin live'
    BY <2>1, <2>2
  <2>4. StoredOf(p)' /\ DiscardOf(p)'
    BY <2>1 DEF StoredOf, DiscardOf
  <2>5. MemoryOf(p)'
    BY <2>1, <2>3, <1>f DEF MemoryOf
  <2>6. GrantOf(p)'
    BY <2>1, <2>2, <1>f, <1>t DEF GrantOf
  <2>7. QED
    BY <2>4, <2>5, <2>6 DEF FileOf
<1>3. CASE RefreshLost(p)
  <2>1. /\ UNCHANGED <<disk, config, rotates>>
        /\ excused' = (excused \/ rotates)
        /\ pc[p] = "refresh" /\ pc'[p] = "ready"
        /\ config[p].refresh \in live
        /\ live' = IF rotates THEN (live \ {config[p].refresh}) \cup {issued + 1} ELSE live
    BY <1>3, <1>t DEF RefreshLost, Issue, EndCall, Become, TypeOK
  <2>2. config[p].refresh # issued + 1 /\ disk.refresh # issued + 1
    BY <1>t
  <2>3. disk.refresh \notin live => disk.refresh \notin live'
    BY <2>1, <2>2
  <2>4. StoredOf(p)'
    BY <2>1, <1>f DEF StoredOf
  <2>5. MemoryOf(p)'
    BY <2>1, <2>3, <1>f DEF MemoryOf
  <2>6. QED
    BY <2>1, <2>4, <2>5 DEF FileOf, GrantOf, DiscardOf
<1>4. CASE RefreshRefused(p)
  <2>1. /\ UNCHANGED <<disk, config, excused, live>>
        /\ pc[p] = "refresh" /\ pc'[p] = "discard"
        /\ config[p].refresh \notin live \/ "discovery" \in tried'[p]
    BY <1>4 DEF RefreshRefused, TurnedAway, Become, TypeOK, serverVars
  <2>2. QED
    BY <2>1, <1>f DEF FileOf, StoredOf, MemoryOf, GrantOf, DiscardOf
<1>5. CASE AdoptTokens(p)
  <2> DEFINE c == Updated(config[p], grant[p])
  <2>1. /\ pc[p] = "granted" /\ config'[p] = c
        /\ UNCHANGED <<live, rotates>>
    BY <1>5 DEF AdoptTokens, TypeOK, serverVars
  <2>2. c.refresh = IF rotates THEN grant[p] ELSE config[p].refresh
    BY DEF Updated, TypeOK, Configs
  <2>3. CASE disk' = c /\ pc'[p] = "send" /\ excused' = excused
    <3>1. c.refresh \in live \/ excused
      BY <2>1, <2>2, <1>f, <1>t DEF GrantOf
    <3>2. StoredOf(p)' /\ MemoryOf(p)'
      BY <2>1, <2>3, <3>1 DEF StoredOf, MemoryOf
    <3>3. QED
      BY <2>3, <3>2 DEF FileOf, GrantOf, DiscardOf
  <2>4. CASE disk' = disk /\ pc'[p] = "ready" /\ excused' = (excused \/ rotates)
    <3>1. \/ config[p].refresh = disk.refresh
          \/ excused /\ disk.refresh # 0 /\ disk.refresh \notin live
      BY <2>1, <1>f DEF MemoryOf, GrantOf
    <3>2. disk.refresh # 0
      BY <2>1, <3>1, <1>f DEF GrantOf
    <3>3. CASE rotates
      <4>1. disk.refresh \notin live
        BY <2>1, <3>1, <3>3, <1>f DEF GrantOf
      <4>2. QED
        BY <2>1, <2>4, <3>2, <3>3, <4>1 DEF FileOf, StoredOf, MemoryOf, GrantOf, DiscardOf
    <3>4. CASE ~ rotates
      <4>1. config[p].refresh \in live \/ excused
        BY <2>1, <3>4, <1>f DEF GrantOf
      <4>2. disk.refresh \in live \/ excused
        BY <3>1, <4>1
      <4>3. c.refresh = config[p].refresh
        BY <2>2, <3>4
      <4>4. StoredOf(p)'
        BY <2>1, <2>4, <4>2 DEF StoredOf
      <4>5. MemoryOf(p)'
        BY <2>1, <2>4, <3>1, <4>3 DEF MemoryOf
      <4>6. QED
        BY <2>4, <4>4, <4>5 DEF FileOf, GrantOf, DiscardOf
    <3>5. QED
      BY <3>3, <3>4
  <2>5. QED
    BY <1>5, <2>3, <2>4 DEF AdoptTokens, EndCall, Become, TypeOK
<1>6. CASE DiscardTokens(p)
  <2> DEFINE c == Cleared(config[p])
  <2>1. config'[p] = c /\ c.refresh = 0 /\ pc[p] = "discard" /\ live' = live
    BY <1>6 DEF DiscardTokens, TypeOK, serverVars, Cleared, Empty
  <2>2. pc'[p] \in {"ready", "send", "rejected"} /\ (disk' = c \/ disk' = disk)
        /\ excused' = excused
    BY <1>6 DEF DiscardTokens, AfterDiscard, EndCall, Become, TypeOK
  <2>3. StoredOf(p)' /\ MemoryOf(p)'
    BY <2>1, <2>2, <1>f DEF StoredOf, MemoryOf
  <2>4. QED
    BY <2>2, <2>3 DEF FileOf, GrantOf, DiscardOf
<1>7. CASE SendAccepted(p) \/ CallFails(p)
  BY <1>7, <1>w DEF SendAccepted, CallFails, EndCall, Become, TypeOK, serverVars
<1>8. CASE SendRefused(p) \/ SendForbidden(p)
  <2>1. /\ UNCHANGED <<disk, config, excused, live>>
        /\ pc[p] = "send"
    BY <1>8 DEF SendRefused, SendForbidden, serverVars
  <2>2. CASE pc'[p] = "refresh" /\ config[p].refresh # 0
    BY <2>1, <2>2, <1>f DEF FileOf, StoredOf, MemoryOf, GrantOf, DiscardOf
  <2>3. CASE FallBack(p)
    <3>1. CASE pc'[p] = "rejected"
      BY <2>1, <3>1, <1>w
    <3>2. CASE /\ pc'[p] = "discard" /\ Presented(config[p]) = "access" /\ config[p].key
      <4>1. "access" \in tried'[p]
        BY <1>8, <3>2 DEF SendRefused, SendForbidden, TurnedAway, TypeOK
      <4>2. QED
        BY <2>1, <3>2, <4>1, <1>f DEF FileOf, StoredOf, MemoryOf, GrantOf, DiscardOf
    <3>3. QED
      BY <2>3, <3>1, <3>2 DEF FallBack, Become, TypeOK
  <2>4. QED
    BY <1>8, <2>2, <2>3 DEF SendRefused, SendForbidden, Become, TypeOK
<1>9. QED
  BY <1>1, <1>2, <1>3, <1>4, <1>5, <1>6, <1>7, <1>8 DEF Request

LEMMA FileCommand ==
  ASSUME TypeOK, KnownOK, NEW p \in Processes, FileOf(p), Command(p)
  PROVE  FileOf(p)'
<1> USE CredentialsAssumption
<1>f. StoredOf(p) /\ MemoryOf(p) /\ GrantOf(p) /\ DiscardOf(p)
  BY DEF FileOf
<1>1. CASE Run(p) \/ BeginLogin(p) \/ LoginFails(p)
  <2>1. /\ UNCHANGED <<disk, excused, live>> /\ pc[p] \in {"off", "login"}
        /\ \/ pc'[p] = "ready" /\ config'[p] = disk
           \/ pc'[p] \in {"off", "login"}
    BY <1>1 DEF Run, BeginLogin, LoginFails, Become, TypeOK, serverVars
  <2>2. QED
    BY <2>1, <1>f DEF FileOf, StoredOf, MemoryOf, GrantOf, DiscardOf
<1>2. CASE FinishLogin(p)
  <2>1. pc[p] = "login" /\ live' = live \cup {issued + 1}
    BY <1>2 DEF FinishLogin, Issue
  <2>2. CASE /\ disk'.refresh = issued + 1 /\ config'[p] = disk' /\ pc'[p] = "ready"
    BY <2>1, <2>2 DEF FileOf, StoredOf, MemoryOf, GrantOf, DiscardOf
  <2>3. CASE UNCHANGED <<disk, config, excused>> /\ pc'[p] = "off"
    BY <2>1, <2>3, <1>f DEF FileOf, StoredOf, MemoryOf, GrantOf, DiscardOf
  <2> DEFINE new == [access |-> issued + 1, refresh |-> issued + 1,
                     expiry |-> IF issued + 1 \in undated' THEN 0 ELSE issued + 1,
                     key |-> FALSE]
  <2>4. \/ disk' = new /\ config' = [config EXCEPT ![p] = new] /\ Become(p, "ready")
        \/ UNCHANGED <<disk, config, excused>> /\ Become(p, "off")
    BY <1>2 DEF FinishLogin
  <2>5. new.refresh = issued + 1
    OBVIOUS
  <2> HIDE DEF new
  <2>6. QED
    BY <2>2, <2>3, <2>4, <2>5 DEF Become, TypeOK
<1>3. CASE Logout(p)
  <2>1. disk'.refresh = 0 /\ pc[p] = "off" /\ pc' = pc
    BY <1>3 DEF Logout, Empty
  <2>2. QED
    BY <2>1 DEF FileOf, StoredOf, MemoryOf, GrantOf, DiscardOf
<1>4. CASE Exit(p) \/ GoOn(p)
  <2>1. /\ UNCHANGED <<disk, excused, live>> /\ pc[p] \in {"ready", "rejected"}
        /\ pc'[p] = "off" \/ (pc'[p] = "ready" /\ config' = config)
    BY <1>4 DEF Exit, GoOn, EndCall, Become, TypeOK, serverVars
  <2>2. QED
    BY <2>1, <1>f DEF FileOf, StoredOf, MemoryOf, GrantOf, DiscardOf
<1>5. CASE Crash(p)
  <2>1. /\ UNCHANGED <<disk, live>> /\ pc'[p] = "off"
        /\ excused' = (excused \/ (rotates /\ pc[p] = "granted"))
    BY <1>5 DEF Crash, EndCall, Become, TypeOK, serverVars
  <2>2. CASE pc[p] = "granted" /\ ~ rotates
    <3>1. config[p].refresh \in live \/ excused
      BY <2>2, <1>f DEF GrantOf
    <3>2. disk.refresh \in live \/ excused
      BY <2>2, <3>1, <1>f DEF MemoryOf, GrantOf
    <3>3. QED
      BY <2>1, <2>2, <3>2 DEF FileOf, StoredOf, MemoryOf, GrantOf, DiscardOf
  <2>3. CASE pc[p] # "granted" \/ rotates
    BY <2>1, <2>3, <1>f DEF FileOf, StoredOf, MemoryOf, GrantOf, DiscardOf
  <2>4. QED
    BY <2>2, <2>3 DEF TypeOK
<1>6. QED
  BY <1>1, <1>2, <1>3, <1>4, <1>5 DEF Command

LEMMA FileNext ==
  ASSUME Alone, TypeOK, KnownOK, FileOK, [Next]_vars
  PROVE  FileOK'
<1> SUFFICES ASSUME NEW p \in Processes PROVE FileOf(p)'
  BY DEF FileOK
<1>f. FileOf(p)
  BY DEF FileOK
<1>1. CASE \E q \in Processes : Request(q) \/ Command(q)
  <2>1. Request(p) \/ Command(p)
    BY <1>1 DEF Alone
  <2>2. QED
    BY <2>1, <1>f, FileRequest, FileCommand
<1>2. CASE (\E g \in Tokens : Age(g)) \/ RevokeKey \/ UNCHANGED vars
  BY <1>2, <1>f DEF Age, RevokeKey, vars, callVars, serverVars, FileOf, StoredOf, MemoryOf,
                    GrantOf, DiscardOf
<1>3. CASE Revoke
  <2>1. live' = {} /\ excused' = TRUE /\ UNCHANGED <<disk, config, pc, tried>>
    BY <1>3 DEF Revoke, callVars
  <2>2. QED
    BY <2>1, <1>f DEF FileOf, StoredOf, MemoryOf, GrantOf, DiscardOf
<1>4. QED
  BY <1>1, <1>2, <1>3 DEF Next

LEMMA FileInit == Init => KnownOK /\ FileOK
<1> SUFFICES ASSUME Init PROVE KnownOK /\ FileOK
  OBVIOUS
<1>1. disk.refresh \in 0 .. 1
  BY CredentialsAssumption DEF Init, CredentialsAssumption
<1>2. KnownOK
  BY <1>1 DEF Init, KnownOK, Empty
<1>3. FileOK
  BY <1>1 DEF Init, FileOK, FileOf, StoredOf, MemoryOf, GrantOf, DiscardOf
<1>4. QED
  BY <1>2, <1>3

\* While no two processes run at the same time, the login in the file is the one
\* the server accepts, through every rotation of the refresh token, unless an
\* accident that the model names has broken it (client.go 918-922).
THEOREM AloneLoginWorks == Alone => (Spec => []StoredLoginWorks)
<1> SUFFICES ASSUME Alone PROVE Spec => []StoredLoginWorks
  OBVIOUS
<1> DEFINE I == TypeOK /\ KnownOK /\ FileOK
<1>1. Init => I
  BY InitType, FileInit
<1>2. I /\ [Next]_vars => I'
  BY NextType, KnownStep, FileNext
<1>3. I => StoredLoginWorks
  BY CredentialsAssumption
  DEF CredentialsAssumption, FileOK, FileOf, StoredOf, StoredLoginWorks
<1>4. QED
  BY <1>1, <1>2, <1>3, PTL DEF Spec

LEMMA LogoutNext ==
  ASSUME Alone, TypeOK, LogoutOK, [Next]_vars
  PROVE  LogoutOK'
<1> SUFFICES ASSUME NEW p \in Processes, loggedOut'
             PROVE  ~ HasAuth(disk)' /\ pc'[p] \in {"off", "login"}
  BY DEF LogoutOK, LogoutOf
<1>1. CASE \E q \in Processes : Request(q) \/ Command(q)
  <2>1. Request(p) \/ Command(p)
    BY <1>1 DEF Alone
  <2>2. CASE Logout(p)
    BY <2>2 DEF Logout, HasAuth, HasLogin, Empty
  <2>3. ASSUME ~ Logout(p)
        PROVE  loggedOut /\ ~ HasAuth(disk) /\ pc[p] \in {"off", "login"}
    <3>1. loggedOut
      BY <2>1, <2>3 DEF Request, Command, Call, RefreshGranted, RefreshLost, RefreshRefused,
         AdoptTokens, DiscardTokens, SendAccepted, SendRefused, SendForbidden, CallFails,
         Run, BeginLogin, FinishLogin, LoginFails, Exit, GoOn, Crash
    <3>2. QED
      BY <3>1 DEF LogoutOK, LogoutOf
  <2>4. Request(p) => pc[p] \notin {"off", "login"}
    BY DEF Request, Call, RefreshGranted, RefreshLost, RefreshRefused, AdoptTokens,
           DiscardTokens, SendAccepted, SendRefused, SendForbidden, CallFails
  <2>5. CASE Command(p) /\ ~ Logout(p)
    <3>1. /\ loggedOut /\ ~ HasAuth(disk) /\ pc[p] \in {"off", "login"}
      BY <2>3, <2>5
    <3>2. BeginLogin(p) \/ LoginFails(p) \/ Crash(p) \/ FinishLogin(p)
      BY <2>5, <3>1 DEF Command, Run, Exit, GoOn
    <3>3. disk' = disk /\ pc'[p] \in {"off", "login"}
      BY <3>2 DEF BeginLogin, LoginFails, Crash, FinishLogin, EndCall, Become, TypeOK
    <3>4. QED
      BY <3>1, <3>3 DEF HasAuth, HasLogin
  <2>6. QED
    BY <2>1, <2>2, <2>3, <2>4, <2>5
<1>2. CASE (\E g \in Tokens : Age(g)) \/ Revoke \/ RevokeKey \/ UNCHANGED vars
  BY <1>2 DEF Age, Revoke, RevokeKey, vars, LogoutOK, LogoutOf, HasAuth, HasLogin
<1>3. QED
  BY <1>1, <1>2 DEF Next

\* While no two processes run at the same time, no credential returns to the
\* file after a logout before the next login (main.go 189-205).
THEOREM AloneLogoutSticks == Alone => (Spec => []LogoutSticks)
<1> SUFFICES ASSUME Alone PROVE Spec => []LogoutSticks
  OBVIOUS
<1>1. Init => LogoutOK
  BY DEF Init, LogoutOK, LogoutOf
<1>2. LogoutOK => LogoutSticks
  BY CredentialsAssumption DEF CredentialsAssumption, LogoutOK, LogoutOf, LogoutSticks
<1>3. TypeOK /\ LogoutOK /\ [Next]_vars => LogoutOK'
  BY LogoutNext
<1>4. QED
  BY CredentialsTypeCorrect, <1>1, <1>2, <1>3, PTL DEF Spec

\* While no two processes run at the same time, no network error, lost answer,
\* failed save or crash costs the file its login; only a logout, a refusal or one
\* of the two pretexts of LoginKept does (client.go 640, 908).
THEOREM AloneKeepsLogin == Alone => (Spec => LoginKept)
<1> SUFFICES ASSUME Alone PROVE Spec => LoginKept
  OBVIOUS
<1> DEFINE I == TypeOK /\ KnownOK /\ FileOK
           Pretext == \E p \in Processes :
             /\ pc[p] = "discard"
             /\ \/ "access" \in tried[p] /\ config[p].key
                \/ "discovery" \in tried[p]
           Kept == HasLogin(disk) /\ ~ HasLogin(disk') =>
             \/ loggedOut'
             \/ /\ disk.refresh \notin live
                /\ disk.refresh = 0 =>
                     disk.access \notin valid \/ age[disk.access] = "expired"
             \/ Pretext
<1>1. Init => I
  BY InitType, FileInit
<1>2. I /\ [Next]_vars => I'
  BY NextType, KnownStep, FileNext
<1>3. I /\ [Next]_vars => Kept
  <2> SUFFICES ASSUME I, [Next]_vars, HasLogin(disk), ~ HasLogin(disk'), ~ loggedOut'
               PROVE  \/ /\ disk.refresh \notin live
                         /\ disk.refresh = 0 =>
                              disk.access \notin valid \/ age[disk.access] = "expired"
                      \/ Pretext
    OBVIOUS
  <2>1. disk' # disk
    OBVIOUS
  <2>2. PICK q \in Processes : FinishLogin(q) \/ Logout(q) \/ AdoptTokens(q) \/ DiscardTokens(q)
    BY <2>1 DEF Next, vars, Age, Revoke, RevokeKey, Request, Command, Call, RefreshGranted,
       RefreshLost, RefreshRefused, SendAccepted, SendRefused, SendForbidden, CallFails,
       Run, BeginLogin, LoginFails, Exit, GoOn, Crash
  <2>3. CASE FinishLogin(q)
    <3>1. disk'.refresh = issued + 1 /\ issued + 1 # 0
      BY <2>1, <2>3 DEF FinishLogin, TypeOK, Tokens
    <3>2. QED
      BY <3>1 DEF HasLogin
  <2>4. CASE Logout(q)
    BY <2>4 DEF Logout
  <2>5. CASE DiscardTokens(q)
    <3>1. pc[q] = "discard" /\ FileOf(q)
      BY <2>5 DEF DiscardTokens, FileOK
    <3>2. CASE config[q].refresh # 0 /\ config[q].refresh \notin live
      <4>1. disk.refresh # 0 /\ disk.refresh \notin live
        BY <3>1, <3>2 DEF FileOf, MemoryOf
      <4>2. QED
        BY <4>1
    <3>3. QED
      BY <3>1, <3>2 DEF FileOf, DiscardOf
  <2>6. CASE AdoptTokens(q)
    <3>1. disk' = Updated(config[q], grant[q]) /\ pc[q] = "granted" /\ FileOf(q)
      BY <2>1, <2>6 DEF AdoptTokens, FileOK
    <3>2. disk'.access = grant[q]
          /\ disk'.refresh = IF rotates THEN grant[q] ELSE config[q].refresh
      BY <3>1 DEF Updated, TypeOK, Configs
    <3>3. grant[q] = 0 /\ config[q].refresh # 0
      BY <3>1, <3>2 DEF HasLogin, FileOf, GrantOf
    <3>4. rotates /\ disk'.refresh = 0
      BY <3>2, <3>3 DEF HasLogin
    <3>5. 0 \notin live
      BY DEF TypeOK, Tokens
    <3>6. excused /\ disk.refresh \notin live
      BY <3>1, <3>3, <3>4, <3>5 DEF FileOf, GrantOf
    <3>7. QED
      BY <3>1, <3>3, <3>6 DEF FileOf, MemoryOf
  <2>7. QED
    BY <2>2, <2>3, <2>4, <2>5, <2>6
<1>4. QED
  BY <1>1, <1>2, <1>3, PTL DEF Spec, LoginKept

-----------------------------------------------------------------------------
(* The device login.                                                       *)

Active == phase \in {"checking", "polling", "asleep"}

\* While the request for the code is under way, and after it.
StartOK ==
  /\ phase # "done" => outcome = "none"
  /\ phase = "starting" => code \in {"none", "pending"}
  /\ phase = "starting" /\ code # "none" =>
       /\ expiry <= clock + named.expires_in
       /\ welcome <= clock
       /\ pace = IF named.interval = 0 THEN DefaultInterval ELSE named.interval
  /\ Active => code # "none" /\ interval = pace /\ expiry <= deadline

\* The server is never polled before it wants to be.
PaceOK ==
  /\ phase \in {"checking", "polling"} => welcome <= clock
  /\ phase = "asleep" => welcome <= clock + timer /\ timer <= interval

\* A poll begins before the deadline, a pause ends one interval after that poll.
TimeOK ==
  /\ phase = "checking" => clock <= deadline + interval + MaxWait
  /\ phase = "polling" => clock <= deadline + waited
  /\ phase = "asleep" => clock + timer <= deadline + interval + MaxWait

\* The poll that follows an approval comes within one interval.
PromptOK ==
  code = "approved" /\ ~ slowed =>
    /\ phase = "checking" => clock <= decided + interval
    /\ phase = "polling" => clock <= decided + interval + waited
    /\ phase = "asleep" => clock + timer <= decided + interval

LoginInv == LoginTypeOK /\ StartOK /\ PaceOK /\ TimeOK /\ PromptOK
        /\ OutcomeIsDecision /\ ApprovalCounts

-----------------------------------------------------------------------------
USE DeviceLoginAssumption DEF DeviceLoginAssumption

LEMMA LoginTypeInit == LoginInit => LoginTypeOK
<1>1. [expires_in |-> 0, interval |-> 0] \in [expires_in : Nat, interval : Nat]
  OBVIOUS
<1>2. 0 \in Nat /\ 0 \in 0 .. MaxWait /\ FALSE \in BOOLEAN
  OBVIOUS
<1> QED
  BY <1>1, <1>2 DEF LoginInit, LoginTypeOK, Outcomes

LEMMA LoginTypeStep == LoginTypeOK /\ [LoginNext]_loginVars => LoginTypeOK'
<1> SUFFICES ASSUME LoginTypeOK, [LoginNext]_loginVars PROVE LoginTypeOK'
  OBVIOUS
<1> USE DEF LoginTypeOK, Outcomes, clientVars, codeVars
<1>1. ASSUME NEW lifetime \in Lifetimes, NEW pause \in Intervals, IssueCode(lifetime, pause)
      PROVE  LoginTypeOK'
  BY <1>1 DEF IssueCode
<1>2. CASE Decide
  BY <1>2 DEF Decide
<1>3. CASE Started
  BY <1>3 DEF Started
<1>4. CASE CheckDeadline
  BY <1>4 DEF CheckDeadline, End
<1>5. CASE Pending
  BY <1>5 DEF Pending, Sleep
<1>6. CASE SlowDown
  BY <1>6 DEF SlowDown, Sleep
<1>7. CASE Granted
  BY <1>7 DEF Granted, End
<1>8. CASE AccessDenied
  BY <1>8 DEF AccessDenied, End
<1>9. CASE ExpiredToken
  BY <1>9 DEF ExpiredToken, End
<1>10. CASE Fails
  BY <1>10 DEF Fails, End
<1>11. CASE Wake
  BY <1>11 DEF Wake
<1>12. CASE Cancel
  BY <1>12 DEF Cancel, End
<1>13. CASE Tick
  BY <1>13 DEF Tick
<1>14. CASE Ended \/ UNCHANGED loginVars
  BY <1>14 DEF Ended, loginVars
<1> QED
  BY <1>1, <1>2, <1>3, <1>4, <1>5, <1>6, <1>7, <1>8, <1>9, <1>10, <1>11, <1>12,
     <1>13, <1>14 DEF LoginNext

\* Every reachable state of the login is well-typed.
THEOREM LoginTypeCorrect == LoginSpec => []LoginTypeOK
BY LoginTypeInit, LoginTypeStep, PTL DEF LoginSpec

-----------------------------------------------------------------------------
LEMMA LoginInvInit == LoginInit => LoginInv
BY LoginTypeInit DEF LoginInit, LoginInv, StartOK, PaceOK, TimeOK, PromptOK, Active,
  OutcomeIsDecision, ApprovalCounts

LEMMA LoginInvStep == LoginInv /\ [LoginNext]_loginVars => LoginInv'
<1> SUFFICES ASSUME LoginInv, [LoginNext]_loginVars PROVE LoginInv'
  OBVIOUS
<1>0. LoginTypeOK /\ LoginTypeOK'
  BY LoginTypeStep DEF LoginInv
<1> USE <1>0 DEF LoginTypeOK, LoginInv, StartOK, PaceOK, TimeOK, PromptOK, Active,
  OutcomeIsDecision, ApprovalCounts, clientVars, codeVars
<1>1. ASSUME NEW lifetime \in Lifetimes, NEW pause \in Intervals, IssueCode(lifetime, pause)
      PROVE  LoginInv'
  BY <1>1 DEF IssueCode
<1>2. CASE Decide
  BY <1>2 DEF Decide
<1>3. CASE Started
  BY <1>3 DEF Started
<1>4. CASE CheckDeadline
  <2>1. CASE clock > deadline
    BY <1>4, <2>1 DEF CheckDeadline, End
  <2>2. CASE ~ (clock > deadline)
    BY <1>4, <2>2 DEF CheckDeadline, End
  <2> QED
    BY <2>1, <2>2
<1>5. CASE Pending
  BY <1>5 DEF Pending, Sleep
<1>6. CASE SlowDown
  <2>1. StartOK' /\ PaceOK'
    BY <1>6 DEF SlowDown, Sleep
  <2>2. TimeOK'
    BY <1>6 DEF SlowDown, Sleep
  <2>3. PromptOK'
    BY <1>6 DEF SlowDown, Sleep
  <2>4. OutcomeIsDecision' /\ ApprovalCounts'
    BY <1>6 DEF SlowDown, Sleep
  <2> QED
    BY <2>1, <2>2, <2>3, <2>4
<1>7. CASE Granted
  BY <1>7 DEF Granted, End
<1>8. CASE AccessDenied
  BY <1>8 DEF AccessDenied, End
<1>9. CASE ExpiredToken
  BY <1>9 DEF ExpiredToken, End
<1>10. CASE Fails
  BY <1>10 DEF Fails, End
<1>11. CASE Wake
  BY <1>11 DEF Wake
<1>12. CASE Cancel
  BY <1>12 DEF Cancel, End
<1>13. CASE Tick
  <2>1. CASE phase \in {"starting", "polling"}
    <3>1. /\ clock' = clock + 1 /\ waited' = waited + 1
          /\ UNCHANGED <<timer, phase, interval, deadline, outcome, codeVars>>
      BY <1>13, <2>1 DEF Tick
    <3>2. StartOK' /\ PaceOK'
      BY <2>1, <3>1
    <3>3. TimeOK'
      BY <2>1, <3>1
    <3>4. PromptOK'
      BY <2>1, <3>1
    <3>5. OutcomeIsDecision' /\ ApprovalCounts'
      BY <2>1, <3>1
    <3> QED
      BY <3>2, <3>3, <3>4, <3>5
  <2>2. CASE phase = "asleep"
    <3>1. /\ clock' = clock + 1 /\ timer' = timer - 1 /\ timer > 0
          /\ UNCHANGED <<waited, phase, interval, deadline, outcome, codeVars>>
      BY <1>13, <2>2 DEF Tick
    <3>2. StartOK' /\ PaceOK'
      BY <2>2, <3>1
    <3>3. TimeOK'
      BY <2>2, <3>1
    <3>4. PromptOK'
      BY <2>2, <3>1
    <3>5. OutcomeIsDecision' /\ ApprovalCounts'
      BY <2>2, <3>1
    <3> QED
      BY <3>2, <3>3, <3>4, <3>5
  <2> QED
    BY <1>13, <2>1, <2>2 DEF Tick
<1>14. CASE Ended \/ UNCHANGED loginVars
  BY <1>14 DEF Ended, loginVars
<1> QED
  BY <1>1, <1>2, <1>3, <1>4, <1>5, <1>6, <1>7, <1>8, <1>9, <1>10, <1>11, <1>12,
     <1>13, <1>14 DEF LoginNext

THEOREM LoginInvariant == LoginSpec => []LoginInv
BY LoginInvInit, LoginInvStep, PTL DEF LoginSpec

-----------------------------------------------------------------------------
\* For every lifetime, interval and timeout: what the command reports is what
\* the user decided (awaitDeviceAuthorization).
THEOREM ReportsTheDecision == LoginSpec => []OutcomeIsDecision
<1>1. LoginInv => OutcomeIsDecision
  BY DEF LoginInv
<1> QED
  BY <1>1, LoginInvariant, PTL

\* The server is not polled sooner than it asked for, however often it slowed
\* the client down.
THEOREM KeepsThePace == LoginSpec => []NeverTooFast
<1>1. LoginInv => NeverTooFast
  BY DEF LoginInv, PaceOK, NeverTooFast, LoginTypeOK
<1> QED
  BY <1>1, LoginInvariant, PTL

\* An approval one interval and one request before the code expires counts.
THEOREM ApprovalsCount == LoginSpec => []ApprovalCounts
<1>1. LoginInv => ApprovalCounts
  BY DEF LoginInv
<1> QED
  BY <1>1, LoginInvariant, PTL

\* The command ends in time whatever the server answers, as long as it answers
\* or the request times out.
THEOREM LoginEndsInTime == LoginSpec => []EndsInTime
<1>1. LoginInv => EndsInTime
  BY DEF LoginInv, LoginTypeOK, TimeOK, EndsInTime
<1> QED
  BY <1>1, LoginInvariant, PTL
=============================================================================
