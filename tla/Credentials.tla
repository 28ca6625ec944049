---------------------------- MODULE Credentials ----------------------------
(***************************************************************************)
(* The stored credentials: `sah` processes of one user that load the       *)
(* configuration file when they start, refresh OAuth tokens and fall back  *)
(* to an API key in the middle of their requests (internal/sah/client.go), *)
(* and save the whole configuration they hold in memory; `sah auth login`  *)
(* and `sah auth logout` (cmd/sah/main.go). The file is replaced by a      *)
(* rename (config.go), so that a save is one step. The server, which       *)
(* issues and refuses tokens, is outside of this repository.               *)
(*                                                                         *)
(* A token is the number of the answer that issued it; 0 stands for none.  *)
(***************************************************************************)
EXTENDS Naturals, FiniteSets

CONSTANTS
  Processes,      \* the processes that may run
  MaxTokens,      \* how many answers with tokens the server gives
  Rotations,      \* whether a refresh token is good for one use: the servers
  Commands,       \* what the user may start: run, login, logout
  StoredConfigs,  \* what the file may hold to begin with
  Faults          \* what may go wrong outside of the process

AllCommands == {"run", "login", "logout"}
AllFaults == {"revoke", "revoke_key", "forbid", "discovery", "network", "lose",
              "save", "crash", "undated"}
Tokens == 1 .. MaxTokens
Configs == [access : 0 .. MaxTokens, refresh : 0 .. MaxTokens,
            expiry : 0 .. MaxTokens, key : BOOLEAN]
Empty == [access |-> 0, refresh |-> 0, expiry |-> 0, key |-> FALSE]

ASSUME CredentialsAssumption ==
  /\ Processes # {}
  /\ MaxTokens \in Nat \ {0}
  /\ Rotations \subseteq BOOLEAN
  /\ Commands \subseteq AllCommands
  /\ StoredConfigs \subseteq [access : 0 .. 1, refresh : 0 .. 1,
                              expiry : 0 .. 1, key : BOOLEAN]
  /\ Faults \subseteq AllFaults

VARIABLES
  disk,         \* the configuration file
  config,       \* per process, its Config and the fields of its Client
  pc,           \* per process, where it is
  forced,       \* the refresh at hand was forced by a 401
  grant,        \* the tokens of an answer the process has not taken up yet
  had,          \* the credentials it had when the request at hand began
  tried,        \* what has been turned away in this request so far
  rotates,      \* the server invalidates a refresh token when it is used
  issued,       \* the last token issued
  age,          \* per access token: fresh, within its last 30 seconds, expired
  live,         \* the refresh tokens the server accepts
  valid,        \* the access tokens it has not revoked
  undated,      \* the tokens issued without expires_in
  keyAccepted,  \* the server accepts the API key
  excused,      \* an accident has cost the stored refresh token its validity
  loggedOut     \* the user has logged out and not logged in since

callVars == <<forced, grant, had, tried>>
serverVars == <<rotates, issued, age, live, valid, undated, keyAccepted>>
vars == <<disk, config, pc, callVars, serverVars, excused, loggedOut>>

Steps == {"off", "ready", "login", "refresh", "granted", "discard", "send",
          "rejected"}
Answers == {"access", "refresh", "key", "none", "discovery"}

TypeOK ==
  /\ disk \in Configs
  /\ config \in [Processes -> Configs]
  /\ pc \in [Processes -> Steps]
  /\ forced \in [Processes -> BOOLEAN]
  /\ grant \in [Processes -> 0 .. MaxTokens]
  /\ had \in [Processes -> SUBSET {"login", "key"}]
  /\ tried \in [Processes -> SUBSET Answers]
  /\ rotates \in BOOLEAN
  /\ issued \in Tokens
  /\ age \in [Tokens -> {"fresh", "due", "expired"}]
  /\ live \in SUBSET Tokens
  /\ valid \in SUBSET Tokens
  /\ undated \in SUBSET Tokens
  /\ keyAccepted \in BOOLEAN
  /\ excused \in BOOLEAN
  /\ loggedOut \in BOOLEAN

\* Token 1 is the login of the user's that the file may hold.
Init ==
  /\ disk \in StoredConfigs
  /\ config = [p \in Processes |-> Empty]
  /\ pc = [p \in Processes |-> "off"]
  /\ forced = [p \in Processes |-> FALSE]
  /\ grant = [p \in Processes |-> 0]
  /\ had = [p \in Processes |-> {}]
  /\ tried = [p \in Processes |-> {}]
  /\ rotates \in Rotations
  /\ issued = 1
  /\ age = [g \in Tokens |-> "fresh"]
  /\ live = {1}
  /\ valid = {1}
  /\ undated = IF disk.expiry = 1 THEN {} ELSE {1}
  /\ keyAccepted = TRUE
  /\ excused = FALSE
  /\ loggedOut = FALSE

-----------------------------------------------------------------------------
(* What a configuration holds, and what the server makes of it.            *)

HasLogin(c) == c.access # 0 \/ c.refresh # 0
HasAuth(c) == HasLogin(c) \/ c.key

\* ensureAccessToken without force: nothing to do while there is an access
\* token with no known expiry or with more than 30 seconds to go.
Due(c) == c.access = 0 \/ (c.expiry # 0 /\ age[c.expiry] # "fresh")

\* applyJSONRequestHeaders: a bearer token is preferred to the API key.
Presented(c) == IF c.access # 0 THEN "access" ELSE IF c.key THEN "key" ELSE "none"

Accepts(c) ==
  \/ Presented(c) = "access" /\ c.access \in valid /\ age[c.access] # "expired"
  \/ Presented(c) = "key" /\ keyAccepted

\* The server issues a token; `used` is the refresh token it takes for it.
Issue(used) ==
  /\ issued < MaxTokens
  /\ issued' = issued + 1
  /\ live' = IF used = 0 THEN live \cup {issued + 1}
             ELSE IF rotates THEN (live \ {used}) \cup {issued + 1}
             ELSE live
  /\ valid' = valid \cup {issued + 1}
  /\ undated' \in {undated} \cup
       (IF "undated" \in Faults THEN {undated \cup {issued + 1}} ELSE {})
  /\ UNCHANGED <<rotates, age, keyAccepted>>

\* mutant: keeps the refresh token it used
UpdatedKeepingRefresh(c, g) ==
  [c EXCEPT !.access = g, !.expiry = IF g \in undated THEN @ ELSE g]
\* mutant: keeps the expiry of the token it replaces
UpdatedKeepingExpiry(c, g) ==
  [c EXCEPT !.access = g, !.refresh = IF rotates THEN g ELSE @]
\* updateTokens: what the answer leaves out stays as it was.
Updated(c, g) ==
  [c EXCEPT !.access = g, !.refresh = IF rotates THEN g ELSE @,
            !.expiry = IF g \in undated THEN @ ELSE g]

\* clearOAuthTokens
Cleared(c) == [Empty EXCEPT !.key = c.key]

Become(p, step) == pc' = [pc EXCEPT ![p] = step]

\* The request at hand is over, with an answer or an error.
EndCall(p, step) ==
  /\ Become(p, step)
  /\ forced' = [forced EXCEPT ![p] = FALSE]
  /\ grant' = [grant EXCEPT ![p] = 0]
  /\ had' = [had EXCEPT ![p] = {}]
  /\ tried' = [tried EXCEPT ![p] = {}]

-----------------------------------------------------------------------------
(* Commands.                                                               *)

\* loadConfig of a command that needs credentials, and of the worker.
Run(p) ==
  /\ pc[p] = "off"
  /\ "run" \in Commands
  /\ HasAuth(disk)
  /\ config' = [config EXCEPT ![p] = disk]
  /\ Become(p, "ready")
  /\ UNCHANGED <<disk, callVars, serverVars, excused, loggedOut>>

\* `sah auth login`, or `sah run` without any credential, loads the
\* configuration and waits for the user's approval.
BeginLogin(p) ==
  /\ pc[p] = "off"
  /\ "login" \in Commands
  /\ config' = [config EXCEPT ![p] = disk]
  /\ Become(p, "login")
  /\ UNCHANGED <<disk, callVars, serverVars, excused, loggedOut>>

\* loginAndPersist has its tokens. What it saves does not depend on the old
\* credentials, and the command goes on with its first request; an error ends it.
FinishLogin(p) ==
  LET g == issued + 1
      new == [access |-> g, refresh |-> g,
              expiry |-> IF g \in undated' THEN 0 ELSE g, key |-> FALSE]
  IN /\ pc[p] = "login"
     /\ Issue(0)
     /\ \/ /\ disk' = new
           /\ config' = [config EXCEPT ![p] = new]
           /\ Become(p, "ready")
           /\ excused' = FALSE
           /\ loggedOut' = FALSE
        \/ /\ "save" \in Faults
           /\ Become(p, "off")
           /\ UNCHANGED <<disk, config, excused, loggedOut>>
     /\ UNCHANGED callVars

\* sah.Login returns an error.
LoginFails(p) ==
  /\ pc[p] = "login"
  /\ Become(p, "off")
  /\ UNCHANGED <<disk, config, callVars, serverVars, excused, loggedOut>>

LogoutOfOAuth(p) ==  \* mutant: leaves the API key
  /\ pc[p] = "off"
  /\ "logout" \in Commands
  /\ disk' = Cleared(disk)
  /\ loggedOut' = TRUE
  /\ UNCHANGED <<config, pc, callVars, serverVars, excused>>

\* runAuthLogout clears every credential of what it loads, and saves it.
Logout(p) ==
  /\ pc[p] = "off"
  /\ "logout" \in Commands
  /\ disk' = Empty
  /\ loggedOut' = TRUE
  /\ UNCHANGED <<config, pc, callVars, serverVars, excused>>

\* A process is done, or gives up after a rejected request ...
Exit(p) ==
  /\ pc[p] \in {"ready", "rejected"}
  /\ EndCall(p, "off")
  /\ config' = [config EXCEPT ![p] = Empty]
  /\ UNCHANGED <<disk, serverVars, excused, loggedOut>>

\* ... or, like a worker whose release was turned down, goes on.
GoOn(p) ==
  /\ pc[p] = "rejected"
  /\ EndCall(p, "ready")
  /\ UNCHANGED <<disk, config, serverVars, excused, loggedOut>>

Crash(p) ==
  /\ "crash" \in Faults
  /\ pc[p] # "off"
  /\ EndCall(p, "off")
  /\ config' = [config EXCEPT ![p] = Empty]
  /\ excused' = (excused \/ (rotates /\ pc[p] = "granted"))
  /\ UNCHANGED <<disk, serverVars, loggedOut>>

-----------------------------------------------------------------------------
(* One request: doJSONWithHeaders.                                         *)

InCall(p) == pc[p] \in {"refresh", "granted", "discard", "send"}

\* The bound on tokens leaves two to each request, one for each refresh.
Affordable(p) ==
  issued + 2 * Cardinality({q \in Processes : q = p \/ InCall(q)}) <= MaxTokens

\* ensureAccessToken(ctx, false)
Call(p) ==
  /\ pc[p] = "ready"
  /\ Affordable(p)
  /\ had' = [had EXCEPT ![p] =
       (IF HasLogin(config[p]) THEN {"login"} ELSE {}) \cup
       (IF config[p].key THEN {"key"} ELSE {})]
  /\ Become(p, IF config[p].refresh # 0 /\ Due(config[p]) THEN "refresh" ELSE "send")
  /\ UNCHANGED <<disk, config, forced, grant, tried, serverVars, excused, loggedOut>>

\* The server turns the request, or the refresh in it, away over this credential.
TurnedAway(p, what) == tried' = [tried EXCEPT ![p] = @ \cup {what}]

\* The server takes the refresh token and issues new tokens.
RefreshGranted(p) ==
  /\ pc[p] = "refresh"
  /\ config[p].refresh \in live
  /\ Issue(config[p].refresh)
  /\ grant' = [grant EXCEPT ![p] = issued + 1]
  /\ Become(p, "granted")
  /\ UNCHANGED <<disk, config, forced, had, tried, excused, loggedOut>>

\* It does, but its answer does not arrive, and the request ends in an error.
RefreshLost(p) ==
  /\ "lose" \in Faults
  /\ pc[p] = "refresh"
  /\ config[p].refresh \in live
  /\ Issue(config[p].refresh)
  /\ EndCall(p, "ready")
  /\ excused' = (excused \/ rotates)
  /\ UNCHANGED <<disk, config, loggedOut>>

\* IsAuthenticationFailure: 400 invalid_grant for a refresh token that is not
\* accepted, or 401 or 403 for the unauthenticated request for the server's
\* metadata that precedes the refresh.
RefreshRefused(p) ==
  /\ pc[p] = "refresh"
  /\ \/ config[p].refresh \notin live /\ TurnedAway(p, "refresh")
     \/ "discovery" \in Faults /\ TurnedAway(p, "discovery")
  /\ Become(p, "discard")
  /\ UNCHANGED <<disk, config, forced, grant, had, serverVars, excused, loggedOut>>

\* updateTokens and saveTokens. When saving fails the process keeps what it has
\* in memory, and the request ends in an error.
AdoptTokens(p) ==
  LET c == Updated(config[p], grant[p])
  IN /\ pc[p] = "granted"
     /\ config' = [config EXCEPT ![p] = c]
     /\ \/ /\ disk' = c
           /\ grant' = [grant EXCEPT ![p] = 0]
           /\ Become(p, "send")
           /\ UNCHANGED <<forced, had, tried, excused>>
        \/ /\ "save" \in Faults
           /\ EndCall(p, "ready")
           /\ excused' = (excused \/ rotates)
           /\ UNCHANGED disk
     /\ UNCHANGED <<serverVars, loggedOut>>

AfterDiscard(c) == IF c.key THEN "send" ELSE "rejected"

\* clearAndSaveOAuthTokens, after a refused refresh (ensureAccessToken) or a
\* rejected bearer token (retryWithAPIKeyFallback).
DiscardTokens(p) ==
  LET c == Cleared(config[p])
  IN /\ pc[p] = "discard"
     /\ config' = [config EXCEPT ![p] = c]
     /\ \/ /\ disk' = c
           /\ Become(p, AfterDiscard(c))
           /\ UNCHANGED callVars
        \/ /\ "save" \in Faults
           /\ EndCall(p, "ready")
           /\ UNCHANGED disk
     /\ UNCHANGED <<serverVars, excused, loggedOut>>

\* A bearer token that is turned away gives way to the API key.
FallBack(p) ==
  Become(p, IF Presented(config[p]) = "access" /\ config[p].key
            THEN "discard" ELSE "rejected")

SendAccepted(p) ==
  /\ pc[p] = "send"
  /\ Accepts(config[p])
  /\ EndCall(p, "ready")
  /\ UNCHANGED <<disk, config, serverVars, excused, loggedOut>>

\* 401: the first one forces a refresh.
SendRefused(p) ==
  /\ pc[p] = "send"
  /\ ~ Accepts(config[p])
  /\ TurnedAway(p, Presented(config[p]))
  /\ \/ /\ config[p].refresh # 0 /\ ~ forced[p]
        /\ forced' = [forced EXCEPT ![p] = TRUE]
        /\ Become(p, "refresh")
     \/ /\ config[p].refresh = 0 \/ forced[p]
        /\ FallBack(p)
        /\ UNCHANGED forced
  /\ UNCHANGED <<disk, config, grant, had, serverVars, excused, loggedOut>>

\* mutant: a 403 is the last word, whatever else there is to try
SendForbiddenForGood(p) ==
  /\ "forbid" \in Faults
  /\ pc[p] = "send"
  /\ Presented(config[p]) # "none"
  /\ TurnedAway(p, Presented(config[p]))
  /\ Become(p, "rejected")
  /\ UNCHANGED <<disk, config, forced, grant, had, serverVars, excused, loggedOut>>

\* 403, for a reason that need not be the credential.
SendForbidden(p) ==
  /\ "forbid" \in Faults
  /\ pc[p] = "send"
  /\ Presented(config[p]) # "none"
  /\ TurnedAway(p, Presented(config[p]))
  /\ FallBack(p)
  /\ UNCHANGED <<disk, config, forced, grant, had, serverVars, excused, loggedOut>>

\* mutant: takes a failed refresh for a refused one
CallFailsAndDiscards(p) ==
  /\ "network" \in Faults
  /\ pc[p] \in {"refresh", "send"}
  /\ IF pc[p] = "refresh"
     THEN Become(p, "discard") /\ UNCHANGED callVars
     ELSE EndCall(p, "ready")
  /\ UNCHANGED <<disk, config, serverVars, excused, loggedOut>>

\* A request that does not reach the server, or meets any other error there.
CallFails(p) ==
  /\ "network" \in Faults
  /\ pc[p] \in {"refresh", "send"}
  /\ EndCall(p, "ready")
  /\ UNCHANGED <<disk, config, serverVars, excused, loggedOut>>

-----------------------------------------------------------------------------
(* Time, and what the server does of its own accord.                       *)

Age(g) ==
  /\ g <= issued
  /\ \/ age[g] = "fresh" /\ age' = [age EXCEPT ![g] = "due"]
     \/ age[g] = "due" /\ age' = [age EXCEPT ![g] = "expired"]
  /\ UNCHANGED <<disk, config, pc, callVars, rotates, issued, live, valid,
                 undated, keyAccepted, excused, loggedOut>>

Revoke ==
  /\ "revoke" \in Faults
  /\ live # {}
  /\ live' = {}
  /\ valid' = {}
  /\ excused' = TRUE
  /\ UNCHANGED <<disk, config, pc, callVars, rotates, issued, age, undated,
                 keyAccepted, loggedOut>>

RevokeKey ==
  /\ "revoke_key" \in Faults
  /\ keyAccepted
  /\ keyAccepted' = FALSE
  /\ UNCHANGED <<disk, config, pc, callVars, rotates, issued, age, live, valid,
                 undated, excused, loggedOut>>

Request(p) ==
  \/ Call(p)
  \/ RefreshGranted(p)
  \/ RefreshLost(p)
  \/ RefreshRefused(p)
  \/ AdoptTokens(p)
  \/ DiscardTokens(p)
  \/ SendAccepted(p)
  \/ SendRefused(p)
  \/ SendForbidden(p)
  \/ CallFails(p)

Command(p) ==
  \/ Run(p)
  \/ BeginLogin(p)
  \/ FinishLogin(p)
  \/ LoginFails(p)
  \/ Logout(p)
  \/ Exit(p)
  \/ GoOn(p)
  \/ Crash(p)

Next ==
  \/ \E p \in Processes : Request(p) \/ Command(p)
  \/ \E g \in Tokens : Age(g)
  \/ Revoke
  \/ RevokeKey

Spec == Init /\ [][Next]_vars

-----------------------------------------------------------------------------
(* Properties.                                                             *)

\* The file loses its login only by a logout, or when the server no longer
\* accepts it: its refresh token, or the access token that stands alone. There
\* are two pretexts more (client.go 640, 908): with an API key to fall back to, a
\* 401 or 403, for whatever reason, to a request that cannot be helped by a
\* refresh any more; and a refused discovery of the token endpoint. A network
\* error, a lost answer or a failed save never costs it.
LoginKept ==
  [][HasLogin(disk) /\ ~ HasLogin(disk') =>
       \/ loggedOut'
       \/ /\ disk.refresh \notin live
          /\ disk.refresh = 0 =>
               disk.access \notin valid \/ age[disk.access] = "expired"
       \/ \E p \in Processes :
            /\ pc[p] = "discard"
            /\ \/ "access" \in tried[p] /\ config[p].key
               \/ "discovery" \in tried[p]]_vars

\* Between requests the stored refresh token is the one the server accepts,
\* however often it has been rotated, unless a lost answer, a failed save, a
\* crash before the save or the server itself has broken it (client.go 918-922:
\* a refreshed token is saved before it is used).
StoredLoginWorks ==
  \/ disk.refresh \in live \cup {0}
  \/ excused
  \/ \E p \in Processes : pc[p] = "granted"

\* A request is given up as unauthenticated only after each kind of credential
\* the process had was itself turned away: the API key is never left untried,
\* whether the login met a 401, a 403 or a refused refresh (client.go 628-661,
\* 905-916), and the login is never passed over for the key.
RejectionIsThorough ==
  \A p \in Processes : pc[p] = "rejected" =>
    /\ "login" \in had[p] => tried[p] \cap {"access", "refresh", "discovery"} # {}
    /\ "key" \in had[p] => "key" \in tried[p]

\* An access token that has more than 30 seconds to go is not refreshed, if the
\* server has said how long it lives, unless the server has just turned it away.
ThriftyRefresh ==
  \A p \in Processes : pc[p] = "refresh" /\ ~ forced[p] =>
    \/ config[p].access = 0
    \/ age[config[p].access] # "fresh"
    \/ config[p].access \in undated

\* After `sah auth logout` has removed them no credential is in the file until
\* the user logs in again (main.go 189-205).
LogoutSticks == loggedOut => ~ HasAuth(disk)

\* "Expired OAuth access tokens are refreshed automatically with the stored
\* refresh token before authenticated requests when possible" (architecture.md
\* 65): no refresh is refused while the stored refresh token is good.
RefreshedWhenPossible ==
  \A p \in Processes : pc[p] = "discard" /\ "refresh" \in tried[p] =>
    disk.refresh \notin live
=============================================================================
