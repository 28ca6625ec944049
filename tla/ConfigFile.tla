----------------------------- MODULE ConfigFile -----------------------------
(***************************************************************************)
(* SaveConfig and LoadConfig (internal/sah/config.go) call by call, in     *)
(* processes that share one directory: a temporary file with a name of its *)
(* own is made, written, given its mode, closed and renamed over the       *)
(* configuration file; a load opens that file and then reads what it has   *)
(* opened. Any call may fail, and a process may die between any two.       *)
(*                                                                         *)
(* Files are counted as they are made; a name in the directory leads to a  *)
(* file, and what a file holds is a configuration, or only some bytes of   *)
(* one. That a name once renamed survives a loss of power is not claimed:  *)
(* nothing is flushed to the disk.                                         *)
(***************************************************************************)
EXTENDS Naturals

CONSTANTS
  Processes,
  Values,       \* configurations
  Nothing,
  Torn,         \* some bytes of a configuration, or none
  MaxFiles      \* how many files may be made

ASSUME ConfigFileAssumption ==
  /\ Nothing \notin Values /\ Torn \notin Values \union {Nothing}
  /\ MaxFiles \in Nat

Files == 1 .. MaxFiles

VARIABLES
  made,      \* how many files have been made
  holds,     \* what each of them holds
  config,    \* the file that the configuration's name leads to, or 0
  temps,     \* the files that have a temporary name
  call,      \* what each process does next
  temp,      \* the temporary file of its save
  value,     \* what it saves
  result,    \* how its last save ended
  opened,    \* the file that its load has opened, or 0 for none there
  dropped    \* the temporary names left by a death or a failed removal

configVars == <<made, holds, config, temps, call, temp, value, result, opened, dropped>>

Calls == {"none", "create", "write", "chmod", "close", "rename", "remove", "read"}

ConfigTypeOK ==
  /\ made \in 0 .. MaxFiles
  /\ holds \in [Files -> Values \union {Torn}]
  /\ config \in 0 .. MaxFiles
  /\ temps \subseteq Files
  /\ call \in [Processes -> Calls]
  /\ temp \in [Processes -> 0 .. MaxFiles]
  /\ value \in [Processes -> Values \union {Nothing}]
  /\ result \in [Processes -> {"none", "saved", "failed"}]
  /\ opened \in [Processes -> 0 .. MaxFiles]
  /\ dropped \subseteq Files

\* No configuration yet, or one that an earlier save has made.
ConfigInit ==
  /\ \E v \in Values :
       \/ made = 0 /\ config = 0 /\ holds = [f \in Files |-> Torn]
       \/ /\ MaxFiles > 0 /\ made = 1 /\ config = 1
          /\ holds = [f \in Files |-> IF f = 1 THEN v ELSE Torn]
  /\ temps = {}
  /\ call = [p \in Processes |-> "none"]
  /\ temp = [p \in Processes |-> 0]
  /\ value = [p \in Processes |-> Nothing]
  /\ result = [p \in Processes |-> "none"]
  /\ opened = [p \in Processes |-> 0]
  /\ dropped = {}

\* SaveConfig returns.
Return(p, how) ==
  /\ call' = [call EXCEPT ![p] = "none"]
  /\ temp' = [temp EXCEPT ![p] = 0]
  /\ value' = [value EXCEPT ![p] = Nothing]
  /\ result' = [result EXCEPT ![p] = how]

Goto(p, next) ==
  /\ call' = [call EXCEPT ![p] = next]
  /\ UNCHANGED <<temp, value, result>>

SaveConfigCalled(p, v) ==
  /\ call[p] = "none"
  /\ call' = [call EXCEPT ![p] = "create"]
  /\ value' = [value EXCEPT ![p] = v]
  /\ result' = [result EXCEPT ![p] = "none"]
  /\ UNCHANGED <<made, holds, config, temps, temp, opened, dropped>>

\* As it would be if the file were truncated and written in place.
CreateInPlace(p) ==
  /\ call[p] = "create"
  /\ made < MaxFiles
  /\ made' = made + 1
  /\ config' = made + 1
  /\ temp' = [temp EXCEPT ![p] = made + 1]
  /\ call' = [call EXCEPT ![p] = "write"]
  /\ UNCHANGED <<holds, temps, value, result, opened, dropped>>

CreateTemp(p) ==
  /\ call[p] = "create"
  /\ made < MaxFiles
  /\ made' = made + 1
  /\ temps' = temps \union {made + 1}
  /\ temp' = [temp EXCEPT ![p] = made + 1]
  /\ call' = [call EXCEPT ![p] = "write"]
  /\ UNCHANGED <<holds, config, value, result, opened, dropped>>

\* The directory or the temporary file cannot be made.
CreateTempFails(p) ==
  /\ call[p] = "create"
  /\ Return(p, "failed")
  /\ UNCHANGED <<made, holds, config, temps, opened, dropped>>

WriteTemp(p) ==
  /\ call[p] = "write"
  /\ holds' = [holds EXCEPT ![temp[p]] = value[p]]
  /\ Goto(p, "chmod")
  /\ UNCHANGED <<made, config, temps, opened, dropped>>

ChmodTemp(p) ==
  /\ call[p] = "chmod"
  /\ Goto(p, "close")
  /\ UNCHANGED <<made, holds, config, temps, opened, dropped>>

CloseTemp(p) ==
  /\ call[p] = "close"
  /\ Goto(p, "rename")
  /\ UNCHANGED <<made, holds, config, temps, opened, dropped>>

\* As it would be if a failed step returned at once.
StepFailsAtOnce(p) ==
  /\ call[p] \in {"write", "chmod", "close", "rename"}
  /\ Return(p, "failed")
  /\ UNCHANGED <<made, holds, config, temps, opened, dropped>>

\* A write that fails may have written some of the bytes.
StepFails(p) ==
  /\ call[p] \in {"write", "chmod", "close", "rename"}
  /\ Goto(p, "remove")
  /\ UNCHANGED <<made, holds, config, temps, opened, dropped>>

RenameTemp(p) ==
  /\ call[p] = "rename"
  /\ config' = temp[p]
  /\ temps' = temps \ {temp[p]}
  /\ Return(p, "saved")
  /\ UNCHANGED <<made, holds, opened, dropped>>

\* The result of the removal is ignored.
RemoveTemp(p) ==
  /\ call[p] = "remove"
  /\ \/ temps' = temps \ {temp[p]} /\ UNCHANGED dropped
     \/ dropped' = dropped \union {temp[p]} /\ UNCHANGED temps
  /\ Return(p, "failed")
  /\ UNCHANGED <<made, holds, config, opened>>

\* Without a file a load returns the defaults.
OpenConfig(p) ==
  /\ call[p] = "none"
  /\ call' = [call EXCEPT ![p] = "read"]
  /\ opened' = [opened EXCEPT ![p] = config]
  /\ UNCHANGED <<made, holds, config, temps, temp, value, result, dropped>>

ReadConfig(p) ==
  /\ call[p] = "read"
  /\ call' = [call EXCEPT ![p] = "none"]
  /\ opened' = [opened EXCEPT ![p] = 0]
  /\ UNCHANGED <<made, holds, config, temps, temp, value, result, dropped>>

Die(p) ==
  /\ dropped' = dropped \union (temps \intersect {temp[p]})
  /\ call' = [call EXCEPT ![p] = "none"]
  /\ temp' = [temp EXCEPT ![p] = 0]
  /\ value' = [value EXCEPT ![p] = Nothing]
  /\ result' = [result EXCEPT ![p] = "none"]
  /\ opened' = [opened EXCEPT ![p] = 0]
  /\ UNCHANGED <<made, holds, config, temps>>

ConfigNext ==
  \E p \in Processes :
    \/ \E v \in Values : SaveConfigCalled(p, v)
    \/ CreateTemp(p) \/ CreateTempFails(p) \/ WriteTemp(p) \/ ChmodTemp(p)
    \/ CloseTemp(p) \/ StepFails(p) \/ RenameTemp(p) \/ RemoveTemp(p)
    \/ OpenConfig(p) \/ ReadConfig(p) \/ Die(p)

ConfigSpec == ConfigInit /\ [][ConfigNext]_configVars

(***************************************************************************)
(* Properties.                                                             *)
(***************************************************************************)
Content(f) == IF f = 0 THEN Nothing ELSE holds[f]

Store == INSTANCE ConfigStore WITH
  stored  <- Content(config),
  wanted  <- value,
  outcome <- result,
  loaded  <- [p \in Processes |-> IF call[p] = "read" THEN {Content(opened[p])} ELSE {}]

\* With savers and loaders side by side, failing calls and processes that die,
\* the file is a register: a load gets one whole configuration, the one that
\* was there when it began, and a save that says so has taken effect at once
\* (the renaming of SaveConfig; ReadFile holds on to the file it has opened).
StoreSpec == Store!StoreSpec

\* Every way out of SaveConfig that does not rename the temporary file removes
\* it: one that stays behind belongs to a process that died, or would not be
\* removed.
TempsSwept ==
  temps \subseteq dropped \union { temp[p] : p \in { q \in Processes : call[q] # "none" } }
=============================================================================
