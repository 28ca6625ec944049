----------------------------- MODULE StoreProofs -----------------------------
(***************************************************************************)
(* ConfigFile implements ConfigStore, for any number of processes, values  *)
(* and files. What the step-by-step save has to keep up is that nobody     *)
(* else knows the file it writes into: not the configuration's name, not   *)
(* another save, and no load that is still reading.                        *)
(***************************************************************************)
EXTENDS ConfigFile, TLAPS

Saving == {"write", "chmod", "close", "rename", "remove"}
Written == {"chmod", "close", "rename"}

\* Every file in use has been made.
MadeOK ==
  /\ config <= made
  /\ \A p \in Processes : temp[p] <= made /\ opened[p] <= made
  /\ \A f \in temps : f <= made

\* What a process keeps goes with the call that it makes next.
CallOK ==
  \A p \in Processes :
    /\ value[p] \in Values <=> call[p] \in Saving \union {"create"}
    /\ temp[p] # 0 <=> call[p] \in Saving
    /\ call[p] \in Written => holds[temp[p]] = value[p]

\* A file that is being written is its writer's own.
OwnOK ==
  \A p \in Processes : temp[p] # 0 =>
    /\ temp[p] # config
    /\ \A q \in Processes : temp[p] # opened[q]
    /\ \A q \in Processes \ {p} : temp[p] # temp[q]

IInv == ConfigTypeOK /\ MadeOK /\ CallOK /\ OwnOK

-----------------------------------------------------------------------------
LEMMA TypeInit == ConfigInit => ConfigTypeOK
<1> SUFFICES ASSUME ConfigInit PROVE ConfigTypeOK
  OBVIOUS
<1> USE ConfigFileAssumption DEF ConfigInit, ConfigTypeOK, Files, Calls
<1>1. made \in 0 .. MaxFiles /\ config \in 0 .. MaxFiles
  OBVIOUS
<1>2. holds \in [Files -> Values \union {Torn}]
  OBVIOUS
<1> QED
  BY <1>1, <1>2

LEMMA ReturnTypes ==
  ASSUME ConfigTypeOK, NEW p \in Processes, NEW how \in {"saved", "failed"}, Return(p, how)
  PROVE  /\ call' \in [Processes -> Calls]
         /\ temp' \in [Processes -> 0 .. MaxFiles]
         /\ value' \in [Processes -> Values \union {Nothing}]
         /\ result' \in [Processes -> {"none", "saved", "failed"}]
<1> USE DEF ConfigTypeOK, Return, Calls
<1>1. 0 \in 0 .. MaxFiles
  BY ConfigFileAssumption
<1>2. call' \in [Processes -> Calls]
  OBVIOUS
<1>3. temp' \in [Processes -> 0 .. MaxFiles]
  BY <1>1
<1>4. value' \in [Processes -> Values \union {Nothing}]
  OBVIOUS
<1>5. result' \in [Processes -> {"none", "saved", "failed"}]
  OBVIOUS
<1> QED
  BY <1>2, <1>3, <1>4, <1>5

LEMMA TypeStep == ConfigTypeOK /\ CallOK /\ [ConfigNext]_configVars => ConfigTypeOK'
<1> SUFFICES ASSUME ConfigTypeOK, CallOK, [ConfigNext]_configVars PROVE ConfigTypeOK'
  OBVIOUS
<1> USE DEF ConfigTypeOK, Files, Calls
<1>0. MaxFiles \in Nat
  BY ConfigFileAssumption
<1>1. CASE UNCHANGED configVars
  BY <1>1 DEF configVars
<1>2. ASSUME NEW p \in Processes, NEW v \in Values, SaveConfigCalled(p, v)
      PROVE  ConfigTypeOK'
  BY <1>2 DEF SaveConfigCalled
<1>3. ASSUME NEW p \in Processes, CreateTemp(p) PROVE ConfigTypeOK'
  BY <1>0, <1>3 DEF CreateTemp
<1>4. ASSUME NEW p \in Processes, CreateTempFails(p) PROVE ConfigTypeOK'
  BY <1>4, ReturnTypes DEF CreateTempFails
<1>5. ASSUME NEW p \in Processes, WriteTemp(p) PROVE ConfigTypeOK'
  <2>1. value[p] \in Values
    BY <1>5 DEF WriteTemp, CallOK, Saving
  <2>2. holds' \in [Files -> Values \union {Torn}]
    BY <1>5, <2>1 DEF WriteTemp
  <2>3. call' \in [Processes -> Calls] /\ UNCHANGED <<temp, value, result>>
    BY <1>5 DEF WriteTemp, Goto
  <2> QED
    BY <1>5, <2>2, <2>3 DEF WriteTemp
<1>6. ASSUME NEW p \in Processes, ChmodTemp(p) \/ CloseTemp(p) \/ StepFails(p)
      PROVE  ConfigTypeOK'
  BY <1>6 DEF ChmodTemp, CloseTemp, StepFails, Goto
<1>7. ASSUME NEW p \in Processes, RenameTemp(p) PROVE ConfigTypeOK'
  BY <1>0, <1>7, ReturnTypes DEF RenameTemp
<1>8. ASSUME NEW p \in Processes, RemoveTemp(p) PROVE ConfigTypeOK'
  <2>1. temps' \subseteq Files /\ dropped' \subseteq Files
    <3>1. temp[p] \in Files
      BY <1>0, <1>8 DEF RemoveTemp, CallOK, Saving
    <3> QED
      BY <1>8, <3>1 DEF RemoveTemp
  <2> QED
    BY <1>8, <2>1, ReturnTypes DEF RemoveTemp
<1>9. ASSUME NEW p \in Processes, OpenConfig(p) PROVE ConfigTypeOK'
  BY <1>0, <1>9 DEF OpenConfig
<1>10. ASSUME NEW p \in Processes, ReadConfig(p) PROVE ConfigTypeOK'
  BY <1>0, <1>10 DEF ReadConfig
<1>11. ASSUME NEW p \in Processes, Die(p) PROVE ConfigTypeOK'
  <2>1. dropped' \subseteq Files
    BY <1>11 DEF Die
  <2> QED
    BY <1>0, <1>11, <2>1 DEF Die
<1> QED
  BY <1>1, <1>2, <1>3, <1>4, <1>5, <1>6, <1>7, <1>8, <1>9, <1>10, <1>11 DEF ConfigNext

-----------------------------------------------------------------------------
LEMMA InvInit == ConfigInit => IInv
<1> SUFFICES ASSUME ConfigInit PROVE IInv
  OBVIOUS
<1>1. ConfigTypeOK
  BY TypeInit
<1>2. MadeOK
  BY DEF ConfigInit, MadeOK
<1>3. CallOK
  BY ConfigFileAssumption DEF ConfigInit, CallOK, Saving, Written
<1>4. OwnOK
  BY DEF ConfigInit, OwnOK
<1> QED
  BY <1>1, <1>2, <1>3, <1>4 DEF IInv

LEMMA MadeStep == IInv /\ [ConfigNext]_configVars => MadeOK'
<1> SUFFICES ASSUME IInv, [ConfigNext]_configVars PROVE MadeOK'
  OBVIOUS
<1>0. ConfigTypeOK /\ MadeOK /\ MaxFiles \in Nat
  BY ConfigFileAssumption DEF IInv
<1> USE <1>0 DEF MadeOK, ConfigTypeOK, Files
<1>1. CASE UNCHANGED configVars
  BY <1>1 DEF configVars
<1>2. ASSUME NEW p \in Processes, NEW v \in Values, SaveConfigCalled(p, v)
      PROVE  MadeOK'
  BY <1>2 DEF SaveConfigCalled
<1>3. ASSUME NEW p \in Processes, CreateTemp(p)
      PROVE  MadeOK'
  BY <1>3 DEF CreateTemp
<1>4. ASSUME NEW p \in Processes, CreateTempFails(p)
      PROVE  MadeOK'
  BY <1>4 DEF CreateTempFails, Return
<1>5. ASSUME NEW p \in Processes, WriteTemp(p)
      PROVE  MadeOK'
  BY <1>5 DEF WriteTemp, Goto
<1>6. ASSUME NEW p \in Processes, ChmodTemp(p) \/ CloseTemp(p) \/ StepFails(p)
      PROVE  MadeOK'
  BY <1>6 DEF ChmodTemp, CloseTemp, StepFails, Goto
<1>7. ASSUME NEW p \in Processes, RenameTemp(p)
      PROVE  MadeOK'
  BY <1>7 DEF RenameTemp, Return
<1>8. ASSUME NEW p \in Processes, RemoveTemp(p)
      PROVE  MadeOK'
  <2>1. made' = made /\ config' = config /\ opened' = opened /\ temps' \subseteq temps
    BY <1>8 DEF RemoveTemp
  <2>2. temp' = [temp EXCEPT ![p] = 0]
    BY <1>8 DEF RemoveTemp, Return
  <2> QED
    BY <2>1, <2>2
<1>9. ASSUME NEW p \in Processes, OpenConfig(p) \/ ReadConfig(p)
      PROVE  MadeOK'
  <2>1. made' = made /\ config' = config /\ temp' = temp /\ temps' = temps
    BY <1>9 DEF OpenConfig, ReadConfig
  <2>2. \A q \in Processes : opened'[q] \in {opened[q], config, 0}
    BY <1>9 DEF OpenConfig, ReadConfig
  <2>3. 0 <= made
    OBVIOUS
  <2>4. \A q \in Processes : opened'[q] <= made
    <3> HIDE DEF ConfigTypeOK
    <3> QED
      BY <2>2, <2>3
  <2> QED
    BY <2>1, <2>4
<1>10. ASSUME NEW p \in Processes, Die(p)
      PROVE  MadeOK'
  BY <1>10 DEF Die
<1> QED
  BY <1>1, <1>2, <1>3, <1>4, <1>5, <1>6, <1>7, <1>8, <1>9, <1>10 DEF ConfigNext

LEMMA CallStep == IInv /\ [ConfigNext]_configVars => CallOK'
<1> SUFFICES ASSUME IInv, [ConfigNext]_configVars PROVE CallOK'
  OBVIOUS
<1>0. ConfigTypeOK /\ CallOK /\ Nothing \notin Values /\ MaxFiles \in Nat
  BY ConfigFileAssumption DEF IInv
<1> USE <1>0 DEF CallOK, ConfigTypeOK, Saving, Written, Files
<1>1. CASE UNCHANGED configVars
  BY <1>1 DEF configVars
<1>2. ASSUME NEW p \in Processes, NEW v \in Values, SaveConfigCalled(p, v)
      PROVE  CallOK'
  BY <1>2 DEF SaveConfigCalled
<1>3. ASSUME NEW p \in Processes, CreateTemp(p)
      PROVE  CallOK'
  BY <1>3 DEF CreateTemp
<1>4. ASSUME NEW p \in Processes, CreateTempFails(p)
      PROVE  CallOK'
  BY <1>4 DEF CreateTempFails, Return
<1>5. ASSUME NEW p \in Processes, WriteTemp(p)
      PROVE  CallOK'
  <2> SUFFICES ASSUME NEW q \in Processes
               PROVE  /\ value'[q] \in Values <=> call'[q] \in Saving \union {"create"}
                      /\ temp'[q] # 0 <=> call'[q] \in Saving
                      /\ call'[q] \in Written => holds'[temp'[q]] = value'[q]
    OBVIOUS
  <2>1. CASE q = p
    BY <1>5, <2>1 DEF WriteTemp, Goto
  <2>2. CASE q # p
    <3>1. temp[q] # 0 => temp[q] # temp[p]
      BY <2>2 DEF IInv, OwnOK
    <3> QED
      BY <1>5, <2>2, <3>1 DEF WriteTemp, Goto
  <2> QED
    BY <2>1, <2>2
<1>6. ASSUME NEW p \in Processes, ChmodTemp(p) \/ CloseTemp(p) \/ StepFails(p)
      PROVE  CallOK'
  BY <1>6 DEF ChmodTemp, CloseTemp, StepFails, Goto
<1>7. ASSUME NEW p \in Processes, RenameTemp(p)
      PROVE  CallOK'
  BY <1>7 DEF RenameTemp, Return
<1>8. ASSUME NEW p \in Processes, RemoveTemp(p)
      PROVE  CallOK'
  BY <1>8 DEF RemoveTemp, Return
<1>9. ASSUME NEW p \in Processes, OpenConfig(p) \/ ReadConfig(p)
      PROVE  CallOK'
  BY <1>9 DEF OpenConfig, ReadConfig
<1>10. ASSUME NEW p \in Processes, Die(p)
      PROVE  CallOK'
  BY <1>10 DEF Die
<1> QED
  BY <1>1, <1>2, <1>3, <1>4, <1>5, <1>6, <1>7, <1>8, <1>9, <1>10 DEF ConfigNext

\* A new file is nobody's yet, and one that is renamed has no writer any more.
LEMMA OwnStep == IInv /\ [ConfigNext]_configVars => OwnOK'
<1> SUFFICES ASSUME IInv, [ConfigNext]_configVars PROVE OwnOK'
  OBVIOUS
<1>0. ConfigTypeOK /\ MadeOK /\ CallOK /\ OwnOK /\ MaxFiles \in Nat
  BY ConfigFileAssumption DEF IInv
<1> USE <1>0 DEF OwnOK, MadeOK, ConfigTypeOK, Files
<1>1. CASE UNCHANGED configVars
  BY <1>1 DEF configVars
<1>2. ASSUME NEW p \in Processes, NEW v \in Values, SaveConfigCalled(p, v)
      PROVE  OwnOK'
  BY <1>2 DEF SaveConfigCalled
<1>3. ASSUME NEW p \in Processes, CreateTemp(p)
      PROVE  OwnOK'
  BY <1>3 DEF CreateTemp
<1>4. ASSUME NEW p \in Processes, CreateTempFails(p)
      PROVE  OwnOK'
  BY <1>4 DEF CreateTempFails, Return
<1>5. ASSUME NEW p \in Processes, WriteTemp(p)
      PROVE  OwnOK'
  BY <1>5 DEF WriteTemp, Goto
<1>6. ASSUME NEW p \in Processes, ChmodTemp(p) \/ CloseTemp(p) \/ StepFails(p)
      PROVE  OwnOK'
  BY <1>6 DEF ChmodTemp, CloseTemp, StepFails, Goto
<1>7. ASSUME NEW p \in Processes, RenameTemp(p)
      PROVE  OwnOK'
  BY <1>7 DEF RenameTemp, Return, CallOK, Saving
<1>8. ASSUME NEW p \in Processes, RemoveTemp(p)
      PROVE  OwnOK'
  BY <1>8 DEF RemoveTemp, Return
<1>9. ASSUME NEW p \in Processes, OpenConfig(p) \/ ReadConfig(p)
      PROVE  OwnOK'
  BY <1>9 DEF OpenConfig, ReadConfig
<1>10. ASSUME NEW p \in Processes, Die(p)
      PROVE  OwnOK'
  BY <1>10 DEF Die
<1> QED
  BY <1>1, <1>2, <1>3, <1>4, <1>5, <1>6, <1>7, <1>8, <1>9, <1>10 DEF ConfigNext

LEMMA InvStep == IInv /\ [ConfigNext]_configVars => IInv'
  BY TypeStep, MadeStep, CallStep, OwnStep DEF IInv

LEMMA Invariance == ConfigSpec => []IInv
  BY InvInit, InvStep, PTL DEF ConfigSpec

\* The variables keep their types: a process waits for one call at a time, and
\* the files it names are among those that may be made.
THEOREM ConfigTypeCorrect == ConfigSpec => []ConfigTypeOK
<1>1. IInv => ConfigTypeOK
  BY DEF IInv
<1> QED
  BY <1>1, Invariance, PTL

-----------------------------------------------------------------------------
(* The refinement. *)

LoadedNow == [p \in Processes |-> IF call[p] = "read" THEN {Content(opened[p])} ELSE {}]

\* What a writer does to its file is seen by nobody.
LEMMA Unseen ==
  ASSUME IInv, NEW p \in Processes, WriteTemp(p)
  PROVE  Content(config)' = Content(config) /\ LoadedNow' = LoadedNow
<1>0. ConfigTypeOK /\ MadeOK /\ CallOK /\ OwnOK
  BY DEF IInv
<1>1. temp[p] # 0
  BY <1>0 DEF WriteTemp, CallOK, Saving
<1>2. \A f \in Files : f # temp[p] => holds'[f] = holds[f]
  BY <1>0 DEF WriteTemp, ConfigTypeOK
<1>3. Content(config)' = Content(config)
  BY <1>0, <1>1, <1>2, ConfigFileAssumption DEF WriteTemp, Content, OwnOK, ConfigTypeOK, Files
<1>4. ASSUME NEW q \in Processes PROVE LoadedNow'[q] = LoadedNow[q]
  <2>1. opened'[q] = opened[q] /\ (call'[q] = "read" <=> call[q] = "read")
    BY <1>0 DEF WriteTemp, Goto, ConfigTypeOK
  <2>2. Content(opened[q])' = Content(opened[q])
    BY <1>0, <1>1, <1>2, <2>1, ConfigFileAssumption DEF Content, OwnOK, ConfigTypeOK, Files
  <2> QED
    BY <2>1, <2>2 DEF LoadedNow
<1> QED
  BY <1>3, <1>4 DEF LoadedNow

LEMMA StoreInitOK == ConfigInit => Store!StoreInit
<1> SUFFICES ASSUME ConfigInit PROVE Store!StoreInit
  OBVIOUS
<1>1. Content(config) \in Values \union {Nothing}
  BY ConfigFileAssumption DEF ConfigInit, Content, Files
<1>2. LoadedNow = [p \in Processes |-> {}]
  BY DEF ConfigInit, LoadedNow
<1> QED
  BY <1>1, <1>2 DEF ConfigInit, Store!StoreInit, LoadedNow

\* Every call maps to a step of the register or to none.
LEMMA StoreStep == IInv /\ [ConfigNext]_configVars => [Store!StoreNext]_(Store!storeVars)
<1> SUFFICES ASSUME IInv, [ConfigNext]_configVars
             PROVE  [Store!StoreNext]_(Store!storeVars)
  OBVIOUS
<1>0. ConfigTypeOK /\ MadeOK /\ CallOK /\ OwnOK /\ Nothing \notin Values
  BY ConfigFileAssumption DEF IInv
<1> DEFINE Same == /\ Content(config)' = Content(config) /\ value' = value
                   /\ result' = result /\ LoadedNow' = LoadedNow
<1> DEFINE Goal == [Store!StoreNext]_(Store!storeVars)
<1>s. Same => Goal
  BY DEF Store!storeVars, LoadedNow
<1>n. ASSUME NEW p \in Processes,
             \/ \E v \in Values : Store!StoreBegin(p, v)
             \/ Store!StoreCommit(p) \/ Store!StoreAbort(p)
             \/ Store!StoreLoad(p) \/ Store!StoreReturn(p) \/ Store!StoreDie(p)
      PROVE  Goal
  BY <1>n DEF Store!StoreNext
<1>1. CASE UNCHANGED configVars
  BY <1>1, <1>s DEF configVars, Content, LoadedNow
<1>2. ASSUME NEW p \in Processes, NEW v \in Values, SaveConfigCalled(p, v) PROVE Goal
  <2>1. value[p] = Nothing
    BY <1>0, <1>2 DEF SaveConfigCalled, CallOK, ConfigTypeOK, Saving
  <2>2. Content(config)' = Content(config)
    BY <1>2 DEF SaveConfigCalled, Content
  <2>3. LoadedNow' = LoadedNow
    BY <1>0, <1>2 DEF SaveConfigCalled, LoadedNow, Content, ConfigTypeOK
  <2>4. Store!StoreBegin(p, v)
    BY <1>2, <2>1, <2>2, <2>3 DEF SaveConfigCalled, Store!StoreBegin, LoadedNow
  <2> QED
    BY <2>4, <1>n
<1>3. ASSUME NEW p \in Processes, CreateTemp(p) PROVE Goal
  <2>1. LoadedNow' = LoadedNow
    BY <1>0, <1>3 DEF CreateTemp, LoadedNow, Content, ConfigTypeOK
  <2> QED
    BY <1>3, <1>s, <2>1 DEF CreateTemp, Content
<1>4. ASSUME NEW p \in Processes, CreateTempFails(p) \/ RemoveTemp(p) PROVE Goal
  <2>1. value[p] # Nothing
    BY <1>0, <1>4 DEF CreateTempFails, RemoveTemp, CallOK, Saving
  <2>2. LoadedNow' = LoadedNow
    BY <1>0, <1>4 DEF CreateTempFails, RemoveTemp, Return, LoadedNow, Content, ConfigTypeOK
  <2>3. Content(config)' = Content(config)
    BY <1>4 DEF CreateTempFails, RemoveTemp, Content
  <2>4. value' = [value EXCEPT ![p] = Nothing] /\ result' = [result EXCEPT ![p] = "failed"]
    BY <1>4 DEF CreateTempFails, RemoveTemp, Return
  <2>5. Store!StoreAbort(p)
    BY <2>1, <2>2, <2>3, <2>4 DEF Store!StoreAbort, LoadedNow
  <2> QED
    BY <2>5, <1>n
<1>5. ASSUME NEW p \in Processes, WriteTemp(p) PROVE Goal
  BY <1>5, <1>s, Unseen DEF WriteTemp, Goto
<1>6. ASSUME NEW p \in Processes, ChmodTemp(p) \/ CloseTemp(p) \/ StepFails(p) PROVE Goal
  <2>1. LoadedNow' = LoadedNow
    BY <1>0, <1>6 DEF ChmodTemp, CloseTemp, StepFails, Goto, LoadedNow, Content, ConfigTypeOK
  <2> QED
    BY <1>6, <1>s, <2>1 DEF ChmodTemp, CloseTemp, StepFails, Goto, Content
<1>7. ASSUME NEW p \in Processes, RenameTemp(p) PROVE Goal
  <2>1. value[p] # Nothing /\ temp[p] # 0 /\ holds[temp[p]] = value[p]
    BY <1>0, <1>7 DEF RenameTemp, CallOK, Saving, Written
  <2>2. LoadedNow' = LoadedNow
    BY <1>0, <1>7 DEF RenameTemp, Return, LoadedNow, Content, ConfigTypeOK
  <2>3. Content(config)' = value[p]
    BY <1>7, <2>1 DEF RenameTemp, Content
  <2>4. value' = [value EXCEPT ![p] = Nothing] /\ result' = [result EXCEPT ![p] = "saved"]
    BY <1>7 DEF RenameTemp, Return
  <2>5. Store!StoreCommit(p)
    BY <2>1, <2>2, <2>3, <2>4 DEF Store!StoreCommit, LoadedNow
  <2> QED
    BY <2>5, <1>n
<1>8. ASSUME NEW p \in Processes, OpenConfig(p) PROVE Goal
  <2>1. LoadedNow' = [LoadedNow EXCEPT ![p] = {Content(config)}]
    BY <1>0, <1>8 DEF OpenConfig, LoadedNow, Content, ConfigTypeOK
  <2>2. Content(config)' = Content(config)
    BY <1>8 DEF OpenConfig, Content
  <2>3. Store!StoreLoad(p)
    BY <1>8, <2>1, <2>2 DEF OpenConfig, Store!StoreLoad, LoadedNow
  <2> QED
    BY <2>3, <1>n
<1>9. ASSUME NEW p \in Processes, ReadConfig(p) PROVE Goal
  <2>1. LoadedNow' = [LoadedNow EXCEPT ![p] = {}]
    BY <1>0, <1>9 DEF ReadConfig, LoadedNow, Content, ConfigTypeOK
  <2>2. Content(config)' = Content(config)
    BY <1>9 DEF ReadConfig, Content
  <2>3. Store!StoreReturn(p)
    BY <1>9, <2>1, <2>2 DEF ReadConfig, Store!StoreReturn, LoadedNow
  <2> QED
    BY <2>3, <1>n
<1>10. ASSUME NEW p \in Processes, Die(p) PROVE Goal
  <2>1. LoadedNow' = [LoadedNow EXCEPT ![p] = {}]
    BY <1>0, <1>10 DEF Die, LoadedNow, Content, ConfigTypeOK
  <2>2. Content(config)' = Content(config)
    BY <1>10 DEF Die, Content
  <2>3. Store!StoreDie(p)
    BY <1>10, <2>1, <2>2 DEF Die, Store!StoreDie, LoadedNow
  <2> QED
    BY <2>3, <1>n
<1> QED
  BY <1>1, <1>2, <1>3, <1>4, <1>5, <1>6, <1>7, <1>8, <1>9, <1>10 DEF ConfigNext

\* SaveConfig and LoadConfig implement a register that every process may read
\* and write, at the rename and at the opening, whatever fails in between and
\* whoever dies.
THEOREM ConfigImplementsStore == ConfigSpec => StoreSpec
  BY Invariance, StoreInitOK, StoreStep, PTL DEF ConfigSpec, StoreSpec, Store!StoreSpec

-----------------------------------------------------------------------------
(* What is left behind.                                                    *)

SweptOK == \A f \in temps : f \in dropped \/ \E p \in Processes : temp[p] = f

LEMMA SweptStep == IInv /\ SweptOK /\ [ConfigNext]_configVars => SweptOK'
<1> SUFFICES ASSUME IInv, SweptOK, [ConfigNext]_configVars PROVE SweptOK'
  OBVIOUS
<1>0. ConfigTypeOK /\ CallOK /\ temp \in [Processes -> 0 .. MaxFiles]
  BY DEF IInv, ConfigTypeOK
<1> USE <1>0 DEF SweptOK
<1>1. CASE UNCHANGED configVars
  BY <1>1 DEF configVars
<1>2. ASSUME NEW p \in Processes, NEW v \in Values, SaveConfigCalled(p, v)
      PROVE  SweptOK'
  BY <1>2 DEF SaveConfigCalled
<1>3. ASSUME NEW p \in Processes, CreateTemp(p)
      PROVE  SweptOK'
  <2>1. temp[p] = 0
    BY <1>3 DEF CreateTemp, CallOK, Saving
  <2>2. temp'[p] = made + 1 /\ \A q \in Processes \ {p} : temp'[q] = temp[q]
    BY <1>3 DEF CreateTemp
  <2>3. temps' = temps \union {made + 1} /\ dropped' = dropped /\ 0 \notin temps
    BY <1>3, ConfigFileAssumption DEF CreateTemp, ConfigTypeOK, Files
  <2> SUFFICES ASSUME NEW f \in temps'
               PROVE  f \in dropped' \/ \E q \in Processes : temp'[q] = f
    OBVIOUS
  <2>4. CASE f = made + 1
    BY <2>2, <2>4
  <2>5. CASE f \in temps
    <3>1. f # temp[p]
      BY <2>1, <2>3, <2>5
    <3> QED
      BY <2>2, <2>3, <2>5, <3>1
  <2> QED
    BY <2>3, <2>4, <2>5
<1>4. ASSUME NEW p \in Processes, CreateTempFails(p)
      PROVE  SweptOK'
  BY <1>4 DEF CreateTempFails, Return, CallOK, Saving
<1>5. ASSUME NEW p \in Processes, WriteTemp(p)
      PROVE  SweptOK'
  BY <1>5 DEF WriteTemp, Goto
<1>6. ASSUME NEW p \in Processes, ChmodTemp(p) \/ CloseTemp(p) \/ StepFails(p)
      PROVE  SweptOK'
  BY <1>6 DEF ChmodTemp, CloseTemp, StepFails, Goto
<1>7. ASSUME NEW p \in Processes, RenameTemp(p)
      PROVE  SweptOK'
  BY <1>7 DEF RenameTemp, Return
<1>8. ASSUME NEW p \in Processes, RemoveTemp(p)
      PROVE  SweptOK'
  BY <1>8 DEF RemoveTemp, Return
<1>9. ASSUME NEW p \in Processes, OpenConfig(p) \/ ReadConfig(p)
      PROVE  SweptOK'
  BY <1>9 DEF OpenConfig, ReadConfig
<1>10. ASSUME NEW p \in Processes, Die(p)
      PROVE  SweptOK'
  BY <1>10 DEF Die
<1> QED
  BY <1>1, <1>2, <1>3, <1>4, <1>5, <1>6, <1>7, <1>8, <1>9, <1>10 DEF ConfigNext

\* No way out of SaveConfig leaves its temporary file behind, but a death or a
\* removal that fails.
THEOREM TempsAreSwept == ConfigSpec => []TempsSwept
<1>1. ConfigInit => SweptOK
  BY DEF ConfigInit, SweptOK
<1>2. IInv /\ SweptOK => TempsSwept
  <2> SUFFICES ASSUME IInv, SweptOK, NEW f \in temps, f \notin dropped
               PROVE  \E p \in Processes : call[p] # "none" /\ temp[p] = f
    BY DEF TempsSwept
  <2>1. PICK p \in Processes : temp[p] = f
    BY DEF SweptOK
  <2>2. f # 0
    BY ConfigFileAssumption DEF IInv, ConfigTypeOK, Files
  <2> QED
    BY <2>1, <2>2 DEF IInv, CallOK, Saving
<1> QED
  BY <1>1, <1>2, SweptStep, Invariance, PTL DEF ConfigSpec
=============================================================================
